---------------------------- MODULE ToolPinsProofs ----------------------------
(***************************************************************************)
(* Proofs about ToolPins, for any tools and definitions, any number of     *)
(* connections, reloads, approvals and crashes, and every order the        *)
(* keepers, the watches, the reload, the operators and `mcpdef pin` may    *)
(* take their steps in.                                                    *)
(***************************************************************************)
EXTENDS ToolPins, TLAPS

KeeperAt == {"none", "waiting", "listed", "judged", "installed", "watching"}
WatchAt == {"none", "listening", "asking", "listed", "judged", "put"}
ReloadAt == {"idle", "planned", "saved", "swapped", "listed", "judged", "put"}
ApproverAt == {"idle", "checked", "recorded", "saved", "done"}
Counted == {"conns", "changes", "silent", "reloads", "approvals", "pinRuns", "crashes",
            "failures", "echoes"}

Slots == [serial : Nat, tenure : Nat, by : Nat, tools : Book, drifted : SUBSET Tools]
Reloads == [pc : ReloadAt, plan : Book, changed : BOOLEAN, opened : BOOLEAN,
            serial : Nat, tools : Book, drifted : SUBSET Tools, word : BOOLEAN]

\* The type of each variable: which task is where together is the other invariants' matter.
TypeInv ==
    /\ offers \in Book /\ pins \in Book /\ file \in Book /\ dirty \in BOOLEAN
    /\ slot \in Slots
    /\ keeper \in [Tenures -> Task(KeeperAt)]
    /\ watch \in [Conns -> Task(WatchAt)]
    /\ reload \in Reloads
    /\ approver \in [pc : ApproverAt, tools : Book]
    /\ pinRun \in [pc : {"idle", "loaded"}, pins : Book]
    /\ did \in [Counted -> Nat]
    /\ approved \in [Tools -> SUBSET Defs] /\ slipped \in [Tools -> SUBSET Defs]

-----------------------------------------------------------------------------
(***************************************************************************)
(* What is served was once taken as a pin.                                 *)
(***************************************************************************)
Taken(t, d) == d \in approved[t] \cup slipped[t]

\* Every pin of a store was taken.
TakenBook(book) == \A t \in Tools : book[t] # None => Taken(t, book[t])

\* A verdict on a list: what it lets by was taken.
GoodVerdict(tools, drifted) == \A t \in Tools : tools[t] # None /\ t \notin drifted => Taken(t, tools[t])

\* A kept server's list, as a reload read it, is what its place still lists while
\* it has that connection: to list again takes the lock the reload has.
Kept ==
    ~reload.changed /\ ~reload.opened /\ reload.pc \in {"listed", "judged"} =>
        /\ reload.serial <= slot.serial
        /\ reload.serial = slot.serial => reload.tools = slot.tools

LockHeld == reload.pc \notin {"idle", "planned"} => \A s \in Conns : watch[s].pc \notin {"judged", "put"}

TakenInv ==
    /\ TakenBook(pins) /\ TakenBook(file) /\ TakenBook(reload.plan) /\ TakenBook(pinRun.pins)
    /\ GoodVerdict(slot.tools, slot.drifted)
    /\ \A k \in Tenures : keeper[k].pc = "judged" => GoodVerdict(keeper[k].tools, keeper[k].drifted)
    /\ \A s \in Conns : watch[s].pc = "judged" => GoodVerdict(watch[s].tools, watch[s].drifted)
    /\ reload.pc = "judged" /\ (reload.opened \/ ~reload.changed) =>
          GoodVerdict(reload.tools, reload.drifted)
    /\ reload.opened => reload.changed
    /\ reload.pc = "swapped" => reload.changed
    /\ reload.opened => reload.pc \in {"listed", "judged", "put"}
    /\ reload.pc = "listed" => reload.opened \/ ~reload.changed
    /\ approver.pc \in {"recorded", "saved", "done"} => TakenBook(approver.tools)
    /\ LockHeld /\ Kept

-----------------------------------------------------------------------------
(***************************************************************************)
(* First use, and what is on file, while no one else writes the store.     *)
(***************************************************************************)
Alone == did.reloads = 0 /\ did.pinRuns = 0

FirstInv ==
    /\ did.reloads = 0 => reload.pc = "idle"
    /\ did.pinRuns = 0 => pinRun.pc = "idle"
    /\ Alone /\ did.crashes = 0 =>
          \A t \in Tools : slipped[t] = {} /\ (approved[t] # {} => pins[t] # None)

FiledInv ==
    Alone =>
        /\ dirty \/ file = pins
        /\ approver.pc \in {"recorded", "saved", "done"} =>
              \A t \in Named : pins[t] = approver.tools[t]
        /\ approver.pc \in {"saved", "done"} => \A t \in Named : file[t] = approver.tools[t]

-----------------------------------------------------------------------------
(***************************************************************************)
(* The shape of the state.                                                 *)
(***************************************************************************)
LEMMA Places ==
  /\ Blank \in Book /\ NoReload \in Reloads
  /\ NoReload.pc = "idle" /\ ~NoReload.opened /\ ~NoReload.changed /\ NoReload.plan = Blank
  /\ \A pcs : \A pc \in pcs : Doing(pc) \in Task(pcs) /\ Doing(pc).pc = pc
  /\ \A pcs : \A pc \in pcs : \A word \in BOOLEAN :
        LET task == [Doing(pc) EXCEPT !.word = word] IN task \in Task(pcs) /\ task.pc = pc
  /\ \A pcs : \A pc \in pcs : \A tools \in Book : \A drifted \in SUBSET Tools :
        /\ At(pc, tools, drifted) \in Task(pcs) /\ At(pc, tools, drifted).pc = pc
        /\ At(pc, tools, drifted).tools = tools /\ At(pc, tools, drifted).drifted = drifted
<1>1. Blank \in Book
  BY DEF Blank, Book
<1>2. /\ NoReload \in Reloads /\ NoReload.pc = "idle" /\ ~NoReload.opened /\ ~NoReload.changed
      /\ NoReload.plan = Blank
  BY <1>1 DEF NoReload, Reloads, ReloadAt
<1>3. \A pcs : \A pc \in pcs : \A tools \in Book : \A drifted \in SUBSET Tools :
         /\ At(pc, tools, drifted) \in Task(pcs) /\ At(pc, tools, drifted).pc = pc
         /\ At(pc, tools, drifted).tools = tools /\ At(pc, tools, drifted).drifted = drifted
  BY DEF At, Task
<1>4. \A pcs : \A pc \in pcs : Doing(pc) \in Task(pcs) /\ Doing(pc).pc = pc
  BY <1>1, <1>3 DEF Doing
<1>5. \A pcs : \A pc \in pcs : \A word \in BOOLEAN :
         LET task == [Doing(pc) EXCEPT !.word = word] IN task \in Task(pcs) /\ task.pc = pc
  BY <1>4 DEF Task
<1> QED BY <1>1, <1>2, <1>3, <1>4, <1>5

LEMMA CountsType ==
  ASSUME TypeInv, NEW what \in Counted, Counts(what)
  PROVE  did' \in [Counted -> Nat]
  BY DEF Counts, TypeInv

LEMMA PinCheckType ==
  ASSUME TypeInv, NEW list \in Book, PinCheck(list)
  PROVE  /\ pins' \in Book /\ dirty' \in BOOLEAN /\ UNCHANGED file /\ Drifts(list) \in SUBSET Tools
         /\ approved' \in [Tools -> SUBSET Defs] /\ slipped' \in [Tools -> SUBSET Defs]
<1>1. \A t \in New(list) : t \in Tools /\ list[t] \in Defs
  BY DEF New, Book
<1>2. pins' \in Book /\ dirty' \in BOOLEAN /\ UNCHANGED file /\ Drifts(list) \in SUBSET Tools
  BY <1>1 DEF PinCheck, TypeInv, Book, Drifts
<1>3. approved' \in [Tools -> SUBSET Defs]
  BY <1>1 DEF PinCheck, TypeInv
<1>4. slipped' \in [Tools -> SUBSET Defs]
  BY <1>1 DEF PinCheck, TypeInv
<1> QED BY <1>2, <1>3, <1>4

\* Word of a change moves nothing.
LEMMA HearsMoves ==
  ASSUME NEW when
  PROVE  /\ \A pcs : \A task \in Task(pcs) :
              LET heard == Hears(task, when)
              IN /\ heard \in Task(pcs) /\ heard.pc = task.pc
                 /\ heard.tools = task.tools /\ heard.drifted = task.drifted
         /\ \A task \in Reloads :
              LET heard == Hears(task, when)
              IN /\ heard \in Reloads /\ heard.pc = task.pc /\ heard.plan = task.plan
                 /\ heard.tools = task.tools /\ heard.drifted = task.drifted
                 /\ heard.changed = task.changed /\ heard.opened = task.opened
                 /\ heard.serial = task.serial
<1>1. ASSUME NEW pcs, NEW task \in Task(pcs)
      PROVE  LET heard == Hears(task, when)
             IN /\ heard \in Task(pcs) /\ heard.pc = task.pc
                /\ heard.tools = task.tools /\ heard.drifted = task.drifted
  <2>1. CASE task.pc \in when
    BY <2>1 DEF Hears, Task
  <2>2. CASE task.pc \notin when
    BY <2>2 DEF Hears
  <2> QED BY <2>1, <2>2
<1>2. ASSUME NEW task \in Reloads
      PROVE  LET heard == Hears(task, when)
             IN /\ heard \in Reloads /\ heard.pc = task.pc /\ heard.plan = task.plan
                /\ heard.tools = task.tools /\ heard.drifted = task.drifted
                /\ heard.changed = task.changed /\ heard.opened = task.opened
                /\ heard.serial = task.serial
  <2>1. CASE task.pc \in when
    BY <2>1 DEF Hears, Reloads
  <2>2. CASE task.pc \notin when
    BY <2>2 DEF Hears
  <2> QED BY <2>1, <2>2
<1> QED BY <1>1, <1>2

LEMMA SaysSoMoves ==
  ASSUME TypeInv, SaysSo
  PROVE  /\ keeper' \in [Tenures -> Task(KeeperAt)] /\ watch' \in [Conns -> Task(WatchAt)]
         /\ reload' \in Reloads
         /\ \A k \in Tenures : /\ keeper'[k].pc = keeper[k].pc /\ keeper'[k].tools = keeper[k].tools
                               /\ keeper'[k].drifted = keeper[k].drifted
         /\ \A s \in Conns : /\ watch'[s].pc = watch[s].pc /\ watch'[s].tools = watch[s].tools
                             /\ watch'[s].drifted = watch[s].drifted
         /\ reload'.pc = reload.pc /\ reload'.plan = reload.plan /\ reload'.tools = reload.tools
         /\ reload'.drifted = reload.drifted /\ reload'.changed = reload.changed
         /\ reload'.opened = reload.opened /\ reload'.serial = reload.serial
<1>1. /\ keeper \in [Tenures -> Task(KeeperAt)] /\ watch \in [Conns -> Task(WatchAt)]
      /\ reload \in Reloads
  BY DEF TypeInv
<1>2. /\ keeper' = [k \in Tenures |-> Hears(keeper[k], Opening)]
      /\ watch' = [s \in Conns |-> Hears(watch[s], Opening \cup {"listening", "asking"})]
      /\ reload' = IF reload.opened THEN Hears(reload, Opening) ELSE reload
  BY DEF SaysSo
<1>3. \A k \in Tenures : /\ keeper'[k] \in Task(KeeperAt)
                         /\ keeper'[k].pc = keeper[k].pc /\ keeper'[k].tools = keeper[k].tools
                         /\ keeper'[k].drifted = keeper[k].drifted
  BY <1>1, <1>2, HearsMoves
<1>4. \A s \in Conns : /\ watch'[s] \in Task(WatchAt)
                       /\ watch'[s].pc = watch[s].pc /\ watch'[s].tools = watch[s].tools
                       /\ watch'[s].drifted = watch[s].drifted
  BY <1>1, <1>2, HearsMoves
<1>5. /\ reload' \in Reloads
      /\ reload'.pc = reload.pc /\ reload'.plan = reload.plan /\ reload'.tools = reload.tools
      /\ reload'.drifted = reload.drifted /\ reload'.changed = reload.changed
      /\ reload'.opened = reload.opened /\ reload'.serial = reload.serial
  <2>1. CASE reload.opened
    BY <1>1, <1>2, <2>1, HearsMoves
  <2>2. CASE ~reload.opened
    BY <1>1, <1>2, <2>2
  <2> QED BY <2>1, <2>2
<1> QED BY <1>2, <1>3, <1>4, <1>5

LEMMA InitTypeInv == Init => TypeInv
<1> SUFFICES ASSUME Init PROVE TypeInv
  OBVIOUS
<1>1. /\ offers \in Book /\ pins \in Book /\ file \in Book /\ dirty \in BOOLEAN
      /\ reload \in Reloads
  BY Places DEF Init
<1>2. slot \in Slots
  BY Places DEF Init, Slots
<1>3. keeper \in [Tenures -> Task(KeeperAt)]
  BY Places DEF Init, KeeperAt
<1>4. watch \in [Conns -> Task(WatchAt)]
  BY Places DEF Init, WatchAt
<1>5. approver \in [pc : ApproverAt, tools : Book] /\ pinRun \in [pc : {"idle", "loaded"}, pins : Book]
  BY Places DEF Init, ApproverAt
<1>6. did \in [Counted -> Nat]
  BY DEF Init, Counted
<1>7. approved \in [Tools -> SUBSET Defs] /\ slipped \in [Tools -> SUBSET Defs]
  BY DEF Init
<1> QED BY <1>1, <1>2, <1>3, <1>4, <1>5, <1>6, <1>7 DEF TypeInv

LEMMA NextTypeInv ==
  ASSUME TypeInv, [Next]_vars
  PROVE  TypeInv'
<1> DEFINE Did == did' \in [Counted -> Nat]
<1> USE DEF TypeInv
<1>1. ASSUME ServerChanges \/ ServerSaysAgain PROVE TypeInv'
  <2>1. SaysSo /\ Did /\ offers' \in Book
    BY <1>1, CountsType DEF ServerChanges, ServerSaysAgain, Counted
  <2> QED BY <1>1, <2>1, SaysSoMoves DEF ServerChanges, ServerSaysAgain, storeVars, history
<1>2. ASSUME ServerChangesSilently PROVE TypeInv'
  BY <1>2, CountsType DEF ServerChangesSilently, storeVars, history, Counted
<1>3. ASSUME NEW k \in Tenures, WaitDown(k) \/ Retired(k) \/ InstallRefused(k) PROVE TypeInv'
  BY <1>3, Places DEF WaitDown, Retired, InstallRefused, KeeperTo, KeeperAt, storeVars, history
<1>4. ASSUME NEW k \in Tenures, Reach(k) PROVE TypeInv'
  <2>1. Did
    BY <1>4, CountsType DEF Reach, Counted
  <2>2. At("listed", offers, {}) \in Task(KeeperAt)
    BY Places DEF KeeperAt
  <2> QED BY <1>4, <2>1, <2>2 DEF Reach, KeeperTo, storeVars, history
<1>5. ASSUME NEW k \in Tenures, Admit(k) PROVE TypeInv'
  <2>1. keeper[k].tools \in Book /\ PinCheck(keeper[k].tools)
    BY <1>5 DEF Admit, Task
  <2>2. Drifts(keeper[k].tools) \in SUBSET Tools
    BY <2>1, PinCheckType
  <2>3. \A drifted \in SUBSET Tools :
           [keeper EXCEPT ![k].pc = "judged", ![k].drifted = drifted] \in [Tenures -> Task(KeeperAt)]
    <3> DEFINE judged == [keeper EXCEPT ![k].pc = "judged"]
    <3>1. judged \in [Tenures -> Task(KeeperAt)]
      BY DEF Task, KeeperAt
    <3>2. SUFFICES ASSUME NEW drifted \in SUBSET Tools
                   PROVE  [judged EXCEPT ![k].drifted = drifted] \in [Tenures -> Task(KeeperAt)]
      OBVIOUS
    <3> HIDE DEF judged
    <3> QED BY <3>1 DEF Task
  <2>4. keeper' \in [Tenures -> Task(KeeperAt)]
    BY <1>5, <2>2, <2>3 DEF Admit
  <2> QED BY <1>5, <2>1, <2>4, PinCheckType DEF Admit
<1>6. ASSUME NEW k \in Tenures, Install(k) PROVE TypeInv'
  <2>1. keeper[k].tools \in Book /\ keeper[k].drifted \in SUBSET Tools /\ keeper[k].word \in BOOLEAN
        /\ k \in Nat
    BY DEF Task, Tenures
  <2>2. slot' = [slot EXCEPT !.serial = @ + 1, !.by = k,
                             !.tools = keeper[k].tools, !.drifted = keeper[k].drifted]
    BY <1>6 DEF Install, Fill
  <2>3. slot' \in Slots
    <3> DEFINE next == [slot EXCEPT !.serial = @ + 1]
               other == [next EXCEPT !.by = k]
               listing == [other EXCEPT !.tools = keeper[k].tools]
    <3>1. next \in Slots
      BY DEF Slots
    <3> HIDE DEF next
    <3>2. other \in Slots
      BY <2>1, <3>1 DEF Slots
    <3> HIDE DEF other
    <3>3. listing \in Slots
      BY <2>1, <3>2 DEF Slots
    <3>4. slot' = [listing EXCEPT !.drifted = keeper[k].drifted]
      BY <2>2 DEF next, other
    <3> HIDE DEF listing
    <3> QED BY <2>1, <3>3, <3>4 DEF Slots
  <2>4. [Doing("listening") EXCEPT !.word = keeper[k].word] \in Task(WatchAt)
    BY <2>1, Places DEF WatchAt
  <2>5. watch' \in [Conns -> Task(WatchAt)]
    BY <1>6, <2>4 DEF Install, Fill
  <2> QED BY <1>6, <2>3, <2>5, Places DEF Install, KeeperTo, KeeperAt, storeVars, history
<1>7. ASSUME NEW k \in Tenures, Settle(k) PROVE TypeInv'
  BY <1>7, Places DEF Settle, WritePins, KeeperTo, KeeperAt, history
<1>8. ASSUME NEW s \in Conns, Relist(s) PROVE TypeInv'
  BY <1>8, Places DEF Relist, WatchAt, storeVars, history
<1>9. ASSUME NEW s \in Conns, NEW task \in Task(WatchAt), WatchTo(s, task)
      PROVE  watch' \in [Conns -> Task(WatchAt)]
  BY <1>9 DEF WatchTo, Task
<1>10. ASSUME NEW s \in Conns, ListTools(s) PROVE TypeInv'
  <2>1. At("listed", offers, {}) \in Task(WatchAt)
    BY Places DEF WatchAt
  <2> QED BY <1>9, <1>10, <2>1 DEF ListTools, storeVars, history
<1>11. ASSUME NEW s \in Conns, ListFails(s) PROVE TypeInv'
  <2>1. Did /\ Doing("listening") \in Task(WatchAt)
    BY <1>11, CountsType, Places DEF ListFails, Counted, WatchAt
  <2> QED BY <1>9, <1>11, <2>1 DEF ListFails, storeVars, history
<1>12. ASSUME NEW s \in Conns, JudgeTools(s) PROVE TypeInv'
  <2>1. watch[s].tools \in Book /\ PinCheck(watch[s].tools)
    BY <1>12 DEF JudgeTools, Task
  <2>2. Drifts(watch[s].tools) \in SUBSET Tools
    BY <2>1, PinCheckType
  <2>3. At("judged", watch[s].tools, Drifts(watch[s].tools)) \in Task(WatchAt)
    <3>1. "judged" \in WatchAt
      BY DEF WatchAt
    <3> QED BY <2>1, <2>2, <3>1, Places
  <2> QED BY <1>9, <1>12, <2>1, <2>3, PinCheckType DEF JudgeTools
<1>13. ASSUME NEW s \in Conns, LeaveTools(s) PROVE TypeInv'
  <2>1. Doing("listening") \in Task(WatchAt)
    BY Places DEF WatchAt
  <2> QED BY <1>9, <1>13, <2>1 DEF LeaveTools, storeVars, history
<1>14. ASSUME NEW s \in Conns, PutTools(s) PROVE TypeInv'
  <2>1. Doing("put") \in Task(WatchAt)
    BY Places DEF WatchAt
  <2>2. slot' \in Slots
    BY <1>14 DEF PutTools, Slots, Task
  <2> QED BY <1>9, <1>14, <2>1, <2>2 DEF PutTools, storeVars, history
<1>15. ASSUME NEW s \in Conns, Unlock(s) PROVE TypeInv'
  <2>1. Doing("listening") \in Task(WatchAt)
    BY Places DEF WatchAt
  <2> QED BY <1>9, <1>15, <2>1 DEF Unlock, WritePins, history
<1>16. ASSUME Check PROVE TypeInv'
  <2>1. Did
    BY <1>16, CountsType DEF Check, Counted
  <2>2. approver' \in [pc : ApproverAt, tools : Book]
    BY <1>16 DEF Check, ApproverAt, Slots, Book
  <2> QED BY <1>16, <2>1, <2>2 DEF Check, storeVars, history
<1>17. ASSUME RecordApproved PROVE TypeInv'
  BY <1>17 DEF RecordApproved, Named, ApproverAt, Book
<1>18. ASSUME SaveApproved PROVE TypeInv'
  <2>1. approver' = [pc |-> "idle", tools |-> Blank] \/ approver' = [approver EXCEPT !.pc = "saved"]
    BY <1>18 DEF SaveApproved
  <2>2. approver' \in [pc : ApproverAt, tools : Book]
    BY <2>1, Places DEF ApproverAt
  <2> QED BY <1>18, <2>2 DEF SaveApproved, WritePins, history
<1>19. ASSUME ServeApproved PROVE TypeInv'
  BY <1>19 DEF ServeApproved, ApproverAt, Slots, storeVars, history
<1>20. ASSUME Plan PROVE TypeInv'
  <2>1. Did
    BY <1>20, CountsType DEF Plan, Counted
  <2>2. PICK changed \in BOOLEAN :
           reload' = [NoReload EXCEPT !.pc = "planned", !.plan = file, !.changed = changed]
    BY <1>20 DEF Plan
  <2>3. reload' \in Reloads
    BY <2>2, Places DEF Reloads, ReloadAt
  <2> QED BY <1>20, <2>1, <2>3 DEF Plan, storeVars, history
<1>21. ASSUME SaveOld PROVE TypeInv'
  BY <1>21 DEF SaveOld, WritePins, Reloads, ReloadAt, history
<1>22. ASSUME SwapStore PROVE TypeInv'
  <2>1. reload' \in Reloads /\ pins' \in Book
    BY <1>22 DEF SwapStore, Reloads, ReloadAt, Slots
  <2> QED BY <1>22, <2>1 DEF SwapStore, history
<1>23. ASSUME OpenChanged PROVE TypeInv'
  <2>1. Did
    BY <1>23, CountsType DEF OpenChanged, Counted
  <2>2. reload' \in Reloads
    BY <1>23 DEF OpenChanged, Reloads, ReloadAt
  <2> QED BY <1>23, <2>1, <2>2 DEF OpenChanged, storeVars, history
<1>24. ASSUME OpenFails PROVE TypeInv'
  BY <1>24 DEF OpenFails, Reloads, ReloadAt, storeVars, history
<1>25. ASSUME JudgeReloaded PROVE TypeInv'
  <2>1. reload.tools \in Book /\ PinCheck(reload.tools)
    BY <1>25 DEF JudgeReloaded, Reloads
  <2>2. reload' \in Reloads
    BY <1>25, <2>1, PinCheckType DEF JudgeReloaded, Reloads, ReloadAt
  <2> QED BY <1>25, <2>1, <2>2, PinCheckType DEF JudgeReloaded
<1>26. ASSUME PutReloaded PROVE TypeInv'
  <2>1. slot' \in Slots
    <3>1. slot.serial + 1 \in Nat /\ slot.tenure + 1 \in Nat /\ reload.tools \in Book
          /\ reload.drifted \in SUBSET Tools
      BY DEF Slots, Reloads
    <3>2. /\ [serial |-> slot.serial + 1, tenure |-> slot.tenure + 1, by |-> slot.tenure + 1,
              tools |-> reload.tools, drifted |-> reload.drifted] \in Slots
          /\ [slot EXCEPT !.tenure = @ + 1] \in Slots
          /\ [slot EXCEPT !.drifted = reload.drifted] \in Slots
      BY <3>1 DEF Slots
    <3> QED BY <1>26, <3>2 DEF PutReloaded
  <2>2. reload' \in Reloads
    BY <1>26 DEF PutReloaded, Reloads, ReloadAt
  <2> QED BY <1>26, <2>1, <2>2 DEF PutReloaded, storeVars, history
<1>27. ASSUME Finish PROVE TypeInv'
  <2>1. keeper' \in [Tenures -> Task(KeeperAt)]
    BY <1>27, Places DEF Finish, KeeperAt
  <2>2. reload.word \in BOOLEAN
    BY DEF Reloads
  <2>3. [Doing("listening") EXCEPT !.word = reload.word] \in Task(WatchAt)
    BY <2>2, Places DEF WatchAt
  <2>4. watch' \in [Conns -> Task(WatchAt)]
    BY <1>27, <2>3 DEF Finish
  <2>5. pins' \in Book /\ file' \in Book /\ dirty' \in BOOLEAN /\ UNCHANGED history
    BY <1>27 DEF Finish, WritePins
  <2> QED BY <1>27, <2>1, <2>4, <2>5, Places DEF Finish, history
<1>28. ASSUME LoadPins PROVE TypeInv'
  BY <1>28, CountsType DEF LoadPins, Counted, storeVars, history
<1>29. ASSUME PinOffered PROVE TypeInv'
  BY <1>29, Places DEF PinOffered, Book
<1>30. ASSUME Crash PROVE TypeInv'
  <2>1. Did
    BY <1>30, CountsType DEF Crash, Counted
  <2>2. slot' \in Slots
    BY <1>30, Places DEF Crash, Started, Slots
  <2>3. keeper' \in [Tenures -> Task(KeeperAt)]
    BY <1>30, Places DEF Crash, Started, KeeperAt
  <2>4. watch' \in [Conns -> Task(WatchAt)]
    BY <1>30, Places DEF Crash, Started, WatchAt
  <2>5. reload' \in Reloads /\ approver' \in [pc : ApproverAt, tools : Book]
    BY <1>30, Places DEF Crash, Started, ApproverAt
  <2> QED BY <1>30, <2>1, <2>2, <2>3, <2>4, <2>5 DEF Crash, history
<1>31. CASE UNCHANGED vars
  BY <1>31 DEF vars, storeVars, history
<1> HIDE DEF TypeInv
<1> QED BY <1>1, <1>2, <1>3, <1>4, <1>5, <1>6, <1>7, <1>8, <1>10, <1>11, <1>12, <1>13, <1>14,
           <1>15, <1>16, <1>17, <1>18, <1>19, <1>20, <1>21, <1>22, <1>23, <1>24, <1>25, <1>26,
           <1>27, <1>28, <1>29, <1>30, <1>31
        DEF Next, KeeperStep, WatchStep, ApproverStep, ReloadStep

-----------------------------------------------------------------------------
(***************************************************************************)
(* A definition taken stays taken, and every verdict is of a list it was   *)
(* made of.                                                                *)
(***************************************************************************)
Grows == \A t \in Tools : approved[t] \subseteq approved'[t] /\ slipped[t] \subseteq slipped'[t]

LEMMA StaysTaken ==
  ASSUME Grows
  PROVE  /\ \A book : TakenBook(book) =>
              \A t \in Tools : book[t] # None => book[t] \in approved'[t] \cup slipped'[t]
         /\ \A tools, drifted : GoodVerdict(tools, drifted) =>
              \A t \in Tools : tools[t] # None /\ t \notin drifted =>
                 tools[t] \in approved'[t] \cup slipped'[t]
  BY DEF Grows, TakenBook, GoodVerdict, Taken

LEMMA PinCheckTakes ==
  ASSUME TypeInv, TakenBook(pins), NEW list \in Book, PinCheck(list)
  PROVE  /\ Grows
         /\ \A t \in Tools : pins'[t] # None => pins'[t] \in approved'[t] \cup slipped'[t]
         /\ \A t \in Tools : list[t] # None /\ t \notin Drifts(list) =>
               list[t] \in approved'[t] \cup slipped'[t]
<1> DEFINE fresh == New(list)
<1>1. /\ \A t \in Tools : pins'[t] = IF t \in fresh THEN list[t] ELSE pins[t]
      /\ \A t \in Tools : approved'[t] = IF t \in fresh /\ approved[t] = {} THEN {list[t]} ELSE approved[t]
      /\ \A t \in Tools : slipped'[t] = IF t \in fresh /\ approved[t] # {}
                                        THEN slipped[t] \cup ({list[t]} \ approved[t])
                                        ELSE slipped[t]
  BY DEF PinCheck
<1>2. \A t \in Tools : t \in fresh <=> list[t] # None /\ pins[t] = None
  BY DEF New
<1>3. \A t \in Tools : t \in Drifts(list) <=> list[t] # None /\ pins[t] \notin {None, list[t]}
  BY DEF Drifts
<1> HIDE DEF fresh
<1>4. Grows
  BY <1>1 DEF Grows
<1>5. \A t \in fresh \cap Tools : list[t] \in approved'[t] \cup slipped'[t]
  BY <1>1
<1>6. \A t \in Tools : pins[t] # None => pins[t] \in approved'[t] \cup slipped'[t]
  BY <1>4, StaysTaken
<1> QED BY <1>1, <1>2, <1>3, <1>4, <1>5, <1>6

LEMMA InitTaken == Init => TakenInv
<1> SUFFICES ASSUME Init PROVE TakenInv
  OBVIOUS
<1>1. TakenBook(Blank) /\ \A drifted : GoodVerdict(Blank, drifted)
  BY DEF TakenBook, GoodVerdict, Blank
<1>2. \A k \in Tenures : keeper[k].pc # "judged"
  BY Places DEF Init
<1>3. \A s \in Conns : watch[s].pc = "none"
  BY Places DEF Init
<1>4. reload = NoReload /\ approver.pc = "idle" /\ slot.tools = Blank /\ pinRun.pins = Blank
      /\ pins = Blank /\ file = Blank
  BY DEF Init
<1> QED BY <1>1, <1>2, <1>3, <1>4, Places DEF TakenInv, LockHeld, Kept


LEMMA NextTaken ==
  ASSUME TypeInv, TakenInv, [Next]_vars
  PROVE  TakenInv'
<1> DEFINE Took(book) == \A t \in Tools : book[t] # None => book[t] \in approved'[t] \cup slipped'[t]
           Fine(tools, drifted) == \A t \in Tools : tools[t] # None /\ t \notin drifted =>
                                      tools[t] \in approved'[t] \cup slipped'[t]
<1>0. TypeInv'
  BY NextTypeInv
<1>1. ASSUME NEW s \in Conns, NEW task \in Task(WatchAt), WatchTo(s, task)
      PROVE  /\ watch'[s].pc = task.pc /\ watch'[s].tools = task.tools
             /\ watch'[s].drifted = task.drifted
             /\ \A other \in Conns \ {s} : watch'[other] = watch[other]
  BY <1>1 DEF WatchTo, Task, TypeInv
<1>2. ASSUME Grows
      PROVE  /\ \A book : TakenBook(book) => Took(book)
             /\ \A tools, drifted : GoodVerdict(tools, drifted) => Fine(tools, drifted)
  BY <1>2, StaysTaken
\* Who had a list judged has it judged still, though others judge meanwhile.
<1>3. ASSUME Grows,
             Took(pins'), Took(file'), Took(reload'.plan), Took(pinRun'.pins),
             Fine(slot'.tools, slot'.drifted),
             \A k \in Tenures : keeper'[k].pc = "judged" =>
                UNCHANGED keeper[k] \/ Fine(keeper'[k].tools, keeper'[k].drifted),
             \A s \in Conns : watch'[s].pc = "judged" =>
                UNCHANGED watch[s] \/ Fine(watch'[s].tools, watch'[s].drifted),
             UNCHANGED reload \/
                /\ reload'.pc = "judged" /\ (reload'.opened \/ ~reload'.changed) =>
                      Fine(reload'.tools, reload'.drifted)
                /\ reload'.opened => reload'.changed /\ reload'.pc \in {"listed", "judged", "put"}
                /\ reload'.pc = "swapped" => reload'.changed
                /\ reload'.pc = "listed" => reload'.opened \/ ~reload'.changed,
             approver'.pc \in {"recorded", "saved", "done"} => UNCHANGED approver \/ Took(approver'.tools),
             LockHeld', Kept'
      PROVE  TakenInv'
  <2>1. \A k \in Tenures : keeper'[k].pc = "judged" => Fine(keeper'[k].tools, keeper'[k].drifted)
    BY <1>2, <1>3 DEF TakenInv
  <2>2. \A s \in Conns : watch'[s].pc = "judged" => Fine(watch'[s].tools, watch'[s].drifted)
    BY <1>2, <1>3 DEF TakenInv
  <2>3. /\ reload'.pc = "judged" /\ (reload'.opened \/ ~reload'.changed) =>
              Fine(reload'.tools, reload'.drifted)
        /\ reload'.opened => reload'.changed /\ reload'.pc \in {"listed", "judged", "put"}
        /\ reload'.pc = "swapped" => reload'.changed
        /\ reload'.pc = "listed" => reload'.opened \/ ~reload'.changed
    BY <1>2, <1>3 DEF TakenInv
  <2>4. approver'.pc \in {"recorded", "saved", "done"} => Took(approver'.tools)
    BY <1>2, <1>3 DEF TakenInv
  <2> QED BY <1>3, <2>1, <2>2, <2>3, <2>4 DEF TakenInv, TakenBook, GoodVerdict, Taken
<1>4. /\ TakenBook(pins) /\ TakenBook(file) /\ TakenBook(reload.plan) /\ TakenBook(pinRun.pins)
      /\ GoodVerdict(slot.tools, slot.drifted)
  BY DEF TakenInv
<1>5. ASSUME UNCHANGED history PROVE Grows
  BY <1>5 DEF Grows, history
<1>6. ASSUME Grows
      PROVE  /\ Took(pins) /\ Took(file) /\ Took(reload.plan) /\ Took(pinRun.pins)
             /\ Fine(slot.tools, slot.drifted)
  BY <1>2, <1>4, <1>6
<1>7. Took(Blank)
  BY DEF Blank
<1>8. LockHeld /\ Kept
  BY DEF TakenInv
<1> HIDE DEF Took, Fine
<1>10. ASSUME ServerChanges \/ ServerSaysAgain PROVE TakenInv'
  <2>1. SaysSo /\ UNCHANGED <<pins, file, slot, approver, pinRun, history>>
    BY <1>10 DEF ServerChanges, ServerSaysAgain, storeVars
  <2>2. Grows
    BY <1>5, <2>1
  <2>3. /\ \A k \in Tenures : keeper'[k].pc = "judged" => Fine(keeper'[k].tools, keeper'[k].drifted)
        /\ \A s \in Conns : watch'[s].pc = "judged" => Fine(watch'[s].tools, watch'[s].drifted)
        /\ reload'.pc = "judged" /\ (reload'.opened \/ ~reload'.changed) =>
              Fine(reload'.tools, reload'.drifted)
    BY <1>2, <2>1, <2>2, SaysSoMoves DEF TakenInv
  <2>4. LockHeld' /\ Kept'
    BY <1>8, <2>1, SaysSoMoves DEF LockHeld, Kept
  <2>5. /\ reload'.opened => reload'.changed /\ reload'.pc \in {"listed", "judged", "put"}
        /\ reload'.pc = "swapped" => reload'.changed
        /\ reload'.pc = "listed" => reload'.opened \/ ~reload'.changed
        /\ reload'.plan = reload.plan
    BY <2>1, SaysSoMoves DEF TakenInv
  <2> QED BY <1>3, <1>6, <2>1, <2>2, <2>3, <2>4, <2>5
<1>11. ASSUME ServerChangesSilently \/ LoadPins \/ UNCHANGED vars PROVE TakenInv'
  <2>1. /\ UNCHANGED <<pins, file, slot, keeper, watch, reload, approver, history>>
        /\ pinRun' = pinRun \/ pinRun' = [pc |-> "loaded", pins |-> file]
    BY <1>11 DEF ServerChangesSilently, LoadPins, vars, storeVars
  <2>2. Grows /\ (pinRun'.pins = pinRun.pins \/ pinRun'.pins = file)
    BY <1>5, <2>1
  <2>3. LockHeld' /\ Kept'
    BY <1>8, <2>1 DEF LockHeld, Kept
  <2> QED BY <1>3, <1>6, <2>1, <2>2, <2>3
<1>12. ASSUME NEW k \in Tenures, WaitDown(k) \/ Retired(k) \/ Reach(k) \/ InstallRefused(k) \/ Settle(k)
       PROVE  TakenInv'
  <2>1. /\ UNCHANGED <<pins, slot, watch, reload, approver, pinRun, history>>
        /\ file' = file \/ file' = pins
    BY <1>12 DEF WaitDown, Retired, Reach, InstallRefused, Settle, WritePins, storeVars, history
  <2>2. PICK task : /\ task.pc \in {"none", "waiting", "listed", "watching"}
                    /\ keeper' = [keeper EXCEPT ![k] = task]
    <3>1. /\ Doing("none").pc = "none" /\ Doing("waiting").pc = "waiting"
          /\ Doing("watching").pc = "watching" /\ At("listed", offers, {}).pc = "listed"
      BY DEF Doing, At
    <3> QED BY <1>12, <3>1 DEF WaitDown, Retired, Reach, InstallRefused, Settle, KeeperTo
  <2>3. \A other \in Tenures : keeper'[other].pc = "judged" => UNCHANGED keeper[other]
    BY <2>2 DEF TypeInv
  <2>4. Grows
    BY <1>5, <2>1
  <2>5. LockHeld' /\ Kept'
    BY <1>8, <2>1 DEF LockHeld, Kept
  <2> QED BY <1>3, <1>6, <2>1, <2>3, <2>4, <2>5
<1>13. ASSUME NEW k \in Tenures, Admit(k) PROVE TakenInv'
  <2>1. /\ UNCHANGED <<slot, watch, reload, approver, pinRun>>
        /\ keeper[k].tools \in Book /\ PinCheck(keeper[k].tools)
    BY <1>13 DEF Admit, TypeInv, Task
  <2>2. /\ keeper'[k].tools = keeper[k].tools /\ keeper'[k].drifted = Drifts(keeper[k].tools)
        /\ \A other \in Tenures \ {k} : UNCHANGED keeper[other]
    BY <1>13 DEF Admit, TypeInv, Task
  <2>3. Grows /\ Took(pins') /\ Fine(keeper[k].tools, Drifts(keeper[k].tools)) /\ UNCHANGED file
    BY <1>4, <2>1, PinCheckTakes, PinCheckType DEF Took, Fine
  <2>4. \A other \in Tenures : keeper'[other].pc = "judged" =>
           UNCHANGED keeper[other] \/ Fine(keeper'[other].tools, keeper'[other].drifted)
    BY <2>2, <2>3
  <2>5. LockHeld' /\ Kept'
    BY <1>8, <2>1 DEF LockHeld, Kept
  <2> QED BY <1>3, <1>6, <2>1, <2>3, <2>4, <2>5
<1>14. ASSUME NEW k \in Tenures, Install(k) PROVE TakenInv'
  <2>1. /\ UNCHANGED <<pins, file, reload, approver, pinRun, history>>
        /\ slot' = [slot EXCEPT !.serial = @ + 1, !.by = k,
                                !.tools = keeper[k].tools, !.drifted = keeper[k].drifted]
        /\ watch' = [watch EXCEPT ![slot.serial + 1] =
                       [Doing("listening") EXCEPT !.word = keeper[k].word]]
        /\ keeper' = [keeper EXCEPT ![k] = Doing("installed")] /\ keeper[k].pc = "judged"
    BY <1>14 DEF Install, Fill, KeeperTo, storeVars
  <2>2. /\ slot'.serial = slot.serial + 1 /\ slot'.tools = keeper[k].tools
        /\ slot'.drifted = keeper[k].drifted /\ slot.serial \in Nat /\ reload.serial \in Nat
    BY <2>1 DEF TypeInv, Slots, Reloads
  <2>3. \A other \in Tenures : keeper'[other].pc = "judged" => UNCHANGED keeper[other]
    BY <2>1, Places, ZenonT(60) DEF TypeInv
  <2>4. \A s \in Conns : watch'[s].pc \in {"judged", "put"} => UNCHANGED watch[s]
    <3>1. keeper[k].word \in BOOLEAN
      BY DEF TypeInv, Task
    <3>2. [Doing("listening") EXCEPT !.word = keeper[k].word].pc = "listening"
      BY <3>1, Places, ZenonT(60)
    <3> QED BY <2>1, <3>2 DEF TypeInv
  <2>5. Grows /\ Fine(keeper[k].tools, keeper[k].drifted)
    BY <1>2, <1>5, <2>1 DEF TakenInv
  <2>6. LockHeld'
    BY <1>8, <2>1, <2>4 DEF LockHeld
  <2>7. Kept'
    BY <1>8, <2>1, <2>2 DEF Kept
  <2> QED BY <1>3, <1>6, <2>1, <2>2, <2>3, <2>4, <2>5, <2>6, <2>7
<1>15. ASSUME NEW s \in Conns, Relist(s) \/ ListTools(s) \/ ListFails(s) \/ LeaveTools(s) \/ Unlock(s)
       PROVE  TakenInv'
  <2>1. /\ UNCHANGED <<pins, slot, keeper, reload, approver, pinRun, history>>
        /\ file' = file \/ file' = pins
    BY <1>15 DEF Relist, ListTools, ListFails, LeaveTools, Unlock, WritePins, storeVars, history
  <2>2. /\ watch'[s].pc \notin {"judged", "put"}
        /\ \A other \in Conns \ {s} : UNCHANGED watch[other]
    <3>1. CASE Relist(s)
      <4>1. watch' = [watch EXCEPT ![s] = Doing(IF slot.serial = s THEN "asking" ELSE "none")]
        BY <3>1 DEF Relist
      <4>2. Doing(IF slot.serial = s THEN "asking" ELSE "none").pc \in {"asking", "none"}
        BY DEF Doing, At
      <4> QED BY <4>1, <4>2 DEF TypeInv
    <3>2. CASE ListTools(s)
      <4>1. "listed" \in WatchAt /\ {} \in SUBSET Tools /\ offers \in Book
        BY DEF WatchAt, TypeInv
      <4>2. At("listed", offers, {}) \in Task(WatchAt) /\ At("listed", offers, {}).pc = "listed"
        BY <4>1, Places
      <4>3. WatchTo(s, At("listed", offers, {}))
        BY <3>2 DEF ListTools
      <4> QED BY <1>1, <4>2, <4>3
    <3>3. CASE ListFails(s) \/ LeaveTools(s) \/ Unlock(s)
      <4>1. /\ Doing("listening") \in Task(WatchAt) /\ Doing("listening").pc = "listening"
            /\ WatchTo(s, Doing("listening"))
        BY <3>3, Places DEF ListFails, LeaveTools, Unlock, WatchAt
      <4> QED BY <1>1, <4>1
    <3> QED BY <1>15, <3>1, <3>2, <3>3
  <2>3. \A other \in Conns : watch'[other].pc \in {"judged", "put"} => UNCHANGED watch[other]
    BY <2>2
  <2>4. Grows
    BY <1>5, <2>1
  <2>5. LockHeld' /\ Kept'
    BY <1>8, <2>1, <2>3 DEF LockHeld, Kept
  <2> QED BY <1>3, <1>6, <2>1, <2>3, <2>4, <2>5
<1>16. ASSUME NEW s \in Conns, JudgeTools(s) PROVE TakenInv'
  <2>1. /\ UNCHANGED <<slot, keeper, reload, approver, pinRun>>
        /\ watch[s].tools \in Book /\ PinCheck(watch[s].tools)
        /\ reload.pc \in {"idle", "planned"}
        /\ WatchTo(s, At("judged", watch[s].tools, Drifts(watch[s].tools)))
    BY <1>16 DEF JudgeTools, Unlocked, TypeInv, Task
  <2> DEFINE drifted == Drifts(watch[s].tools)
  <2>2. Grows /\ Took(pins') /\ Fine(watch[s].tools, drifted) /\ UNCHANGED file /\ drifted \in SUBSET Tools
    BY <1>4, <2>1, PinCheckTakes, PinCheckType DEF Took, Fine
  <2>3. WatchTo(s, At("judged", watch[s].tools, drifted))
    BY <2>1
  <2> HIDE DEF drifted
  <2>4. /\ At("judged", watch[s].tools, drifted) \in Task(WatchAt)
        /\ At("judged", watch[s].tools, drifted).tools = watch[s].tools
        /\ At("judged", watch[s].tools, drifted).drifted = drifted
    <3>1. "judged" \in WatchAt
      BY DEF WatchAt
    <3> QED BY <2>1, <2>2, <3>1, Places
  <2>5. \A other \in Conns : UNCHANGED watch[other] \/ Fine(watch'[other].tools, watch'[other].drifted)
    BY <1>1, <2>2, <2>3, <2>4
  <2>6. LockHeld' /\ Kept'
    BY <1>8, <2>1 DEF LockHeld, Kept
  <2> QED BY <1>3, <1>6, <2>1, <2>2, <2>5, <2>6
<1>17. ASSUME NEW s \in Conns, PutTools(s) PROVE TakenInv'
  <2>1. /\ UNCHANGED <<pins, file, keeper, reload, approver, pinRun, history>>
        /\ watch[s].pc = "judged" /\ WatchTo(s, Doing("put"))
        /\ slot' = IF slot.serial = s
                   THEN [slot EXCEPT !.tools = watch[s].tools, !.drifted = watch[s].drifted]
                   ELSE slot
    BY <1>17 DEF PutTools, storeVars
  <2>2. Grows /\ Fine(watch[s].tools, watch[s].drifted)
    BY <1>2, <1>5, <2>1 DEF TakenInv
  <2>3. /\ watch'[s].pc = "put" /\ \A other \in Conns \ {s} : UNCHANGED watch[other]
    <3>1. Doing("put") \in Task(WatchAt) /\ Doing("put").pc = "put"
      BY Places DEF WatchAt
    <3> QED BY <1>1, <2>1, <3>1
  <2>4. Fine(slot'.tools, slot'.drifted)
    BY <1>6, <2>1, <2>2 DEF TypeInv, Slots
  <2>5. reload.pc \in {"idle", "planned"}
    BY <1>8, <2>1 DEF LockHeld
  <2>6. LockHeld' /\ Kept'
    BY <2>1, <2>5 DEF LockHeld, Kept
  <2> QED BY <1>3, <1>6, <2>1, <2>2, <2>3, <2>4, <2>6
<1>20. ASSUME Check \/ SaveApproved PROVE TakenInv'
  <2>1. /\ UNCHANGED <<pins, slot, keeper, watch, reload, pinRun, history>>
        /\ file' = file \/ file' = pins
        /\ \/ approver'.pc \in {"idle", "checked"}
           \/ approver.pc = "recorded" /\ approver'.tools = approver.tools
    BY <1>20 DEF Check, SaveApproved, WritePins, storeVars, history, TypeInv
  <2>2. Grows
    BY <1>5, <2>1
  <2>3. approver'.pc \in {"recorded", "saved", "done"} => Took(approver'.tools)
    BY <1>2, <2>1, <2>2 DEF TakenInv
  <2>4. LockHeld' /\ Kept'
    BY <1>8, <2>1 DEF LockHeld, Kept
  <2> QED BY <1>3, <1>6, <2>1, <2>2, <2>3, <2>4
<1>21. ASSUME RecordApproved PROVE TakenInv'
  <2>1. /\ UNCHANGED <<file, slot, keeper, watch, reload, pinRun, slipped>>
        /\ pins' = [t \in Tools |-> IF t \in Named THEN approver.tools[t] ELSE pins[t]]
        /\ approved' = [t \in Tools |-> IF t \in Named THEN approved[t] \cup {approver.tools[t]}
                                        ELSE approved[t]]
        /\ approver'.tools = approver.tools
    BY <1>21 DEF RecordApproved, TypeInv
  <2>2. Grows
    BY <2>1 DEF Grows
  <2>3. Took(approver.tools)
    BY <2>1 DEF Took, Named
  <2>4. Took(pins')
    BY <1>6, <2>1, <2>2, <2>3 DEF Took
  <2>5. LockHeld' /\ Kept'
    BY <1>8, <2>1 DEF LockHeld, Kept
  <2> QED BY <1>3, <1>6, <2>1, <2>2, <2>3, <2>4, <2>5
<1>22. ASSUME ServeApproved PROVE TakenInv'
  <2>1. /\ UNCHANGED <<pins, file, keeper, watch, reload, pinRun, history>>
        /\ slot'.tools = slot.tools /\ slot'.serial = slot.serial
        /\ slot'.drifted = {t \in slot.drifted : t \in Named => slot.tools[t] # approver.tools[t]}
        /\ approver'.tools = approver.tools /\ approver.pc = "saved"
    BY <1>22 DEF ServeApproved, TypeInv, Slots, storeVars
  <2>2. Grows /\ Took(approver.tools)
    BY <1>2, <1>5, <2>1 DEF TakenInv
  <2>3. Fine(slot'.tools, slot'.drifted)
    <3> SUFFICES ASSUME NEW t \in Tools, slot.tools[t] # None, t \notin slot'.drifted
                 PROVE  slot.tools[t] \in approved'[t] \cup slipped'[t]
      BY <2>1 DEF Fine
    <3>1. CASE t \in slot.drifted
      BY <2>1, <2>2, <3>1 DEF Took
    <3>2. CASE t \notin slot.drifted
      BY <1>6, <2>2, <3>2 DEF Fine
    <3> QED BY <3>1, <3>2
  <2>4. LockHeld' /\ Kept'
    BY <1>8, <2>1 DEF LockHeld, Kept
  <2> QED BY <1>3, <1>6, <2>1, <2>2, <2>3, <2>4
<1>23. ASSUME Plan PROVE TakenInv'
  <2>1. UNCHANGED <<pins, file, slot, keeper, watch, approver, pinRun, history>>
    BY <1>23 DEF Plan, storeVars
  <2>2. PICK changed \in BOOLEAN :
           reload' = [NoReload EXCEPT !.pc = "planned", !.plan = file, !.changed = changed]
    BY <1>23 DEF Plan
  <2>3. reload'.pc = "planned" /\ reload'.plan = file /\ ~reload'.opened
    BY <2>2 DEF NoReload
  <2>4. Grows
    BY <1>5, <2>1
  <2>5. LockHeld' /\ Kept'
    BY <2>3 DEF LockHeld, Kept
  <2> QED BY <1>3, <1>6, <2>1, <2>3, <2>4, <2>5
<1>24. ASSUME SaveOld PROVE TakenInv'
  <2>1. /\ UNCHANGED <<pins, slot, keeper, watch, approver, pinRun, history>>
        /\ file' = file \/ file' = pins
        /\ \A s \in Conns : watch[s].pc \notin {"judged", "put"}
        /\ reload'.pc = "saved" /\ reload'.plan = reload.plan /\ reload'.opened = reload.opened
        /\ reload.pc = "planned"
    BY <1>24 DEF SaveOld, WritePins, Unlocked, history, TypeInv, Reloads
  <2>2. Grows /\ ~reload.opened
    BY <1>5, <2>1 DEF TakenInv
  <2>3. LockHeld' /\ Kept'
    BY <2>1 DEF LockHeld, Kept
  <2> QED BY <1>3, <1>6, <2>1, <2>2, <2>3
<1>25. ASSUME SwapStore PROVE TakenInv'
  <2>1. /\ UNCHANGED <<file, slot, keeper, watch, approver, pinRun, history>>
        /\ pins' = reload.plan /\ reload.pc = "saved"
        /\ reload' = IF reload.changed THEN [reload EXCEPT !.pc = "swapped"]
                     ELSE [reload EXCEPT !.pc = "listed", !.serial = slot.serial, !.tools = slot.tools]
    BY <1>25 DEF SwapStore
  <2>2. /\ reload'.plan = reload.plan /\ reload'.opened = reload.opened /\ reload'.changed = reload.changed
        /\ IF reload.changed THEN reload'.pc = "swapped"
           ELSE reload'.pc = "listed" /\ reload'.serial = slot.serial /\ reload'.tools = slot.tools
    BY <2>1 DEF TypeInv, Reloads
  <2>3. Grows /\ ~reload.opened /\ slot.serial \in Nat
    BY <1>5, <2>1 DEF TakenInv, TypeInv, Slots
  <2>4. LockHeld' /\ Kept'
    BY <1>8, <2>1, <2>2, <2>3 DEF LockHeld, Kept
  <2> QED BY <1>3, <1>6, <2>1, <2>2, <2>3, <2>4
<1>26. ASSUME OpenChanged \/ OpenFails PROVE TakenInv'
  <2>1. /\ UNCHANGED <<pins, file, slot, keeper, watch, approver, pinRun, history>>
        /\ reload.pc = "swapped" /\ reload.changed /\ ~reload.opened
    BY <1>26 DEF OpenChanged, OpenFails, storeVars, TakenInv
  <2>2. /\ reload'.plan = reload.plan /\ reload'.changed = reload.changed
        /\ \/ reload'.pc = "listed" /\ reload'.opened = TRUE
           \/ reload'.pc = "judged" /\ reload'.opened = reload.opened
    BY <1>26 DEF OpenChanged, OpenFails, TypeInv, Reloads
  <2>3. Grows
    BY <1>5, <2>1
  <2>4. LockHeld' /\ Kept'
    BY <1>8, <2>1, <2>2 DEF LockHeld, Kept
  <2> QED BY <1>3, <1>6, <2>1, <2>2, <2>3, <2>4
<1>27. ASSUME JudgeReloaded PROVE TakenInv'
  <2>1. /\ UNCHANGED <<slot, keeper, watch, approver, pinRun>>
        /\ reload.tools \in Book /\ PinCheck(reload.tools) /\ reload.pc = "listed"
    BY <1>27 DEF JudgeReloaded, TypeInv, Reloads
  <2>2. /\ reload'.plan = reload.plan /\ reload'.changed = reload.changed /\ reload'.pc = "judged"
        /\ reload'.opened = reload.opened /\ reload'.tools = reload.tools
        /\ reload'.serial = reload.serial /\ reload'.drifted = Drifts(reload.tools)
    BY <1>27 DEF JudgeReloaded, TypeInv, Reloads
  <2>3. Grows /\ Took(pins') /\ Fine(reload.tools, Drifts(reload.tools)) /\ UNCHANGED file
    BY <1>4, <2>1, PinCheckTakes, PinCheckType DEF Took, Fine
  <2>4. LockHeld' /\ Kept'
    BY <1>8, <2>1, <2>2 DEF LockHeld, Kept
  <2>5. reload.opened => reload.changed
    BY DEF TakenInv
  <2> QED BY <1>3, <1>6, <2>1, <2>2, <2>3, <2>4, <2>5
<1>28. ASSUME PutReloaded PROVE TakenInv'
  <2>1. /\ UNCHANGED <<pins, file, keeper, watch, approver, pinRun, history>> /\ reload.pc = "judged"
        /\ slot' = IF reload.opened
                   THEN [serial |-> slot.serial + 1, tenure |-> slot.tenure + 1, by |-> slot.tenure + 1,
                         tools |-> reload.tools, drifted |-> reload.drifted]
                   ELSE IF reload.changed THEN [slot EXCEPT !.tenure = @ + 1]
                   ELSE IF slot.serial = reload.serial THEN [slot EXCEPT !.drifted = reload.drifted]
                   ELSE slot
    BY <1>28 DEF PutReloaded, storeVars
  <2>2. /\ reload'.plan = reload.plan /\ reload'.changed = reload.changed /\ reload'.pc = "put"
        /\ reload'.opened = reload.opened
    BY <1>28 DEF PutReloaded, TypeInv, Reloads
  <2>3. Grows /\ (reload.opened => reload.changed)
    BY <1>5, <2>1 DEF TakenInv
  <2>4. reload.opened \/ ~reload.changed => Fine(reload.tools, reload.drifted)
    BY <1>2, <2>1, <2>3 DEF TakenInv
  <2>5. Fine(slot'.tools, slot'.drifted)
    <3>1. CASE reload.opened
      BY <2>1, <2>4, <3>1
    <3>2. CASE ~reload.opened /\ reload.changed
      BY <1>6, <2>1, <2>3, <3>2 DEF TypeInv, Slots
    <3>3. CASE ~reload.opened /\ ~reload.changed /\ slot.serial = reload.serial
      <4>1. reload.tools = slot.tools
        BY <1>8, <2>1, <3>3 DEF Kept
      <4>2. slot'.tools = slot.tools /\ slot'.drifted = reload.drifted
        BY <2>1, <3>3 DEF TypeInv, Slots
      <4> QED BY <2>4, <3>3, <4>1, <4>2
    <3>4. CASE ~reload.opened /\ ~reload.changed /\ slot.serial # reload.serial
      BY <1>6, <2>1, <2>3, <3>4
    <3> QED BY <3>1, <3>2, <3>3, <3>4
  <2>6. LockHeld' /\ Kept'
    BY <1>8, <2>1, <2>2 DEF LockHeld, Kept
  <2> QED BY <1>3, <1>6, <2>1, <2>2, <2>3, <2>5, <2>6
<1>29. ASSUME Finish PROVE TakenInv'
  <2>1. /\ UNCHANGED <<pins, slot, approver, pinRun, history>> /\ (file' = file \/ file' = pins)
        /\ reload' = NoReload
        /\ keeper' = IF reload.changed
                     THEN [keeper EXCEPT ![slot.tenure] =
                             Doing(IF reload.opened THEN "watching" ELSE "waiting")]
                     ELSE keeper
        /\ watch' = IF reload.opened
                    THEN [watch EXCEPT ![slot.serial] = [Doing("listening") EXCEPT !.word = reload.word]]
                    ELSE watch
    BY <1>29 DEF Finish, WritePins, history
  <2>2. \A k \in Tenures : keeper'[k].pc = "judged" => UNCHANGED keeper[k]
    <3>1. Doing(IF reload.opened THEN "watching" ELSE "waiting").pc # "judged"
      BY Places
    <3> QED BY <2>1, <3>1 DEF TypeInv
  <2>3. \A s \in Conns : watch'[s].pc = "judged" => UNCHANGED watch[s]
    <3>1. reload.word \in BOOLEAN
      BY DEF TypeInv, Reloads
    <3>2. [Doing("listening") EXCEPT !.word = reload.word].pc = "listening"
      BY <3>1, Places, ZenonT(60)
    <3> QED BY <2>1, <3>2 DEF TypeInv
  <2>4. Grows
    BY <1>5, <2>1
  <2>5. LockHeld' /\ Kept' /\ reload'.pc = "idle" /\ ~reload'.opened /\ reload'.plan = Blank
    BY <2>1, Places DEF LockHeld, Kept
  <2> QED BY <1>3, <1>6, <1>7, <2>1, <2>2, <2>3, <2>4, <2>5
<1>30. ASSUME PinOffered PROVE TakenInv'
  <2>1. /\ UNCHANGED <<pins, slot, keeper, watch, reload, approver, slipped>>
        /\ file' = [t \in Tools |-> IF offers[t] = None THEN pinRun.pins[t] ELSE offers[t]]
        /\ approved' = [t \in Tools |-> approved[t] \cup ({offers[t]} \ {None})]
        /\ pinRun'.pins = Blank
    BY <1>30 DEF PinOffered
  <2>2. Grows
    BY <2>1 DEF Grows
  <2>3. Took(file')
    BY <1>6, <2>1, <2>2 DEF Took
  <2>4. LockHeld' /\ Kept'
    BY <1>8, <2>1 DEF LockHeld, Kept
  <2> QED BY <1>3, <1>6, <1>7, <2>1, <2>2, <2>3, <2>4
<1>31. ASSUME Crash PROVE TakenInv'
  <2>1. /\ UNCHANGED <<file, pinRun, history>> /\ pins' = file /\ reload' = NoReload
        /\ keeper' = [k \in Tenures |-> Doing(IF k = 1 THEN "waiting" ELSE "none")]
        /\ watch' = [s \in Conns |-> Doing("none")]
        /\ slot'.tools = Blank
        /\ approver' = approver \/ approver'.pc = "idle"
    BY <1>31 DEF Crash, Started
  <2>2. /\ \A k \in Tenures : keeper'[k].pc # "judged"
        /\ \A s \in Conns : watch'[s].pc # "judged"
    BY <2>1, Places
  <2>3. Grows
    BY <1>5, <2>1
  <2>4. LockHeld' /\ Kept' /\ reload'.pc = "idle" /\ ~reload'.opened /\ reload'.plan = Blank
    BY <2>1, Places DEF LockHeld, Kept
  <2>5. Fine(slot'.tools, slot'.drifted)
    BY <2>1 DEF Fine, Blank
  <2> QED BY <1>3, <1>6, <1>7, <2>1, <2>2, <2>3, <2>4, <2>5
<1> QED BY <1>10, <1>11, <1>12, <1>13, <1>14, <1>15, <1>16, <1>17, <1>20, <1>21, <1>22, <1>23,
           <1>24, <1>25, <1>26, <1>27, <1>28, <1>29, <1>30, <1>31
        DEF Next, KeeperStep, WatchStep, ApproverStep, ReloadStep

\* A definition served is one that was taken as a pin: whatever judged, opened,
\* listed, approved, failed to save and crashed side by side, no verdict goes with
\* a list it was not made of (PinCheck, put_tools, install, reconfigure).
THEOREM WhatIsServedWasTaken == Spec => []ServedWasTaken
<1>1. Init => TypeInv /\ TakenInv
  BY InitTypeInv, InitTaken
<1>2. TypeInv /\ TakenInv /\ [Next]_vars => TypeInv' /\ TakenInv'
  BY NextTypeInv, NextTaken
<1>3. TakenInv => ServedWasTaken
  BY DEF TakenInv, GoodVerdict, Taken, ServedWasTaken, Served
<1> QED BY <1>1, <1>2, <1>3, PTL DEF Spec

-----------------------------------------------------------------------------
(***************************************************************************)
(* First use, and what is on file, while no one else writes the store.     *)
(***************************************************************************)
LEMMA CountsAlone ==
  ASSUME TypeInv, NEW what \in Counted, Counts(what)
  PROVE  /\ did'[what] # 0 /\ \A other \in Counted : did[other] # 0 => did'[other] # 0
  BY DEF Counts, TypeInv

\* What each step does to the store, and to what was taken, while the gateway is
\* the only one to write it.
StoreSteps ==
    \/ UNCHANGED <<storeVars, approver, history>>
    \/ (\E list \in Book : PinCheck(list)) /\ UNCHANGED approver
    \/ WritePins /\ UNCHANGED approver
    \/ SaveApproved \/ Check \/ RecordApproved \/ ServeApproved

LEMMA AloneSteps ==
  ASSUME TypeInv, FirstInv, [Next]_vars, Alone'
  PROVE  /\ Alone /\ reload'.pc = "idle" /\ pinRun'.pc = "idle"
         /\ StoreSteps \/ Crash
         /\ did'.crashes = 0 => did.crashes = 0 /\ StoreSteps
<1>1. /\ did.reloads \in Nat /\ did.pinRuns \in Nat /\ did.crashes \in Nat
  BY DEF TypeInv, Counted
<1>2. ASSUME UNCHANGED <<did, reload, pinRun>>, StoreSteps
      PROVE  /\ Alone /\ reload'.pc = "idle" /\ pinRun'.pc = "idle"
             /\ StoreSteps \/ Crash
             /\ did'.crashes = 0 => did.crashes = 0 /\ StoreSteps
  BY <1>2 DEF Alone, FirstInv
<1>3. ASSUME NEW what \in Counted, Counts(what), reload'.pc = reload.pc, pinRun'.pc = pinRun.pc,
             StoreSteps
      PROVE  /\ Alone /\ reload'.pc = "idle" /\ pinRun'.pc = "idle"
             /\ StoreSteps \/ Crash
             /\ did'.crashes = 0 => did.crashes = 0 /\ StoreSteps
  <2>1. Alone
    BY <1>3, CountsAlone DEF Alone, Counted
  <2>2. did'.crashes = 0 => did.crashes = 0
    BY <1>3, CountsAlone DEF Counted
  <2> QED BY <1>3, <2>1, <2>2 DEF FirstInv, Alone
<1> DEFINE Goal == /\ Alone /\ reload'.pc = "idle" /\ pinRun'.pc = "idle"
                   /\ StoreSteps \/ Crash
                   /\ did'.crashes = 0 => did.crashes = 0 /\ StoreSteps
<1>4. ASSUME ServerChanges \/ ServerSaysAgain PROVE Goal
  <2>1. \E what \in Counted : Counts(what)
    BY <1>4 DEF ServerChanges, ServerSaysAgain, Counted
  <2>2. reload'.pc = reload.pc
    BY <1>4, SaysSoMoves DEF ServerChanges, ServerSaysAgain
  <2> QED BY <1>3, <1>4, <2>1, <2>2 DEF ServerChanges, ServerSaysAgain, StoreSteps
<1>5. ASSUME ServerChangesSilently PROVE Goal
  BY <1>3, <1>5 DEF ServerChangesSilently, StoreSteps, Counted
<1>6. ASSUME NEW k \in Tenures, WaitDown(k) \/ Retired(k) \/ Install(k) \/ InstallRefused(k)
      PROVE  Goal
  BY <1>2, <1>6 DEF WaitDown, Retired, Install, InstallRefused, StoreSteps
<1>7. ASSUME NEW k \in Tenures, Reach(k) PROVE Goal
  BY <1>3, <1>7 DEF Reach, StoreSteps, Counted
<1>8. ASSUME NEW k \in Tenures, Admit(k) PROVE Goal
  <2>1. keeper[k].tools \in Book
    BY DEF TypeInv, Task
  <2> QED BY <1>2, <1>8, <2>1 DEF Admit, StoreSteps
<1>9. ASSUME NEW k \in Tenures, Settle(k) PROVE Goal
  BY <1>2, <1>9 DEF Settle, StoreSteps
<1>10. ASSUME NEW s \in Conns, Relist(s) \/ ListTools(s) \/ LeaveTools(s) \/ PutTools(s) PROVE Goal
  BY <1>2, <1>10 DEF Relist, ListTools, LeaveTools, PutTools, StoreSteps
<1>11. ASSUME NEW s \in Conns, ListFails(s) PROVE Goal
  BY <1>3, <1>11 DEF ListFails, StoreSteps, Counted
<1>12. ASSUME NEW s \in Conns, JudgeTools(s) PROVE Goal
  <2>1. watch[s].tools \in Book
    BY DEF TypeInv, Task
  <2> QED BY <1>2, <1>12, <2>1 DEF JudgeTools, StoreSteps
<1>13. ASSUME NEW s \in Conns, Unlock(s) PROVE Goal
  BY <1>2, <1>13 DEF Unlock, StoreSteps
<1>14. ASSUME Check PROVE Goal
  BY <1>3, <1>14 DEF Check, StoreSteps, Counted
<1>15. ASSUME ApproverStep PROVE Goal
  BY <1>2, <1>15 DEF ApproverStep, RecordApproved, SaveApproved, ServeApproved, StoreSteps
<1>16. ASSUME Plan PROVE Goal
  BY <1>16, CountsAlone DEF Plan, Alone, Counted
<1>17. ASSUME ReloadStep PROVE Goal
  <2>1. UNCHANGED did \/ OpenChanged
    BY <1>17 DEF ReloadStep, SaveOld, SwapStore, OpenFails, JudgeReloaded, PutReloaded, Finish
  <2>2. did.reloads = 0
    BY <2>1, CountsAlone DEF OpenChanged, Alone, Counted
  <2>3. reload.pc = "idle"
    BY <2>2 DEF FirstInv
  <2> QED BY <1>17, <2>3 DEF ReloadStep, SaveOld, SwapStore, OpenChanged, OpenFails,
                             JudgeReloaded, PutReloaded, Finish
<1>18. ASSUME LoadPins PROVE Goal
  BY <1>18, CountsAlone DEF LoadPins, Alone, Counted
<1>19. ASSUME PinOffered PROVE Goal
  BY <1>19 DEF PinOffered, FirstInv, Alone
<1>20. ASSUME Crash PROVE Goal
  <2>1. Counts("crashes") /\ did'.crashes # 0
    BY <1>20, CountsAlone DEF Crash, Counted
  <2>2. Alone
    BY <2>1, CountsAlone DEF Alone, Counted
  <2>3. reload'.pc = "idle" /\ pinRun'.pc = "idle"
    BY <1>20, <2>2, Places DEF Crash, Started, FirstInv, Alone
  <2> QED BY <1>20, <2>1, <2>2, <2>3
<1>21. ASSUME UNCHANGED vars PROVE Goal
  BY <1>2, <1>21 DEF vars, StoreSteps
<1> HIDE DEF Goal
<1>22. Goal
  <2>1. CASE Next
    <3>1. CASE \E k \in Tenures : KeeperStep(k)
      BY <1>8, <1>9, <1>6, <1>7, <3>1 DEF KeeperStep
    <3>2. CASE \E s \in Conns : WatchStep(s)
      BY <1>10, <1>11, <1>12, <1>13, <3>2 DEF WatchStep
    <3> QED BY <1>4, <1>5, <1>6, <1>7, <1>8, <1>9, <1>10, <1>11, <1>12, <1>13, <1>14, <1>15, <1>16, <1>17,
     <1>18, <1>19, <1>20, <2>1, <3>1, <3>2
            DEF Next
  <2> QED BY <1>21, <2>1
<1> QED BY <1>22 DEF Goal

-----------------------------------------------------------------------------
\* A reload is at work only once one was asked for, and so is a run of `mcpdef pin`.
Idle ==
    /\ did.reloads = 0 => reload.pc = "idle"
    /\ did.pinRuns = 0 => pinRun.pc = "idle"

LEMMA NextIdle ==
  ASSUME TypeInv, Idle, [Next]_vars
  PROVE  Idle'
<1> DEFINE Goal == Idle'
<1>1. ASSUME UNCHANGED did \/ \E what \in Counted : Counts(what),
             reload'.pc \in {reload.pc, "idle"}, pinRun'.pc \in {pinRun.pc, "idle"}
      PROVE  Goal
  BY <1>1, CountsAlone DEF Idle, Counted
<1> HIDE DEF Goal
<1>2. ASSUME ServerChanges \/ ServerSaysAgain PROVE Goal
  <2>1. \E what \in Counted : Counts(what)
    BY <1>2 DEF ServerChanges, ServerSaysAgain, Counted
  <2>2. reload'.pc = reload.pc
    BY <1>2, SaysSoMoves DEF ServerChanges, ServerSaysAgain
  <2> QED BY <1>1, <1>2, <2>1, <2>2 DEF ServerChanges, ServerSaysAgain
<1>3. ASSUME ServerChangesSilently PROVE Goal
  BY <1>1, <1>3 DEF ServerChangesSilently, Counted
<1>4. ASSUME NEW k \in Tenures, WaitDown(k) \/ Retired(k) \/ Reach(k) \/ KeeperStep(k) PROVE Goal
  <2>1. UNCHANGED <<reload, pinRun>>
    BY <1>4 DEF WaitDown, Retired, Reach, KeeperStep, Admit, Install, InstallRefused, Settle
  <2>2. UNCHANGED did \/ Counts("conns")
    BY <1>4 DEF WaitDown, Retired, Reach, KeeperStep, Admit, Install, InstallRefused, Settle
  <2> QED BY <1>1, <2>1, <2>2 DEF Counted
<1>5. ASSUME NEW s \in Conns, WatchStep(s) PROVE Goal
  <2>1. UNCHANGED <<reload, pinRun>>
    BY <1>5 DEF WatchStep, Relist, ListTools, ListFails, JudgeTools, LeaveTools, PutTools, Unlock
  <2>2. UNCHANGED did \/ Counts("failures")
    BY <1>5 DEF WatchStep, Relist, ListTools, ListFails, JudgeTools, LeaveTools, PutTools, Unlock
  <2> QED BY <1>1, <2>1, <2>2 DEF Counted
<1>6. ASSUME Check \/ ApproverStep PROVE Goal
  <2>1. UNCHANGED <<reload, pinRun>>
    BY <1>6 DEF Check, ApproverStep, RecordApproved, SaveApproved, ServeApproved
  <2>2. UNCHANGED did \/ Counts("approvals")
    BY <1>6 DEF Check, ApproverStep, RecordApproved, SaveApproved, ServeApproved
  <2> QED BY <1>1, <2>1, <2>2 DEF Counted
<1>7. ASSUME Plan PROVE Goal
  <2>1. Counts("reloads") /\ UNCHANGED pinRun
    BY <1>7 DEF Plan
  <2> QED BY <2>1, CountsAlone DEF Goal, Idle, Counted
<1>8. ASSUME ReloadStep PROVE Goal
  <2>1. reload.pc # "idle" /\ UNCHANGED pinRun /\ (UNCHANGED did \/ Counts("conns"))
    BY <1>8 DEF ReloadStep, SaveOld, SwapStore, OpenChanged, OpenFails, JudgeReloaded,
                PutReloaded, Finish
  <2> QED BY <2>1, CountsAlone DEF Goal, Idle, Counted
<1>9. ASSUME LoadPins PROVE Goal
  <2>1. Counts("pinRuns") /\ UNCHANGED reload
    BY <1>9 DEF LoadPins
  <2> QED BY <2>1, CountsAlone DEF Goal, Idle, Counted
<1>10. ASSUME PinOffered PROVE Goal
  BY <1>1, <1>10 DEF PinOffered
<1>11. ASSUME Crash PROVE Goal
  BY <1>1, <1>11, Places DEF Crash, Started, Counted
<1>12. ASSUME UNCHANGED vars PROVE Goal
  BY <1>1, <1>12 DEF vars
<1>13. Goal
  <2>1. CASE Next
    BY <1>2, <1>3, <1>4, <1>5, <1>6, <1>7, <1>8, <1>9, <1>10, <1>11, <2>1 DEF Next
  <2> QED BY <1>12, <2>1
<1> QED BY <1>13 DEF Goal

-----------------------------------------------------------------------------
\* What was taken, and whose pin the store holds, while the gateway is the only
\* one to write it and has not died.
Firsts == \A t \in Tools : slipped[t] = {} /\ (approved[t] # {} => pins[t] # None)

LEMMA StoreStepsFirsts ==
  ASSUME TypeInv, Firsts, StoreSteps
  PROVE  Firsts'
<1>1. CASE UNCHANGED <<storeVars, approver, history>>
  BY <1>1 DEF Firsts, storeVars, history
<1>2. ASSUME NEW list \in Book, PinCheck(list)
      PROVE  Firsts'
  <2> SUFFICES ASSUME NEW t \in Tools
               PROVE  slipped'[t] = {} /\ (approved'[t] # {} => pins'[t] # None)
    BY DEF Firsts
  <2>1. CASE t \in New(list)
    <3>1. approved[t] = {}
      BY <2>1 DEF New, Firsts
    <3>2. slipped'[t] = slipped[t] /\ pins'[t] = list[t] /\ list[t] # None
      BY <1>2, <2>1, <3>1 DEF PinCheck, New
    <3> QED BY <3>2 DEF Firsts
  <2>2. CASE t \notin New(list)
    BY <1>2, <2>2 DEF PinCheck, Firsts
  <2> QED BY <2>1, <2>2
<1>3. CASE WritePins
  BY <1>3 DEF WritePins, Firsts, history
<1>4. CASE SaveApproved
  BY <1>4 DEF SaveApproved, WritePins, Firsts, history
<1>5. CASE Check \/ ServeApproved
  BY <1>5 DEF Check, ServeApproved, Firsts, storeVars, history
<1>6. CASE RecordApproved
  <2> SUFFICES ASSUME NEW t \in Tools
               PROVE  slipped'[t] = {} /\ (approved'[t] # {} => pins'[t] # None)
    BY DEF Firsts
  <2>1. CASE t \in Named
    BY <1>6, <2>1 DEF RecordApproved, Named, Firsts
  <2>2. CASE t \notin Named
    BY <1>6, <2>2 DEF RecordApproved, Firsts
  <2> QED BY <2>1, <2>2
<1> QED BY <1>1, <1>2, <1>3, <1>4, <1>5, <1>6 DEF StoreSteps

LEMMA NextFirst ==
  ASSUME TypeInv, FirstInv, [Next]_vars
  PROVE  FirstInv'
<1>1. Idle'
  BY NextIdle DEF Idle, FirstInv
<1>2. ASSUME Alone', did'.crashes = 0 PROVE Firsts'
  <2>1. Alone /\ did.crashes = 0 /\ StoreSteps
    BY <1>2, AloneSteps
  <2> QED BY <2>1, StoreStepsFirsts DEF FirstInv, Firsts
<1> QED BY <1>1, <1>2 DEF FirstInv, Idle, Firsts

\* "Denied as a `rug-pull`, a new tool is pinned on first use": however many tasks
\* judge the store side by side, what a tool had once stays its pin (pin_check).
THEOREM FirstUseIsTheOnlyUse == Spec => []FirstUseIsOnce
<1>1. Init => TypeInv /\ FirstInv
  BY InitTypeInv, Places DEF Init, FirstInv, NoReload, Blank, Alone
<1>2. TypeInv /\ FirstInv /\ [Next]_vars => TypeInv' /\ FirstInv'
  BY NextTypeInv, NextFirst
<1>3. FirstInv => FirstUseIsOnce
  BY DEF FirstInv, FirstUseIsOnce, Alone
<1> QED BY <1>1, <1>2, <1>3, PTL DEF Spec

-----------------------------------------------------------------------------
LEMMA StoreStepsFiled ==
  ASSUME TypeInv, Alone, FiledInv, StoreSteps
  PROVE  /\ dirty' \/ file' = pins'
         /\ approver'.pc \in {"recorded", "saved", "done"} =>
               \A t \in Named' : pins'[t] = approver'.tools[t]
         /\ approver'.pc \in {"saved", "done"} => \A t \in Named' : file'[t] = approver'.tools[t]
<1> DEFINE Goal == /\ dirty' \/ file' = pins'
                   /\ approver'.pc \in {"recorded", "saved", "done"} =>
                         \A t \in Named' : pins'[t] = approver'.tools[t]
                   /\ approver'.pc \in {"saved", "done"} =>
                         \A t \in Named' : file'[t] = approver'.tools[t]
<1> SUFFICES Goal
  OBVIOUS
<1>1. ASSUME UNCHANGED <<storeVars, approver>> PROVE Goal
  BY <1>1 DEF FiledInv, Named, storeVars
<1>2. ASSUME NEW list \in Book, PinCheck(list), UNCHANGED approver
      PROVE  Goal
  <2>1. approver.pc \in {"recorded", "saved", "done"} =>
           \A t \in Named : pins'[t] = approver.tools[t]
    BY <1>2 DEF PinCheck, New, FiledInv, Named
  <2>2. dirty' \/ file' = pins'
    <3>1. CASE New(list) = {}
      <4>1. pins' = pins
        BY <1>2, <3>1 DEF PinCheck, TypeInv, Book
      <4> QED BY <1>2, <4>1 DEF PinCheck, FiledInv, TypeInv
    <3>2. CASE New(list) # {}
      BY <1>2, <3>2 DEF PinCheck
    <3> QED BY <3>1, <3>2
  <2> QED BY <1>2, <2>1, <2>2 DEF PinCheck, FiledInv, Named
<1>3. ASSUME WritePins, UNCHANGED approver PROVE Goal
  BY <1>3 DEF WritePins, FiledInv, Named
<1>4. ASSUME SaveApproved PROVE Goal
  <2>1. dirty' \/ file' = pins'
    BY <1>4 DEF SaveApproved, WritePins, FiledInv
  <2>2. CASE dirty'
    BY <1>4, <2>2 DEF SaveApproved, WritePins
  <2>3. CASE ~dirty'
    <3>1. approver' = [approver EXCEPT !.pc = "saved"] /\ file' = pins' /\ pins' = pins
      BY <1>4, <2>1, <2>3 DEF SaveApproved, WritePins
    <3>2. approver'.tools = approver.tools /\ approver.pc = "recorded"
      BY <1>4, <3>1 DEF SaveApproved, TypeInv
    <3> QED BY <3>1, <3>2 DEF FiledInv, Named
  <2> QED BY <2>1, <2>2, <2>3
<1>5. ASSUME Check PROVE Goal
  BY <1>5 DEF Check, storeVars, FiledInv
<1>6. ASSUME RecordApproved PROVE Goal
  <2>1. approver'.tools = approver.tools /\ approver'.pc = "recorded" /\ dirty'
    BY <1>6 DEF RecordApproved, TypeInv
  <2> QED BY <1>6, <2>1 DEF RecordApproved, Named
<1>7. ASSUME ServeApproved PROVE Goal
  <2>1. approver'.tools = approver.tools /\ approver.pc = "saved"
    BY <1>7 DEF ServeApproved, TypeInv
  <2> QED BY <1>7, <2>1 DEF ServeApproved, Named, storeVars, FiledInv
<1> HIDE DEF Goal
<1> QED BY <1>1, <1>2, <1>3, <1>4, <1>5, <1>6, <1>7 DEF StoreSteps

LEMMA NextFiled ==
  ASSUME TypeInv, FirstInv, FiledInv, [Next]_vars
  PROVE  FiledInv'
<1> SUFFICES ASSUME Alone' PROVE FiledInv'
  BY DEF FiledInv
<1>1. Alone /\ (StoreSteps \/ Crash)
  BY AloneSteps
<1>2. CASE StoreSteps
  BY <1>1, <1>2, StoreStepsFiled DEF FiledInv
<1>3. CASE Crash
  <2>1. CASE approver.pc = "done"
    BY <1>1, <1>3, <2>1 DEF Crash, FiledInv, Named
  <2>2. CASE approver.pc # "done"
    BY <1>3, <2>2 DEF Crash, FiledInv
  <2> QED BY <2>1, <2>2
<1> QED BY <1>1, <1>2, <1>3

\* "On disk before the tools are served": what an operator was told is approved is
\* on file from then on, through saves that fail and processes that die, whatever
\* else is judged or saved meanwhile (approve_drift, write_pins).
THEOREM WhatIsApprovedIsOnFile == Spec => []ApprovedIsOnFile
<1>1. Init => TypeInv /\ FirstInv /\ FiledInv
  BY InitTypeInv, Places DEF Init, FirstInv, FiledInv, NoReload, Blank, Alone
<1>2. TypeInv /\ FirstInv /\ FiledInv /\ [Next]_vars => TypeInv' /\ FirstInv' /\ FiledInv'
  BY NextTypeInv, NextFirst, NextFiled
<1>3. FiledInv => ApprovedIsOnFile
  BY DEF FiledInv, ApprovedIsOnFile, Alone
<1> QED BY <1>1, <1>2, <1>3, PTL DEF Spec

===============================================================================
