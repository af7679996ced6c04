------------------------------- MODULE ToolPins -------------------------------
(***************************************************************************)
(* One server's tool definitions and their pins: which definitions calls   *)
(* may reach, while the tasks that judge definitions run side by side.     *)
(*                                                                         *)
(* The gateway's keeper opens the server again (gateway/supervise.rs), a   *)
(* watch on each connection lists its tools again when it says they        *)
(* changed (gateway/relist.rs), an operator approves drift                 *)
(* (gateway/actions.rs), a reload reads the pin store again and judges     *)
(* everything by it (reload.rs, gateway/reconfigure.rs), and `mcpdef pin`, *)
(* a process of its own, rewrites the store's file (main.rs).  Each is     *)
(* split where the code awaits or lets a lock go.                          *)
(*                                                                         *)
(* A definition stands for the hash of its governed fields.  A book gives  *)
(* each tool a definition or None: a list of tools, a pin store, or the    *)
(* hashes an approval names.                                               *)
(***************************************************************************)
EXTENDS Integers, FiniteSets

CONSTANTS
    Tools, Defs,
    None,          \* no definition, and no pin
    DiskFails,     \* whether saving the store may fail
    MaxConns, MaxChanges, MaxReloads, MaxApprovals,
    MaxMishaps     \* bounds; a mishap is a crash, a failed listing, a run of `mcpdef
                   \* pin`, a change without word or word without a change

ASSUME PinsAssumption ==
    /\ None \notin Defs
    /\ DiskFails \in BOOLEAN
    /\ {MaxConns, MaxChanges, MaxReloads, MaxApprovals, MaxMishaps} \subseteq Nat

VARIABLES
    offers,    \* the definitions the server has
    pins,      \* Pins::store, in memory
    dirty,     \* Pins::dirty
    file,      \* the store's file
    slot,      \* the server's place: its connection, what it lists, what drifted
    keeper,    \* each tenure's keeper, and the opening it is at
    watch,     \* each connection's ToolWatch, and the list it is at
    reload,    \* the reload, and the upstream it opens or judges
    approver,  \* the approval, and the hashes it names
    pinRun,    \* `mcpdef pin`, and the store it loaded
    did,       \* how often each thing bounded has happened
    \* History.
    approved,  \* definitions taken on first use, or by an operator
    slipped    \* others, taken on first use of a tool that had one

storeVars == <<pins, dirty, file>>
history == <<approved, slipped>>
vars == <<offers, storeVars, slot, keeper, watch, reload, approver, pinRun, did, history>>

Book == [Tools -> Defs \cup {None}]
Blank == [t \in Tools |-> None]
Tenures == 1 .. MaxReloads + 1
Conns == 1 .. MaxConns

\* A task that has listed some tools and judged them.
At(pc, tools, drifted) == [pc |-> pc, tools |-> tools, drifted |-> drifted, word |-> FALSE]
Doing(pc) == At(pc, Blank, {})
NoReload == [pc |-> "idle", plan |-> Blank, changed |-> FALSE, opened |-> FALSE,
             serial |-> 0, tools |-> Blank, drifted |-> {}, word |-> FALSE]

\* Gateway::start_supervised: a place with no connection, and its keeper.
Started ==
    /\ slot' = [serial |-> 0, tenure |-> 1, by |-> 1, tools |-> Blank, drifted |-> {}]
    /\ keeper' = [k \in Tenures |-> Doing(IF k = 1 THEN "waiting" ELSE "none")]
    /\ watch' = [s \in Conns |-> Doing("none")]
    /\ reload' = NoReload

Init ==
    /\ offers \in Book /\ pins = Blank /\ dirty = FALSE /\ file = Blank
    /\ slot = [serial |-> 0, tenure |-> 1, by |-> 1, tools |-> Blank, drifted |-> {}]
    /\ keeper = [k \in Tenures |-> Doing(IF k = 1 THEN "waiting" ELSE "none")]
    /\ watch = [s \in Conns |-> Doing("none")]
    /\ reload = NoReload
    /\ approver = [pc |-> "idle", tools |-> Blank]
    /\ pinRun = [pc |-> "idle", pins |-> Blank]
    /\ did = [conns |-> 0, changes |-> 0, silent |-> 0, reloads |-> 0, approvals |-> 0,
              pinRuns |-> 0, crashes |-> 0, failures |-> 0, echoes |-> 0]
    /\ approved = [t \in Tools |-> {}] /\ slipped = [t \in Tools |-> {}]

Mishaps == did.crashes + did.failures + did.pinRuns + did.silent + did.echoes
Counts(what) == did' = [did EXCEPT ![what] = @ + 1]

-----------------------------------------------------------------------------
(***************************************************************************)
(* The store.                                                              *)
(***************************************************************************)

\* Mutant: a definition that changed is new.
NewOrChanged(list) == {t \in Tools : list[t] # None /\ pins[t] # list[t]}

New(list) == {t \in Tools : list[t] # None /\ pins[t] = None}
Drifts(list) == {t \in Tools : list[t] # None /\ pins[t] \notin {None, list[t]}}

\* Gateway::pin_check: the whole list is judged against the store as it was,
\* and then what is new is recorded.
PinCheck(list) ==
    /\ pins' = [t \in Tools |-> IF t \in New(list) THEN list[t] ELSE pins[t]]
    /\ dirty' = (dirty \/ New(list) # {})
    /\ approved' = [t \in Tools |->
          IF t \in New(list) /\ approved[t] = {} THEN {list[t]} ELSE approved[t]]
    /\ slipped' = [t \in Tools |->
          IF t \in New(list) /\ approved[t] # {} THEN slipped[t] \cup ({list[t]} \ approved[t])
          ELSE slipped[t]]
    /\ UNCHANGED file

\* Gateway::write_pins: nothing to do, saved, or failed.
WritePins ==
    /\ \/ dirty /\ file' = pins /\ dirty' = FALSE
       \/ (~dirty \/ DiskFails) /\ UNCHANGED <<file, dirty>>
    /\ UNCHANGED <<pins, history>>

-----------------------------------------------------------------------------
(***************************************************************************)
(* The server.                                                             *)
(***************************************************************************)

Opening == {"listed", "judged", "put"}
Hears(task, when) == IF task.pc \in when THEN [task EXCEPT !.word = TRUE] ELSE task

\* It says that its tools changed on every connection it has.
SaysSo ==
    /\ watch' = [s \in Conns |-> Hears(watch[s], Opening \cup {"listening", "asking"})]
    /\ keeper' = [k \in Tenures |-> Hears(keeper[k], Opening)]
    /\ reload' = IF reload.opened THEN Hears(reload, Opening) ELSE reload

\* Its definitions change, and it says so.
ServerChanges ==
    /\ did.changes + did.silent < MaxChanges
    /\ Counts("changes")
    /\ offers' \in Book \ {offers}
    /\ SaysSo
    /\ UNCHANGED <<storeVars, slot, approver, pinRun, history>>

\* It says so once more.
ServerSaysAgain ==
    /\ Mishaps < MaxMishaps
    /\ Counts("echoes")
    /\ SaysSo
    /\ UNCHANGED <<offers, storeVars, slot, approver, pinRun, history>>

\* They change without a word.
ServerChangesSilently ==
    /\ did.changes + did.silent < MaxChanges /\ Mishaps < MaxMishaps
    /\ Counts("silent")
    /\ offers' \in Book \ {offers}
    /\ UNCHANGED <<storeVars, slot, keeper, watch, reload, approver, pinRun, history>>

-----------------------------------------------------------------------------
(***************************************************************************)
(* The keeper of tenure k.                                                 *)
(***************************************************************************)

KeeperTo(k, task) == keeper' = [keeper EXCEPT ![k] = task]

\* The connection went down, or the admin API asked for another.
WaitDown(k) ==
    /\ keeper[k].pc = "watching"
    /\ KeeperTo(k, Doing("waiting"))
    /\ UNCHANGED <<offers, storeVars, slot, watch, reload, approver, pinRun, did, history>>

\* retirement: a keeper that waits sees it.
Retired(k) ==
    /\ keeper[k].pc \in {"watching", "waiting"}
    /\ slot.tenure # k /\ keeper[slot.tenure].pc # "none"
    /\ KeeperTo(k, Doing("none"))
    /\ UNCHANGED <<offers, storeVars, slot, watch, reload, approver, pinRun, did, history>>

\* reach: a new connection has listed its tools.
Reach(k) ==
    /\ keeper[k].pc = "waiting" /\ did.conns < MaxConns
    /\ Counts("conns")
    /\ KeeperTo(k, At("listed", offers, {}))
    /\ UNCHANGED <<offers, storeVars, slot, watch, reload, approver, pinRun, history>>

\* admit, up to the scan it awaits.
Admit(k) ==
    /\ keeper[k].pc = "listed"
    /\ PinCheck(keeper[k].tools)
    /\ keeper' = [keeper EXCEPT ![k].pc = "judged", ![k].drifted = Drifts(keeper[k].tools)]
    /\ UNCHANGED <<offers, slot, watch, reload, approver, pinRun, did>>

\* Opened::fill, and the watch that then starts: at once, if word came while
\* the opening listed.
Fill(task, tenure) ==
    /\ slot' = [slot EXCEPT !.serial = @ + 1, !.by = tenure,
                            !.tools = task.tools, !.drifted = task.drifted]
    /\ watch' = [watch EXCEPT ![slot.serial + 1] = [Doing("listening") EXCEPT !.word = task.word]]

\* install: under the tenure that holds the place.
Install(k) ==
    /\ keeper[k].pc = "judged" /\ slot.tenure = k
    /\ Fill(keeper[k], k)
    /\ KeeperTo(k, Doing("installed"))
    /\ UNCHANGED <<offers, storeVars, reload, approver, pinRun, did, history>>

\* Under any other, the connection is dropped and the keeper ends: what it
\* recorded is left to be saved by another.
InstallRefused(k) ==
    /\ keeper[k].pc = "judged" /\ slot.tenure # k
    /\ KeeperTo(k, Doing("none"))
    /\ UNCHANGED <<offers, storeVars, slot, watch, reload, approver, pinRun, did, history>>

\* write_pins: "on disk before the upstream is said to be up".
Settle(k) ==
    /\ keeper[k].pc = "installed"
    /\ WritePins
    /\ KeeperTo(k, Doing("watching"))
    /\ UNCHANGED <<offers, slot, watch, reload, approver, pinRun, did>>

-----------------------------------------------------------------------------
(***************************************************************************)
(* The watch on connection s.                                              *)
(***************************************************************************)

WatchTo(s, task) == watch' = [watch EXCEPT ![s] = [task EXCEPT !.word = watch[s].word]]

\* Gateway::reconfiguring is held by no one: a reload, or a re-list.
Unlocked ==
    /\ reload.pc \in {"idle", "planned"}
    /\ \A s \in Conns : watch[s].pc \notin {"judged", "put"}

\* ToolWatch::run and the start of relist: a burst of word is taken as one. A
\* connection no longer in place is watched no more.
Relist(s) ==
    /\ watch[s].pc = "listening" /\ watch[s].word
    /\ watch' = [watch EXCEPT ![s] = Doing(IF slot.serial = s THEN "asking" ELSE "none")]
    /\ UNCHANGED <<offers, storeVars, slot, keeper, reload, approver, pinRun, did, history>>

\* list_tools: every page.
ListTools(s) ==
    /\ watch[s].pc = "asking"
    /\ WatchTo(s, At("listed", offers, {}))
    /\ UNCHANGED <<offers, storeVars, slot, keeper, reload, approver, pinRun, did, history>>

\* A page failed: "it keeps the tools it had".
ListFails(s) ==
    /\ watch[s].pc = "asking" /\ Mishaps < MaxMishaps
    /\ Counts("failures")
    /\ WatchTo(s, Doing("listening"))
    /\ UNCHANGED <<offers, storeVars, slot, keeper, reload, approver, pinRun, history>>

\* put_tools, up to the scan it awaits: under the lock, and only for the
\* connection in place.
JudgeTools(s) ==
    /\ watch[s].pc = "listed" /\ Unlocked /\ slot.serial = s
    /\ PinCheck(watch[s].tools)
    /\ WatchTo(s, At("judged", watch[s].tools, Drifts(watch[s].tools)))
    /\ UNCHANGED <<offers, slot, keeper, reload, approver, pinRun, did>>

LeaveTools(s) ==
    /\ watch[s].pc = "listed" /\ Unlocked /\ slot.serial # s
    /\ WatchTo(s, Doing("listening"))
    /\ UNCHANGED <<offers, storeVars, slot, keeper, reload, approver, pinRun, did, history>>

\* The list and its verdict go in place together, if that is still the
\* connection there.
PutTools(s) ==
    /\ watch[s].pc = "judged"
    /\ slot' = IF slot.serial = s
               THEN [slot EXCEPT !.tools = watch[s].tools, !.drifted = watch[s].drifted]
               ELSE slot
    /\ WatchTo(s, Doing("put"))
    /\ UNCHANGED <<offers, storeVars, keeper, reload, approver, pinRun, did, history>>

\* Mutant: what came while a list was read and judged is taken to be about it.
UnlockDeaf(s) ==
    /\ watch[s].pc = "put"
    /\ WritePins
    /\ watch' = [watch EXCEPT ![s] = Doing("listening")]
    /\ UNCHANGED <<offers, slot, keeper, reload, approver, pinRun, did>>

\* The store is saved, and the lock let go.
Unlock(s) ==
    /\ watch[s].pc = "put"
    /\ WritePins
    /\ WatchTo(s, Doing("listening"))
    /\ UNCHANGED <<offers, slot, keeper, reload, approver, pinRun, did>>

-----------------------------------------------------------------------------
(***************************************************************************)
(* An operator's approval, which takes no lock but the store's.            *)
(***************************************************************************)

Named == {t \in Tools : approver.tools[t] # None}

\* approve_drift's checks, on the place as it finds it: each tool named has
\* drifted, and offers the definition that was looked at.
Check ==
    /\ approver.pc \in {"idle", "done"} /\ did.approvals < MaxApprovals
    /\ Counts("approvals")
    /\ \E named \in SUBSET slot.drifted \ {{}} :
          approver' = [pc |-> "checked",
                       tools |-> [t \in Tools |-> IF t \in named THEN slot.tools[t] ELSE None]]
    /\ UNCHANGED <<offers, storeVars, slot, keeper, watch, reload, pinRun, history>>

RecordApproved ==
    /\ approver.pc = "checked"
    /\ pins' = [t \in Tools |-> IF t \in Named THEN approver.tools[t] ELSE pins[t]]
    /\ dirty' = TRUE
    /\ approved' = [t \in Tools |-> IF t \in Named THEN approved[t] \cup {approver.tools[t]} ELSE approved[t]]
    /\ approver' = [approver EXCEPT !.pc = "recorded"]
    /\ UNCHANGED <<offers, file, slot, keeper, watch, reload, pinRun, did, slipped>>

\* Mutant: a store that could not be saved is logged, and the tools served.
SaveApprovedOrLog ==
    /\ approver.pc = "recorded"
    /\ WritePins
    /\ approver' = [approver EXCEPT !.pc = "saved"]
    /\ UNCHANGED <<offers, slot, keeper, watch, reload, pinRun, did>>

\* Saved, by this task or another; or it failed, and the approval with it. The
\* store in memory keeps what was recorded.
SaveApproved ==
    /\ approver.pc = "recorded"
    /\ WritePins
    /\ approver' = IF dirty' THEN [pc |-> "idle", tools |-> Blank]
                   ELSE [approver EXCEPT !.pc = "saved"]
    /\ UNCHANGED <<offers, slot, keeper, watch, reload, pinRun, did>>

\* The tools are served from the next call, but one that offers another
\* definition by now.
ServeApproved ==
    /\ approver.pc = "saved"
    /\ slot' = [slot EXCEPT !.drifted = {t \in @ : t \in Named => slot.tools[t] # approver.tools[t]}]
    /\ approver' = [approver EXCEPT !.pc = "done"]
    /\ UNCHANGED <<offers, storeVars, keeper, watch, reload, pinRun, did, history>>

-----------------------------------------------------------------------------
(***************************************************************************)
(* A reload.                                                               *)
(***************************************************************************)

\* plan: the store is read from its file. What build_tls and the lock make it
\* wait for comes after.
Plan ==
    /\ reload.pc = "idle" /\ did.reloads < MaxReloads
    /\ Counts("reloads")
    /\ \E changed \in BOOLEAN :
          reload' = [NoReload EXCEPT !.pc = "planned", !.plan = file, !.changed = changed]
    /\ UNCHANGED <<offers, storeVars, slot, keeper, watch, approver, pinRun, history>>

\* reconfigure: "what the old one learned since it was last saved is saved
\* before it goes".
SaveOld ==
    /\ reload.pc = "planned" /\ Unlocked
    /\ WritePins
    /\ reload' = [reload EXCEPT !.pc = "saved"]
    /\ UNCHANGED <<offers, slot, keeper, watch, approver, pinRun, did>>

\* The store read takes its place, and the upstreams are looked at: a server
\* not changed is judged on the tools it lists now.
SwapStore ==
    /\ reload.pc = "saved"
    /\ pins' = reload.plan /\ dirty' = FALSE
    /\ reload' = IF reload.changed THEN [reload EXCEPT !.pc = "swapped"]
                 ELSE [reload EXCEPT !.pc = "listed", !.serial = slot.serial, !.tools = slot.tools]
    /\ UNCHANGED <<offers, file, slot, keeper, watch, approver, pinRun, did, history>>

\* A changed one opens on its new settings, or does not.
OpenChanged ==
    /\ reload.pc = "swapped" /\ did.conns < MaxConns
    /\ Counts("conns")
    /\ reload' = [reload EXCEPT !.pc = "listed", !.opened = TRUE, !.tools = offers]
    /\ UNCHANGED <<offers, storeVars, slot, keeper, watch, approver, pinRun, history>>

OpenFails ==
    /\ reload.pc = "swapped"
    /\ reload' = [reload EXCEPT !.pc = "judged"]
    /\ UNCHANGED <<offers, storeVars, slot, keeper, watch, approver, pinRun, did, history>>

\* admit_with, or pin_check on the tools of one kept.
JudgeReloaded ==
    /\ reload.pc = "listed"
    /\ PinCheck(reload.tools)
    /\ reload' = [reload EXCEPT !.pc = "judged", !.drifted = Drifts(reload.tools)]
    /\ UNCHANGED <<offers, slot, keeper, watch, approver, pinRun, did>>

\* Mutant: a kept server's verdict goes to whatever connection it has by now.
PutReloadedVerdict ==
    /\ reload.pc = "judged"
    /\ slot' = IF reload.opened
               THEN [serial |-> slot.serial + 1, tenure |-> slot.tenure + 1, by |-> slot.tenure + 1,
                     tools |-> reload.tools, drifted |-> reload.drifted]
               ELSE IF reload.changed THEN [slot EXCEPT !.tenure = @ + 1]
               ELSE [slot EXCEPT !.drifted = reload.drifted]
    /\ reload' = [reload EXCEPT !.pc = "put"]
    /\ UNCHANGED <<offers, storeVars, keeper, watch, approver, pinRun, did, history>>

\* The new governance: a kept server's verdict, unless it has another connection
\* by now; a changed one's new tenure, with its new connection if that opened.
PutReloaded ==
    /\ reload.pc = "judged"
    /\ slot' = IF reload.opened
               THEN [serial |-> slot.serial + 1, tenure |-> slot.tenure + 1, by |-> slot.tenure + 1,
                     tools |-> reload.tools, drifted |-> reload.drifted]
               ELSE IF reload.changed THEN [slot EXCEPT !.tenure = @ + 1]
               ELSE IF slot.serial = reload.serial THEN [slot EXCEPT !.drifted = reload.drifted]
               ELSE slot
    /\ reload' = [reload EXCEPT !.pc = "put"]
    /\ UNCHANGED <<offers, storeVars, keeper, watch, approver, pinRun, did, history>>

\* The old tenure is retired and a new keeper takes over, with a watch on the
\* connection opened; the store is saved, and the lock let go.
Finish ==
    /\ reload.pc = "put"
    /\ WritePins
    /\ keeper' = IF reload.changed
                 THEN [keeper EXCEPT ![slot.tenure] = Doing(IF reload.opened THEN "watching" ELSE "waiting")]
                 ELSE keeper
    /\ watch' = IF reload.opened
                THEN [watch EXCEPT ![slot.serial] = [Doing("listening") EXCEPT !.word = reload.word]]
                ELSE watch
    /\ reload' = NoReload
    /\ UNCHANGED <<offers, slot, approver, pinRun, did>>

-----------------------------------------------------------------------------
(***************************************************************************)
(* `mcpdef pin`, and the end of the gateway's process.                     *)
(***************************************************************************)

LoadPins ==
    /\ pinRun.pc = "idle" /\ Mishaps < MaxMishaps
    /\ Counts("pinRuns")
    /\ pinRun' = [pc |-> "loaded", pins |-> file]
    /\ UNCHANGED <<offers, storeVars, slot, keeper, watch, reload, approver, history>>

\* cmd_pin: what the server lists now, over what was loaded.
PinOffered ==
    /\ pinRun.pc = "loaded"
    /\ file' = [t \in Tools |-> IF offers[t] = None THEN pinRun.pins[t] ELSE offers[t]]
    /\ approved' = [t \in Tools |-> approved[t] \cup ({offers[t]} \ {None})]
    /\ pinRun' = [pc |-> "idle", pins |-> Blank]
    /\ UNCHANGED <<offers, pins, dirty, slot, keeper, watch, reload, approver, did, slipped>>

\* The gateway dies and is started again: PinStore::load reads the file.
Crash ==
    /\ Mishaps < MaxMishaps
    /\ Counts("crashes")
    /\ pins' = file /\ dirty' = FALSE
    /\ Started
    /\ approver' = IF approver.pc = "done" THEN approver ELSE [pc |-> "idle", tools |-> Blank]
    /\ UNCHANGED <<offers, file, pinRun, history>>

-----------------------------------------------------------------------------
KeeperStep(k) == Admit(k) \/ Install(k) \/ InstallRefused(k) \/ Settle(k)
WatchStep(s) ==
    Relist(s) \/ ListTools(s) \/ ListFails(s) \/ JudgeTools(s) \/ LeaveTools(s) \/ PutTools(s) \/ Unlock(s)
ApproverStep == RecordApproved \/ SaveApproved \/ ServeApproved
ReloadStep ==
    SaveOld \/ SwapStore \/ OpenChanged \/ OpenFails \/ JudgeReloaded \/ PutReloaded \/ Finish

Next ==
    \/ ServerChanges \/ ServerSaysAgain \/ ServerChangesSilently
    \/ \E k \in Tenures : WaitDown(k) \/ Retired(k) \/ Reach(k) \/ KeeperStep(k)
    \/ \E s \in Conns : WatchStep(s)
    \/ Check \/ ApproverStep
    \/ Plan \/ ReloadStep
    \/ LoadPins \/ PinOffered
    \/ Crash

Spec == Init /\ [][Next]_vars

\* Tokio polls every task that can go on, and the lock passes on in turn; a
\* listing or an opening ends within its timeout, one way or the other.
FairSpec ==
    /\ Spec
    /\ \A k \in Tenures : WF_vars(KeeperStep(k))
    /\ \A s \in Conns : WF_vars(WatchStep(s))
    /\ WF_vars(ApproverStep) /\ WF_vars(ReloadStep)

-----------------------------------------------------------------------------
Task(pcs) == [pc : pcs, tools : Book, drifted : SUBSET Tools, word : BOOLEAN]

\* A call may reach tool t.
Served(t) == slot.serial # 0 /\ slot.tools[t] # None /\ t \notin slot.drifted

\* A verdict never goes with a list it was not made of: whatever judged, opened,
\* listed and approved side by side, a definition served was once taken as a pin.
ServedWasTaken == \A t \in Tools : Served(t) => slot.tools[t] \in approved[t] \cup slipped[t]

\* "denied as a `rug-pull`, a new tool is pinned on first use": while its process
\* lives and no one but it writes the store or has it read again, the gateway
\* takes a definition without an operator only for a tool that has none.
FirstUseIsOnce ==
    did.reloads = 0 /\ did.pinRuns = 0 /\ did.crashes = 0 => \A t \in Tools : slipped[t] = {}

\* "On disk before the tools are served": what an operator was told is approved
\* is on file from then on, through failed saves and crashes.
ApprovedIsOnFile ==
    did.reloads = 0 /\ did.pinRuns = 0 /\ approver.pc \in {"saved", "done"}
        => \A t \in Named : file[t] = approver.tools[t]

\* ToolWatch: word is never lost, whether it comes while a list is read or judged
\* or while another connection takes the place: once a server that says what it
\* does has stopped changing, its list ends up in place, unless a listing failed.
NewsArrives ==
    <>[](slot.serial = 0 \/ slot.tools = offers \/ did.failures > 0 \/ did.silent > 0)

\* docs/OPERATIONS.md: a tool that "no longer matches its pin is hidden and
\* refused as a `rug-pull` until `mcpdef pin` approves it and a reload reads the
\* pins". The definitions served are those first used and those approved.
UnapprovedIsRefused == \A t \in Tools : Served(t) => slot.tools[t] \in approved[t]
==============================================================================
