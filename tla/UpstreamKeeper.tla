---------------------------- MODULE UpstreamKeeper ----------------------------
(***************************************************************************)
(* One upstream kept up: the start that opens it, the keeper that starts   *)
(* it again whenever its connection goes down or an operator asks          *)
(* (gateway/supervise.rs, gateway/actions.rs), and reloads that open it on *)
(* new settings and hand its place to a keeper of their own                *)
(* (gateway/reconfigure.rs).  What is told of it: its health, and the      *)
(* `down` and `up` records of the ledger.                                  *)
(*                                                                         *)
(* A keeper's `select!` has no order: of the things it waits for that are  *)
(* ready it takes any, on a thread of its own.  How long the waits last is *)
(* left out.                                                               *)
(***************************************************************************)
EXTENDS Integers

CONSTANTS MaxConns, MaxDowns, MaxFails, MaxAsks, MaxReloads   \* bounds

ASSUME KeeperAssumption == {MaxConns, MaxDowns, MaxFails, MaxAsks, MaxReloads} \subseteq Nat

VARIABLES
    slot,      \* its place: the connection in it, and the tenure that holds it
    alive,     \* the connections that are not down
    starting,  \* Health::starting
    kick,      \* Health::kick's permit
    keeper,    \* each tenure's Keeper: where it is, the connection it opened, `replacing`
    retired,   \* the tenures retired
    reload,    \* Gateway::reconfigure
    told,      \* the upstream's last record in the ledger
    twice,     \* history: two records in a row said the same
    did        \* how often each thing bounded has happened

health == <<starting, kick>>
trail == <<told, twice>>
vars == <<slot, alive, health, keeper, retired, reload, trail, did>>

Tenures == 1 .. MaxReloads + 1
Conns == 1 .. MaxConns
NoConn == 0

Keeping(pc, conn, replacing) == [pc |-> pc, conn |-> conn, replacing |-> replacing]
Stopped == Keeping("none", NoConn, NoConn)
KeeperTo(k, to) == keeper' = [keeper EXCEPT ![k] = to]
NoReload == [pc |-> "idle", opened |-> NoConn, displaced |-> NoConn, serving |-> NoConn]

Counts(what) == did' = [did EXCEPT ![what] = @ + 1]
Fails == did.fails < MaxFails /\ Counts("fails")

\* audit_upstream: the record is appended, and the task goes on.
Tell(event) == told' = event /\ twice' = (twice \/ told = event)

\* A connection opened: reach.
NextConn == did.conns + 1
Connects == did.conns < MaxConns /\ Counts("conns") /\ alive' = alive \cup {NextConn}

\* Gateway::start_supervised makes the place, with no connection.
Init ==
    /\ slot = [conn |-> NoConn, tenure |-> 1]
    /\ alive = {} /\ starting = TRUE /\ kick = FALSE
    /\ keeper = [k \in Tenures |-> IF k = 1 THEN Keeping("starting", NoConn, NoConn) ELSE Stopped]
    /\ retired = {} /\ reload = NoReload /\ told = "none" /\ twice = FALSE
    /\ did = [conns |-> 0, downs |-> 0, fails |-> 0, asks |-> 0, reloads |-> 0]

-----------------------------------------------------------------------------
(***************************************************************************)
(* What goes down, and what an operator asks.                              *)
(***************************************************************************)

\* Someone would see connection c end.
Watched(c) ==
    \/ c \in {slot.conn, reload.opened, reload.displaced}
    \/ \E k \in Tenures : c \in {keeper[k].conn, keeper[k].replacing}

\* A connection goes down.
GoesDown ==
    /\ did.downs < MaxDowns /\ Counts("downs")
    /\ \E c \in alive : Watched(c) /\ alive' = alive \ {c}
    /\ UNCHANGED <<slot, health, keeper, retired, reload, trail>>

\* One no longer in place has carried its last call, and closes.
Drained ==
    /\ \E c \in alive \ {slot.conn, reload.opened} :
          /\ Watched(c)
          /\ \A k \in Tenures : ~(keeper[k].pc = "opened" /\ keeper[k].conn = c)
          /\ alive' = alive \ {c}
    /\ UNCHANGED <<slot, health, keeper, retired, reload, trail, did>>

\* restart_upstream, unless "it is opening already".
Ask ==
    /\ ~starting
    /\ did.asks < MaxAsks /\ Counts("asks")
    /\ kick' = TRUE
    /\ UNCHANGED <<slot, alive, starting, keeper, retired, reload, trail>>

-----------------------------------------------------------------------------
(***************************************************************************)
(* The start.                                                              *)
(***************************************************************************)

StartOpens ==
    /\ keeper[1].pc = "starting"
    /\ Connects
    /\ slot' = [slot EXCEPT !.conn = NextConn]
    /\ starting' = FALSE
    /\ KeeperTo(1, Keeping("watching", NextConn, NoConn))
    /\ UNCHANGED <<kick, retired, reload, trail>>

\* Startup::Degraded: "it is tried again in the background".
StartFails ==
    /\ keeper[1].pc = "starting"
    /\ Fails
    /\ starting' = FALSE
    /\ KeeperTo(1, Keeping("down", NoConn, NoConn))
    /\ UNCHANGED <<slot, alive, kick, retired, reload, trail>>

-----------------------------------------------------------------------------
(***************************************************************************)
(* The keeper of tenure k.                                                 *)
(***************************************************************************)

\* retirement, where the keeper waits for it.
Retired(k) ==
    /\ k \in retired /\ keeper[k].pc \in {"watching", "waiting", "opening"}
    /\ KeeperTo(k, Stopped)
    /\ UNCHANGED <<slot, alive, health, retired, reload, trail, did>>

\* wait_down: the connection went down, which is then told.
WaitDown(k) ==
    /\ keeper[k].pc = "watching" /\ keeper[k].conn \notin alive
    /\ KeeperTo(k, Keeping("down", NoConn, NoConn))
    /\ UNCHANGED <<slot, alive, health, retired, reload, trail, did>>

\* wait_down: "opened again now, the connection serving until the new one opens".
Asked(k) ==
    /\ keeper[k].pc = "watching" /\ kick
    /\ kick' = FALSE
    /\ KeeperTo(k, Keeping("waiting", NoConn, keeper[k].conn))
    /\ UNCHANGED <<slot, alive, starting, retired, reload, trail, did>>

TellDown(k) ==
    /\ keeper[k].pc = "down"
    /\ Tell("down")
    /\ KeeperTo(k, Keeping("waiting", NoConn, NoConn))
    /\ UNCHANGED <<slot, alive, health, retired, reload, did>>

\* Mutant: the connection is no longer replaced but restarted, and nothing told.
OldDownUntold(k) ==
    /\ keeper[k].pc = "waiting" /\ keeper[k].replacing \notin alive \cup {NoConn}
    /\ KeeperTo(k, Keeping("waiting", NoConn, NoConn))
    /\ UNCHANGED <<slot, alive, health, retired, reload, trail, did>>

\* wait: a connection that served meanwhile "is down like any other".
OldDown(k) ==
    /\ keeper[k].pc = "waiting" /\ keeper[k].replacing \notin alive \cup {NoConn}
    /\ KeeperTo(k, Keeping("down", NoConn, NoConn))
    /\ UNCHANGED <<slot, alive, health, retired, reload, trail, did>>

\* wait is over, or cut short by an ask, and restart begins: an attempt while
\* the connection on older settings serves is no restart.
Restart(k) ==
    /\ keeper[k].pc = "waiting"
    /\ kick' \in {kick, FALSE}
    /\ starting' = (starting \/ keeper[k].replacing = NoConn)
    /\ KeeperTo(k, [keeper[k] EXCEPT !.pc = "opening"])
    /\ UNCHANGED <<slot, alive, retired, reload, trail, did>>

Reach(k) ==
    /\ keeper[k].pc = "opening"
    /\ Connects
    /\ KeeperTo(k, Keeping("opened", NextConn, keeper[k].replacing))
    /\ UNCHANGED <<slot, health, retired, reload, trail>>

\* Mutant: a keeper whose opening failed ends.
ReachFailsForGood(k) ==
    /\ keeper[k].pc = "opening"
    /\ Fails
    /\ starting' = FALSE
    /\ KeeperTo(k, Stopped)
    /\ UNCHANGED <<slot, alive, kick, retired, reload, trail>>

ReachFails(k) ==
    /\ keeper[k].pc = "opening"
    /\ Fails
    /\ starting' = FALSE
    /\ KeeperTo(k, [keeper[k] EXCEPT !.pc = "waiting"])
    /\ UNCHANGED <<slot, alive, kick, retired, reload, trail>>

\* install, or not: "a connection opened under it afterwards is not installed".
Install(k) ==
    /\ keeper[k].pc = "opened"
    /\ IF slot.tenure = k
       THEN /\ slot' = [slot EXCEPT !.conn = keeper[k].conn]
            /\ KeeperTo(k, [keeper[k] EXCEPT !.pc = "installed"])
            /\ UNCHANGED alive
       ELSE /\ alive' = alive \ {keeper[k].conn}
            /\ KeeperTo(k, Stopped)
            /\ UNCHANGED slot
    /\ UNCHANGED <<health, retired, reload, trail, did>>

\* Health::settle. One that replaced a connection was never told to be down.
Settle(k) ==
    /\ keeper[k].pc = "installed"
    /\ starting' = FALSE
    /\ KeeperTo(k, Keeping(IF keeper[k].replacing = NoConn THEN "up" ELSE "watching",
                           keeper[k].conn, NoConn))
    /\ UNCHANGED <<slot, alive, kick, retired, reload, trail, did>>

TellUp(k) ==
    /\ keeper[k].pc = "up"
    /\ Tell("up")
    /\ KeeperTo(k, [keeper[k] EXCEPT !.pc = "watching"])
    /\ UNCHANGED <<slot, alive, health, retired, reload, did>>

-----------------------------------------------------------------------------
(***************************************************************************)
(* A reload that changes how the upstream is reached.                      *)
(***************************************************************************)

ReloadTo(to) == reload' = to

\* A gateway reloads once it has started. The governance is read, and a second
\* connection is opened on the new settings, or does not open.
ReloadOpens ==
    /\ reload.pc = "idle" /\ keeper[1].pc # "starting"
    /\ did.reloads < MaxReloads
    /\ \/ /\ did.conns < MaxConns
          /\ did' = [did EXCEPT !.reloads = @ + 1, !.conns = @ + 1]
          /\ alive' = alive \cup {NextConn}
          /\ ReloadTo([NoReload EXCEPT !.pc = "judged", !.opened = NextConn, !.displaced = slot.conn])
       \/ /\ did.fails < MaxFails
          /\ did' = [did EXCEPT !.reloads = @ + 1, !.fails = @ + 1]
          /\ ReloadTo([NoReload EXCEPT !.pc = "judged", !.displaced = slot.conn])
          /\ UNCHANGED alive
    /\ UNCHANGED <<slot, health, keeper, retired, trail>>

\* Mutant: what the place held is taken to be what it held as the reload began.
PutReloadedAsRead ==
    /\ reload.pc = "judged"
    /\ ReloadTo([reload EXCEPT !.pc = "put"])
    /\ slot' = [tenure |-> slot.tenure + 1,
                conn |-> IF reload.opened = NoConn THEN slot.conn ELSE reload.opened]
    /\ UNCHANGED <<alive, health, keeper, retired, trail, did>>

\* The place's new tenure, and its new connection if that opened; what the
\* place held is taken in the same step.
PutReloaded ==
    /\ reload.pc = "judged"
    /\ ReloadTo([reload EXCEPT !.pc = "put", !.displaced = slot.conn])
    /\ slot' = [tenure |-> slot.tenure + 1,
                conn |-> IF reload.opened = NoConn THEN slot.conn ELSE reload.opened]
    /\ UNCHANGED <<alive, health, keeper, retired, trail, did>>

Retire ==
    /\ reload.pc = "put"
    /\ retired' = retired \cup {slot.tenure - 1}
    /\ ReloadTo([reload EXCEPT !.pc = "retired"])
    /\ UNCHANGED <<slot, alive, health, keeper, trail, did>>

\* "This opening settles the upstream, whatever its keeper was doing": opened or
\* failed. What was displaced serves, unless it is down by now; if it was, and
\* the opening went well, the upstream is up again, which is told.
SettleReloaded ==
    /\ reload.pc = "retired"
    /\ starting' = FALSE
    /\ LET serving == IF reload.displaced \in alive THEN reload.displaced ELSE NoConn
       IN  ReloadTo([reload EXCEPT !.serving = serving,
                        !.pc = IF reload.opened # NoConn /\ serving = NoConn THEN "up" ELSE "settled"])
    /\ UNCHANGED <<slot, alive, kick, keeper, retired, trail, did>>

TellUpReloaded ==
    /\ reload.pc = "up"
    /\ Tell("up")
    /\ ReloadTo([reload EXCEPT !.pc = "settled"])
    /\ UNCHANGED <<slot, alive, health, keeper, retired, did>>

\* keep: the new tenure's keeper watches the connection opened, or tries again
\* while the displaced one serves.
Keep ==
    /\ reload.pc = "settled"
    /\ KeeperTo(slot.tenure,
          IF reload.opened # NoConn THEN Keeping("watching", reload.opened, NoConn)
          ELSE Keeping("waiting", NoConn, reload.serving))
    /\ ReloadTo(NoReload)
    /\ UNCHANGED <<slot, alive, health, retired, trail, did>>

-----------------------------------------------------------------------------
StartStep == StartOpens \/ StartFails
KeeperStep(k) ==
    \/ Retired(k) \/ WaitDown(k) \/ TellDown(k) \/ OldDown(k)
    \/ Restart(k) \/ Reach(k) \/ ReachFails(k) \/ Install(k) \/ Settle(k) \/ TellUp(k)
ReloadStep ==
    PutReloaded \/ Retire \/ SettleReloaded \/ TellUpReloaded \/ Keep

Next ==
    \/ GoesDown \/ Drained \/ Ask
    \/ StartStep
    \/ \E k \in Tenures : KeeperStep(k) \/ Asked(k)
    \/ ReloadOpens \/ ReloadStep

Spec == Init /\ [][Next]_vars

\* Tokio polls every task that can go on, a wait ends, and an opening ends within
\* its timeout one way or the other: fails no more than MaxFails times.
FairSpec ==
    /\ Spec
    /\ WF_vars(StartStep) /\ WF_vars(ReloadStep)
    /\ \A k \in Tenures : WF_vars(KeeperStep(k))

-----------------------------------------------------------------------------
\* Each variable has its type (Slot, Health, Keeper, Tenure, Reconfigured).
TypeOK ==
    /\ slot \in [conn : Conns \cup {NoConn}, tenure : Tenures]
    /\ alive \subseteq Conns /\ starting \in BOOLEAN /\ kick \in BOOLEAN
    /\ keeper \in [Tenures -> [pc : {"none", "starting", "watching", "down", "waiting", "opening",
                                     "opened", "installed", "up"},
                               conn : Conns \cup {NoConn}, replacing : Conns \cup {NoConn}]]
    /\ retired \subseteq Tenures
    /\ reload \in [pc : {"idle", "judged", "put", "retired", "up", "settled"},
                   opened : Conns \cup {NoConn}, displaced : Conns \cup {NoConn},
                   serving : Conns \cup {NoConn}]
    /\ told \in {"none", "down", "up"} /\ twice \in BOOLEAN

Holder == keeper[slot.tenure]

\* A connection in place that carries calls is watched by the keeper that holds
\* the place, so that its end is seen, whatever a keeper on its way out had put
\* there while the reload opened another.
ServingIsWatched ==
    reload.pc = "idle" /\ slot.conn \in alive =>
        \/ Holder.pc \in {"watching", "installed", "up"} /\ Holder.conn = slot.conn
        \/ Holder.pc \in {"waiting", "opening", "opened"} /\ Holder.replacing = slot.conn

\* "The ledger records each upstream going down and coming back up": but for
\* reloads, never twice the same, never `up` while it is down and waited for, nor
\* `down` once it is up.
RecordsAreTrue ==
    did.reloads = 0 =>
        /\ ~twice
        /\ Holder.pc \in {"waiting", "opening"} /\ Holder.replacing = NoConn => told = "down"
        /\ Holder.pc = "watching" => told # "down"

\* "An upstream that goes down is started again", through failed attempts, asks,
\* and reloads that hand its place on: once no more goes wrong than the bounds
\* allow, it ends up with a connection that serves, unless it used up its
\* connections.
ComesBack == <>[](slot.conn \in alive)

===============================================================================
