-------------------------- MODULE UpstreamKeeperProofs --------------------------
(***************************************************************************)
(* Proofs about UpstreamKeeper, for any number of connections, outages,    *)
(* failed openings, asks and reloads, and every order the start, the       *)
(* keepers and the reloads may take their steps in.                        *)
(***************************************************************************)
EXTENDS UpstreamKeeper, TLAPS

Places == {"none", "starting", "watching", "down", "waiting", "opening", "opened", "installed", "up"}
ReloadPlaces == {"idle", "judged", "put", "retired", "up", "settled"}
Counted == {"conns", "downs", "fails", "asks", "reloads"}

Keepers == [pc : Places, conn : Nat, replacing : Nat]
Reloads == [pc : ReloadPlaces, opened : Nat, displaced : Nat, serving : Nat]

TypeInv ==
    /\ slot \in [conn : Nat, tenure : Tenures]
    /\ alive \subseteq Nat \ {NoConn} /\ starting \in BOOLEAN /\ kick \in BOOLEAN
    /\ keeper \in [Tenures -> Keepers]
    /\ retired \subseteq Nat
    /\ reload \in Reloads
    /\ told \in {"none", "down", "up"} /\ twice \in BOOLEAN
    /\ did \in [Counted -> Nat]

\* A place and what it holds belong to the keeper of its tenure.
Held == reload.pc \in {"idle", "judged"}

\* A tenure is a reload's: until the reload hands the place over the old one's keeper
\* holds it, and from then on until there is another no keeper does.
TenureInv ==
    /\ slot.tenure = IF reload.pc = "judged" THEN did.reloads ELSE did.reloads + 1
    /\ did.reloads <= MaxReloads /\ (reload.pc # "idle" => did.reloads > 0)
    /\ \A k \in retired : k < slot.tenure
    /\ \A k \in Tenures : k > slot.tenure \/ (k = slot.tenure /\ ~Held) => keeper[k] = Stopped
    /\ \A k \in Tenures : keeper[k].pc = "starting" => k = 1 /\ reload.pc = "idle" /\ slot.tenure = 1

\* A connection's number is not one that is still to come.
NumberInv ==
    /\ \A c \in alive : c <= did.conns
    /\ slot.conn <= did.conns /\ reload.opened <= did.conns
    /\ \A k \in Tenures : keeper[k].conn <= did.conns

\* What serves while the place is handed over is what the new tenure's keeper will
\* watch, or replace.
HandoverInv ==
    ~Held =>
        /\ reload.opened # NoConn => slot.conn = reload.opened
        /\ reload.opened = NoConn /\ reload.pc \in {"put", "retired"} => reload.displaced = slot.conn
        /\ reload.opened = NoConn /\ slot.conn \in alive /\ reload.pc \in {"up", "settled"} =>
              reload.serving = slot.conn

Watches(task, conn) ==
    \/ task.pc \in {"watching", "installed", "up"} /\ task.conn = conn
    \/ task.pc \in {"waiting", "opening", "opened"} /\ task.replacing = conn

WatchedInv == Held /\ slot.conn \in alive => Watches(Holder, slot.conn)

ServingInv == TenureInv /\ NumberInv /\ HandoverInv /\ WatchedInv

\* Where the first keeper is, and what was told last: it has a connection to watch,
\* and goes after another only once the old one is told to be down or serves on.
ToldInv ==
    did.reloads = 0 =>
        /\ ~twice
        /\ keeper[1].pc \in {"opened", "installed", "up", "watching"} => keeper[1].conn # NoConn
        /\ keeper[1].pc \in {"starting", "watching", "down"} => told # "down"
        /\ keeper[1].pc \in {"waiting", "opening", "opened", "installed"} =>
              (told = "down" <=> keeper[1].replacing = NoConn)
        /\ keeper[1].pc = "up" => told = "down"

-----------------------------------------------------------------------------
(***************************************************************************)
(* Types.                                                                  *)
(***************************************************************************)
LEMMA FirstTenure == MaxReloads \in Nat /\ 1 \in Tenures /\ Tenures \subseteq Nat
  BY KeeperAssumption DEF Tenures

LEMMA CountsOne ==
  ASSUME TypeInv, NEW what \in Counted, Counts(what)
  PROVE  /\ did' \in [Counted -> Nat]
         /\ did'[what] = did[what] + 1
         /\ \A other \in Counted \ {what} : did'[other] = did[other]
  BY DEF Counts, TypeInv

\* One keeper moves, and no other does.
LEMMA OneMoves ==
  ASSUME TypeInv, NEW k \in Tenures, NEW to \in Keepers, KeeperTo(k, to)
  PROVE  /\ keeper' \in [Tenures -> Keepers]
         /\ keeper'[k] = to
         /\ \A j \in Tenures \ {k} : keeper'[j] = keeper[j]
  BY DEF KeeperTo, TypeInv

LEMMA KeepersType ==
  ASSUME NEW pc \in Places, NEW conn \in Nat, NEW replacing \in Nat
  PROVE  Keeping(pc, conn, replacing) \in Keepers /\ Stopped \in Keepers
  BY DEF Keeping, Stopped, Keepers, NoConn, Places

LEMMA NextConnType ==
  ASSUME TypeInv
  PROVE  NextConn \in Nat \ {NoConn}
  BY DEF TypeInv, NextConn, Counted, NoConn

\* A connection opened is one more, and the only one.
LEMMA ConnectsOne ==
  ASSUME TypeInv, Connects
  PROVE  /\ did' \in [Counted -> Nat] /\ did'.conns = NextConn /\ did.conns + 1 = NextConn
         /\ did'.reloads = did.reloads
         /\ alive' = alive \cup {NextConn} /\ alive' \subseteq Nat \ {NoConn}
  BY CountsOne, NextConnType DEF Connects, Counted, TypeInv, NextConn
  
LEMMA FailsOne ==
  ASSUME TypeInv, Fails
  PROVE  did' \in [Counted -> Nat] /\ did'.conns = did.conns /\ did'.reloads = did.reloads
  BY CountsOne DEF Fails, Counted

LEMMA ReloadsOne ==
  ASSUME TypeInv, ReloadOpens
  PROVE  /\ did' \in [Counted -> Nat] /\ did'.reloads = did.reloads + 1
         /\ did'.conns = did.conns \/ did'.conns = NextConn
         /\ reload'.opened # NoConn => did'.conns = NextConn
<1> DEFINE one == [did EXCEPT !.reloads = @ + 1]
<1>1. did.reloads \in Nat /\ did.conns \in Nat /\ did.fails \in Nat /\ NextConn = did.conns + 1
  BY DEF TypeInv, Counted, NextConn
<1>2. /\ one \in [Counted -> Nat] /\ one.reloads = did.reloads + 1
      /\ one.conns = did.conns /\ one.fails = did.fails
  BY <1>1 DEF TypeInv, Counted
<1>3. \/ did' = [one EXCEPT !.conns = one.conns + 1]
      \/ did' = [one EXCEPT !.fails = one.fails + 1] /\ reload'.opened = NoConn
  BY <1>2 DEF ReloadOpens, ReloadTo, NoReload
<1> HIDE DEF one
<1> QED BY <1>1, <1>2, <1>3 DEF Counted, NoConn

LEMMA InitTypeInv ==
  ASSUME Init
  PROVE  TypeInv
<1>1. Keeping("starting", NoConn, NoConn) \in Keepers /\ Stopped \in Keepers
  BY KeepersType DEF Places, NoConn
<1>2. keeper \in [Tenures -> Keepers]
  BY <1>1 DEF Init
<1>3. NoReload \in Reloads
  BY DEF NoReload, Reloads, ReloadPlaces, NoConn
<1>4. did \in [Counted -> Nat]
  BY DEF Init, Counted
<1> QED BY <1>2, <1>3, <1>4, FirstTenure DEF Init, TypeInv, NoConn

LEMMA NextTypeInv ==
  ASSUME TypeInv, TenureInv, [Next]_vars
  PROVE  TypeInv'
<1> USE DEF NoConn
<1> DEFINE Goal == TypeInv'
<1>1. ASSUME GoesDown PROVE Goal
  BY <1>1, CountsOne DEF GoesDown, TypeInv, health, trail, Counted
<1>2. ASSUME Drained PROVE Goal
  BY <1>2 DEF Drained, TypeInv, health, trail
<1>3. ASSUME Ask PROVE Goal
  BY <1>3, CountsOne DEF Ask, TypeInv, trail, Counted
<1>4. ASSUME StartOpens PROVE Goal
  <2>1. Keeping("watching", NextConn, NoConn) \in Keepers
    BY NextConnType, KeepersType DEF Places
  <2> QED BY <1>4, <2>1, FirstTenure, OneMoves, ConnectsOne, NextConnType
          DEF StartOpens, TypeInv, trail
<1>5. ASSUME StartFails PROVE Goal
  <2>1. Keeping("down", NoConn, NoConn) \in Keepers
    BY KeepersType DEF Places
  <2> QED BY <1>5, <2>1, FirstTenure, OneMoves, FailsOne DEF StartFails, TypeInv, trail
<1>6. ASSUME NEW k \in Tenures, KeeperStep(k) \/ Asked(k) PROVE Goal
  <2>1. keeper[k] \in Keepers
    BY DEF TypeInv
  <2>2. keeper[k].conn \in Nat /\ keeper[k].replacing \in Nat
    BY <2>1 DEF Keepers
  <2>3. CASE Retired(k)
    BY <2>3, KeepersType, OneMoves DEF Retired, TypeInv, health, trail, Places
  <2>4. CASE WaitDown(k) \/ OldDown(k)
    <3>1. Keeping("down", NoConn, NoConn) \in Keepers
      BY KeepersType DEF Places
    <3> QED BY <2>4, <3>1, OneMoves DEF WaitDown, OldDown, TypeInv, health, trail
  <2>5. CASE Asked(k)
    <3>1. Keeping("waiting", NoConn, keeper[k].conn) \in Keepers
      BY <2>2, KeepersType DEF Places
    <3> QED BY <2>5, <3>1, OneMoves DEF Asked, TypeInv, trail
  <2>6. CASE TellDown(k)
    <3>1. Keeping("waiting", NoConn, NoConn) \in Keepers
      BY KeepersType DEF Places
    <3> QED BY <2>6, <3>1, OneMoves DEF TellDown, Tell, TypeInv, health
  <2>7. CASE Restart(k)
    <3>1. [keeper[k] EXCEPT !.pc = "opening"] \in Keepers
      BY <2>1 DEF Keepers, Places
    <3> QED BY <2>7, <3>1, OneMoves DEF Restart, TypeInv, trail
  <2>8. CASE Reach(k)
    <3>1. Keeping("opened", NextConn, keeper[k].replacing) \in Keepers
      BY <2>2, NextConnType, KeepersType DEF Places
    <3> QED BY <2>8, <3>1, OneMoves, ConnectsOne DEF Reach, TypeInv, health, trail
  <2>9. CASE ReachFails(k)
    <3>1. [keeper[k] EXCEPT !.pc = "waiting"] \in Keepers
      BY <2>1 DEF Keepers, Places
    <3> QED BY <2>9, <3>1, OneMoves, FailsOne DEF ReachFails, TypeInv, trail
  <2>10. CASE Install(k)
    <3>1. [keeper[k] EXCEPT !.pc = "installed"] \in Keepers
      BY <2>1 DEF Keepers, Places
    <3>2. keeper' \in [Tenures -> Keepers]
      BY <2>10, <3>1, KeepersType, OneMoves DEF Install, Places
    <3>3. slot' \in [conn : Nat, tenure : Tenures] /\ alive' \subseteq Nat \ {NoConn}
      BY <2>2, <2>10 DEF Install, TypeInv
    <3> QED BY <2>10, <3>2, <3>3 DEF Install, TypeInv, health, trail
  <2>11. CASE Settle(k)
    <3>1. Keeping(IF keeper[k].replacing = NoConn THEN "up" ELSE "watching", keeper[k].conn, NoConn)
             \in Keepers
      BY <2>2, KeepersType DEF Places
    <3> QED BY <2>11, <3>1, OneMoves DEF Settle, TypeInv, trail
  <2>12. CASE TellUp(k)
    <3>1. [keeper[k] EXCEPT !.pc = "watching"] \in Keepers
      BY <2>1 DEF Keepers, Places
    <3> QED BY <2>12, <3>1, OneMoves DEF TellUp, Tell, TypeInv, health
  <2> QED BY <1>6, <2>3, <2>4, <2>5, <2>6, <2>7, <2>8, <2>9, <2>10, <2>11, <2>12 DEF KeeperStep
<1>7. ASSUME ReloadOpens PROVE Goal
  <2>1. did.reloads \in Nat /\ did.conns \in Nat /\ did.fails \in Nat
    BY DEF TypeInv, Counted
  <2>2. did' \in [Counted -> Nat]
    BY <1>7, ReloadsOne
  <2>3. alive' \subseteq Nat \ {NoConn}
    BY <1>7, NextConnType DEF ReloadOpens, TypeInv
  <2>4. reload' \in Reloads
    <3>1. slot.conn \in Nat
      BY DEF TypeInv
    <3>2. NoReload \in Reloads
      BY DEF NoReload, Reloads, ReloadPlaces
    <3> DEFINE judged == [NoReload EXCEPT !.pc = "judged", !.displaced = slot.conn]
    <3>3. judged \in Reloads
      BY <3>1, <3>2 DEF NoReload, Reloads, ReloadPlaces
    <3>4. [NoReload EXCEPT !.pc = "judged", !.opened = NextConn, !.displaced = slot.conn] \in Reloads
      BY <3>1, <3>2, NextConnType DEF NoReload, Reloads, ReloadPlaces
    <3> QED BY <1>7, <3>3, <3>4 DEF ReloadOpens, ReloadTo
  <2> QED BY <1>7, <2>2, <2>3, <2>4 DEF ReloadOpens, TypeInv, health, trail
<1>8. ASSUME PutReloaded PROVE Goal
  <2>1. slot.conn \in Nat /\ slot.tenure \in Nat /\ reload.opened \in Nat
    BY FirstTenure DEF TypeInv, Reloads
  <2>2. slot.tenure = did.reloads /\ did.reloads \in Nat /\ did.reloads <= MaxReloads
    BY <1>8 DEF PutReloaded, TenureInv, TypeInv, Counted
  <2>3. slot.tenure + 1 \in Tenures
    BY <2>2, FirstTenure DEF Tenures
  <2>4. slot' \in [conn : Nat, tenure : Tenures]
    BY <1>8, <2>1, <2>3 DEF PutReloaded
  <2>5. reload' \in Reloads
    BY <1>8, <2>1 DEF PutReloaded, ReloadTo, TypeInv, Reloads, ReloadPlaces
  <2> QED BY <1>8, <2>4, <2>5 DEF PutReloaded, TypeInv, health, trail
<1>9. ASSUME Retire PROVE Goal
  <2>1. slot.tenure - 1 \in Nat
    BY FirstTenure DEF TypeInv, Tenures
  <2>2. reload' \in Reloads
    BY <1>9 DEF Retire, ReloadTo, TypeInv, Reloads, ReloadPlaces
  <2> QED BY <1>9, <2>1, <2>2 DEF Retire, TypeInv, health, trail
<1>10. ASSUME SettleReloaded PROVE Goal
  <2>1. reload.displaced \in Nat
    BY DEF TypeInv, Reloads
  <2>2. reload' \in Reloads
    BY <1>10, <2>1 DEF SettleReloaded, ReloadTo, TypeInv, Reloads, ReloadPlaces
  <2> QED BY <1>10, <2>2 DEF SettleReloaded, TypeInv, trail
<1>11. ASSUME TellUpReloaded PROVE Goal
  <2>1. reload' \in Reloads
    BY <1>11 DEF TellUpReloaded, ReloadTo, TypeInv, Reloads, ReloadPlaces
  <2> QED BY <1>11, <2>1 DEF TellUpReloaded, Tell, TypeInv, health
<1>12. ASSUME Keep PROVE Goal
  <2>1. slot.tenure \in Tenures /\ reload.opened \in Nat /\ reload.serving \in Nat
    BY DEF TypeInv, Reloads
  <2>2. /\ Keeping("watching", reload.opened, NoConn) \in Keepers
        /\ Keeping("waiting", NoConn, reload.serving) \in Keepers
    BY <2>1, KeepersType DEF Places
  <2>3. keeper' \in [Tenures -> Keepers]
    BY <1>12, <2>1, <2>2, OneMoves DEF Keep
  <2>4. reload' \in Reloads
    BY <1>12 DEF Keep, ReloadTo, NoReload, Reloads, ReloadPlaces
  <2> QED BY <1>12, <2>3, <2>4 DEF Keep, TypeInv, health, trail
<1>13. ASSUME UNCHANGED vars PROVE Goal
  BY <1>13 DEF vars, health, trail, TypeInv
<1> HIDE DEF Goal
<1>14. Goal
  BY <1>1, <1>2, <1>3, <1>4, <1>5, <1>6, <1>7, <1>8, <1>9, <1>10, <1>11, <1>12, <1>13
  DEF Next, StartStep, ReloadStep
<1> QED BY <1>14 DEF Goal

-----------------------------------------------------------------------------
(***************************************************************************)
(* What serves is watched.                                                 *)
(***************************************************************************)
LEMMA InitServing ==
  ASSUME Init
  PROVE  ServingInv
<1>1. /\ \A k \in Tenures : k # 1 => keeper[k] = Stopped
      /\ slot.tenure = 1 /\ slot.conn = NoConn /\ alive = {} /\ reload = NoReload /\ retired = {}
      /\ did.reloads = 0 /\ did.conns = 0
  BY DEF Init
<1>2. \A k \in Tenures : keeper[k].conn = 0 /\ (keeper[k].pc = "starting" => k = 1)
  BY <1>1, FirstTenure DEF Init, Stopped, Keeping, NoConn
<1>3. reload.pc = "idle" /\ reload.opened = 0 /\ slot.conn = 0
  BY <1>1 DEF NoReload, NoConn
<1>4. TenureInv
  <2>1. \A k \in Tenures : k > 1 => keeper[k] = Stopped
    <3>1. ~(1 > 1)
      OBVIOUS
    <3> QED BY <1>1, <3>1
  <2> QED BY <1>1, <1>2, <1>3, <2>1, FirstTenure DEF TenureInv, Held
<1>5. NumberInv
  BY <1>1, <1>2, <1>3 DEF NumberInv
<1> QED BY <1>1, <1>3, <1>4, <1>5 DEF ServingInv, HandoverInv, WatchedInv, Held

\* A step of the keeper of tenure k that leaves the place and the reload as they are.
LEMMA KeeperMoves ==
  ASSUME TypeInv, ServingInv, NEW k \in Tenures, NEW to \in Keepers, KeeperTo(k, to),
         keeper[k] # Stopped, to.pc # "starting",
         UNCHANGED <<slot, reload, retired>>, did'.reloads = did.reloads,
         \A c \in alive' : c \in alive \/ c = NextConn,
         did'.conns \in {did.conns, NextConn}, NextConn \in alive' => did'.conns = NextConn,
         to.conn \in {NoConn, keeper[k].conn, NextConn}, to.conn = NextConn => did'.conns = NextConn,
         Held /\ k = slot.tenure /\ slot.conn \in alive => Watches(to, slot.conn)
  PROVE  ServingInv'
<1>0. k \in Nat /\ slot.tenure \in Nat /\ \A c \in alive : c \in Nat
  BY FirstTenure DEF TypeInv
<1>1. k < slot.tenure \/ (k = slot.tenure /\ Held)
  BY <1>0 DEF ServingInv, TenureInv
<1>2. /\ keeper'[k] = to /\ \A j \in Tenures \ {k} : keeper'[j] = keeper[j]
      /\ did.conns \in Nat /\ slot.conn \in Nat /\ reload.opened \in Nat /\ NextConn = did.conns + 1
  BY OneMoves DEF TypeInv, Counted, Reloads, NextConn
<1>3. TenureInv'
  BY <1>1, <1>2, FirstTenure DEF ServingInv, TenureInv, Held
<1>4. NumberInv' /\ (slot.conn \in alive' => slot.conn \in alive)
  <2>1. /\ \A c \in alive : c <= did.conns
        /\ slot.conn <= did.conns /\ reload.opened <= did.conns
        /\ \A j \in Tenures : keeper[j].conn <= did.conns /\ keeper[j].conn \in Nat
    BY DEF ServingInv, NumberInv, TypeInv, Keepers
  <2>2. did'.conns \in Nat /\ did.conns <= did'.conns
    BY <1>2
  <2>3. \A c \in alive' : c <= did'.conns
    BY <1>0, <1>2, <2>1, <2>2
  <2>4. slot'.conn <= did'.conns /\ reload'.opened <= did'.conns
    BY <1>2, <2>1, <2>2
  <2>5. \A j \in Tenures : keeper'[j].conn <= did'.conns
    BY <1>2, <2>1, <2>2 DEF NoConn
  <2>6. slot.conn # NextConn
    BY <1>2, <2>1
  <2> QED BY <2>3, <2>4, <2>5, <2>6 DEF NumberInv
<1>5. HandoverInv' /\ WatchedInv'
  BY <1>2, <1>4 DEF ServingInv, HandoverInv, WatchedInv, Held, Holder, TypeInv
<1> QED BY <1>3, <1>4, <1>5 DEF ServingInv

\* A step of the start or of no keeper, that leaves the place, the keepers and the
\* reload as they are.
LEMMA NoneMoves ==
  ASSUME TypeInv, ServingInv, UNCHANGED <<slot, keeper, retired, reload>>, alive' \subseteq alive,
         did'.reloads = did.reloads, did'.conns = did.conns
  PROVE  ServingInv'
  BY DEF ServingInv, TenureInv, NumberInv, HandoverInv, WatchedInv, Held, Holder

LEMMA KeeperServing ==
  ASSUME TypeInv, ServingInv, NEW k \in Tenures, KeeperStep(k) \/ Asked(k)
  PROVE  ServingInv'
<1> USE DEF NoConn
<1>1. keeper[k] \in Keepers /\ keeper[k].conn \in Nat /\ keeper[k].replacing \in Nat
  BY DEF TypeInv, Keepers
<1>2. keeper[k].pc # "none" => keeper[k] # Stopped
  BY DEF Stopped, Keeping
<1>3. did.conns \in Nat /\ NextConn = did.conns + 1 /\ \A c \in alive : c <= did.conns
  BY DEF TypeInv, Counted, NextConn, ServingInv, NumberInv
<1>4. NextConn \notin alive /\ keeper[k].conn # NextConn /\ NextConn # NoConn
  <2>1. keeper[k].conn <= did.conns
    BY DEF ServingInv, NumberInv
  <2> QED BY <1>1, <1>3, <2>1
<1>5. Held /\ k = slot.tenure /\ slot.conn \in alive => Watches(keeper[k], slot.conn)
  BY DEF ServingInv, WatchedInv, Holder
<1>6. CASE Retired(k)
  <2>1. k # slot.tenure
    BY <1>6, FirstTenure DEF Retired, ServingInv, TenureInv
  <2> QED BY <1>2, <1>4, <1>6, <2>1, KeepersType, KeeperMoves
          DEF Retired, Stopped, Keeping, Places
<1>7. CASE WaitDown(k) \/ OldDown(k)
  <2>1. /\ Keeping("down", NoConn, NoConn) \in Keepers
        /\ Keeping("down", NoConn, NoConn).pc = "down" /\ Keeping("down", NoConn, NoConn).conn = NoConn
    BY KeepersType DEF Places, Keeping, NoConn
  <2>2. ~(Held /\ k = slot.tenure /\ slot.conn \in alive)
    BY <1>5, <1>7 DEF WaitDown, OldDown, Watches
  <2> QED BY <1>2, <1>4, <1>7, <2>1, <2>2, KeeperMoves DEF WaitDown, OldDown
<1>8. CASE Asked(k)
  <2> DEFINE to == Keeping("waiting", NoConn, keeper[k].conn)
  <2>1. to \in Keepers /\ to.pc = "waiting" /\ to.replacing = keeper[k].conn /\ to.conn = NoConn
    BY <1>1, KeepersType DEF Places, Keeping
  <2>2. Held /\ k = slot.tenure /\ slot.conn \in alive => Watches(to, slot.conn)
    BY <1>5, <1>8, <2>1 DEF Asked, Watches
  <2> HIDE DEF to
  <2>3. KeeperTo(k, to)
    BY <1>8 DEF Asked, to
  <2> QED BY <1>2, <1>4, <1>8, <2>1, <2>2, <2>3, KeeperMoves DEF Asked
<1>9. CASE TellDown(k)
  <2>1. /\ Keeping("waiting", NoConn, NoConn) \in Keepers
        /\ Keeping("waiting", NoConn, NoConn).pc = "waiting"
        /\ Keeping("waiting", NoConn, NoConn).conn = NoConn
    BY KeepersType DEF Places, Keeping, NoConn
  <2>2. ~(Held /\ k = slot.tenure /\ slot.conn \in alive)
    BY <1>5, <1>9 DEF TellDown, Watches
  <2> QED BY <1>2, <1>4, <1>9, <2>1, <2>2, KeeperMoves DEF TellDown
<1>10. CASE Restart(k)
  <2> DEFINE to == [keeper[k] EXCEPT !.pc = "opening"]
  <2>1. /\ to \in Keepers /\ to.pc = "opening"
        /\ to.replacing = keeper[k].replacing /\ to.conn = keeper[k].conn
    BY <1>1 DEF Places, Keepers
  <2>2. Held /\ k = slot.tenure /\ slot.conn \in alive => Watches(to, slot.conn)
    BY <1>5, <1>10, <2>1 DEF Restart, Watches
  <2> HIDE DEF to
  <2>3. KeeperTo(k, to)
    BY <1>10 DEF Restart, to
  <2> QED BY <1>2, <1>4, <1>10, <2>1, <2>2, <2>3, KeeperMoves DEF Restart
<1>11. CASE Reach(k)
  <2> DEFINE to == Keeping("opened", NextConn, keeper[k].replacing)
  <2>1. /\ to \in Keepers /\ to.pc = "opened" /\ to.conn = NextConn
        /\ to.replacing = keeper[k].replacing
    BY <1>1, NextConnType, KeepersType DEF Places, Keeping
  <2>2. Held /\ k = slot.tenure /\ slot.conn \in alive => Watches(to, slot.conn)
    BY <1>5, <1>11, <2>1 DEF Reach, Watches
  <2> HIDE DEF to
  <2>3. KeeperTo(k, to)
    BY <1>11 DEF Reach, to
  <2>4. /\ did'.reloads = did.reloads /\ did'.conns = NextConn
        /\ \A c \in alive' : c \in alive \/ c = NextConn
    BY <1>11, ConnectsOne DEF Reach
  <2> QED BY <1>2, <1>4, <1>11, <2>1, <2>2, <2>3, <2>4, KeeperMoves DEF Reach
<1>12. CASE ReachFails(k)
  <2> DEFINE to == [keeper[k] EXCEPT !.pc = "waiting"]
  <2>1. /\ to \in Keepers /\ to.pc = "waiting"
        /\ to.replacing = keeper[k].replacing /\ to.conn = keeper[k].conn
    BY <1>1 DEF Places, Keepers
  <2>2. Held /\ k = slot.tenure /\ slot.conn \in alive => Watches(to, slot.conn)
    BY <1>5, <1>12, <2>1 DEF ReachFails, Watches
  <2> HIDE DEF to
  <2>3. KeeperTo(k, to)
    BY <1>12 DEF ReachFails, to
  <2>4. did'.reloads = did.reloads /\ did'.conns = did.conns
    BY <1>12, FailsOne DEF ReachFails
  <2> QED BY <1>2, <1>4, <1>12, <2>1, <2>2, <2>3, <2>4, KeeperMoves DEF ReachFails
<1>13. CASE Install(k)
  <2>1. CASE slot.tenure = k
    <3> DEFINE to == [keeper[k] EXCEPT !.pc = "installed"]
    <3>1. to \in Keepers /\ to.pc = "installed" /\ to.conn = keeper[k].conn
      BY <1>1 DEF Places, Keepers
    <3> HIDE DEF to
    <3>2. /\ KeeperTo(k, to) /\ slot'.conn = keeper[k].conn /\ slot'.tenure = slot.tenure
          /\ UNCHANGED <<alive, reload, retired, did>>
      BY <1>13, <2>1 DEF Install, to, TypeInv
    <3>3. /\ keeper'[k] = to /\ \A j \in Tenures \ {k} : keeper'[j] = keeper[j]
      BY <3>1, <3>2, OneMoves
    <3>4. Held
      BY <1>2, <1>13, <2>1 DEF Install, ServingInv, TenureInv
    <3>5. keeper[k].conn <= did.conns
      BY DEF ServingInv, NumberInv
    <3> QED BY <2>1, <3>1, <3>2, <3>3, <3>4, <3>5, FirstTenure
            DEF ServingInv, TenureInv, NumberInv, HandoverInv, WatchedInv, Held, Holder, Watches, TypeInv
  <2>2. CASE slot.tenure # k
    <3>1. Stopped \in Keepers /\ Stopped.pc = "none" /\ Stopped.conn = NoConn
      BY KeepersType DEF Stopped, Keeping, Places
    <3> QED BY <1>2, <1>4, <1>13, <2>2, <3>1, KeeperMoves DEF Install
  <2> QED BY <2>1, <2>2
<1>14. CASE Settle(k)
  <2> DEFINE to == Keeping(IF keeper[k].replacing = NoConn THEN "up" ELSE "watching", keeper[k].conn, NoConn)
  <2>1. to \in Keepers /\ to.pc \in {"up", "watching"} /\ to.conn = keeper[k].conn
    BY <1>1, KeepersType DEF Places, Keeping
  <2>2. Held /\ k = slot.tenure /\ slot.conn \in alive => Watches(to, slot.conn)
    BY <1>5, <1>14, <2>1 DEF Settle, Watches
  <2> HIDE DEF to
  <2>3. KeeperTo(k, to)
    BY <1>14 DEF Settle, to
  <2> QED BY <1>2, <1>4, <1>14, <2>1, <2>2, <2>3, KeeperMoves DEF Settle
<1>15. CASE TellUp(k)
  <2> DEFINE to == [keeper[k] EXCEPT !.pc = "watching"]
  <2>1. to \in Keepers /\ to.pc = "watching" /\ to.conn = keeper[k].conn
    BY <1>1 DEF Places, Keepers
  <2>2. Held /\ k = slot.tenure /\ slot.conn \in alive => Watches(to, slot.conn)
    BY <1>5, <1>15, <2>1 DEF TellUp, Watches
  <2> HIDE DEF to
  <2>3. KeeperTo(k, to)
    BY <1>15 DEF TellUp, to
  <2> QED BY <1>2, <1>4, <1>15, <2>1, <2>2, <2>3, KeeperMoves DEF TellUp
<1> QED BY <1>6, <1>7, <1>8, <1>9, <1>10, <1>11, <1>12, <1>13, <1>14, <1>15 DEF KeeperStep

LEMMA StartServing ==
  ASSUME TypeInv, ServingInv, StartStep
  PROVE  ServingInv'
<1> USE DEF NoConn
<1>1. keeper[1].pc = "starting" /\ reload.pc = "idle" /\ slot.tenure = 1 /\ 1 \in Tenures
  BY FirstTenure DEF StartStep, StartOpens, StartFails, ServingInv, TenureInv
<1>2. CASE StartOpens
  <2> DEFINE to == Keeping("watching", NextConn, NoConn)
  <2>1. to \in Keepers /\ to.pc = "watching" /\ to.conn = NextConn
    BY NextConnType, KeepersType DEF Places, Keeping
  <2> HIDE DEF to
  <2>2. /\ KeeperTo(1, to) /\ slot'.conn = NextConn /\ slot'.tenure = slot.tenure
        /\ UNCHANGED <<reload, retired>>
    BY <1>2 DEF StartOpens, to, TypeInv
  <2>3. /\ did'.conns = NextConn /\ did.conns + 1 = NextConn /\ did'.reloads = did.reloads
        /\ alive' = alive \cup {NextConn}
    BY <1>2, ConnectsOne DEF StartOpens
  <2>4. keeper'[1] = to /\ \A j \in Tenures \ {1} : keeper'[j] = keeper[j]
    BY <1>1, <2>1, <2>2, OneMoves
  <2>5. TenureInv'
    BY <1>1, <2>1, <2>2, <2>3, <2>4 DEF ServingInv, TenureInv, Held
  <2>6. NumberInv'
    <3>1. did.conns \in Nat /\ \A c \in alive : c \in Nat /\ c <= did.conns
      BY DEF TypeInv, Counted, ServingInv, NumberInv
    <3>2. reload.opened \in Nat /\ reload.opened <= did.conns
      BY DEF TypeInv, Reloads, ServingInv, NumberInv
    <3>3. \A j \in Tenures : keeper[j].conn \in Nat /\ keeper[j].conn <= did.conns
      BY DEF TypeInv, Keepers, ServingInv, NumberInv
    <3> QED BY <2>1, <2>2, <2>3, <2>4, <3>1, <3>2, <3>3 DEF NumberInv
  <2> QED BY <1>1, <2>1, <2>2, <2>4, <2>5, <2>6
          DEF ServingInv, HandoverInv, WatchedInv, Held, Holder, Watches
<1>3. CASE StartFails
  <2>1. slot.conn \notin alive
    BY <1>1 DEF ServingInv, WatchedInv, Held, Holder, Watches
  <2>2. keeper[1] # Stopped
    BY <1>1 DEF Stopped, Keeping
  <2>3. /\ Keeping("down", NoConn, NoConn) \in Keepers
        /\ Keeping("down", NoConn, NoConn).pc = "down" /\ Keeping("down", NoConn, NoConn).conn = NoConn
    BY KeepersType DEF Places, Keeping
  <2>4. did'.conns = did.conns /\ did'.reloads = did.reloads
    BY <1>3, FailsOne DEF StartFails
  <2>5. NextConn \notin alive /\ NextConn # NoConn
    <3>1. did.conns \in Nat /\ NextConn = did.conns + 1 /\ \A c \in alive : c <= did.conns
      BY DEF TypeInv, Counted, NextConn, ServingInv, NumberInv
    <3> QED BY <3>1
  <2> QED BY <1>1, <1>3, <2>1, <2>2, <2>3, <2>4, <2>5, KeeperMoves DEF StartFails
<1> QED BY <1>2, <1>3 DEF StartStep

LEMMA ReloadServing ==
  ASSUME TypeInv, ServingInv, ReloadOpens \/ ReloadStep
  PROVE  ServingInv'
<1> USE DEF NoConn
<1>1. /\ did.conns \in Nat /\ did.reloads \in Nat /\ NextConn = did.conns + 1
      /\ slot.conn \in Nat /\ slot.conn <= did.conns /\ slot.tenure \in Nat /\ slot.tenure \in Tenures
      /\ reload.opened \in Nat /\ reload.opened <= did.conns
      /\ \A c \in alive : c \in Nat /\ c # 0 /\ c <= did.conns
      /\ \A k \in Tenures : k \in Nat /\ keeper[k].conn \in Nat /\ keeper[k].conn <= did.conns
  BY FirstTenure DEF TypeInv, Counted, NextConn, Reloads, Keepers, ServingInv, NumberInv
<1>2. reload \in Reloads
  BY DEF TypeInv
<1>3. CASE ReloadOpens
  <2>1. /\ did'.reloads = did.reloads + 1 /\ did'.conns \in {did.conns, NextConn}
        /\ reload'.opened # NoConn => did'.conns = NextConn
    BY <1>3, ReloadsOne
  <2>2. /\ reload.pc = "idle" /\ reload'.pc = "judged" /\ reload'.opened \in {NoConn, NextConn}
        /\ \A c \in alive' : c \in alive \/ (c = NextConn /\ reload'.opened = NextConn)
        /\ UNCHANGED <<slot, keeper, retired>> /\ keeper[1].pc # "starting" /\ did.reloads < MaxReloads
    BY <1>3 DEF ReloadOpens, ReloadTo, NoReload
  <2>3. TenureInv'
    <3>1. slot.tenure = did.reloads + 1 /\ did'.reloads <= MaxReloads /\ did'.reloads > 0
      BY <1>1, <2>1, <2>2, FirstTenure DEF ServingInv, TenureInv
    <3>2. \A k \in Tenures : keeper[k].pc # "starting"
      BY <2>2 DEF ServingInv, TenureInv
    <3>3. \A k \in Tenures : k > slot.tenure => keeper[k] = Stopped
      BY DEF ServingInv, TenureInv
    <3>4. \A k \in retired : k < slot.tenure
      BY DEF ServingInv, TenureInv
    <3> QED BY <2>1, <2>2, <3>1, <3>2, <3>3, <3>4 DEF TenureInv, Held
  <2>4. NumberInv'
    BY <1>1, <2>1, <2>2 DEF NumberInv
  <2>5. slot.conn \in alive' => slot.conn \in alive
    BY <1>1, <2>2
  <2> QED BY <2>2, <2>3, <2>4, <2>5 DEF ServingInv, HandoverInv, WatchedInv, Held, Holder
<1>4. CASE PutReloaded
  <2>1. /\ reload.pc = "judged" /\ reload'.pc = "put" /\ reload'.opened = reload.opened
        /\ reload'.displaced = slot.conn /\ slot'.tenure = slot.tenure + 1
        /\ slot'.conn = (IF reload.opened = NoConn THEN slot.conn ELSE reload.opened)
        /\ UNCHANGED <<alive, keeper, retired, did>>
    BY <1>2, <1>4 DEF PutReloaded, ReloadTo, Reloads
  <2>2. TenureInv'
    <3>1. slot'.tenure = did.reloads + 1 /\ did.reloads <= MaxReloads /\ did.reloads > 0
      BY <1>1, <2>1 DEF ServingInv, TenureInv
    <3>2. \A k \in retired' : k < slot'.tenure
      BY <1>1, <2>1 DEF ServingInv, TenureInv, TypeInv
    <3>3. \A k \in Tenures : k >= slot'.tenure => keeper[k] = Stopped
      BY <1>1, <2>1 DEF ServingInv, TenureInv
    <3>4. \A k \in Tenures : keeper[k].pc # "starting"
      BY <2>1 DEF ServingInv, TenureInv
    <3> QED BY <1>1, <2>1, <3>1, <3>2, <3>3, <3>4 DEF TenureInv, Held
  <2>3. NumberInv'
    BY <1>1, <2>1 DEF NumberInv
  <2> QED BY <2>1, <2>2, <2>3 DEF ServingInv, HandoverInv, WatchedInv, Held
<1>5. CASE Retire
  <2>1. /\ reload.pc = "put" /\ reload'.pc = "retired" /\ reload'.opened = reload.opened
        /\ reload'.displaced = reload.displaced /\ retired' = retired \cup {slot.tenure - 1}
        /\ UNCHANGED <<slot, alive, keeper, did>>
    BY <1>2, <1>5 DEF Retire, ReloadTo, Reloads
  <2>2. TenureInv'
    BY <1>1, <2>1 DEF ServingInv, TenureInv, Held
  <2> QED BY <2>1, <2>2 DEF ServingInv, NumberInv, HandoverInv, WatchedInv, Held
<1>6. CASE SettleReloaded
  <2>1. /\ reload.pc = "retired" /\ reload'.pc \in {"up", "settled"} /\ reload'.opened = reload.opened
        /\ reload.displaced \in alive => reload'.serving = reload.displaced
        /\ UNCHANGED <<slot, alive, keeper, retired, did>>
    BY <1>2, <1>6 DEF SettleReloaded, ReloadTo, Reloads
  <2>2. TenureInv'
    BY <1>1, <2>1 DEF ServingInv, TenureInv, Held
  <2> QED BY <2>1, <2>2 DEF ServingInv, NumberInv, HandoverInv, WatchedInv, Held
<1>7. CASE TellUpReloaded
  <2>1. /\ reload.pc = "up" /\ reload'.pc = "settled" /\ reload'.opened = reload.opened
        /\ reload'.serving = reload.serving /\ UNCHANGED <<slot, alive, keeper, retired, did>>
    BY <1>2, <1>7 DEF TellUpReloaded, ReloadTo, Reloads
  <2>2. TenureInv'
    BY <1>1, <2>1 DEF ServingInv, TenureInv, Held
  <2> QED BY <2>1, <2>2 DEF ServingInv, NumberInv, HandoverInv, WatchedInv, Held
<1>8. CASE Keep
  <2> DEFINE to == IF reload.opened # NoConn THEN Keeping("watching", reload.opened, NoConn)
                   ELSE Keeping("waiting", NoConn, reload.serving)
  <2>1. to \in Keepers
    BY <1>1, <1>2, KeepersType DEF Places, Reloads
  <2>2. /\ reload.opened # NoConn => to.pc = "watching" /\ to.conn = reload.opened
        /\ reload.opened = NoConn => to.pc = "waiting" /\ to.conn = NoConn /\ to.replacing = reload.serving
    BY DEF Keeping
  <2> HIDE DEF to
  <2>3. KeeperTo(slot.tenure, to) /\ reload.pc = "settled" /\ UNCHANGED <<slot, alive, retired, did>>
    BY <1>8 DEF Keep, to
  <2>4. reload'.pc = "idle" /\ reload'.opened = NoConn
    BY <1>8 DEF Keep, ReloadTo, NoReload
  <2>5. keeper'[slot.tenure] = to /\ \A j \in Tenures \ {slot.tenure} : keeper'[j] = keeper[j]
    BY <1>1, <2>1, <2>3, OneMoves
  <2>6. TenureInv'
    BY <1>1, <2>2, <2>3, <2>4, <2>5 DEF ServingInv, TenureInv, Held
  <2>7. NumberInv'
    BY <1>1, <2>2, <2>3, <2>4, <2>5 DEF NumberInv
  <2>8. slot.conn \in alive => Watches(to, slot.conn)
    BY <2>2, <2>3 DEF ServingInv, HandoverInv, Held, Watches
  <2> QED BY <2>3, <2>4, <2>5, <2>6, <2>7, <2>8 DEF ServingInv, HandoverInv, WatchedInv, Held, Holder
<1> QED BY <1>3, <1>4, <1>5, <1>6, <1>7, <1>8 DEF ReloadStep

LEMMA NextServing ==
  ASSUME TypeInv, ServingInv, [Next]_vars
  PROVE  ServingInv'
<1>1. ASSUME GoesDown \/ Drained \/ Ask PROVE ServingInv'
  <2>1. did'.reloads = did.reloads /\ did'.conns = did.conns
    BY <1>1, CountsOne DEF GoesDown, Drained, Ask, Counted
  <2> QED BY <1>1, <2>1, NoneMoves DEF GoesDown, Drained, Ask, health, trail
<1>2. ASSUME UNCHANGED vars PROVE ServingInv'
  BY <1>2, NoneMoves DEF vars
<1> QED BY <1>1, <1>2, StartServing, KeeperServing, ReloadServing DEF Next

\* A connection in place that carries calls is watched by the keeper that holds the
\* place, whatever a keeper on its way out put there while a reload opened another
\* (supervise.rs, reconfigure.rs).
THEOREM WhatServesIsWatched == Spec => []ServingIsWatched
<1>1. Init => TypeInv /\ ServingInv
  BY InitTypeInv, InitServing
<1>2. TypeInv /\ ServingInv /\ [Next]_vars => TypeInv' /\ ServingInv'
  BY NextTypeInv, NextServing DEF ServingInv
<1>3. ServingInv => ServingIsWatched
  BY DEF ServingInv, WatchedInv, Held, Watches, ServingIsWatched
<1> QED BY <1>1, <1>2, <1>3, PTL DEF Spec

-----------------------------------------------------------------------------
(***************************************************************************)
(* What the ledger tells.                                                  *)
(***************************************************************************)

\* What ToldInv says of a keeper at work, with what was told.
TellsTrue(task, event) ==
    /\ task.pc \in {"opened", "installed", "up", "watching"} => task.conn # NoConn
    /\ task.pc \in {"starting", "watching", "down"} => event # "down"
    /\ task.pc \in {"waiting", "opening", "opened", "installed"} =>
          (event = "down" <=> task.replacing = NoConn)
    /\ task.pc = "up" => event = "down"

LEMMA NextTold ==
  ASSUME TypeInv, ServingInv, ToldInv, [Next]_vars
  PROVE  ToldInv'
<1> USE DEF NoConn
<1> SUFFICES ASSUME did'.reloads = 0
             PROVE  ~twice' /\ TellsTrue(keeper'[1], told')
  BY DEF ToldInv, TellsTrue
<1>1. did.reloads \in Nat /\ 1 \in Tenures /\ NextConn # NoConn /\ keeper[1] \in Keepers
  BY FirstTenure, NextConnType DEF TypeInv, Counted
<1> DEFINE Goal == ~twice' /\ TellsTrue(keeper'[1], told')
<1> SUFFICES Goal
  OBVIOUS
<1>2. ASSUME did.reloads = 0 PROVE ~twice /\ TellsTrue(keeper[1], told)
  BY <1>2 DEF ToldInv, TellsTrue
<1>3. ASSUME did.reloads = 0
      PROVE  reload.pc = "idle" /\ \A k \in Tenures : keeper[k].pc # "none" => k = 1
  <2>1. slot.tenure \in Nat /\ slot.tenure # 0
    BY FirstTenure DEF TypeInv, Tenures
  <2>2. reload.pc # "judged" /\ slot.tenure = 1
    BY <1>3, <2>1 DEF ServingInv, TenureInv
  <2>3. \A k \in Tenures : k > 1 => keeper[k].pc = "none"
    BY <2>2 DEF ServingInv, TenureInv, Stopped, Keeping
  <2>4. \A k \in Tenures : k \in Nat /\ (k = 1 \/ k > 1)
    BY FirstTenure DEF Tenures
  <2>5. reload.pc = "idle"
    BY <1>3 DEF ServingInv, TenureInv
  <2> QED BY <2>3, <2>4, <2>5
<1>4. ASSUME UNCHANGED <<keeper, told, twice>>, did'.reloads = did.reloads PROVE Goal
  BY <1>2, <1>4
<1> HIDE DEF Goal
<1>5. ASSUME GoesDown \/ Drained \/ Ask PROVE Goal
  <2>1. did'.reloads = did.reloads
    BY <1>5, CountsOne DEF GoesDown, Drained, Ask, Counted
  <2> QED BY <1>4, <1>5, <2>1 DEF GoesDown, Drained, Ask, trail
<1>6. ASSUME StartOpens PROVE Goal
  <2>1. did'.reloads = did.reloads
    BY <1>6, ConnectsOne DEF StartOpens
  <2>2. keeper'[1] = Keeping("watching", NextConn, NoConn) /\ UNCHANGED <<told, twice>>
    BY <1>1, <1>6 DEF StartOpens, KeeperTo, TypeInv, trail
  <2> QED BY <1>1, <1>2, <1>6, <2>1, <2>2 DEF StartOpens, TellsTrue, Keeping, Goal
<1>7. ASSUME StartFails PROVE Goal
  <2>1. did'.reloads = did.reloads
    BY <1>7, FailsOne DEF StartFails
  <2>2. keeper'[1] = Keeping("down", NoConn, NoConn) /\ UNCHANGED <<told, twice>>
    BY <1>1, <1>7 DEF StartFails, KeeperTo, TypeInv, trail
  <2> QED BY <1>1, <1>2, <1>7, <2>1, <2>2 DEF StartFails, TellsTrue, Keeping, Goal
<1>8. ASSUME NEW k \in Tenures, KeeperStep(k) \/ Asked(k) PROVE Goal
  <2>1. did'.reloads = did.reloads
    <3>1. UNCHANGED did \/ Connects \/ Fails
      BY <1>8 DEF KeeperStep, Retired, WaitDown, TellDown, OldDown, Restart, Reach, ReachFails,
                  Install, Settle, TellUp, Asked
    <3> QED BY <3>1, ConnectsOne, FailsOne
  <2>2. did.reloads = 0
    BY <1>8, <2>1
  <2>3. keeper[k].pc # "none"
    BY <1>8 DEF KeeperStep, Retired, WaitDown, TellDown, OldDown, Restart, Reach, ReachFails,
                Install, Settle, TellUp, Asked
  <2>4. k = 1 /\ ~twice /\ TellsTrue(keeper[1], told)
    BY <1>2, <1>3, <2>2, <2>3
  <2>5. slot.tenure = 1
    BY <1>3, <2>2 DEF ServingInv, TenureInv
  <2>6. 1 \notin retired
    BY <2>5 DEF ServingInv, TenureInv
  <2>7. CASE Retired(k)
    BY <2>4, <2>6, <2>7 DEF Retired
  <2>8. CASE WaitDown(k) \/ OldDown(k)
    <3>1. keeper'[1] = Keeping("down", NoConn, NoConn) /\ UNCHANGED <<told, twice>>
      BY <1>1, <2>4, <2>8 DEF WaitDown, OldDown, KeeperTo, TypeInv, trail
    <3> QED BY <2>4, <2>8, <3>1 DEF WaitDown, OldDown, TellsTrue, Keeping, Goal
  <2>9. CASE Asked(k)
    <3>1. keeper'[1] = Keeping("waiting", NoConn, keeper[1].conn) /\ UNCHANGED <<told, twice>>
      BY <1>1, <2>4, <2>9 DEF Asked, KeeperTo, TypeInv, trail
    <3> QED BY <2>4, <2>9, <3>1 DEF Asked, TellsTrue, Keeping, Goal
  <2>10. CASE TellDown(k)
    <3>1. keeper'[1] = Keeping("waiting", NoConn, NoConn) /\ Tell("down")
      BY <1>1, <2>4, <2>10 DEF TellDown, KeeperTo, TypeInv
    <3>2. told # "down" /\ ~twice'
      BY <2>4, <2>10, <3>1 DEF TellDown, TellsTrue, Tell
    <3>3. keeper'[1].pc = "waiting" /\ keeper'[1].replacing = NoConn /\ told' = "down"
      BY <3>1 DEF Tell, Keeping
    <3> QED BY <3>2, <3>3 DEF TellsTrue, Goal
  <2>11. CASE Restart(k)
    <3>1. /\ keeper'[1].pc = "opening" /\ keeper'[1].replacing = keeper[1].replacing
          /\ UNCHANGED <<told, twice>>
      BY <1>1, <2>4, <2>11 DEF Restart, KeeperTo, TypeInv, Keepers, trail
    <3> QED BY <2>4, <2>11, <3>1 DEF Restart, TellsTrue, Goal
  <2>12. CASE Reach(k)
    <3>1. keeper'[1] = Keeping("opened", NextConn, keeper[1].replacing) /\ UNCHANGED <<told, twice>>
      BY <1>1, <2>4, <2>12 DEF Reach, KeeperTo, TypeInv, trail
    <3> QED BY <1>1, <2>4, <2>12, <3>1 DEF Reach, TellsTrue, Keeping, Goal
  <2>13. CASE ReachFails(k)
    <3>1. /\ keeper'[1].pc = "waiting" /\ keeper'[1].replacing = keeper[1].replacing
          /\ UNCHANGED <<told, twice>>
      BY <1>1, <2>4, <2>13 DEF ReachFails, KeeperTo, TypeInv, Keepers, trail
    <3> QED BY <2>4, <2>13, <3>1 DEF ReachFails, TellsTrue, Goal
  <2>14. CASE Install(k)
    <3>1. /\ keeper'[1].pc = "installed" /\ keeper'[1].replacing = keeper[1].replacing
          /\ keeper'[1].conn = keeper[1].conn /\ UNCHANGED <<told, twice>>
      BY <1>1, <2>4, <2>5, <2>14 DEF Install, KeeperTo, TypeInv, Keepers, trail
    <3> QED BY <2>4, <2>14, <3>1 DEF Install, TellsTrue, Goal
  <2>15. CASE Settle(k)
    <3>1. /\ keeper'[1] = Keeping(IF keeper[1].replacing = NoConn THEN "up" ELSE "watching",
                                  keeper[1].conn, NoConn)
          /\ UNCHANGED <<told, twice>>
      BY <1>1, <2>4, <2>15 DEF Settle, KeeperTo, TypeInv, trail
    <3> QED BY <2>4, <2>15, <3>1 DEF Settle, TellsTrue, Keeping, Goal
  <2>16. CASE TellUp(k)
    <3>1. /\ keeper'[1].pc = "watching" /\ keeper'[1].conn = keeper[1].conn /\ Tell("up")
      BY <1>1, <2>4, <2>16 DEF TellUp, KeeperTo, TypeInv, Keepers
    <3> QED BY <2>4, <2>16, <3>1 DEF TellUp, TellsTrue, Tell, Goal
  <2> QED BY <1>8, <2>7, <2>8, <2>9, <2>10, <2>11, <2>12, <2>13, <2>14, <2>15, <2>16 DEF KeeperStep
<1>9. ASSUME ReloadOpens PROVE Goal
  BY <1>1, <1>9, ReloadsOne
<1>10. ASSUME ReloadStep PROVE Goal
  <2>1. UNCHANGED did /\ reload.pc # "idle"
    BY <1>10 DEF ReloadStep, PutReloaded, Retire, SettleReloaded, TellUpReloaded, Keep
  <2> QED BY <1>3, <2>1
<1>11. ASSUME UNCHANGED vars PROVE Goal
  BY <1>4, <1>11 DEF vars, trail
<1> QED BY <1>5, <1>6, <1>7, <1>8, <1>9, <1>10, <1>11 DEF Next, StartStep

\* "The ledger records each upstream going down and coming back up": never twice the
\* same, `up` only after `down` and `down` only of one that was up, through failed
\* attempts, asks and connections that go down while another opens (supervise.rs).
THEOREM TheLedgerTellsTheTruth == Spec => []RecordsAreTrue
<1>1. Init => TypeInv /\ ServingInv /\ ToldInv
  <2> SUFFICES ASSUME Init PROVE ToldInv
    BY InitTypeInv, InitServing
  <2>1. keeper[1].pc = "starting" /\ told = "none" /\ ~twice
    BY FirstTenure DEF Init, Keeping
  <2> QED BY <2>1 DEF ToldInv
<1>2. TypeInv /\ ServingInv /\ ToldInv /\ [Next]_vars => TypeInv' /\ ServingInv' /\ ToldInv'
  BY NextTypeInv, NextServing, NextTold DEF ServingInv
<1>3. TypeInv /\ ServingInv /\ ToldInv => RecordsAreTrue
  <2> SUFFICES ASSUME TypeInv, ServingInv, ToldInv, did.reloads = 0
               PROVE  slot.tenure = 1
    BY DEF RecordsAreTrue, ToldInv, Holder
  <2>1. slot.tenure # 0
    BY DEF TypeInv, Tenures
  <2> QED BY <2>1 DEF ServingInv, TenureInv
<1> QED BY <1>1, <1>2, <1>3, PTL DEF Spec

=================================================================================
