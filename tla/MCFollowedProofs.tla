---------------------------- MODULE MCFollowedProofs ----------------------------
(***************************************************************************)
(* Proofs about ConfigReload and ProviderKeys, as MCFollowed runs them:    *)
(* for any number of edits, askers, requests, rotations and mishaps, and   *)
(* any bounds on how long a fetch takes and how often one is made.  And    *)
(* about BearerToken, which says what a token is taken for under the keys  *)
(* that are held: of any verifier, any token and any time.                 *)
(***************************************************************************)
EXTENDS MCFollowed, TLAPS

Texts == [n : Int, kind : {"good", "invalid", "unparsed"}, start : Int, reach : Nat]
Snapshots == [text : Texts, module : Int, crt : Int, key : Int]
Openings == [reach : Nat, module : Int]
ReloadPlaces == {"idle", "read", "module", "pair", "decide", "tls", "open", "govern", "install", "audit"}
Reloads == [pc : ReloadPlaces, by : Askers \cup {"none", "signal", "watch"}, new : Snapshots,
            crt : Int, opened : Seq(Openings)]

\* What the loop has done of a reload.
HasText == {"module", "pair", "decide", "tls", "open", "govern", "install", "audit"}
HasRead == HasText \ {"module", "pair"}
HasSeen == {"tls", "open", "govern", "install", "audit"}

ReloadType ==
    /\ text \in Texts /\ files \in [module : Nat, crt : Nat, key : Nat]
    /\ applied \in Snapshots /\ seen \in Snapshots /\ watched \in Snapshots
    /\ reload \in Reloads /\ queue \in Seq(Askers)
    /\ inForce \in [Parts -> Int] /\ cert \in Int
    /\ link \in Openings /\ retrying \in Nat \cup {NoRetry}

-----------------------------------------------------------------------------
(***************************************************************************)
(* The order snapshots are read in.                                        *)
(***************************************************************************)

\* Snapshot b may be read after a, of an operator who brings nothing back.
Precedes(a, b) ==
    /\ a.text.n <= b.text.n
    /\ a.text.n = b.text.n =>
          a.text = b.text /\ a.module <= b.module /\ a.crt <= b.crt /\ a.key <= b.key

\* One that was read by now. Of a text that does not parse no file is.
ReadByNow(s) ==
    /\ s.text.n <= text.n /\ (s.text.n = text.n => s.text = text)
    /\ s.module <= files.module /\ s.crt <= files.crt /\ s.key <= files.key
    /\ ~Names(s) => s.module = -1 /\ s.crt = -1 /\ s.key = -1

OrderInv ==
    /\ files.key <= files.crt
    /\ ReadByNow(seen) /\ Precedes(watched, seen)
    /\ reload.pc \in HasText =>
          /\ ReadByNow(reload.new)
          /\ seen.text.n <= reload.new.text.n
          /\ seen.text.n = reload.new.text.n => seen.text = reload.new.text
    /\ reload.pc = "pair" => (seen.text = reload.new.text => seen.module <= reload.new.module)
    /\ reload.pc \in HasRead => Precedes(seen, reload.new)
    /\ reload.pc \in HasSeen =>
          /\ seen = reload.new
          /\ reload.by = "watch" => reload.new # watched

-----------------------------------------------------------------------------
(***************************************************************************)
(* What runs, at each step of a reload.                                    *)
(***************************************************************************)

\* How the upstream is reached, or comes to be.
Reached == IF retrying = NoRetry THEN link.reach ELSE retrying

Governed(config) ==
    /\ inForce["policy"] = config.n /\ Reached = config.reach

ForceInv ==
    /\ applied.text.kind = "good" /\ applied.text.start = First.text.start
    /\ reload.pc \in {"tls", "open", "govern", "install"} => Taken(reload.new)
    /\ reload.pc = "govern" /\ reload.opened # <<>> => reload.opened[1].reach = reload.new.text.reach
    /\ reload.pc \in {"read", "module", "pair", "decide", "tls", "open"} => reload.opened = <<>>
    /\ Governed(IF reload.pc = "install" THEN reload.new.text ELSE applied.text)
    /\ \A p \in Parts \ {"policy"} : inForce[p] = applied.text.n

ReloadInv == ReloadType /\ OrderInv /\ ForceInv

-----------------------------------------------------------------------------
(***************************************************************************)
(* The keys held, and the fetch there is at most one of.                   *)
(***************************************************************************)
Fetching(t) == token[t].state = "fetching"

KeyType ==
    /\ published \in Nat /\ held \in Nat /\ since \in 0 .. MinRefresh
    /\ token \in [Tokens -> [state : {"idle", "fetching", "taken", "refused"},
                             key : Nat, read : Nat, age : Nat]]

\* A fetch's age is the time since the slot was taken for it, so that the next is
\* taken only after its limit; what it has read is no older than what is held.
FetchInv ==
    /\ held <= published
    /\ \A t \in Tokens : Fetching(t) =>
          /\ token[t].age = since /\ token[t].age <= FetchLimit
          /\ token[t].read # 0 => held <= token[t].read /\ token[t].read <= published
    /\ \A t, u \in Tokens : Fetching(t) /\ Fetching(u) => t = u

KeyInv == KeyType /\ FetchInv

-----------------------------------------------------------------------------
(***************************************************************************)
(* Snapshots and the texts they are of.                                    *)
(***************************************************************************)
LEMMA SnapshotsType ==
  /\ First \in Snapshots /\ NoSnapshot \in Snapshots
  /\ First.text = Text(0, "good", 0, 0) /\ First.module = 0 /\ First.crt = 0 /\ First.key = 0
  /\ NoSnapshot.text.n = -1
  BY DEF First, NoSnapshot, Unread, Text, Snapshots, Texts

LEMMA UnreadType ==
  ASSUME NEW t \in Texts
  PROVE  /\ Unread(t) \in Snapshots
         /\ Unread(t).text = t /\ Unread(t).module = -1 /\ Unread(t).crt = -1 /\ Unread(t).key = -1
  BY DEF Unread, Snapshots

LEMMA EditionsType ==
  ASSUME NEW t \in Texts, NEW u \in Editions(t)
  PROVE  u \in Texts /\ u.n = t.n + 1
  BY DEF Editions, Text, Texts

LEMMA PrecedesOnce ==
  ASSUME NEW a \in Snapshots, NEW b \in Snapshots, Precedes(a, b), Precedes(b, a)
  PROVE  a = b
<1>1. a.text.n \in Int /\ b.text.n \in Int /\ a.module \in Int /\ b.module \in Int
      /\ a.crt \in Int /\ b.crt \in Int /\ a.key \in Int /\ b.key \in Int
  BY DEF Snapshots, Texts
<1>2. a.text = b.text /\ a.module = b.module /\ a.crt = b.crt /\ a.key = b.key
  BY <1>1 DEF Precedes
<1> QED BY <1>2 DEF Snapshots

LEMMA PrecedesOn ==
  ASSUME NEW a \in Snapshots, NEW b \in Snapshots, NEW c \in Snapshots, Precedes(a, b), Precedes(b, c)
  PROVE  Precedes(a, c)
  BY DEF Precedes, Snapshots, Texts

-----------------------------------------------------------------------------
LEMMA InitReload ==
  ASSUME ReloadInit
  PROVE  ReloadInv
<1>1. reload = AtRest /\ AtRest.pc = "idle" /\ AtRest.opened = <<>>
  BY DEF ReloadInit, AtRest, Under
<1>2. AtRest \in Reloads
  BY SnapshotsType DEF AtRest, Under, Reloads, ReloadPlaces
<1>3. ReloadType
  <2>1. text \in Texts
    BY SnapshotsType DEF ReloadInit, Snapshots
  <2>2. files \in [module : Nat, crt : Nat, key : Nat] /\ link \in Openings /\ inForce \in [Parts -> Int]
    BY DEF ReloadInit, Openings
  <2> QED BY <1>1, <1>2, <2>1, <2>2, SnapshotsType DEF ReloadInit, ReloadType
<1>4. OrderInv
  <2>1. seen = First /\ watched = NoSnapshot /\ text = First.text
        /\ files.module = 0 /\ files.crt = 0 /\ files.key = 0
    BY DEF ReloadInit
  <2>2. Names(First)
    BY SnapshotsType DEF Names, Text
  <2>3. ReadByNow(seen)
    BY <2>1, <2>2, SnapshotsType DEF ReadByNow, Text
  <2>4. Precedes(watched, seen)
    BY <2>1, SnapshotsType DEF Precedes, Text
  <2> QED BY <1>1, <2>1, <2>3, <2>4 DEF OrderInv, HasText, HasRead, HasSeen
<1>5. ForceInv
  <2>1. applied = First /\ link.reach = 0 /\ retrying = NoRetry /\ \A p \in Parts : inForce[p] = 0
    BY DEF ReloadInit
  <2>2. "policy" \in Parts
    BY DEF Parts
  <2> QED BY <1>1, <2>1, <2>2, SnapshotsType DEF ForceInv, Governed, Reached, Text
<1> QED BY <1>3, <1>4, <1>5 DEF ReloadInv

\* What a step of the reload task makes of the reload.
LEMMA LoopMoves ==
  ASSUME ReloadType, LoopStep
  PROVE  reload' \in Reloads
<1>1. reload \in Reloads /\ AtRest \in Reloads
  BY SnapshotsType DEF ReloadType, AtRest, Under, Reloads, ReloadPlaces
<1>2. files.module \in Int /\ files.crt \in Int /\ files.key \in Int /\ reload.new \in Snapshots /\ reload.new.text.reach \in Nat
  BY <1>1 DEF ReloadType, Reloads, Snapshots, Texts
<1>3. CASE ReadText
  BY <1>1, <1>3, UnreadType DEF ReadText, ReloadType, Reloads, ReloadPlaces
<1>4. CASE HashModule
  <2>1. [reload.new EXCEPT !.module = IF Names(reload.new) THEN files.module ELSE @] \in Snapshots
    BY <1>2 DEF Snapshots
  <2> DEFINE new == [reload.new EXCEPT !.module = IF Names(reload.new) THEN files.module ELSE @]
  <2>2. reload' = [[reload EXCEPT !.pc = "pair"] EXCEPT !.new = new]
    BY <1>1, <1>4 DEF HashModule, Reloads
  <2> HIDE DEF new
  <2> QED BY <1>1, <2>1, <2>2 DEF Reloads, ReloadPlaces, new
<1>5. CASE HashPair
  <2> DEFINE half == [reload.new EXCEPT !.crt = IF Names(reload.new) THEN files.crt ELSE @]
             new  == [half EXCEPT !.key = IF Names(reload.new) THEN files.key ELSE @]
  <2>1. half \in Snapshots /\ half.key = reload.new.key
    BY <1>2 DEF Snapshots
  <2>2. new \in Snapshots
    <3> HIDE DEF half
    <3> QED BY <2>1, <1>2 DEF Snapshots
  <2>3. reload' = [[reload EXCEPT !.pc = "decide"] EXCEPT !.new = new]
    BY <1>1, <1>2, <1>5, <2>1 DEF HashPair, Reloads, Snapshots
  <2> HIDE DEF half, new
  <2> QED BY <1>1, <2>2, <2>3 DEF Reloads, ReloadPlaces
<1>6. CASE NothingNew \/ Audit
  BY <1>1, <1>6 DEF NothingNew, Audit
<1>7. CASE Decide
  BY <1>1, <1>7 DEF Decide, Reloads, ReloadPlaces
<1>8. CASE BuildTls
  <2>1. reload' = [[reload EXCEPT !.pc = "open"] EXCEPT !.crt = files.crt]
        \/ reload' = [reload EXCEPT !.pc = "audit"]
    BY <1>1, <1>8 DEF BuildTls, Reloads
  <2> QED BY <1>1, <1>2, <2>1 DEF Reloads, ReloadPlaces
<1>9. CASE OpenChanged
  <2> DEFINE rec == [reach |-> reload.new.text.reach, module |-> files.module]
             open == <<rec>>
  <2>1. rec \in Openings
    BY <1>2 DEF Openings
  <2>2. open \in Seq(Openings)
    BY <2>1
  <2>3. reload' = [[reload EXCEPT !.pc = "govern"] EXCEPT !.opened = open]
        \/ reload' = [reload EXCEPT !.pc = "govern"]
    BY <1>1, <1>9 DEF OpenChanged, Reloads
  <2> HIDE DEF rec, open
  <2> QED BY <1>1, <2>2, <2>3 DEF Reloads, ReloadPlaces
<1>10. CASE Govern \/ Install
  BY <1>1, <1>10 DEF Govern, Install, Reloads, ReloadPlaces
<1> QED BY <1>3, <1>4, <1>5, <1>6, <1>7, <1>8, <1>9, <1>10 DEF LoopStep

LEMMA NextReloadType ==
  ASSUME ReloadType, ReloadNext
  PROVE  ReloadType'
<1> USE DEF ReloadType
<1>1. First \in Snapshots /\ NoSnapshot \in Snapshots
      /\ \A by \in Askers \cup {"none", "signal", "watch"} : Under("read", by) \in Reloads
  BY SnapshotsType DEF Under, Reloads, ReloadPlaces
<1>2. CASE Edit
  <2>1. text' \in Texts
    BY <1>2, EditionsType DEF Edit
  <2>2. files' \in [module : Nat, crt : Nat, key : Nat]
    BY <1>2 DEF Edit
  <2> QED BY <1>2, <2>1, <2>2 DEF Edit, inside
<1>3. CASE PairCompleted
  BY <1>3 DEF PairCompleted, inside
<1>4. CASE Signal
  BY <1>4 DEF Signal, inside, outside
<1>5. CASE TakeSignal
  BY <1>1, <1>5 DEF TakeSignal, Begin, inside, outside
<1>6. CASE TakeAsk
  <2>1. Head(queue) \in Askers /\ Tail(queue) \in Seq(Askers)
    BY <1>6 DEF TakeAsk
  <2> QED BY <1>1, <1>6, <2>1 DEF TakeAsk, Begin, inside, outside
<1>7. CASE TakeTick
  BY <1>1, <1>7 DEF TakeTick, Begin, outside
<1>8. CASE LoopStep
  <2>1. reload' \in Reloads
    BY <1>8, LoopMoves
  <2>2. reload.new \in Snapshots /\ reload.crt \in Int /\ reload.opened \in Seq(Openings)
        /\ reload.new.text.n \in Int /\ reload.new.text.reach \in Nat
    BY DEF Reloads, Snapshots, Texts
  <2>3. CASE ReadText \/ HashModule \/ HashPair \/ NothingNew \/ BuildTls
    BY <2>1, <2>3 DEF ReadText, HashModule, HashPair, NothingNew, BuildTls, OnlyReload, inside, outside
  <2>4. CASE Decide
    BY <2>1, <2>2, <2>4 DEF Decide, outside
  <2>5. CASE OpenChanged
    BY <2>1, <2>5 DEF OpenChanged, outside
  <2>6. CASE Govern
    <3>1. link' \in Openings
      BY <2>2, <2>6 DEF Govern
    <3>2. inForce' \in [Parts -> Int] /\ retrying' \in Nat \cup {NoRetry}
      BY <2>2, <2>6 DEF Govern
    <3> QED BY <2>1, <2>6, <3>1, <3>2 DEF Govern, outside
  <2>7. CASE Install
    <3>1. inForce' \in [Parts -> Int]
      BY <2>2, <2>7 DEF Install
    <3> QED BY <2>1, <2>2, <2>7, <3>1 DEF Install, outside
  <2>8. CASE Audit
    BY <2>1, <2>2, <2>8 DEF Audit, outside
  <2> QED BY <1>8, <2>3, <2>4, <2>5, <2>6, <2>7, <2>8 DEF LoopStep
<1>9. CASE Reopens
  <2>1. link' \in Openings
    <3>1. files.module \in Int /\ link.reach \in Nat /\ (retrying # NoRetry => retrying \in Nat)
      BY DEF Openings
    <3>2. link' = [reach |-> IF retrying = NoRetry THEN link.reach ELSE retrying, module |-> files.module]
      BY <1>9 DEF Reopens
    <3> QED BY <3>1, <3>2 DEF Openings
  <2> QED BY <1>9, <2>1 DEF Reopens, outside
<1>10. CASE \E a \in Askers : AskFor(a) \/ Send(a) \/ GivesUp(a)
  <2> PICK a \in Askers : AskFor(a) \/ Send(a) \/ GivesUp(a)
    BY <1>10
  <2>1. CASE AskFor(a) \/ GivesUp(a)
    BY <2>1 DEF AskFor, GivesUp, inside, outside
  <2>2. CASE Send(a)
    BY <2>2 DEF Send, inside, outside
  <2> QED BY <2>1, <2>2
<1> QED BY <1>2, <1>3, <1>4, <1>5, <1>6, <1>7, <1>8, <1>9, <1>10 DEF ReloadNext

-----------------------------------------------------------------------------
\* What was read stays read, whatever the operator does since.
LEMMA ReadStaysRead ==
  ASSUME ReloadType, OrderInv, Edit \/ PairCompleted
  PROVE  /\ files'.key <= files'.crt
         /\ \A s \in Snapshots : ReadByNow(s) => ReadByNow(s)'
<1>1. text \in Texts /\ text.n \in Int /\ files.module \in Nat /\ files.crt \in Nat /\ files.key \in Nat
      /\ files \in [module : Nat, crt : Nat, key : Nat]
  BY DEF ReloadType, Texts
<1>2. /\ \/ text' = text
         \/ text' \in Texts /\ text'.n = text.n + 1
      /\ files'.module \in Nat /\ files'.crt \in Nat /\ files'.key \in Nat
      /\ files.module <= files'.module /\ files.crt <= files'.crt
  BY <1>1, EditionsType DEF Edit, PairCompleted
<1>3. ASSUME NEW s \in Snapshots, ReadByNow(s), files.key <= files'.key
      PROVE  ReadByNow(s)'
  <2>1. s.text.n \in Int /\ s.module \in Int /\ s.crt \in Int /\ s.key \in Int
    BY DEF Snapshots, Texts
  <2>2. s.text.n <= text.n /\ (s.text.n = text.n => s.text = text)
        /\ s.module <= files.module /\ s.crt <= files.crt /\ s.key <= files.key
        /\ (~Names(s) => s.module = -1 /\ s.crt = -1 /\ s.key = -1)
    BY <1>3 DEF ReadByNow
  <2>3. s.module <= files'.module /\ s.crt <= files'.crt /\ s.key <= files'.key
    BY <1>1, <1>2, <1>3, <2>1, <2>2
  <2>4. s.text.n <= text'.n /\ (s.text.n = text'.n => s.text = text')
    BY <1>1, <1>2, <2>1, <2>2
  <2> QED BY <2>2, <2>3, <2>4 DEF ReadByNow, Names
<1>4. files.key <= files'.key /\ files'.key <= files'.crt
  BY <1>1 DEF OrderInv, Edit, PairCompleted
<1> QED BY <1>3, <1>4

\* Hashing a file of what is read keeps what is hashed in the order it was read.
LEMMA HashedInOrder ==
  ASSUME ReloadType, OrderInv, HashModule \/ HashPair
  PROVE  /\ ReadByNow(reload'.new) /\ reload'.new.text = reload.new.text
         /\ seen.text = reload.new.text => seen.module <= reload'.new.module
         /\ HashPair => Precedes(seen, reload'.new)
<1> DEFINE new == reload.new
<1>1. new \in Snapshots /\ seen \in Snapshots /\ reload' \in Reloads /\ reload \in Reloads
  BY LoopMoves DEF LoopStep, ReloadType, Reloads
<1>2. /\ new.text.n \in Int /\ new.module \in Int /\ new.crt \in Int /\ new.key \in Int
      /\ seen.text.n \in Int /\ seen.module \in Int /\ seen.crt \in Int /\ seen.key \in Int
      /\ files.module \in Nat /\ files.crt \in Nat /\ files.key \in Nat
  BY <1>1 DEF Snapshots, Texts, ReloadType
<1>3. /\ ReadByNow(new) /\ ReadByNow(seen)
      /\ seen.text.n <= new.text.n /\ (seen.text.n = new.text.n => seen.text = new.text)
  BY DEF OrderInv, HashModule, HashPair, HasText
<1>4. CASE HashModule
  <2> DEFINE hashed == [new EXCEPT !.module = IF Names(new) THEN files.module ELSE @]
  <2>1. /\ hashed.text = new.text /\ hashed.crt = new.crt /\ hashed.key = new.key
        /\ hashed.module = IF Names(new) THEN files.module ELSE new.module
    BY <1>1 DEF Snapshots
  <2>2. reload'.new = hashed
    BY <1>1, <1>4 DEF HashModule, Reloads
  <2> HIDE DEF hashed, new
  <2>3. ReadByNow(hashed)
    BY <1>2, <1>3, <2>1 DEF ReadByNow, Names
  <2>4. seen.text = new.text => seen.module <= hashed.module
    BY <1>2, <1>3, <2>1 DEF ReadByNow, Names
  <2>5. ~HashPair
    BY <1>4 DEF HashModule, HashPair
  <2> QED BY <2>1, <2>2, <2>3, <2>4, <2>5 DEF new
<1>5. CASE HashPair
  <2> DEFINE half   == [new EXCEPT !.crt = IF Names(new) THEN files.crt ELSE @]
             hashed == [half EXCEPT !.key = IF Names(new) THEN files.key ELSE @]
  <2>1. half \in Snapshots
        /\ half.text = new.text /\ half.module = new.module /\ half.key = new.key
        /\ half.crt = IF Names(new) THEN files.crt ELSE new.crt
    BY <1>1, <1>2 DEF Snapshots
  <2>2. reload'.new = hashed
    BY <1>1, <1>2, <1>5, <2>1 DEF HashPair, Reloads, Snapshots
  <2> HIDE DEF half
  <2>3. hashed.text = new.text /\ hashed.module = new.module /\ hashed.crt = half.crt
        /\ hashed.key = IF Names(new) THEN files.key ELSE new.key
    BY <2>1 DEF Snapshots
  <2>4. seen.text = new.text => seen.module <= new.module
    BY <1>5 DEF OrderInv, HashPair
  <2> HIDE DEF hashed, new
  <2>5. ReadByNow(hashed)
    BY <1>2, <1>3, <2>1, <2>3 DEF ReadByNow, Names
  <2>6. Precedes(seen, hashed)
    BY <1>2, <1>3, <2>1, <2>3, <2>4 DEF Precedes, ReadByNow, Names
  <2> QED BY <2>2, <2>3, <2>4, <2>5, <2>6 DEF new
<1> QED BY <1>4, <1>5

LEMMA NextOrder ==
  ASSUME ReloadType, ReloadType', OrderInv, ReloadNext
  PROVE  OrderInv'
<1>1. /\ seen \in Snapshots /\ watched \in Snapshots /\ reload \in Reloads /\ reload.new \in Snapshots
      /\ seen' \in Snapshots /\ watched' \in Snapshots /\ reload' \in Reloads /\ reload'.new \in Snapshots
  BY DEF ReloadType, Reloads
<1>2. /\ \A s \in Snapshots : Precedes(s, s)
      /\ Precedes(watched, seen) /\ ReadByNow(seen)
      /\ files.key <= files.crt
  BY DEF OrderInv, Precedes, Snapshots, Texts
<1>3. CASE Edit \/ PairCompleted
  <2>1. UNCHANGED <<seen, watched, reload>>
    BY <1>3 DEF Edit, PairCompleted, inside
  <2>2. ReadByNow(seen)' /\ (ReadByNow(reload.new) => ReadByNow(reload.new)')
    BY <1>1, <1>2, <1>3, <2>1, ReadStaysRead DEF ReadByNow, Names
  <2>3. files'.key <= files'.crt
    BY <1>3, ReadStaysRead
  <2>4. Precedes(watched, seen)'
    BY <1>2, <2>1 DEF Precedes
  <2>5. (reload.pc \in HasRead => Precedes(seen, reload.new))'
    BY <2>1 DEF OrderInv, Precedes
  <2> QED BY <2>1, <2>2, <2>3, <2>4, <2>5 DEF OrderInv
<1>6. CASE Signal \/ Reopens \/ \E a \in Askers : AskFor(a) \/ Send(a) \/ GivesUp(a)
  <2>1. UNCHANGED <<text, files, seen, watched, reload>>
    BY <1>6 DEF Signal, Reopens, AskFor, Send, GivesUp, inside, outside
  <2> QED BY <2>1 DEF OrderInv, ReadByNow, Precedes, Names
<1>7. CASE TakeSignal \/ TakeAsk \/ TakeTick \/ NothingNew
  <2>1. UNCHANGED <<text, files, seen, watched>> /\ reload'.pc \in {"idle", "read"}
    BY <1>7 DEF TakeSignal, TakeAsk, TakeTick, NothingNew, OnlyReload, Begin, Under, AtRest, inside, outside
  <2>2. ReadByNow(seen)' /\ Precedes(watched, seen)' /\ files'.key <= files'.crt
    BY <1>2, <2>1 DEF ReadByNow, Precedes, Names
  <2> QED BY <2>1, <2>2 DEF OrderInv, HasText, HasRead, HasSeen
<1>8. CASE ReadText
  <2>1. UNCHANGED <<text, files, seen, watched>> /\ reload'.pc = "module" /\ reload'.new = Unread(text)
    BY <1>1, <1>8 DEF ReadText, OnlyReload, inside, outside, Reloads
  <2>2. ReadByNow(seen)' /\ Precedes(watched, seen)' /\ files'.key <= files'.crt
    BY <1>2, <2>1 DEF ReadByNow, Precedes, Names
  <2>3. Unread(text).text = text /\ Unread(text).module = -1 /\ Unread(text).crt = -1 /\ Unread(text).key = -1
    BY UnreadType DEF ReloadType
  <2>4. ReadByNow(reload.new)'
    BY <2>1, <2>3 DEF ReadByNow, ReloadType, Texts
  <2>5. (seen.text.n <= reload.new.text.n /\ (seen.text.n = reload.new.text.n => seen.text = reload.new.text))'
    BY <1>2, <2>1, <2>3 DEF ReadByNow
  <2> QED BY <2>1, <2>2, <2>4, <2>5 DEF OrderInv, HasText, HasRead, HasSeen
<1>9. CASE HashModule \/ HashPair
  <2>1. UNCHANGED <<text, files, seen, watched>> /\ reload.pc \in HasText
        /\ reload'.pc = IF HashModule THEN "pair" ELSE "decide"
    BY <1>1, <1>9 DEF HashModule, HashPair, OnlyReload, inside, outside, Reloads, HasText
  <2>2. ReadByNow(seen)' /\ Precedes(watched, seen)' /\ files'.key <= files'.crt
    BY <1>2, <2>1 DEF ReadByNow, Precedes, Names
  <2>3. ReadByNow(reload.new)'
    BY <2>1, <1>9, HashedInOrder DEF ReadByNow, Names
  <2>4. (seen.text.n <= reload.new.text.n /\ (seen.text.n = reload.new.text.n => seen.text = reload.new.text))'
    BY <1>9, <2>1, HashedInOrder DEF OrderInv
  <2>5. (seen.text = reload.new.text => seen.module <= reload.new.module)'
    BY <1>9, <2>1, HashedInOrder
  <2>6. HashPair => Precedes(seen, reload.new)'
    BY <1>9, <2>1, HashedInOrder DEF Precedes
  <2> QED BY <1>9, <2>1, <2>2, <2>3, <2>4, <2>5, <2>6 DEF OrderInv, HasText, HasRead, HasSeen
<1>10. CASE Decide
  <2>1. UNCHANGED <<text, files, watched>> /\ seen' = reload.new /\ reload'.new = reload.new
        /\ reload'.by = reload.by /\ reload'.pc \in {"tls", "audit"}
    BY <1>1, <1>10 DEF Decide, outside, Reloads
  <2>2. ReadByNow(reload.new) /\ Precedes(seen, reload.new) /\ Precedes(watched, reload.new)
    BY <1>1, <1>2, <1>10, PrecedesOn DEF OrderInv, Decide, HasText, HasRead
  <2>3. reload.by = "watch" => reload.new # watched
    <3>1. reload.by = "watch" => reload.new # seen
      BY <1>10 DEF Decide
    <3> QED BY <1>1, <1>2, <2>2, <3>1, PrecedesOnce
  <2>4. ReadByNow(reload.new)' /\ Precedes(watched, reload.new)' /\ Precedes(reload.new, reload.new)'
        /\ files'.key <= files'.crt
    BY <1>1, <1>2, <2>1, <2>2 DEF ReadByNow, Precedes, Names
  <2>5. (seen.text.n <= reload.new.text.n)'
    BY <1>1, <2>1 DEF Snapshots, Texts
  <2> QED BY <2>1, <2>3, <2>4, <2>5 DEF OrderInv, ReadByNow, Precedes, Names
<1>11. CASE BuildTls \/ OpenChanged \/ Govern \/ Install
  <2>1. UNCHANGED <<text, files, watched, seen>> /\ reload'.new = reload.new
        /\ reload'.by = reload.by /\ reload'.pc \in HasSeen /\ reload.pc \in HasSeen
    <3>1. CASE BuildTls
      BY <1>1, <3>1 DEF BuildTls, OnlyReload, inside, outside, Reloads, HasSeen
    <3>2. CASE OpenChanged
      BY <1>1, <3>2 DEF OpenChanged, outside, Reloads, HasSeen
    <3>3. CASE Govern \/ Install
      BY <1>1, <3>3 DEF Govern, Install, outside, Reloads, HasSeen
    <3> QED BY <1>11, <3>1, <3>2, <3>3
  <2>2. HasSeen \subseteq HasRead /\ HasRead \subseteq HasText /\ "pair" \notin HasSeen
    BY DEF HasSeen, HasRead, HasText
  <2> QED BY <2>1, <2>2 DEF OrderInv, ReadByNow, Precedes, Names
<1>12. CASE Audit
  <2>1. UNCHANGED <<text, files, seen>> /\ reload'.pc = "idle" /\ watched' \in {watched, reload.new}
        /\ reload.pc \in HasSeen
    BY <1>12 DEF Audit, AtRest, Under, outside, HasSeen
  <2>2. seen = reload.new
    BY <2>1 DEF OrderInv
  <2>3. ReadByNow(seen)' /\ Precedes(watched, seen)' /\ files'.key <= files'.crt
    BY <1>1, <1>2, <2>1, <2>2 DEF ReadByNow, Precedes, Names
  <2> QED BY <2>1, <2>3 DEF OrderInv, HasText, HasRead, HasSeen
<1> QED BY <1>3, <1>6, <1>7, <1>8, <1>9, <1>10, <1>11, <1>12 DEF ReloadNext, LoopStep

-----------------------------------------------------------------------------
\* The upstream is reached as what governs it says, through a reload and a reopening.
LEMMA GovernReaches ==
  ASSUME ReloadType, ForceInv, Govern
  PROVE  Reached' = reload.new.text.reach
<1>1. /\ reload \in Reloads /\ reload.new.text.reach \in Nat /\ retrying \in Nat \cup {NoRetry}
      /\ NoRetry \notin Nat
  BY DEF ReloadType, Reloads, Snapshots, Texts, NoRetry
<1>2. /\ Reached = applied.text.reach
      /\ reload.opened # <<>> => reload.opened[1].reach = reload.new.text.reach
  BY DEF ForceInv, Govern, Governed
<1>3. /\ link' = (IF reload.opened = <<>> THEN link ELSE reload.opened[1])
      /\ retrying' = (IF ~Changed(reload.new) THEN retrying
                      ELSE IF reload.opened = <<>> THEN reload.new.text.reach ELSE NoRetry)
  BY DEF Govern
<1>4. ~Changed(reload.new) => reload.new.text.reach = applied.text.reach
  BY DEF Changed
<1> QED BY <1>1, <1>2, <1>3, <1>4 DEF Reached

LEMMA NextForce ==
  ASSUME ReloadType, ForceInv, ReloadNext
  PROVE  ForceInv'
<1>1. reload \in Reloads /\ applied \in Snapshots /\ inForce \in [Parts -> Int] /\ Parts = {"policy", "keys", "admin"}
  BY DEF ReloadType, Parts
<1>2. /\ applied.text.kind = "good" /\ applied.text.start = First.text.start
      /\ Governed(IF reload.pc = "install" THEN reload.new.text ELSE applied.text)
      /\ \A p \in Parts \ {"policy"} : inForce[p] = applied.text.n
  BY DEF ForceInv
<1>3. CASE Edit \/ PairCompleted \/ Signal \/ \E a \in Askers : AskFor(a) \/ Send(a) \/ GivesUp(a)
  <2>1. UNCHANGED <<applied, reload, inForce, link, retrying>>
    BY <1>3 DEF Edit, PairCompleted, Signal, AskFor, Send, GivesUp, inside
  <2> QED BY <2>1 DEF ForceInv, Governed, Reached, Taken
<1>4. CASE TakeSignal \/ TakeAsk \/ TakeTick \/ NothingNew \/ Audit
  <2>1. UNCHANGED <<applied, inForce, link, retrying>> /\ reload.pc # "install"
        /\ reload'.pc \in {"idle", "read"} /\ reload'.opened = <<>>
    BY <1>4 DEF TakeSignal, TakeAsk, TakeTick, NothingNew, Audit, OnlyReload, Begin, Under, AtRest, inside, outside
  <2> QED BY <1>2, <2>1 DEF ForceInv, Governed, Reached
<1>5. CASE ReadText \/ HashModule \/ HashPair
  <2>1. UNCHANGED <<applied, inForce, link, retrying>> /\ reload.pc # "install"
        /\ reload'.pc \in {"module", "pair", "decide"} /\ reload'.opened = reload.opened /\ reload.opened = <<>>
    <3>1. CASE ReadText
      BY <1>1, <3>1 DEF ReadText, OnlyReload, inside, outside, Reloads, ForceInv
    <3>2. CASE HashModule
      BY <1>1, <3>2 DEF HashModule, OnlyReload, inside, outside, Reloads, ForceInv
    <3>3. CASE HashPair
      BY <1>1, <3>3 DEF HashPair, OnlyReload, inside, outside, Reloads, ForceInv
    <3> QED BY <1>5, <3>1, <3>2, <3>3
  <2> QED BY <1>2, <2>1 DEF ForceInv, Governed, Reached
<1>6. CASE Decide
  <2>1. UNCHANGED <<applied, inForce, link, retrying>> /\ reload.pc # "install"
        /\ reload'.new = reload.new /\ reload'.pc = (IF Taken(reload.new) THEN "tls" ELSE "audit")
        /\ reload'.opened = reload.opened /\ reload.opened = <<>>
    BY <1>1, <1>6 DEF Decide, Reloads, ForceInv
  <2> QED BY <1>2, <2>1 DEF ForceInv, Governed, Reached, Taken
<1>7. CASE BuildTls
  <2>1. UNCHANGED <<applied, inForce, link, retrying>> /\ reload.pc # "install"
        /\ reload'.new = reload.new /\ reload'.pc \in {"open", "audit"}
        /\ reload'.opened = reload.opened /\ reload.opened = <<>> /\ Taken(reload.new)
    BY <1>1, <1>7 DEF BuildTls, OnlyReload, inside, outside, Reloads, ForceInv
  <2> QED BY <1>2, <2>1 DEF ForceInv, Governed, Reached, Taken
<1>8. CASE OpenChanged
  <2>1. UNCHANGED <<applied, inForce, link, retrying>> /\ reload.pc # "install"
        /\ reload'.new = reload.new /\ reload'.pc = "govern"
        /\ reload.opened = <<>> /\ Taken(reload.new)
    BY <1>1, <1>8 DEF OpenChanged, Reloads, ForceInv
  <2>2. reload'.opened # <<>> => reload'.opened[1].reach = reload.new.text.reach
    <3>1. \/ reload'.opened = <<>>
          \/ reload'.opened = << [reach |-> reload.new.text.reach, module |-> files.module] >>
      BY <1>1, <1>8, <2>1 DEF OpenChanged, Reloads
    <3> QED BY <3>1
  <2> QED BY <1>2, <2>1, <2>2 DEF ForceInv, Governed, Reached, Taken
<1>9. CASE Govern
  <2>1. applied' = applied /\ reload'.pc = "install" /\ reload'.new = reload.new /\ Taken(reload.new)
    BY <1>1, <1>9 DEF Govern, Reloads, ForceInv
  <2>2. inForce'["policy"] = reload.new.text.n /\ \A p \in Parts \ {"policy"} : inForce'[p] = inForce[p]
    BY <1>1, <1>9 DEF Govern
  <2>3. Reached' = reload.new.text.reach
    BY <1>9, GovernReaches
  <2>4. Governed(reload.new.text)'
    BY <2>1, <2>2, <2>3 DEF Governed
  <2>5. Taken(reload.new)'
    BY <2>1 DEF Taken
  <2> QED BY <1>2, <2>1, <2>2, <2>4, <2>5 DEF ForceInv
<1>10. CASE Install
  <2>1. applied' = reload.new /\ reload'.pc = "audit" /\ UNCHANGED <<link, retrying>> /\ Taken(reload.new)
    BY <1>1, <1>10 DEF Install, Reloads, ForceInv
  <2>2. inForce'["policy"] = inForce["policy"] /\ \A p \in Parts \ {"policy"} : inForce'[p] = reload.new.text.n
    BY <1>1, <1>10 DEF Install
  <2>3. Governed(reload.new.text)
    BY <1>2, <1>10 DEF Install
  <2>4. Governed(applied.text)'
    BY <2>1, <2>2, <2>3 DEF Governed, Reached
  <2>5. applied'.text.kind = "good" /\ applied'.text.start = First.text.start
    BY <1>2, <2>1 DEF Taken
  <2> QED BY <2>1, <2>2, <2>4, <2>5 DEF ForceInv
<1>11. CASE Reopens
  <2>1. UNCHANGED <<applied, inForce, reload>> /\ retrying' = NoRetry /\ link'.reach = Reached
    BY <1>11 DEF Reopens, outside, Reached
  <2>2. Reached' = Reached
    BY <2>1 DEF Reached
  <2> QED BY <2>1, <2>2 DEF ForceInv, Governed, Taken
<1> QED BY <1>3, <1>4, <1>5, <1>6, <1>7, <1>8, <1>9, <1>10, <1>11 DEF ReloadNext, LoopStep

-----------------------------------------------------------------------------
LEMMA ReloadInvHolds == Spec => []ReloadInv
<1>1. Init => ReloadInv
  BY InitReload DEF Init
<1>2. ReloadInv /\ [Next]_vars => ReloadInv'
  <2> SUFFICES ASSUME ReloadInv, [Next]_vars PROVE ReloadInv'
    OBVIOUS
  <2>1. CASE ReloadNext
    BY <2>1, NextReloadType, NextOrder, NextForce DEF ReloadInv
  <2>2. CASE UNCHANGED reloadVars
    BY <2>2 DEF ReloadInv, ReloadType, OrderInv, ForceInv, Governed, Reached, Taken, ReadByNow, Precedes,
                Names, reloadVars
  <2> QED BY <2>1, <2>2 DEF Next, Keys, Looks, Config, vars
<1> QED BY <1>1, <1>2, PTL DEF Spec

LEMMA ReloadInvGives == ReloadInv => ReloadsHold
<1> SUFFICES ASSUME ReloadInv PROVE WholeOrNot /\ WatchActsOnce
  BY DEF ReloadsHold
<1>1. WatchActsOnce
  BY DEF ReloadInv, OrderInv, WatchActsOnce, HasSeen
<1>2. Parts = {"policy", "keys", "admin"}
  BY DEF Parts
<1>3. reload.pc # "install" => \A p \in Parts : inForce[p] = applied.text.n
  BY <1>2 DEF ReloadInv, ForceInv, Governed
<1>4. reload.pc # "install" => link.reach = applied.text.reach \/ retrying = applied.text.reach
  BY DEF ReloadInv, ForceInv, Governed, Reached
<1>5. applied.text.kind = "good" /\ applied.text.start = First.text.start
  BY DEF ReloadInv, ForceInv
<1>6. WholeOrNot
  BY <1>3, <1>4, <1>5 DEF WholeOrNot
<1> QED BY <1>1, <1>6

(***************************************************************************)
(* Reloader::apply: a config that is refused, or whose certificates or     *)
(* upstream do not come up, changes nothing that runs, and one that is     *)
(* taken changes all of it, however the operator writes on while it is     *)
(* read; and run: what the watch refused it refuses once.                  *)
(***************************************************************************)
THEOREM ReloadsAreWhole == Spec => []ReloadsHold
<1>1. Spec => []ReloadInv
  BY ReloadInvHolds
<1> QED BY <1>1, ReloadInvGives, PTL

-----------------------------------------------------------------------------
(***************************************************************************)
(* The keys of the provider.                                               *)
(***************************************************************************)
LEMMA LimitsType ==
  /\ MinRefresh \in Nat \ {0} /\ FetchLimit \in Nat \ {0} /\ FetchLimit < MinRefresh
  BY KeyAssumption

LEMMA InitKeys ==
  ASSUME KeyInit
  PROVE  KeyInv
<1>1. NotBegun \in [state : {"idle", "fetching", "taken", "refused"}, key : Nat, read : Nat, age : Nat]
      /\ NotBegun.state = "idle"
  BY DEF NotBegun
<1>2. KeyType
  BY <1>1, LimitsType DEF KeyInit, KeyType
<1>3. \A t \in Tokens : ~Fetching(t)
  BY <1>1 DEF KeyInit, Fetching
<1> QED BY <1>2, <1>3 DEF KeyInv, FetchInv, KeyInit, KeyType

\* Time passes only while no fetch is at its limit.
LEMMA TickKeys ==
  ASSUME KeyInv, Tick
  PROVE  KeyInv'
<1>1. /\ published \in Nat /\ held \in Nat /\ since \in 0 .. MinRefresh
      /\ token \in [Tokens -> [state : {"idle", "fetching", "taken", "refused"},
                               key : Nat, read : Nat, age : Nat]]
      /\ UNCHANGED <<published, held>>
  BY DEF KeyInv, KeyType, Tick
<1>2. \A t \in Tokens : /\ token[t].age \in Nat /\ token[t].read \in Nat
                        /\ token'[t] = IF Fetching(t) THEN [token[t] EXCEPT !.age = @ + 1] ELSE token[t]
  BY <1>1 DEF Tick, Fetching
<1>3. ASSUME NEW t \in Tokens
      PROVE  /\ Fetching(t)' <=> Fetching(t)
             /\ token'[t].read = token[t].read
             /\ token'[t].age = IF Fetching(t) THEN token[t].age + 1 ELSE token[t].age
             /\ token'[t] \in [state : {"idle", "fetching", "taken", "refused"},
                               key : Nat, read : Nat, age : Nat]
  <2>1. token[t] \in [state : {"idle", "fetching", "taken", "refused"}, key : Nat, read : Nat, age : Nat]
    BY <1>1
  <2>2. CASE Fetching(t)
    <3>1. token'[t] = [token[t] EXCEPT !.age = @ + 1]
      BY <1>2, <2>2
    <3> QED BY <2>1, <2>2, <3>1 DEF Fetching
  <2>3. CASE ~Fetching(t)
    <3>1. token'[t] = token[t]
      BY <1>2, <2>3
    <3> QED BY <2>1, <2>3, <3>1 DEF Fetching
  <2> QED BY <2>2, <2>3
<1>4. since' = (IF since < MinRefresh THEN since + 1 ELSE since)
  BY DEF Tick
<1>5. KeyType'
  <2>1. token' \in [Tokens -> [state : {"idle", "fetching", "taken", "refused"},
                               key : Nat, read : Nat, age : Nat]]
    BY <1>3 DEF Tick
  <2>2. since' \in 0 .. MinRefresh
    BY <1>1, <1>4, LimitsType
  <2> QED BY <1>1, <2>1, <2>2 DEF KeyType
<1>6. ASSUME NEW t \in Tokens, Fetching(t)
      PROVE  /\ token'[t].age = since' /\ token'[t].age <= FetchLimit
             /\ token'[t].read # 0 => held' <= token'[t].read /\ token'[t].read <= published'
  <2>1. token[t].age = since /\ token[t].age < FetchLimit
    BY <1>6 DEF KeyInv, FetchInv, Tick, Fetching
  <2>2. since < MinRefresh
    BY <1>1, <1>2, <2>1, LimitsType
  <2>3. token'[t].age = since' /\ token'[t].age <= FetchLimit
    BY <1>1, <1>2, <1>3, <1>4, <1>6, <2>1, <2>2, LimitsType
  <2> QED BY <1>1, <1>3, <1>6, <2>3 DEF KeyInv, FetchInv
<1> QED BY <1>1, <1>3, <1>5, <1>6 DEF KeyInv, FetchInv

\* A token's step that begins no fetch and reads nothing, and leaves the time alone.
LEMMA TokenMoves ==
  ASSUME KeyInv, NEW t \in Tokens, UNCHANGED <<held, published, since>>,
         token' \in [Tokens -> [state : {"idle", "fetching", "taken", "refused"},
                                key : Nat, read : Nat, age : Nat]],
         token'[t].state # "fetching", \A u \in Tokens \ {t} : token'[u] = token[u]
  PROVE  KeyInv'
<1>1. \A u \in Tokens : Fetching(u)' => Fetching(u) /\ token'[u] = token[u]
  BY DEF Fetching
<1>2. KeyType'
  BY DEF KeyInv, KeyType
<1> QED BY <1>1, <1>2 DEF KeyInv, FetchInv

LEMMA NextKeys ==
  ASSUME KeyInv, KeyNext
  PROVE  KeyInv' /\ held <= held'
<1> DEFINE Record == [state : {"idle", "fetching", "taken", "refused"}, key : Nat, read : Nat, age : Nat]
<1>1. /\ published \in Nat /\ held \in Nat /\ since \in 0 .. MinRefresh /\ held <= published
      /\ token \in [Tokens -> Record]
  BY DEF KeyInv, KeyType, FetchInv
<1>2. CASE Tick
  BY <1>1, <1>2, TickKeys DEF Tick
<1>3. CASE Rotate
  <2>1. published' = published + 1 /\ UNCHANGED <<held, since, token>>
    BY <1>3 DEF Rotate
  <2>2. \A t \in Tokens : Fetching(t)' => Fetching(t) /\ token[t].read \in Nat
    BY <1>1, <2>1 DEF Fetching
  <2> QED BY <1>1, <2>1, <2>2 DEF KeyInv, KeyType, FetchInv
<1>4. CASE ComesUp
  BY <1>1, <1>4 DEF ComesUp, KeyInv, KeyType, FetchInv, Fetching
<1>5. ASSUME NEW t \in Tokens, NEW k \in 1 .. Bogus, Present(t, k)
      PROVE  KeyInv' /\ held <= held'
  <2>1. /\ UNCHANGED <<held, published>> /\ k \in Nat /\ token[t] \in Record
    BY <1>1, <1>5 DEF Present, Bogus
  <2>2. ASSUME NEW state \in {"taken", "refused"}, UNCHANGED since,
               token' = [token EXCEPT ![t].state = state, ![t].key = k]
        PROVE  KeyInv'
    <3> DEFINE half == [token[t] EXCEPT !.state = state]
               rec  == [half EXCEPT !.key = k]
    <3>1. half \in Record /\ half.state = state
      BY <2>1, <2>2
    <3>2. rec \in Record /\ rec.state = state
      <4> HIDE DEF half
      <4> QED BY <2>1, <3>1
    <3>3. token' = [token EXCEPT ![t] = rec]
      BY <1>1, <2>2
    <3> HIDE DEF half, rec
    <3>4. token' \in [Tokens -> Record] /\ token'[t].state # "fetching"
          /\ \A u \in Tokens \ {t} : token'[u] = token[u]
      BY <1>1, <2>2, <3>2, <3>3, ZenonT(60)
    <3>5. UNCHANGED <<held, published, since>>
      BY <2>1, <2>2
    <3> QED BY <3>4, <3>5, TokenMoves
  <2>3. ASSUME ShouldAttemptRefresh,
               token' = [token EXCEPT ![t] = [state |-> "fetching", key |-> k, read |-> 0, age |-> 0]]
        PROVE  KeyInv'
    <3>1. since = MinRefresh /\ since' = 0
      BY <2>3 DEF ShouldAttemptRefresh
    <3>2. \A u \in Tokens : ~Fetching(u)
      <4> SUFFICES ASSUME NEW u \in Tokens, Fetching(u) PROVE FALSE
        OBVIOUS
      <4>1. token[u].age = since /\ token[u].age <= FetchLimit
        BY DEF KeyInv, FetchInv
      <4> QED BY <1>1, <3>1, <4>1, LimitsType
    <3>3. /\ token' \in [Tokens -> Record] /\ \A u \in Tokens : Fetching(u)' => u = t
          /\ token'[t].age = 0 /\ token'[t].read = 0
      BY <1>1, <2>1, <2>3, <3>2 DEF Fetching
    <3> QED BY <1>1, <2>1, <3>1, <3>3, LimitsType DEF KeyInv, KeyType, FetchInv
  <2> QED BY <1>1, <1>5, <2>1, <2>2, <2>3 DEF Present
<1>6. ASSUME NEW t \in Tokens, Served(t)
      PROVE  KeyInv' /\ held <= held'
  <2>1. UNCHANGED <<held, published, since>> /\ Fetching(t)
        /\ token' = [token EXCEPT ![t].read = published]
    BY <1>6 DEF Served, Fetching
  <2>2. /\ token' \in [Tokens -> Record]
        /\ \A u \in Tokens : /\ Fetching(u)' <=> Fetching(u)
                             /\ token'[u].age = token[u].age
                             /\ token'[u].read = IF u = t THEN published ELSE token[u].read
    BY <1>1, <2>1 DEF Fetching
  <2> QED BY <1>1, <2>1, <2>2 DEF KeyInv, KeyType, FetchInv
<1>7. ASSUME NEW t \in Tokens, Refreshed(t)
      PROVE  KeyInv' /\ held <= held'
  <2>1. UNCHANGED <<published, since>> /\ Fetching(t) /\ held' = token[t].read /\ token[t].read # 0
        /\ token[t].read \in Nat
    BY <1>1, <1>7 DEF Refreshed, Fetching
  <2>2. held <= token[t].read /\ token[t].read <= published
    BY <2>1 DEF KeyInv, FetchInv
  <2>3. token' \in [Tokens -> Record] /\ token'[t].state # "fetching"
        /\ \A u \in Tokens : u # t => token'[u] = token[u]
    BY <1>1, <1>7 DEF Refreshed
  <2>4. \A u \in Tokens : ~Fetching(u)'
    <3> SUFFICES ASSUME NEW u \in Tokens, Fetching(u)' PROVE FALSE
      OBVIOUS
    <3>1. u # t /\ Fetching(u)
      BY <2>3 DEF Fetching
    <3> QED BY <2>1, <3>1 DEF KeyInv, FetchInv
  <2> QED BY <1>1, <2>1, <2>2, <2>3, <2>4 DEF KeyInv, KeyType, FetchInv
<1>8. ASSUME NEW t \in Tokens, FetchFails(t) \/ TriesAgain(t)
      PROVE  KeyInv' /\ held <= held'
  <2>1. UNCHANGED <<held, published, since>> /\ token[t] \in Record /\ NotBegun \in Record
    BY <1>1, <1>8 DEF FetchFails, TriesAgain, NotBegun
  <2>2. token' \in [Tokens -> Record] /\ token'[t].state # "fetching"
        /\ \A u \in Tokens \ {t} : token'[u] = token[u]
    <3>1. CASE FetchFails(t)
      BY <1>1, <2>1, <3>1 DEF FetchFails
    <3>2. CASE TriesAgain(t)
      BY <1>1, <2>1, <3>2 DEF TriesAgain, NotBegun
    <3> QED BY <1>8, <3>1, <3>2
  <2> QED BY <1>1, <2>1, <2>2, TokenMoves
<1> QED BY <1>2, <1>3, <1>4, <1>5, <1>6, <1>7, <1>8 DEF KeyNext

LEMMA LooksLeaveKeys ==
  ASSUME KeyInv, LookNext
  PROVE  KeyInv' /\ held <= held'
<1>1. held \in Nat
  BY DEF KeyInv, KeyType
<1>2. CASE Tick
  BY <1>1, <1>2, TickKeys DEF Tick
<1>3. CASE ComesUp \/ \E s \in Lookers : Ask(s) \/ Finds(s) \/ FindsNot(s) \/ LookDropped(s) \/ AsksAgain(s)
  <2>1. UNCHANGED <<published, held, since, token>>
    BY <1>3 DEF ComesUp, Ask, Finds, FindsNot, LookDropped, AsksAgain
  <2> QED BY <1>1, <2>1 DEF KeyInv, KeyType, FetchInv, Fetching
<1> QED BY <1>2, <1>3 DEF LookNext

LEMMA StepsKeepKeys ==
  ASSUME KeyInv, [Next]_vars
  PROVE  KeyInv' /\ held <= held'
<1>1. CASE UNCHANGED keyVars
  BY <1>1 DEF keyVars, KeyInv, KeyType, FetchInv, Fetching
<1> QED BY <1>1, NextKeys, LooksLeaveKeys DEF Next, Config, vars

(***************************************************************************)
(* refresh_jwks, should_attempt_refresh: there is one fetch at a time,     *)
(* since the next is due only after the limit of the last, so that an      *)
(* older document never replaces a newer one, however slow its fetch was.  *)
(***************************************************************************)
THEOREM KeysOnlyMoveForward == Spec => KeysMoveForward
<1>1. Init => KeyInv
  BY InitKeys DEF Init
<1>2. KeyInv /\ [Next]_vars => KeyInv'
  BY StepsKeepKeys
<1>3. KeyInv /\ [Next]_vars => [held' >= held]_held
  BY StepsKeepKeys DEF KeyInv, KeyType
<1> QED BY <1>1, <1>2, <1>3, PTL DEF Spec, KeysMoveForward

-----------------------------------------------------------------------------
(***************************************************************************)
(* Which bearer tokens are taken (BearerToken), of any provider's keys, at *)
(* any time and leeway, whatever a claim's type: jsonwebtoken passes over  *)
(* what it cannot read, so that what holds of a token that is taken is     *)
(* what its checks, the claims' types and check_times come to together.    *)
(***************************************************************************)
CONSTANTS Leeway, U64Most

Token == INSTANCE BearerToken

\* A key of the provider's that the token names signed it, as a key of its family can.
SignedByProvider(verifier, bearer) ==
    /\ bearer.form \notin {"empty", "garbled"} /\ bearer.alg \in Token!AllowedAlgs
    /\ bearer.kid # Token!NoKid /\ bearer.kid \in DOMAIN verifier.keys
    /\ verifier.keys[bearer.kid] = Token!Family(bearer.alg)
    /\ bearer.signedBy = bearer.kid

\* This provider issued it, to one of these audiences, about somebody.
MeantForUs(verifier, bearer) ==
    /\ Token!Standard(bearer, "iss").kind = "string" /\ Token!Standard(bearer, "iss").text = verifier.issuer
    /\ Token!AreStrings(Token!Standard(bearer, "aud"))
    /\ \E audience \in Token!Audiences(verifier) : audience \in Token!Strings(Token!Standard(bearer, "aud"))
    /\ Token!Standard(bearer, "sub").kind = "string"
    /\ verifier.model.subject # <<"sub">> => Token!Subject(verifier.model, bearer.claims) # Token!NoSubject

\* It says when it ends, and has not; and that it began, if it says when.
InItsTime(bearer, now) ==
    LET exp == Token!Standard(bearer, "exp")  nbf == Token!Standard(bearer, "nbf") IN
    /\ exp.kind = "number" /\ exp.n >= now - Leeway /\ exp.n <= U64Most
    /\ nbf = Token!Nothing \/ (nbf.kind = "number" /\ nbf.n <= now + Leeway)

\* The claims besides that the gateway reads into a type are of that type.
OtherTypes(bearer) ==
    \A name \in {"scope", "client_id", "azp"} : Token!Standard(bearer, name).kind \in {"nothing", "null", "string"}

\* A value is a record by its kind, and the one of kind "nothing" is Nothing.
ValuesByKind(bearer) ==
    \A name \in {"exp", "nbf"} :
        LET value == Token!Standard(bearer, name) IN
        /\ value.kind = "nothing" => value = Token!Nothing
        /\ value.kind = "number" => value.n \in Int

LEMMA ClaimsCheckOut ==
  ASSUME NEW verifier, NEW bearer, NEW now \in Int, ValuesByKind(bearer),
         Leeway \in Nat, U64Most \in Nat
  PROVE  Token!Decodes(verifier, bearer, now) /\ Token!Deserializes(bearer) /\ Token!TimesHold(bearer, now)
            <=> /\ bearer.signedBy = bearer.kid /\ InItsTime(bearer, now) /\ OtherTypes(bearer)
                /\ Token!Standard(bearer, "iss").kind = "string" /\ Token!Standard(bearer, "iss").text = verifier.issuer
                /\ Token!AreStrings(Token!Standard(bearer, "aud"))
                /\ \E audience \in Token!Audiences(verifier) : audience \in Token!Strings(Token!Standard(bearer, "aud"))
                /\ Token!Standard(bearer, "sub").kind = "string"
<1> DEFINE C(name) == Token!Standard(bearer, name)
           exp == C("exp")
           nbf == C("nbf")
<1>1. /\ exp.kind = "nothing" => exp = Token!Nothing
      /\ nbf.kind = "nothing" => nbf = Token!Nothing
      /\ exp.kind = "number" => exp.n \in Int
      /\ nbf.kind = "number" => nbf.n \in Int
  BY DEF ValuesByKind
<1>2. Token!Nothing.kind = "nothing"
  BY DEF Token!Nothing
<1>3. /\ Token!Parsed(exp) # Token!Nothing <=> exp.kind = "number" /\ exp.n <= U64Most
      /\ Token!Parsed(exp) # Token!Nothing => Token!Parsed(exp) = exp
      /\ Token!Parsed(nbf) # Token!Nothing <=> nbf.kind = "number" /\ nbf.n <= U64Most
      /\ Token!Parsed(nbf) # Token!Nothing => Token!Parsed(nbf) = nbf
  BY <1>2 DEF Token!Parsed
<1>4. Token!Carries(bearer) <=>
        /\ Token!Parsed(exp) # Token!Nothing /\ Token!AreStrings(C("aud"))
        /\ C("iss").kind = "string" /\ C("sub").kind = "string"
  <2>1. \A name \in Token!Required : name \in {"exp", "iss", "aud", "sub"}
    BY DEF Token!Required
  <2> QED BY <2>1 DEF Token!Carries, Token!Required
<1>5. Token!Decodes(verifier, bearer, now) <=>
        /\ bearer.signedBy = bearer.kid /\ Token!Carries(bearer)
        /\ Token!Parsed(exp) # Token!Nothing => Token!Parsed(exp).n >= now - Leeway
        /\ Token!Parsed(nbf) # Token!Nothing => Token!Parsed(nbf).n <= now + Leeway
        /\ C("iss").kind = "string" => C("iss").text = verifier.issuer
        /\ Token!AreStrings(C("aud")) => Token!Strings(C("aud")) \cap Token!Audiences(verifier) # {}
  BY DEF Token!Decodes
<1>6. Token!Deserializes(bearer) <=>
        /\ C("sub").kind = "string" /\ C("iss").kind = "string" /\ exp.kind = "number"
        /\ nbf.kind \in {"nothing", "number"} /\ OtherTypes(bearer)
  BY DEF Token!Deserializes, OtherTypes
<1>7. Token!TimesHold(bearer, now) <=> exp.n >= now - Leeway /\ (nbf # Token!Nothing => nbf.n <= now + Leeway)
  BY DEF Token!TimesHold
<1>8. InItsTime(bearer, now) <=>
        /\ exp.kind = "number" /\ exp.n >= now - Leeway /\ exp.n <= U64Most
        /\ nbf = Token!Nothing \/ (nbf.kind = "number" /\ nbf.n <= now + Leeway)
  BY DEF InItsTime
<1>9. Token!Strings(C("aud")) \cap Token!Audiences(verifier) # {} <=>
        \E audience \in Token!Audiences(verifier) : audience \in Token!Strings(C("aud"))
  OBVIOUS
<1> HIDE DEF exp, nbf, C
<1>10. ASSUME InItsTime(bearer, now), C("iss").kind = "string", C("sub").kind = "string", OtherTypes(bearer)
       PROVE  Token!Deserializes(bearer) /\ Token!TimesHold(bearer, now)
  BY <1>2, <1>6, <1>7, <1>8, <1>10
<1>11. ASSUME Token!Decodes(verifier, bearer, now), Token!Deserializes(bearer), Token!TimesHold(bearer, now)
       PROVE  InItsTime(bearer, now)
  BY <1>1, <1>2, <1>3, <1>4, <1>5, <1>6, <1>7, <1>8, <1>11
<1>12. ASSUME bearer.signedBy = bearer.kid, InItsTime(bearer, now),
              C("iss").kind = "string", C("iss").text = verifier.issuer, Token!AreStrings(C("aud")),
              Token!Strings(C("aud")) \cap Token!Audiences(verifier) # {}, C("sub").kind = "string"
       PROVE  Token!Decodes(verifier, bearer, now)
  BY <1>1, <1>2, <1>3, <1>4, <1>5, <1>8, <1>12
<1> QED BY <1>4, <1>5, <1>6, <1>9, <1>10, <1>11, <1>12 DEF C

\* Verifier::verify_claims takes exactly the tokens that a key of the provider's signed,
\* that are meant for this gateway and are in their time, and says whom they are about:
\* a mapped subject that is not empty, or the claim itself.
THEOREM TokensAreSound ==
  ASSUME NEW verifier, NEW bearer, NEW now \in Int, ValuesByKind(bearer),
         Leeway \in Nat, U64Most \in Nat
  PROVE  LET verdict == Token!VerifyClaims(verifier, bearer, now) IN
         /\ verdict.refused = "no" <=>
               /\ SignedByProvider(verifier, bearer) /\ MeantForUs(verifier, bearer)
               /\ InItsTime(bearer, now) /\ OtherTypes(bearer)
         /\ verdict.refused = "no" =>
               verdict.subject = IF verifier.model.subject = <<"sub">> THEN Token!Standard(bearer, "sub").text
                                 ELSE Token!Subject(verifier.model, bearer.claims).text
<1> DEFINE verdict == Token!VerifyClaims(verifier, bearer, now)
           checked == Token!Decodes(verifier, bearer, now) /\ Token!Deserializes(bearer) /\ Token!TimesHold(bearer, now)
           unnamed == verifier.model.subject # <<"sub">> /\ Token!SubOf(verifier, bearer) = Token!NoSubject
           taken == /\ bearer.form # "empty" /\ bearer.form # "garbled" /\ bearer.alg \in Token!AllowedAlgs
                    /\ bearer.kid # Token!NoKid /\ bearer.kid \in DOMAIN verifier.keys
                    /\ Token!Family(bearer.alg) = verifier.keys[bearer.kid] /\ checked /\ ~unnamed
<1>1. unnamed <=> verifier.model.subject # <<"sub">> /\ Token!Subject(verifier.model, bearer.claims) = Token!NoSubject
  BY DEF Token!SubOf
<1>2. taken <=> /\ SignedByProvider(verifier, bearer) /\ MeantForUs(verifier, bearer)
                /\ InItsTime(bearer, now) /\ OtherTypes(bearer)
  <2> HIDE DEF unnamed
  <2> QED BY <1>1, ClaimsCheckOut DEF SignedByProvider, MeantForUs
<1>3. ASSUME taken PROVE verdict.refused = "no" /\ verdict.subject = Token!SubOf(verifier, bearer).text
  <2>1. verdict = [refused |-> "no", subject |-> Token!SubOf(verifier, bearer).text, scopes |-> Token!Scopes(bearer),
                   roles |-> Token!RolesOf(verifier.model, bearer.claims)]
    BY <1>3 DEF Token!VerifyClaims
  <2> QED BY <2>1
<1>4. ASSUME ~taken PROVE verdict.refused # "no"
  <2> DEFINE given == [refused |-> "no", subject |-> Token!SubOf(verifier, bearer).text, scopes |-> Token!Scopes(bearer),
                       roles |-> Token!RolesOf(verifier.model, bearer.claims)]
             allowed == bearer.alg \in Token!AllowedAlgs
             named == bearer.kid \in DOMAIN verifier.keys
             wrong == \/ Token!Family(bearer.alg) # verifier.keys[bearer.kid]
                      \/ ~Token!Decodes(verifier, bearer, now) \/ ~Token!Deserializes(bearer)
                      \/ ~Token!TimesHold(bearer, now)
                      \/ unnamed
  <2>1. verdict = IF bearer.form = "empty" THEN Token!Refused("missing")
                  ELSE IF bearer.form = "garbled" THEN Token!Refused("malformed")
                  ELSE IF ~allowed THEN Token!Refused("invalid")
                  ELSE IF bearer.kid = Token!NoKid THEN Token!Refused("malformed")
                  ELSE IF ~named THEN Token!Refused("unknown key")
                  ELSE IF wrong THEN Token!Refused("invalid") ELSE given
    BY DEF Token!VerifyClaims
  <2>2. bearer.form = "empty" \/ bearer.form = "garbled" \/ ~allowed \/ bearer.kid = Token!NoKid \/ ~named \/ wrong
    BY <1>4
  <2> HIDE DEF verdict, given, allowed, named, wrong
  <2>3. \/ verdict = Token!Refused("missing") \/ verdict = Token!Refused("malformed")
        \/ verdict = Token!Refused("invalid") \/ verdict = Token!Refused("unknown key")
    BY <2>1, <2>2
  <2>4. /\ Token!Refused("missing").refused # "no" /\ Token!Refused("malformed").refused # "no"
        /\ Token!Refused("invalid").refused # "no" /\ Token!Refused("unknown key").refused # "no"
    BY DEF Token!Refused
  <2> QED BY <2>3, <2>4
<1> HIDE DEF verdict, taken
<1> QED BY <1>2, <1>3, <1>4 DEF verdict, Token!SubOf

\* Verifier::verify_id_token: a sign-in takes only a token that verify_claims takes, with
\* the nonce that it was asked with, issued not later than now, and for this client: it is
\* the authorized party where one is named, and where none is the one audience there is.
THEOREM IdTokensAnswer ==
  ASSUME NEW verifier, NEW bearer, NEW nonce, NEW now \in Int, ValuesByKind(bearer),
         Leeway \in Nat, U64Most \in Nat
  PROVE  Token!VerifyIdToken(verifier, bearer, nonce, now).refused = "no" <=>
            /\ SignedByProvider(verifier, bearer) /\ MeantForUs(verifier, bearer)
            /\ InItsTime(bearer, now) /\ OtherTypes(bearer)
            /\ Token!Standard(bearer, "nonce") = Token!Str(nonce)
            /\ Token!Standard(bearer, "iat").kind = "number" /\ Token!Standard(bearer, "iat").n <= now + Leeway
            /\ IF Token!Standard(bearer, "azp").kind = "string"
               THEN Token!Standard(bearer, "azp").text = verifier.resource
               ELSE Token!HowMany(Token!Standard(bearer, "aud")) <= 1
<1> DEFINE verdict == Token!VerifyClaims(verifier, bearer, now)
           replies == /\ Token!Standard(bearer, "nonce") = Token!Str(nonce)
                      /\ IF Token!Standard(bearer, "azp").kind = "string"
                         THEN Token!Standard(bearer, "azp").text = verifier.resource
                         ELSE Token!HowMany(Token!Standard(bearer, "aud")) <= 1
                      /\ Token!Standard(bearer, "iat").kind = "number" /\ Token!Standard(bearer, "iat").n <= now + Leeway
<1>1. verdict.refused = "no" <=>
        /\ SignedByProvider(verifier, bearer) /\ MeantForUs(verifier, bearer)
        /\ InItsTime(bearer, now) /\ OtherTypes(bearer)
  BY TokensAreSound
<1>2. Token!VerifyIdToken(verifier, bearer, nonce, now) =
        IF verdict.refused # "no" \/ replies THEN verdict ELSE Token!Refused("invalid")
  BY DEF Token!VerifyIdToken
<1>3. Token!Refused("invalid").refused # "no"
  BY DEF Token!Refused
<1> HIDE DEF verdict
<1>4. Token!VerifyIdToken(verifier, bearer, nonce, now).refused = "no" <=> verdict.refused = "no" /\ replies
  <2> HIDE DEF replies
  <2> QED BY <1>2, <1>3
<1> QED BY <1>1, <1>4

=================================================================================
