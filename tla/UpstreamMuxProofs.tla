--------------------------- MODULE UpstreamMuxProofs ---------------------------
(***************************************************************************)
(* Proofs about UpstreamMux, for any number of calls and slots, any route  *)
(* and any ids of the opening.                                             *)
(***************************************************************************)
EXTENDS UpstreamMux, FiniteSetTheorems, SequenceTheorems, TLAPS

\* What the command queue holds after a command is appended.
LEMMA AppendedCommands ==
    ASSUME NEW S, NEW q \in Seq(S), NEW x \in S
    PROVE  /\ Append(q, x) \in Seq(S)
           /\ ToSet(Append(q, x)) = ToSet(q) \cup {x}
  <1>1. Append(q, x) \in Seq(S) /\ Len(Append(q, x)) = Len(q) + 1 /\ Len(q) \in Nat
    OBVIOUS
  <1>2. \A i \in 1 .. Len(q) : Append(q, x)[i] = q[i]
    OBVIOUS
  <1>3. Append(q, x)[Len(q) + 1] = x
    OBVIOUS
  <1>4. DOMAIN q = 1 .. Len(q) /\ DOMAIN Append(q, x) = 1 .. Len(q) + 1
    BY <1>1
  <1> QED
    BY <1>1, <1>2, <1>3, <1>4 DEF ToSet

\* What the command queue holds before and after its head is taken.
LEMMA TakenCommands ==
    ASSUME NEW S, NEW q \in Seq(S), q # <<>>
    PROVE  /\ Head(q) \in S /\ Tail(q) \in Seq(S)
           /\ ToSet(q) = ToSet(Tail(q)) \cup {Head(q)}
  <1>1. Tail(q) \in Seq(S) /\ Len(Tail(q)) = Len(q) - 1 /\ Len(q) \in Nat \ {0} /\ Head(q) = q[1]
    OBVIOUS
  <1>2. \A i \in 1 .. Len(q) - 1 : Tail(q)[i] = q[i + 1]
    OBVIOUS
  <1>3. DOMAIN q = 1 .. Len(q) /\ DOMAIN Tail(q) = 1 .. Len(q) - 1
    BY <1>1
  <1>4. ASSUME NEW x \in ToSet(q) PROVE x \in ToSet(Tail(q)) \cup {Head(q)}
    <2>1. PICK i \in 1 .. Len(q) : x = q[i]
      BY <1>3 DEF ToSet
    <2>2. CASE i = 1
      BY <2>1, <2>2, <1>1
    <2>3. CASE i # 1
      <3>1. i - 1 \in 1 .. Len(q) - 1 /\ x = Tail(q)[i - 1]
        BY <2>1, <2>3, <1>1, <1>2
      <3> QED
        BY <3>1, <1>3 DEF ToSet
    <2> QED
      BY <2>2, <2>3
  <1>5. ToSet(Tail(q)) \subseteq ToSet(q)
    BY <1>1, <1>2, <1>3 DEF ToSet
  <1>6. Head(q) \in ToSet(q) /\ Head(q) \in S
    BY <1>1, <1>3 DEF ToSet
  <1> QED
    BY <1>1, <1>4, <1>5, <1>6

\* Type correctness, action by action.
LEMMA TypeStep == TypeOK /\ [Next]_vars => TypeOK'
  <1> SUFFICES ASSUME TypeOK, [Next]_vars PROVE TypeOK'
    OBVIOUS
  <1> USE CallsAssumption, RouteAssumption, LimitAssumption, IdAssumption
  <1> USE DEF TypeOK, Steps, Outcomes, Reasons, Answer,
              callVars, idVars, queueVars, taskVars, peerVars
  <1>0. NoAnswer \in Answer /\ \A k \in {"down", "failed", "lost"} : Verdict(k) \in Answer
    BY DEF NoAnswer, Verdict
  <1>r. route' \in Routes
    BY DEF Next, vars
  <1> USE <1>r
  <1>1. ASSUME NEW c \in Calls, Caller(c) PROVE TypeOK'
    <2>1. CASE BeginDown(c)
      BY <2>1 DEF BeginDown, Return
    <2>2. CASE Begin(c)
      BY <2>2 DEF Begin
    <2>3. CASE Acquire(c)
      BY <2>3 DEF Acquire
    <2>4. CASE Submit(c)
      <3>1. [kind |-> "call", call |-> c] \in Command
        BY DEF Command
      <3>2. queue' \in Seq(Command)
        BY <2>4, <3>1, AppendedCommands DEF Submit
      <3> QED
        BY <2>4, <3>2 DEF Submit
    <2>5. CASE SubmitLate(c)
      BY <2>5 DEF SubmitLate, Return
    <2>6. CASE StartExchange(c)
      BY <2>6 DEF StartExchange
    <2>7. CASE ExchangeAnswered(c)
      <3>1. PICK result \in {"ok", "failed"} : Return(c, result)
        BY <2>7 DEF ExchangeAnswered
      <3>2. answer' = answer \/ answer' = [answer EXCEPT ![c] = [kind |-> "ok", of |-> c]]
        BY <2>7 DEF ExchangeAnswered
      <3>3. answer' \in [Calls -> Answer]
        <4>1. [kind |-> "ok", of |-> c] \in Answer
          OBVIOUS
        <4> HIDE DEF Answer
        <4> QED
          BY <3>2, <4>1
      <3>4. pc' \in [Calls -> Steps] /\ outcome' \in [Calls -> Outcomes]
        BY <3>1 DEF Return
      <3>5. UNCHANGED <<id, nextId, queue, actor, sending, waiting, peer, served, inbox, down, failures,
                       open>>
        BY <2>7 DEF ExchangeAnswered
      <3>6. holding' \subseteq Calls
        BY <2>7 DEF ExchangeAnswered
      <3> QED
        BY <3>3, <3>4, <3>5, <3>6
    <2>8. CASE ExchangeLost(c)
      BY <2>8 DEF ExchangeLost, Return, SetDown
    <2>9. CASE ExchangeFailed(c)
      BY <2>9 DEF ExchangeFailed, Return
    <2>10. CASE Receive(c)
      BY <2>10 DEF Receive, Return
    <2>11. ASSUME Leave(c) PROVE queue' \in Seq(Command) /\ holding' \subseteq Calls
      <3>1. [kind |-> "forget", call |-> c] \in Command
        BY DEF Command
      <3> QED
        BY <2>11, <3>1, AppendedCommands DEF Leave
    <2>12. CASE Timeout(c)
      <3>1. queue' \in Seq(Command) /\ holding' \subseteq Calls
        BY <2>11, <2>12 DEF Timeout
      <3> QED
        BY <2>12, <3>1 DEF Timeout, Return
    <2>13. CASE Drop(c)
      <3>1. queue' \in Seq(Command) /\ holding' \subseteq Calls
        BY <2>11, <2>13 DEF Drop
      <3> QED
        BY <2>13, <3>1 DEF Drop
    <2>14. CASE Tally(c)
      BY <2>14 DEF Tally, SetDown
    <2> QED
      BY <1>1, <2>1, <2>2, <2>3, <2>4, <2>5, <2>6, <2>7, <2>8, <2>9, <2>10, <2>12, <2>13, <2>14
      DEF Caller
  <1>2. CASE DropHandles
    BY <1>2 DEF DropHandles
  <1>3. ASSUME NEW kind, NextCommand(kind) 
        PROVE Head(queue) \in Command /\ Head(queue).call \in Calls /\ Tail(queue) \in Seq(Command)
    <2>1. Head(queue) \in Command /\ Tail(queue) \in Seq(Command)
      BY <1>3, TakenCommands DEF NextCommand
    <2> QED
      BY <2>1 DEF Command
  <1>4. CASE TakeCommand
    <2>1. Head(queue).call \in Calls /\ Tail(queue) \in Seq(Command)
      BY <1>3, <1>4 DEF TakeCommand, TakeAbandoned, TakeDown, TakeCall, TakeForget
    <2>2. CASE TakeAbandoned
      BY <2>1, <2>2 DEF TakeAbandoned
    <2>3. CASE TakeDown
      BY <1>0, <2>1, <2>3 DEF TakeDown, Finish, Send
    <2>4. CASE TakeCall
      BY <2>1, <2>4 DEF TakeCall
    <2>5. CASE TakeForget
      BY <2>1, <2>5 DEF TakeForget
    <2> QED
      BY <1>4, <2>2, <2>3, <2>4, <2>5 DEF TakeCommand
  <1>5. CASE WriteDone
    BY <1>5 DEF WriteDone
  <1>6. CASE WriteLost
    BY <1>0, <1>6 DEF WriteLost, Finish, Send, SetDown
  <1>7. CASE WriteFailed
    BY <1>0, <1>7 DEF WriteFailed, Finish, Send
  <1>8. CASE InlineRun
    BY <1>0, <1>8 DEF InlineRun, Finish, Send
  <1>9. CASE InlineLost
    BY <1>0, <1>9 DEF InlineLost, Stop, SetDown, Finish, Send
  <1>10. ASSUME NEW reply \in inbox, RouteReply(reply) PROVE TypeOK'
    <2>1. [kind |-> "ok", of |-> reply.of] \in Answer
      BY DEF Reply
    <2> QED
      BY <1>10, <2>1 DEF RouteReply, Finish, Send, Matching
  <1>11. ASSUME NEW reply \in inbox, DropUnreadable(reply) PROVE TypeOK'
    BY <1>11 DEF DropUnreadable
  <1>12. CASE ReadEnd
    BY <1>0, <1>12 DEF ReadEnd, Stop, SetDown, Finish, Send
  <1>13. CASE StopUnused
    BY <1>13 DEF StopUnused
  <1>14. CASE Exit
    <2>1. <<>> \in Seq(Command)
      BY EmptySeq
    <2> QED
      BY <1>0, <1>14, <2>1 DEF Exit, Finish, Send
  <1>15. CASE Upstream
    BY <1>15 DEF Upstream, UpstreamAnswers, UpstreamGoes, Reply
  <1>16. CASE UNCHANGED vars
    BY <1>16 DEF vars, state
  <1> QED
    BY <1>1, <1>2, <1>4, <1>5, <1>6, <1>7, <1>8, <1>9, <1>10, <1>11, <1>12, <1>13, <1>14, <1>15, <1>16
    DEF Next, ActorTask, Write

\* Giving slots back never goes past the cap.
LEMMA FewerHeld ==
    ASSUME holding \subseteq Calls, Cardinality(holding) <= MaxInflight, NEW S
    PROVE  Cardinality(holding \ S) <= MaxInflight
  <1>1. IsFiniteSet(holding) /\ holding \ S \subseteq holding
    BY FS_Subset, CallsAssumption
  <1>2. Cardinality(holding \ S) <= Cardinality(holding)
    BY <1>1, FS_Subset
  <1>3. Cardinality(holding) \in Nat /\ Cardinality(holding \ S) \in Nat
    BY <1>1, FS_Subset, FS_CardinalityType
  <1> QED
    BY <1>2, <1>3, LimitAssumption

\* A slot given out below the cap stays within it.
LEMMA OneMoreHeld ==
    ASSUME holding \subseteq Calls, Cardinality(holding) < MaxInflight, NEW c \in Calls
    PROVE  Cardinality(holding \cup {c}) <= MaxInflight
  <1>1. IsFiniteSet(holding)
    BY FS_Subset, CallsAssumption
  <1>2. Cardinality(holding) \in Nat
    BY <1>1, FS_CardinalityType
  <1>3. Cardinality(holding \cup {c}) <= Cardinality(holding) + 1
    BY <1>1, <1>2, FS_AddElement
  <1>4. Cardinality(holding \cup {c}) \in Nat
    BY <1>1, FS_AddElement, FS_CardinalityType
  <1> QED
    BY <1>2, <1>3, <1>4, LimitAssumption

\* The inductive invariant, first through the steps of the callers' tasks.
LEMMA CallerStep ==
    ASSUME MuxInv, TypeOK', route' = route, NEW c \in Calls, Caller(c)
    PROVE  MuxInv'
  <1> USE CallsAssumption, RouteAssumption, LimitAssumption, IdAssumption
  <1> USE DEF MuxInv, TypeOK, Steps, Outcomes, Answer, NoAnswer, Verdict, Active, Suspended,
              callVars, idVars, queueVars, taskVars, peerVars
  <1>a. \A S : Cardinality(holding \ S) <= MaxInflight
    BY FewerHeld DEF SlotsHeld
  <1>b. ASSUME Leave(c), pc[c] \in Suspended
        PROVE  /\ ToSet(queue) \subseteq ToSet(queue')
               /\ ToSet(queue') \subseteq ToSet(queue) \cup {[kind |-> "forget", call |-> c]}
               /\ Cardinality(holding') <= MaxInflight
               /\ holding \ {c} \subseteq holding' /\ holding' \subseteq holding
               /\ c \in holding' => pc[c] = "acquire" \/ route # "direct"
    <2>0. /\ Cardinality(holding') <= MaxInflight
          /\ holding \ {c} \subseteq holding' /\ holding' \subseteq holding
          /\ c \in holding' => pc[c] = "acquire" \/ route # "direct"
      BY <1>a, <1>b DEF Leave, SlotsHeld
    <2>1. CASE queue' = queue
      BY <2>0, <2>1
    <2>2. CASE queue' = Append(queue, [kind |-> "forget", call |-> c])
      <3>1. [kind |-> "forget", call |-> c] \in Command
        BY DEF Command
      <3>2. ToSet(queue') = ToSet(queue) \cup {[kind |-> "forget", call |-> c]}
        BY <2>2, <3>1, AppendedCommands
      <3> QED
        BY <2>0, <3>2
    <2> QED
      BY <1>b, <2>1, <2>2 DEF Leave
  <1>1. CASE BeginDown(c)
    <2>1. IdsUnique' /\ RepliesTraced'
      BY <1>1 DEF IdsUnique, RepliesTraced, Numbered, BeginDown, Return
    <2>2. TasksAgree'
      BY <1>1 DEF TasksAgree, Queued, Numbered, IdsUnique, BeginDown, Return
    <2>3. SlotsHeld'
      BY <1>1 DEF SlotsHeld, TasksAgree, Queued, BeginDown, Return
    <2>4. OwnReply'
      BY <1>1 DEF OwnReply, TasksAgree, BeginDown, Return
    <2>5. SlotHasOwner'
      BY <1>1 DEF SlotHasOwner, Queued, BeginDown, Return
    <2>6. ResultAfterSlot'
      BY <1>1 DEF ResultAfterSlot, TasksAgree, SlotsHeld, BeginDown, Return
    <2> QED
      BY <2>1, <2>2, <2>3, <2>4, <2>5, <2>6
  <1>2. CASE Begin(c)
    <2>1. IdsUnique' /\ RepliesTraced'
      BY <1>2 DEF IdsUnique, RepliesTraced, Numbered, Begin
    <2>2. TasksAgree'
      BY <1>2 DEF TasksAgree, Queued, Numbered, IdsUnique, Begin
    <2>3. SlotsHeld'
      BY <1>2 DEF SlotsHeld, TasksAgree, Queued, Begin
    <2>4. OwnReply'
      BY <1>2 DEF OwnReply, TasksAgree, Begin
    <2>5. SlotHasOwner'
      BY <1>2 DEF SlotHasOwner, Queued, Begin
    <2>6. ResultAfterSlot'
      BY <1>2 DEF ResultAfterSlot, TasksAgree, SlotsHeld, Begin
    <2> QED
      BY <2>1, <2>2, <2>3, <2>4, <2>5, <2>6
  <1>3. CASE Acquire(c)
    <2>0. Cardinality(holding') <= MaxInflight
      BY <1>3, OneMoreHeld DEF Acquire
    <2>1. IdsUnique' /\ RepliesTraced'
      BY <1>3 DEF IdsUnique, RepliesTraced, Numbered, Acquire
    <2>2. TasksAgree'
      BY <1>3 DEF TasksAgree, Queued, Numbered, IdsUnique, Acquire
    <2>3. SlotsHeld'
      BY <1>3, <2>0 DEF SlotsHeld, TasksAgree, Queued, Acquire
    <2>4. OwnReply'
      BY <1>3 DEF OwnReply, TasksAgree, Acquire
    <2>5. SlotHasOwner'
      BY <1>3, ZenonT(60) DEF SlotHasOwner, Queued, Acquire
    <2>6. ResultAfterSlot'
      BY <1>3 DEF ResultAfterSlot, TasksAgree, SlotsHeld, Acquire
    <2> QED
      BY <2>1, <2>2, <2>3, <2>4, <2>5, <2>6
  <1>4. CASE Submit(c)
    <2>0. ToSet(queue') = ToSet(queue) \cup {[kind |-> "call", call |-> c]}
      <3>1. [kind |-> "call", call |-> c] \in Command
        BY DEF Command
      <3> QED
        BY <1>4, <3>1, AppendedCommands DEF Submit
    <2>1. IdsUnique' /\ RepliesTraced'
      BY <1>4, <2>0 DEF IdsUnique, RepliesTraced, Numbered, Submit
    <2>2. TasksAgree'
      BY <1>4, <2>0 DEF TasksAgree, Queued, Numbered, IdsUnique, Submit
    <2>3. SlotsHeld'
      BY <1>4, <2>0 DEF SlotsHeld, TasksAgree, Queued, Submit
    <2>4. OwnReply'
      BY <1>4, <2>0 DEF OwnReply, TasksAgree, Submit
    <2>5. SlotHasOwner'
      BY <1>4, <2>0 DEF SlotHasOwner, Queued, Submit
    <2>6. ResultAfterSlot'
      BY <1>4, <2>0 DEF ResultAfterSlot, TasksAgree, SlotsHeld, Submit
    <2> QED
      BY <2>1, <2>2, <2>3, <2>4, <2>5, <2>6
  <1>5. CASE SubmitLate(c)
    <2>1. IdsUnique' /\ RepliesTraced'
      BY <1>5 DEF IdsUnique, RepliesTraced, Numbered, SubmitLate, Return
    <2>2. TasksAgree'
      BY <1>5 DEF TasksAgree, Queued, Numbered, IdsUnique, SubmitLate, Return
    <2>3. SlotsHeld'
      <3>1. Cardinality(holding') <= MaxInflight
        BY <1>5, <1>a DEF SubmitLate
      <3>2. \A d \in Calls : pc'[d] = IF d = c THEN "tally" ELSE pc[d]
        BY <1>5 DEF SubmitLate, Return
      <3>3. holding' = holding \ {c} /\ answer' = answer
        BY <1>5 DEF SubmitLate
      <3> QED
        BY <3>1, <3>2, <3>3 DEF SlotsHeld
    <2>4. OwnReply'
      BY <1>5 DEF OwnReply, TasksAgree, SubmitLate, Return
    <2>5. SlotHasOwner'
      BY <1>5 DEF SlotHasOwner, Queued, SubmitLate, Return
    <2>6. ResultAfterSlot'
      BY <1>5 DEF ResultAfterSlot, TasksAgree, SlotsHeld, SubmitLate, Return
    <2> QED
      BY <2>1, <2>2, <2>3, <2>4, <2>5, <2>6
  <1>6. CASE StartExchange(c)
    <2>1. IdsUnique' /\ RepliesTraced'
      BY <1>6 DEF IdsUnique, RepliesTraced, Numbered, StartExchange
    <2>2. TasksAgree'
      BY <1>6 DEF TasksAgree, Queued, Numbered, IdsUnique, StartExchange
    <2>3. SlotsHeld'
      BY <1>6 DEF SlotsHeld, TasksAgree, Queued, StartExchange
    <2>4. OwnReply'
      BY <1>6 DEF OwnReply, TasksAgree, StartExchange
    <2>5. SlotHasOwner'
      BY <1>6 DEF SlotHasOwner, Queued, StartExchange
    <2>6. ResultAfterSlot'
      BY <1>6 DEF ResultAfterSlot, TasksAgree, SlotsHeld, StartExchange
    <2> QED
      BY <2>1, <2>2, <2>3, <2>4, <2>5, <2>6
  <1>7. CASE ExchangeAnswered(c)
    <2>0. /\ pc[c] = "waiting" /\ pc' = [pc EXCEPT ![c] = "tally"]
          /\ holding' = holding \ {c}
          /\ answer' = answer \/ answer' = [answer EXCEPT ![c] = [kind |-> "ok", of |-> c]]
          /\ UNCHANGED <<id, nextId, queue, actor, sending, waiting, peer, served, inbox, open>>
      BY <1>7 DEF ExchangeAnswered, Return
    <2>a. Cardinality(holding') <= MaxInflight
      BY <1>a, <2>0
    <2>b. \A d \in Calls : answer'[d] = answer[d] \/ (d = c /\ answer'[d] = [kind |-> "ok", of |-> c])
      BY <2>0
    <2>c. [kind |-> "ok", of |-> c].of = c
      OBVIOUS
    <2>1. IdsUnique' /\ RepliesTraced'
      BY <2>0 DEF IdsUnique, RepliesTraced, Numbered
    <2>2. TasksAgree'
      BY <2>0 DEF TasksAgree, Queued, Numbered, IdsUnique
    <2>3. SlotsHeld'
      BY <2>0, <2>a, <2>b DEF SlotsHeld, TasksAgree, Queued
    <2>4. OwnReply'
      BY <2>b, <2>c DEF OwnReply, TasksAgree
    <2>5. SlotHasOwner'
      BY <2>0 DEF SlotHasOwner, Queued
    <2>6. ResultAfterSlot'
      BY <2>0, <2>b DEF ResultAfterSlot, TasksAgree, SlotsHeld
    <2> QED
      BY <2>1, <2>2, <2>3, <2>4, <2>5, <2>6
  <1>8. CASE ExchangeLost(c)
    <2>0. Cardinality(holding') <= MaxInflight
      BY <1>a, <1>8 DEF ExchangeLost
    <2>1. IdsUnique' /\ RepliesTraced'
      BY <1>8 DEF IdsUnique, RepliesTraced, Numbered, ExchangeLost, Return
    <2>2. TasksAgree'
      BY <1>8 DEF TasksAgree, Queued, Numbered, IdsUnique, ExchangeLost, Return
    <2>3. SlotsHeld'
      BY <1>8, <2>0 DEF SlotsHeld, TasksAgree, Queued, ExchangeLost, Return
    <2>4. OwnReply'
      BY <1>8 DEF OwnReply, TasksAgree, ExchangeLost, Return
    <2>5. SlotHasOwner'
      BY <1>8 DEF SlotHasOwner, Queued, ExchangeLost, Return
    <2>6. ResultAfterSlot'
      BY <1>8 DEF ResultAfterSlot, TasksAgree, SlotsHeld, ExchangeLost, Return
    <2> QED
      BY <2>1, <2>2, <2>3, <2>4, <2>5, <2>6
  <1>9. CASE ExchangeFailed(c)
    <2>0. Cardinality(holding') <= MaxInflight
      BY <1>a, <1>9 DEF ExchangeFailed
    <2>1. IdsUnique' /\ RepliesTraced'
      BY <1>9 DEF IdsUnique, RepliesTraced, Numbered, ExchangeFailed, Return
    <2>2. TasksAgree'
      BY <1>9 DEF TasksAgree, Queued, Numbered, IdsUnique, ExchangeFailed, Return
    <2>3. SlotsHeld'
      BY <1>9, <2>0 DEF SlotsHeld, TasksAgree, Queued, ExchangeFailed, Return
    <2>4. OwnReply'
      BY <1>9 DEF OwnReply, TasksAgree, ExchangeFailed, Return
    <2>5. SlotHasOwner'
      BY <1>9 DEF SlotHasOwner, Queued, ExchangeFailed, Return
    <2>6. ResultAfterSlot'
      BY <1>9 DEF ResultAfterSlot, TasksAgree, SlotsHeld, ExchangeFailed, Return
    <2> QED
      BY <2>1, <2>2, <2>3, <2>4, <2>5, <2>6
  <1>10. CASE Receive(c)
    <2>1. IdsUnique' /\ RepliesTraced'
      BY <1>10 DEF IdsUnique, RepliesTraced, Numbered, Receive, Return
    <2>2. TasksAgree'
      BY <1>10 DEF TasksAgree, Queued, Numbered, IdsUnique, Receive, Return
    <2>3. SlotsHeld'
      BY <1>10 DEF SlotsHeld, TasksAgree, Queued, Receive, Return
    <2>4. OwnReply'
      BY <1>10 DEF OwnReply, TasksAgree, Receive, Return
    <2>5. SlotHasOwner'
      BY <1>10 DEF SlotHasOwner, Queued, Receive, Return
    <2>6. ResultAfterSlot'
      BY <1>10 DEF ResultAfterSlot, TasksAgree, SlotsHeld, Receive, Return
    <2> QED
      BY <2>1, <2>2, <2>3, <2>4, <2>5, <2>6
  <1>11. CASE Timeout(c)
    <2>0. Leave(c) /\ pc[c] \in Suspended
      BY <1>11 DEF Timeout
    <2>1. IdsUnique' /\ RepliesTraced'
      BY <1>11, <1>b, <2>0 DEF IdsUnique, RepliesTraced, Numbered, Timeout, Return
    <2>2. TasksAgree'
      BY <1>11, <1>b, <2>0 DEF TasksAgree, Queued, Numbered, IdsUnique, Timeout, Return
    <2>3. SlotsHeld'
      BY <1>11, <1>b, <2>0 DEF SlotsHeld, TasksAgree, Queued, Timeout, Return
    <2>4. OwnReply'
      BY <1>11, <1>b, <2>0 DEF OwnReply, TasksAgree, Timeout, Return
    <2>5. SlotHasOwner'
      <3>1. \A d \in Calls : pc'[d] = IF d = c THEN "tally" ELSE pc[d]
        BY <1>11 DEF Timeout, Return
      <3>2. holding' \subseteq holding /\ (c \in holding' => pc[c] = "acquire" \/ route # "direct")
        BY <1>b, <2>0
      <3>3. waiting' = waiting /\ Queued \subseteq Queued'
        BY <1>11, <1>b, <2>0 DEF Timeout, Queued
      <3> QED
        BY <2>0, <3>1, <3>2, <3>3 DEF SlotHasOwner
    <2>6. ResultAfterSlot'
      BY <1>11, <1>b, <2>0 DEF ResultAfterSlot, TasksAgree, SlotsHeld, Timeout, Return
    <2> QED
      BY <2>1, <2>2, <2>3, <2>4, <2>5, <2>6
  <1>12. CASE Drop(c)
    <2>0. Leave(c) /\ pc[c] \in Suspended
      BY <1>12 DEF Drop
    <2>1. IdsUnique' /\ RepliesTraced'
      BY <1>12, <1>b, <2>0 DEF IdsUnique, RepliesTraced, Numbered, Drop
    <2>2. TasksAgree'
      BY <1>12, <1>b, <2>0 DEF TasksAgree, Queued, Numbered, IdsUnique, Drop
    <2>3. SlotsHeld'
      BY <1>12, <1>b, <2>0 DEF SlotsHeld, TasksAgree, Queued, Drop
    <2>4. OwnReply'
      BY <1>12, <1>b, <2>0 DEF OwnReply, TasksAgree, Drop
    <2>5. SlotHasOwner'
      <3>1. \A d \in Calls : pc'[d] = IF d = c THEN "ended" ELSE pc[d]
        BY <1>12 DEF Drop
      <3>2. holding' \subseteq holding /\ (c \in holding' => pc[c] = "acquire" \/ route # "direct")
        BY <1>b, <2>0
      <3>3. waiting' = waiting /\ Queued \subseteq Queued'
        BY <1>12, <1>b, <2>0 DEF Drop, Queued
      <3> QED
        BY <2>0, <3>1, <3>2, <3>3 DEF SlotHasOwner
    <2>6. ResultAfterSlot'
      BY <1>12, <1>b, <2>0 DEF ResultAfterSlot, TasksAgree, SlotsHeld, Drop
    <2> QED
      BY <2>1, <2>2, <2>3, <2>4, <2>5, <2>6
  <1>13. CASE Tally(c)
    <2>1. IdsUnique' /\ RepliesTraced'
      BY <1>13 DEF IdsUnique, RepliesTraced, Numbered, Tally
    <2>2. TasksAgree'
      BY <1>13 DEF TasksAgree, Queued, Numbered, IdsUnique, Tally
    <2>3. SlotsHeld'
      BY <1>13 DEF SlotsHeld, TasksAgree, Queued, Tally
    <2>4. OwnReply'
      BY <1>13 DEF OwnReply, TasksAgree, Tally
    <2>5. SlotHasOwner'
      BY <1>13 DEF SlotHasOwner, Queued, Tally
    <2>6. ResultAfterSlot'
      BY <1>13 DEF ResultAfterSlot, TasksAgree, SlotsHeld, Tally
    <2> QED
      BY <2>1, <2>2, <2>3, <2>4, <2>5, <2>6
  <1> QED
    BY <1>1, <1>2, <1>3, <1>4, <1>5, <1>6, <1>7, <1>8, <1>9, <1>10, <1>11, <1>12, <1>13 DEF Caller

\* Then through the steps of the actor, of the upstream and of the handles' owner.
LEMMA ActorStep ==
    ASSUME MuxInv, TypeOK', route' = route, DropHandles \/ ActorTask \/ Upstream
    PROVE  MuxInv'
  <1> USE CallsAssumption, RouteAssumption, LimitAssumption, IdAssumption
  <1> USE DEF MuxInv, TypeOK, Steps, Outcomes, Answer, NoAnswer, Verdict, Active, Suspended,
              callVars, idVars, queueVars, taskVars, peerVars
  <1>a. \A S : Cardinality(holding \ S) <= MaxInflight
    BY FewerHeld DEF SlotsHeld
  <1>b. ASSUME NEW kind, NextCommand(kind)
        PROVE  /\ [kind |-> kind, call |-> Head(queue).call] \in ToSet(queue)
               /\ ToSet(queue) = ToSet(Tail(queue)) \cup {[kind |-> kind, call |-> Head(queue).call]}
               /\ Head(queue).call \in Calls
    <2>1. Head(queue) \in Command /\ ToSet(queue) = ToSet(Tail(queue)) \cup {Head(queue)}
      BY <1>b, TakenCommands DEF NextCommand
    <2>2. Head(queue) = [kind |-> kind, call |-> Head(queue).call]
      BY <1>b, <2>1 DEF Command, NextCommand
    <2> QED
      BY <2>1, <2>2 DEF Command
  <1>1. CASE DropHandles
    <2>1. IdsUnique' /\ RepliesTraced'
      BY <1>1 DEF IdsUnique, RepliesTraced, Numbered, DropHandles
    <2>2. TasksAgree'
      BY <1>1 DEF TasksAgree, Queued, Numbered, IdsUnique, DropHandles
    <2>3. SlotsHeld'
      BY <1>1 DEF SlotsHeld, TasksAgree, Queued, DropHandles
    <2>4. OwnReply'
      BY <1>1 DEF OwnReply, TasksAgree, DropHandles
    <2>5. SlotHasOwner'
      BY <1>1 DEF SlotHasOwner, Queued, DropHandles
    <2>6. ResultAfterSlot'
      BY <1>1 DEF ResultAfterSlot, TasksAgree, SlotsHeld, DropHandles
    <2> QED
      BY <2>1, <2>2, <2>3, <2>4, <2>5, <2>6
  <1>2. CASE TakeAbandoned
    <2>h. NextCommand("call") /\ queue' = Tail(queue)
      BY <1>2 DEF TakeAbandoned
    <2>0. /\ [kind |-> "call", call |-> Head(queue).call] \in ToSet(queue)
          /\ ToSet(queue) = ToSet(queue') \cup {[kind |-> "call", call |-> Head(queue).call]}
          /\ Head(queue).call \in Calls
      BY <1>b, <2>h
    <2>a. Cardinality(holding') <= MaxInflight
      BY <1>a, <1>2 DEF TakeAbandoned
    <2>1. IdsUnique' /\ RepliesTraced'
      BY <1>2, <2>0 DEF IdsUnique, RepliesTraced, Numbered, TakeAbandoned
    <2>2. TasksAgree'
      BY <1>2, <2>0 DEF TasksAgree, Queued, Numbered, IdsUnique, TakeAbandoned
    <2>3. SlotsHeld'
      BY <1>2, <2>0, <2>a DEF SlotsHeld, TasksAgree, Queued, TakeAbandoned
    <2>4. OwnReply'
      BY <1>2, <2>0 DEF OwnReply, TasksAgree, TakeAbandoned
    <2>5. SlotHasOwner'
      BY <1>2, <2>0 DEF SlotHasOwner, Queued, TakeAbandoned
    <2>6. ResultAfterSlot'
      BY <1>2, <2>0 DEF ResultAfterSlot, TasksAgree, SlotsHeld, TakeAbandoned
    <2> QED
      BY <2>1, <2>2, <2>3, <2>4, <2>5, <2>6
  <1>3. CASE TakeDown
    <2>h. NextCommand("call") /\ queue' = Tail(queue)
      BY <1>3 DEF TakeDown
    <2>0. /\ [kind |-> "call", call |-> Head(queue).call] \in ToSet(queue)
          /\ ToSet(queue) = ToSet(queue') \cup {[kind |-> "call", call |-> Head(queue).call]}
          /\ Head(queue).call \in Calls
      BY <1>b, <2>h
    <2>a. Cardinality(holding') <= MaxInflight
      BY <1>a, <1>3 DEF TakeDown, Finish, Send
    <2>1. IdsUnique' /\ RepliesTraced'
      BY <1>3, <2>0 DEF IdsUnique, RepliesTraced, Numbered, TakeDown, Finish, Send
    <2>2. TasksAgree'
      BY <1>3, <2>0 DEF TasksAgree, Queued, Numbered, IdsUnique, TakeDown, Finish, Send
    <2>3. SlotsHeld'
      BY <1>3, <2>0, <2>a DEF SlotsHeld, TasksAgree, Queued, TakeDown, Finish, Send
    <2>4. OwnReply'
      BY <1>3, <2>0 DEF OwnReply, TasksAgree, TakeDown, Finish, Send
    <2>5. SlotHasOwner'
      BY <1>3, <2>0 DEF SlotHasOwner, Queued, TakeDown, Finish, Send
    <2>6. ResultAfterSlot'
      BY <1>3, <2>0 DEF ResultAfterSlot, TasksAgree, SlotsHeld, TakeDown, Finish, Send
    <2> QED
      BY <2>1, <2>2, <2>3, <2>4, <2>5, <2>6
  <1>4. CASE TakeCall
    <2>h. NextCommand("call") /\ queue' = Tail(queue)
      BY <1>4 DEF TakeCall
    <2>0. /\ [kind |-> "call", call |-> Head(queue).call] \in ToSet(queue)
          /\ ToSet(queue) = ToSet(queue') \cup {[kind |-> "call", call |-> Head(queue).call]}
          /\ Head(queue).call \in Calls
      BY <1>b, <2>h
    <2>a. Cardinality(holding') <= MaxInflight
      BY <1>a, <1>4 DEF TakeCall, SlotsHeld
    <2>1. IdsUnique' /\ RepliesTraced'
      BY <1>4, <2>0 DEF IdsUnique, RepliesTraced, Numbered, TakeCall
    <2>2. TasksAgree'
      BY <1>4, <2>0 DEF TasksAgree, Queued, Numbered, IdsUnique, TakeCall
    <2>3. SlotsHeld'
      BY <1>4, <2>0, <2>a DEF SlotsHeld, TasksAgree, Queued, TakeCall
    <2>4. OwnReply'
      BY <1>4, <2>0 DEF OwnReply, TasksAgree, TakeCall
    <2>5. SlotHasOwner'
      BY <1>4, <2>0 DEF SlotHasOwner, Queued, TakeCall
    <2>6. ResultAfterSlot'
      BY <1>4, <2>0 DEF ResultAfterSlot, TasksAgree, SlotsHeld, TakeCall
    <2> QED
      BY <2>1, <2>2, <2>3, <2>4, <2>5, <2>6
  <1>5. CASE TakeForget
    <2>h. NextCommand("forget") /\ queue' = Tail(queue)
      BY <1>5 DEF TakeForget
    <2>0. /\ [kind |-> "forget", call |-> Head(queue).call] \in ToSet(queue)
          /\ ToSet(queue) = ToSet(queue') \cup {[kind |-> "forget", call |-> Head(queue).call]}
          /\ Head(queue).call \in Calls
      BY <1>b, <2>h
    <2>a. Cardinality(holding') <= MaxInflight
      BY <1>a, <1>5 DEF TakeForget, NextCommand, Idle, SlotsHeld
    <2>1. IdsUnique' /\ RepliesTraced'
      BY <1>5, <2>0 DEF IdsUnique, RepliesTraced, Numbered, TakeForget, NextCommand, Idle
    <2>2. TasksAgree'
      BY <1>5, <2>0 DEF TasksAgree, Queued, Numbered, IdsUnique, TakeForget, NextCommand, Idle
    <2>3. SlotsHeld'
      BY <1>5, <2>0, <2>a DEF SlotsHeld, TasksAgree, Queued, TakeForget, NextCommand, Idle
    <2>4. OwnReply'
      BY <1>5, <2>0 DEF OwnReply, TasksAgree, TakeForget, NextCommand, Idle
    <2>5. SlotHasOwner'
      BY <1>5, <2>0, ZenonT(60) DEF SlotHasOwner, Queued, TakeForget, NextCommand, Idle
    <2>6. ResultAfterSlot'
      BY <1>5, <2>0 DEF ResultAfterSlot, TasksAgree, SlotsHeld, TakeForget, NextCommand, Idle
    <2> QED
      BY <2>1, <2>2, <2>3, <2>4, <2>5, <2>6
  <1>6. CASE WriteDone
    <2>1. IdsUnique' /\ RepliesTraced'
      BY <1>6 DEF IdsUnique, RepliesTraced, Numbered, WriteDone, TasksAgree
    <2>2. TasksAgree'
      BY <1>6 DEF TasksAgree, Queued, Numbered, IdsUnique, WriteDone, TasksAgree
    <2>3. SlotsHeld'
      BY <1>6 DEF SlotsHeld, TasksAgree, Queued, WriteDone, TasksAgree
    <2>4. OwnReply'
      BY <1>6 DEF OwnReply, TasksAgree, WriteDone, TasksAgree
    <2>5. SlotHasOwner'
      BY <1>6 DEF SlotHasOwner, Queued, WriteDone, TasksAgree
    <2>6. ResultAfterSlot'
      BY <1>6 DEF ResultAfterSlot, TasksAgree, SlotsHeld, WriteDone, TasksAgree
    <2> QED
      BY <2>1, <2>2, <2>3, <2>4, <2>5, <2>6
  <1>7. CASE WriteLost
    <2>a. Cardinality(holding') <= MaxInflight
      BY <1>a, <1>7 DEF WriteLost, Finish, Send
    <2>1. IdsUnique' /\ RepliesTraced'
      BY <1>7 DEF IdsUnique, RepliesTraced, Numbered, WriteLost, Finish, Send
    <2>2. TasksAgree'
      BY <1>7 DEF TasksAgree, Queued, Numbered, IdsUnique, WriteLost, Finish, Send
    <2>3. SlotsHeld'
      BY <1>7, <2>a DEF SlotsHeld, TasksAgree, Queued, WriteLost, Finish, Send
    <2>4. OwnReply'
      BY <1>7 DEF OwnReply, TasksAgree, WriteLost, Finish, Send
    <2>5. SlotHasOwner'
      BY <1>7 DEF SlotHasOwner, Queued, WriteLost, Finish, Send
    <2>6. ResultAfterSlot'
      BY <1>7 DEF ResultAfterSlot, TasksAgree, SlotsHeld, WriteLost, Finish, Send
    <2> QED
      BY <2>1, <2>2, <2>3, <2>4, <2>5, <2>6
  <1>8. CASE WriteFailed
    <2>a. Cardinality(holding') <= MaxInflight
      BY <1>a, <1>8 DEF WriteFailed, Finish, Send
    <2>1. IdsUnique' /\ RepliesTraced'
      BY <1>8 DEF IdsUnique, RepliesTraced, Numbered, WriteFailed, Finish, Send
    <2>2. TasksAgree'
      BY <1>8 DEF TasksAgree, Queued, Numbered, IdsUnique, WriteFailed, Finish, Send
    <2>3. SlotsHeld'
      BY <1>8, <2>a DEF SlotsHeld, TasksAgree, Queued, WriteFailed, Finish, Send
    <2>4. OwnReply'
      BY <1>8 DEF OwnReply, TasksAgree, WriteFailed, Finish, Send
    <2>5. SlotHasOwner'
      BY <1>8 DEF SlotHasOwner, Queued, WriteFailed, Finish, Send
    <2>6. ResultAfterSlot'
      BY <1>8 DEF ResultAfterSlot, TasksAgree, SlotsHeld, WriteFailed, Finish, Send
    <2> QED
      BY <2>1, <2>2, <2>3, <2>4, <2>5, <2>6
  <1>9. CASE InlineRun
    <2>a. Cardinality(holding') <= MaxInflight
      BY <1>a, <1>9 DEF InlineRun, Finish, Send, TasksAgree
    <2>0. PICK what \in {[kind |-> "ok", of |-> sending], Verdict("failed")} : Finish({sending}, what)
      BY <1>9 DEF InlineRun
    <2>b. /\ holding' = holding \ {sending} /\ what.kind # "none" /\ pc' = pc
          /\ \A d \in Calls :
                answer'[d] = IF d = sending /\ pc[d] = "waiting" THEN what ELSE answer[d]
      BY <1>9, <2>0 DEF InlineRun, Finish, Send
    <2>c. \A d \in Calls : answer'[d] = NoAnswer => answer[d] = NoAnswer /\ ~(d = sending /\ pc[d] = "waiting")
      BY <2>b
    <2>1. IdsUnique' /\ RepliesTraced'
      BY <1>9 DEF IdsUnique, RepliesTraced, Numbered, InlineRun, TasksAgree
    <2>2. TasksAgree'
      BY <1>9, <2>b DEF TasksAgree, Queued, Numbered, IdsUnique, InlineRun, TasksAgree
    <2>3. SlotsHeld'
      <3>1. /\ \A d \in holding' : d \in holding
            /\ \A d \in Calls : d # sending /\ d \in holding => d \in holding'
        BY <2>b
      <3>2. \A d \in Calls : pc[d] = "numbered" => d # sending
        <4>1. sending \in waiting
          BY <1>9 DEF InlineRun, TasksAgree
        <4> QED
          BY <4>1 DEF TasksAgree
      <3>3. \A d \in Calls : pc'[d] = "waiting" /\ answer'[d] = NoAnswer
                => d \in holding /\ d # sending
        BY <2>b, <2>c DEF SlotsHeld
      <3> QED
        BY <2>a, <2>b, <3>1, <3>2, <3>3 DEF SlotsHeld
    <2>4. OwnReply'
      BY <1>9, <2>0 DEF OwnReply, TasksAgree, InlineRun, Finish, Send, TasksAgree
    <2>5. SlotHasOwner'
      BY <1>9, <2>b DEF SlotHasOwner, Queued, InlineRun, TasksAgree
    <2>6. ResultAfterSlot'
      BY <1>9, <2>b DEF ResultAfterSlot, TasksAgree, SlotsHeld, InlineRun, TasksAgree
    <2> QED
      BY <2>1, <2>2, <2>3, <2>4, <2>5, <2>6
  <1>10. CASE InlineLost
    <2>a. Cardinality(holding') <= MaxInflight
      BY <1>a, <1>10 DEF InlineLost, Stop, Finish, Send
    <2>1. IdsUnique' /\ RepliesTraced'
      BY <1>10 DEF IdsUnique, RepliesTraced, Numbered, InlineLost, Stop, Finish, Send
    <2>2. TasksAgree'
      BY <1>10 DEF TasksAgree, Queued, Numbered, IdsUnique, InlineLost, Stop, Finish, Send
    <2>3. SlotsHeld'
      BY <1>10, <2>a DEF SlotsHeld, TasksAgree, Queued, InlineLost, Stop, Finish, Send
    <2>4. OwnReply'
      BY <1>10 DEF OwnReply, TasksAgree, InlineLost, Stop, Finish, Send
    <2>5. SlotHasOwner'
      BY <1>10 DEF SlotHasOwner, Queued, InlineLost, Stop, Finish, Send
    <2>6. ResultAfterSlot'
      BY <1>10 DEF ResultAfterSlot, TasksAgree, SlotsHeld, InlineLost, Stop, Finish, Send
    <2> QED
      BY <2>1, <2>2, <2>3, <2>4, <2>5, <2>6
  <1>11. CASE \E reply \in inbox : RouteReply(reply)
    <2>r. PICK reply \in inbox : RouteReply(reply)
      BY <1>11
    <2>0. \A c \in Matching(reply) : c \in waiting /\ id[c] = reply.id /\ reply.of = c
      <3> SUFFICES ASSUME NEW c \in Matching(reply)
                   PROVE  c \in waiting /\ id[c] = reply.id /\ reply.of = c
        OBVIOUS
      <3>1. c \in waiting /\ c \in Calls /\ id[c] = reply.id
        BY DEF Matching
      <3>2. c \in Numbered /\ id[c] >= FirstId
        BY <3>1 DEF TasksAgree, IdsUnique
      <3>3. reply.id \in Nat /\ ~(reply.id <= LastOpeningId)
        BY <3>1, <3>2
      <3>4. reply.of \in Numbered /\ reply.id = id[reply.of]
        BY <3>3 DEF RepliesTraced
      <3> QED
        BY <3>1, <3>2, <3>4 DEF IdsUnique
    <2>a. Cardinality(holding') <= MaxInflight
      BY <1>a, <2>r DEF RouteReply, Finish
    <2>1. IdsUnique' /\ RepliesTraced'
      BY <2>r, <2>0 DEF IdsUnique, RepliesTraced, Numbered, RouteReply, Finish, Send, Idle
    <2>2. TasksAgree'
      BY <2>r, <2>0 DEF TasksAgree, Queued, Numbered, IdsUnique, RouteReply, Finish, Send, Idle
    <2>3. SlotsHeld'
      BY <2>r, <2>0, <2>a DEF SlotsHeld, TasksAgree, Queued, RouteReply, Finish, Send, Idle
    <2>4. OwnReply'
      BY <2>r, <2>0 DEF OwnReply, TasksAgree, RouteReply, Finish, Send, Idle
    <2>5. SlotHasOwner'
      BY <2>r, <2>0 DEF SlotHasOwner, Queued, RouteReply, Finish, Send, Idle
    <2>6. ResultAfterSlot'
      BY <2>r, <2>0 DEF ResultAfterSlot, TasksAgree, SlotsHeld, RouteReply, Finish, Send, Idle
    <2> QED
      BY <2>1, <2>2, <2>3, <2>4, <2>5, <2>6
  <1>12. CASE \E reply \in inbox : DropUnreadable(reply)
    <2>1. IdsUnique' /\ RepliesTraced'
      BY <1>12 DEF IdsUnique, RepliesTraced, Numbered, DropUnreadable
    <2>2. TasksAgree'
      BY <1>12 DEF TasksAgree, Queued, Numbered, IdsUnique, DropUnreadable
    <2>3. SlotsHeld'
      BY <1>12 DEF SlotsHeld, TasksAgree, Queued, DropUnreadable
    <2>4. OwnReply'
      BY <1>12 DEF OwnReply, TasksAgree, DropUnreadable
    <2>5. SlotHasOwner'
      BY <1>12 DEF SlotHasOwner, Queued, DropUnreadable
    <2>6. ResultAfterSlot'
      BY <1>12 DEF ResultAfterSlot, TasksAgree, SlotsHeld, DropUnreadable
    <2> QED
      BY <2>1, <2>2, <2>3, <2>4, <2>5, <2>6
  <1>13. CASE ReadEnd
    <2>a. Cardinality(holding') <= MaxInflight
      BY <1>a, <1>13 DEF ReadEnd, Stop, Finish
    <2>1. IdsUnique' /\ RepliesTraced'
      BY <1>13 DEF IdsUnique, RepliesTraced, Numbered, ReadEnd, Stop, Finish, Send, Idle
    <2>2. TasksAgree'
      BY <1>13 DEF TasksAgree, Queued, Numbered, IdsUnique, ReadEnd, Stop, Finish, Send, Idle
    <2>3. SlotsHeld'
      BY <1>13, <2>a DEF SlotsHeld, TasksAgree, Queued, ReadEnd, Stop, Finish, Send, Idle
    <2>4. OwnReply'
      BY <1>13 DEF OwnReply, TasksAgree, ReadEnd, Stop, Finish, Send, Idle
    <2>5. SlotHasOwner'
      BY <1>13 DEF SlotHasOwner, Queued, ReadEnd, Stop, Finish, Send, Idle
    <2>6. ResultAfterSlot'
      BY <1>13 DEF ResultAfterSlot, TasksAgree, SlotsHeld, ReadEnd, Stop, Finish, Send, Idle
    <2> QED
      BY <2>1, <2>2, <2>3, <2>4, <2>5, <2>6
  <1>14. CASE StopUnused
    <2>0. ToSet(queue) = {}
      BY <1>14 DEF StopUnused, ToSet
    <2>a. Cardinality(holding') <= MaxInflight
      BY <1>a, <1>14 DEF StopUnused
    <2>1. IdsUnique' /\ RepliesTraced'
      BY <1>14, <2>0 DEF IdsUnique, RepliesTraced, Numbered, StopUnused, Idle
    <2>2. TasksAgree'
      BY <1>14, <2>0 DEF TasksAgree, Queued, Numbered, IdsUnique, StopUnused, Idle
    <2>3. SlotsHeld'
      BY <1>14, <2>0, <2>a DEF SlotsHeld, TasksAgree, Queued, StopUnused, Idle
    <2>4. OwnReply'
      BY <1>14, <2>0 DEF OwnReply, TasksAgree, StopUnused, Idle
    <2>5. SlotHasOwner'
      BY <1>14, <2>0 DEF SlotHasOwner, Queued, StopUnused, Idle
    <2>6. ResultAfterSlot'
      BY <1>14, <2>0 DEF ResultAfterSlot, TasksAgree, SlotsHeld, StopUnused, Idle
    <2> QED
      BY <2>1, <2>2, <2>3, <2>4, <2>5, <2>6
  <1>15. CASE Exit
    <2>0. ToSet(queue') = {}
      BY <1>15 DEF Exit, ToSet
    <2>a. Cardinality(holding') <= MaxInflight
      BY <1>a, <1>15 DEF Exit, Finish
    <2>1. IdsUnique' /\ RepliesTraced'
      BY <1>15, <2>0 DEF IdsUnique, RepliesTraced, Numbered, Exit, Finish, Send
    <2>2. TasksAgree'
      BY <1>15, <2>0 DEF TasksAgree, Queued, Numbered, IdsUnique, Exit, Finish, Send
    <2>3. SlotsHeld'
      BY <1>15, <2>0, <2>a DEF SlotsHeld, TasksAgree, Queued, Exit, Finish, Send
    <2>4. OwnReply'
      BY <1>15, <2>0 DEF OwnReply, TasksAgree, Exit, Finish, Send
    <2>5. SlotHasOwner'
      BY <1>15, <2>0 DEF SlotHasOwner, Queued, Exit, Finish, Send
    <2>6. ResultAfterSlot'
      BY <1>15, <2>0 DEF ResultAfterSlot, TasksAgree, SlotsHeld, Exit, Finish, Send
    <2> QED
      BY <2>1, <2>2, <2>3, <2>4, <2>5, <2>6
  <1>16. CASE UpstreamAnswers
    <2>1. IdsUnique' /\ RepliesTraced'
      BY <1>16 DEF IdsUnique, RepliesTraced, Numbered, UpstreamAnswers
    <2>2. TasksAgree'
      BY <1>16 DEF TasksAgree, Queued, Numbered, IdsUnique, UpstreamAnswers
    <2>3. SlotsHeld'
      BY <1>16 DEF SlotsHeld, TasksAgree, Queued, UpstreamAnswers
    <2>4. OwnReply'
      BY <1>16 DEF OwnReply, TasksAgree, UpstreamAnswers
    <2>5. SlotHasOwner'
      BY <1>16 DEF SlotHasOwner, Queued, UpstreamAnswers
    <2>6. ResultAfterSlot'
      BY <1>16 DEF ResultAfterSlot, TasksAgree, SlotsHeld, UpstreamAnswers
    <2> QED
      BY <2>1, <2>2, <2>3, <2>4, <2>5, <2>6
  <1>17. CASE UpstreamGoes
    <2>1. IdsUnique' /\ RepliesTraced'
      BY <1>17 DEF IdsUnique, RepliesTraced, Numbered, UpstreamGoes
    <2>2. TasksAgree'
      BY <1>17 DEF TasksAgree, Queued, Numbered, IdsUnique, UpstreamGoes
    <2>3. SlotsHeld'
      BY <1>17 DEF SlotsHeld, TasksAgree, Queued, UpstreamGoes
    <2>4. OwnReply'
      BY <1>17 DEF OwnReply, TasksAgree, UpstreamGoes
    <2>5. SlotHasOwner'
      BY <1>17 DEF SlotHasOwner, Queued, UpstreamGoes
    <2>6. ResultAfterSlot'
      BY <1>17 DEF ResultAfterSlot, TasksAgree, SlotsHeld, UpstreamGoes
    <2> QED
      BY <2>1, <2>2, <2>3, <2>4, <2>5, <2>6
  <1> QED
    BY <1>1, <1>2, <1>3, <1>4, <1>5, <1>6, <1>7, <1>8, <1>9, <1>10, <1>11, <1>12, <1>13, <1>14, <1>15, <1>16, <1>17 DEF ActorTask, TakeCommand, Write, Upstream

\* A handle that has just been started satisfies the inductive invariant.
LEMMA InitInv == Init => MuxInv
  <1> SUFFICES ASSUME Init PROVE MuxInv
    OBVIOUS
  <1> USE CallsAssumption, RouteAssumption, LimitAssumption, IdAssumption
  <1> USE DEF Init, Numbered, Queued, NoAnswer, FirstPrivateId
  <1>1. queue = <<>> /\ ToSet(queue) = {} /\ queue \in Seq(Command)
    BY EmptySeq DEF ToSet
  <1>2. inbox \subseteq StrayReplies
    OBVIOUS
  <1>3. TypeOK
    BY <1>1, <1>2 DEF TypeOK, Steps, Outcomes, Answer, Reasons, StrayReplies, Reply
  <1>4. IdsUnique /\ TasksAgree
    BY <1>1 DEF IdsUnique, TasksAgree, Active
  <1>5. RepliesTraced
    BY <1>2 DEF RepliesTraced, StrayReplies
  <1>6. SlotsHeld
    <2>1. Cardinality(holding) = 0
      BY FS_EmptySet
    <2> QED
      BY <2>1 DEF SlotsHeld
  <1>7. OwnReply /\ SlotHasOwner /\ ResultAfterSlot
    BY DEF OwnReply, SlotHasOwner, ResultAfterSlot
  <1> QED
    BY <1>3, <1>4, <1>5, <1>6, <1>7 DEF MuxInv

\* Every step of the handle keeps the inductive invariant.
LEMMA InvStep == MuxInv /\ [Next]_vars => MuxInv'
  <1> SUFFICES ASSUME MuxInv, [Next]_vars PROVE MuxInv'
    OBVIOUS
  <1>1. TypeOK' /\ route' = route
    BY TypeStep DEF MuxInv, Next, vars
  <1>2. CASE \E c \in Calls : Caller(c)
    BY <1>1, <1>2, CallerStep
  <1>3. CASE DropHandles \/ ActorTask \/ Upstream
    BY <1>1, <1>3, ActorStep
  <1>4. CASE UNCHANGED vars
    <2> USE <1>4 DEF vars, state, callVars, idVars, queueVars, taskVars, peerVars
    <2>1. IdsUnique' /\ RepliesTraced' /\ TasksAgree' /\ SlotsHeld'
      BY DEF MuxInv, IdsUnique, RepliesTraced, TasksAgree, SlotsHeld, Numbered, Queued
    <2>2. OwnReply' /\ SlotHasOwner' /\ ResultAfterSlot'
      BY DEF MuxInv, OwnReply, SlotHasOwner, ResultAfterSlot, Queued
    <2> QED
      BY <1>1, <2>1, <2>2 DEF MuxInv
  <1> QED
    BY <1>2, <1>3, <1>4 DEF Next

\* The inductive invariant holds throughout.
THEOREM Invariance == Spec => []MuxInv
  BY InitInv, InvStep, PTL DEF Spec

\* Every variable keeps its type.
THEOREM TypeCorrect == Spec => []TypeOK
  <1>1. MuxInv => TypeOK
    BY DEF MuxInv
  <1> QED
    BY <1>1, Invariance, PTL

\* A reply only ever reaches the call whose request it answers (Actor::route).
THEOREM RepliesReachTheirCall == Spec => []OwnReply
  <1>1. MuxInv => OwnReply
    BY DEF MuxInv
  <1> QED
    BY <1>1, Invariance, PTL

\* No permit is without an owner that will give it back.
THEOREM SlotsNeverLeak == Spec => []SlotHasOwner
  <1>1. MuxInv => SlotHasOwner
    BY DEF MuxInv
  <1> QED
    BY <1>1, Invariance, PTL

\* The upstream never owes more answers to waiting callers than max_inflight.
THEOREM CapHolds == Spec => []OutstandingBounded
  <1>1. MuxInv => OutstandingBounded
    <2> SUFFICES ASSUME MuxInv PROVE OutstandingBounded
      OBVIOUS
    <2> DEFINE Owed == {c \in served : pc[c] = "waiting" /\ answer[c] = NoAnswer}
    <2>1. Owed \subseteq holding /\ holding \subseteq Calls
      BY DEF MuxInv, TypeOK, SlotsHeld
    <2>2. IsFiniteSet(holding)
      BY <2>1, CallsAssumption, FS_Subset
    <2>3. Cardinality(Owed) <= Cardinality(holding) /\ IsFiniteSet(Owed)
      BY <2>1, <2>2, FS_Subset
    <2>4. Cardinality(Owed) \in Nat /\ Cardinality(holding) \in Nat
      BY <2>2, <2>3, FS_CardinalityType
    <2>5. Cardinality(holding) <= MaxInflight
      BY DEF MuxInv, SlotsHeld
    <2>6. Cardinality(Owed) <= MaxInflight
      BY <2>3, <2>4, <2>5, LimitAssumption
    <2> QED
      BY <2>6 DEF OutstandingBounded
  <1> QED
    BY <1>1, Invariance, PTL

-----------------------------------------------------------------------------
(***************************************************************************)
(* The handle implements CallContract, step by step.                       *)
(***************************************************************************)
TheStage == [c \in Calls |-> IF pc[c] = "idle" THEN "idle"
                             ELSE IF pc[c] \in {"tally", "ended"} THEN "done" ELSE "open"]
TheResult == [c \in Calls |-> IF outcome[c] = "none" THEN "none"
                              ELSE IF outcome[c] = "ok" THEN "reply" ELSE "no reply"]

CalledOnce(q) == \A i, j \in DOMAIN q : q[i] = q[j] /\ q[i].kind = "call" => i = j

\* A call has one command in the queue, or one waiter, each with its slot.
OnePlace == CalledOnce(queue) /\ waiting \cap Queued = {} /\ waiting \cup Queued \subseteq holding

\* A request goes out once: not before its turn, and no reply comes without it.
SentOnce ==
    /\ sending \notin served /\ Queued \cap served = {}
    /\ \A c \in Calls : pc[c] \in {"idle", "acquire", "numbered"} => c \notin served
    /\ \A c \in Calls : answer[c].kind = "ok" => c \in served
    /\ \A reply \in inbox : reply.of # NoCall => reply.of \in served

\* On the direct route there is no actor, and a caller that waits has sent.
DirectInv ==
    route = "direct" =>
        /\ actor = "ended" /\ queue = <<>> /\ waiting = {} /\ sending = NoCall
        /\ \A c \in Calls : pc[c] = "waiting" => c \in served

ContractInv == OnePlace /\ SentOnce /\ DirectInv

\* The calls in the queue before and after its head is taken.
LEMMA QueuedTaken ==
    ASSUME TypeOK, CalledOnce(queue), queue # <<>>, queue' = Tail(queue)
    PROVE  /\ CalledOnce(queue') /\ Head(queue).call \in Calls
           /\ Head(queue).kind = "call" =>
                 Head(queue).call \in Queued /\ Queued' = Queued \ {Head(queue).call}
           /\ Head(queue).kind # "call" => Queued' = Queued
  <1>1. queue \in Seq(Command) /\ Head(queue) \in Command /\ queue' \in Seq(Command)
        /\ ToSet(queue) = ToSet(queue') \cup {Head(queue)}
    BY TakenCommands DEF TypeOK
  <1>2. Head(queue).call \in Calls /\ Head(queue) = [kind |-> Head(queue).kind, call |-> Head(queue).call]
    BY <1>1 DEF Command
  <1>3. /\ Len(queue) \in Nat /\ Len(queue) >= 1 /\ DOMAIN queue = 1 .. Len(queue) /\ Head(queue) = queue[1]
        /\ DOMAIN queue' = 1 .. Len(queue) - 1 /\ \A i \in 1 .. Len(queue) - 1 : queue'[i] = queue[i + 1]
    BY <1>1
  <1>4. \A i \in DOMAIN queue' : i + 1 \in DOMAIN queue /\ queue'[i] = queue[i + 1] /\ i + 1 # 1 /\ i \in Nat
    BY <1>3
  <1>5. CalledOnce(queue')
    BY <1>4 DEF CalledOnce
  <1>6. Head(queue).kind = "call" => Head(queue) \notin ToSet(queue')
    <2> SUFFICES ASSUME Head(queue).kind = "call", Head(queue) \in ToSet(queue') PROVE FALSE
      OBVIOUS
    <2>1. PICK i \in DOMAIN queue' : queue'[i] = Head(queue)
      BY DEF ToSet
    <2>2. 1 \in DOMAIN queue /\ queue[1] = queue[i + 1] /\ queue[1].kind = "call"
      BY <1>3, <1>4, <2>1
    <2> QED
      BY <1>4, <2>2 DEF CalledOnce
  <1>7. \A c \in Calls : c \in Queued <=> c \in Queued' \/ [kind |-> "call", call |-> c] = Head(queue)
    BY <1>1 DEF Queued
  <1>8. \A c \in Calls : [kind |-> "call", call |-> c] = Head(queue)
                            <=> Head(queue).kind = "call" /\ c = Head(queue).call
    BY <1>2
  <1>9. Head(queue).kind = "call" => Head(queue).call \notin Queued'
    BY <1>2, <1>6 DEF Queued
  <1>10. Queued \subseteq Calls /\ Queued' \subseteq Calls
    BY DEF Queued
  <1> QED
    BY <1>2, <1>5, <1>7, <1>8, <1>9, <1>10

\* The calls in the queue before and after a command goes in.
LEMMA QueuedAppended ==
    ASSUME TypeOK, CalledOnce(queue), NEW x \in Command, queue' = Append(queue, x),
           x.kind = "call" => x.call \notin Queued
    PROVE  /\ CalledOnce(queue')
           /\ Queued' = IF x.kind = "call" THEN Queued \cup {x.call} ELSE Queued
  <1>1. queue \in Seq(Command) /\ ToSet(queue') = ToSet(queue) \cup {x}
    BY AppendedCommands DEF TypeOK
  <1>2. x.call \in Calls /\ x = [kind |-> x.kind, call |-> x.call]
    BY DEF Command
  <1>3. /\ Len(queue) \in Nat /\ DOMAIN queue = 1 .. Len(queue) /\ DOMAIN queue' = 1 .. Len(queue) + 1
        /\ queue'[Len(queue) + 1] = x /\ \A i \in 1 .. Len(queue) : queue'[i] = queue[i]
    BY <1>1
  <1>4. x.kind = "call" => \A i \in DOMAIN queue : queue[i] # x
    <2>1. x.kind = "call" => x \notin ToSet(queue)
      BY <1>2 DEF Queued
    <2> QED
      BY <2>1 DEF ToSet
  <1>5. CalledOnce(queue')
    <2> SUFFICES ASSUME NEW i \in DOMAIN queue', NEW j \in DOMAIN queue',
                        queue'[i] = queue'[j], queue'[i].kind = "call"
                 PROVE  i = j
      BY DEF CalledOnce
    <2>1. (i \in DOMAIN queue \/ i = Len(queue) + 1) /\ (j \in DOMAIN queue \/ j = Len(queue) + 1)
      BY <1>3
    <2> QED
      BY <1>3, <1>4, <2>1 DEF CalledOnce
  <1>6. \A c \in Calls : c \in Queued' <=> c \in Queued \/ [kind |-> "call", call |-> c] = x
    BY <1>1 DEF Queued
  <1>7. \A c \in Calls : [kind |-> "call", call |-> c] = x <=> x.kind = "call" /\ c = x.call
    BY <1>2
  <1>8. Queued \subseteq Calls /\ Queued' \subseteq Calls
    BY DEF Queued
  <1> QED
    BY <1>2, <1>5, <1>6, <1>7, <1>8

\* A caller that stops waiting leaves its slot where its request has got to.
LEMMA LeftBehind ==
    ASSUME TypeOK, ContractInv, NEW c \in Calls, Leave(c), UNCHANGED waiting
    PROVE  /\ OnePlace' /\ Queued' = Queued
           /\ holding' = holding \/ holding' = holding \ {c}
           /\ queue' = queue \/ route # "direct"
  <1>1. CalledOnce(queue) /\ waiting \cap Queued = {} /\ waiting \cup Queued \subseteq holding
    BY DEF ContractInv, OnePlace
  <1>2. holding' = holding \/ (holding' = holding \ {c} /\ route = "direct")
    BY DEF Leave
  <1>3. route = "direct" => waiting = {} /\ Queued = {}
    <2>1. ToSet(<<>>) = {}
      BY DEF ToSet
    <2> QED
      BY <2>1 DEF ContractInv, DirectInv, Queued
  <1>4. CalledOnce(queue') /\ Queued' = Queued
    <2>1. CASE queue' = queue
      BY <1>1, <2>1 DEF Queued
    <2>2. CASE queue' = Append(queue, [kind |-> "forget", call |-> c])
      <3> DEFINE x == [kind |-> "forget", call |-> c]
      <3>1. x \in Command /\ x.kind # "call"
        BY DEF Command
      <3>2. queue' = Append(queue, x)
        BY <2>2
      <3> HIDE DEF x
      <3> QED
        BY <1>1, <3>1, <3>2, QueuedAppended
    <2> QED
      BY <2>1, <2>2 DEF Leave
  <1>5. OnePlace'
    BY <1>1, <1>2, <1>3, <1>4 DEF OnePlace
  <1> QED
    BY <1>2, <1>4, <1>5 DEF Leave

\* A call ends, in the contract's view, as the caller's task leaves the round trip.
LEMMA EndsOnce ==
    ASSUME TypeOK, NEW c \in Calls, NEW p \in {"tally", "ended"}, NEW how \in Outcomes, how # "none",
           pc' = [pc EXCEPT ![c] = p], outcome' = [outcome EXCEPT ![c] = how]
    PROVE  /\ TheStage' = [TheStage EXCEPT ![c] = "done"]
           /\ TheResult' = [TheResult EXCEPT ![c] = IF how = "ok" THEN "reply" ELSE "no reply"]
           /\ pc[c] \in {"acquire", "numbered", "waiting"} => TheStage[c] = "open"
           /\ pc[c] = "idle" => TheStage[c] = "idle"
  <1>1. pc \in [Calls -> Steps] /\ outcome \in [Calls -> Outcomes]
    BY DEF TypeOK
  <1>2. \A d \in Calls : pc'[d] = (IF d = c THEN p ELSE pc[d]) /\ outcome'[d] = IF d = c THEN how ELSE outcome[d]
    BY <1>1
  <1>3. \A d \in Calls : TheStage'[d] = IF d = c THEN "done" ELSE TheStage[d]
    BY <1>2 DEF TheStage
  <1>4. \A d \in Calls : TheResult'[d] = IF d = c THEN (IF how = "ok" THEN "reply" ELSE "no reply") ELSE TheResult[d]
    BY <1>2 DEF TheResult
  <1>5. TheStage' = [TheStage EXCEPT ![c] = "done"]
    BY <1>3 DEF TheStage
  <1>6. TheResult' = [TheResult EXCEPT ![c] = IF how = "ok" THEN "reply" ELSE "no reply"]
    BY <1>4 DEF TheResult
  <1> QED
    BY <1>5, <1>6 DEF TheStage

\* Where the contract sees nothing of a caller's step.
LEMMA SameStage ==
    ASSUME TypeOK, NEW c \in Calls, NEW p \in Steps, pc' = [pc EXCEPT ![c] = p], UNCHANGED outcome,
           \/ pc[c] \in {"acquire", "numbered", "waiting"} /\ p \in {"acquire", "numbered", "waiting"}
           \/ pc[c] = "tally" /\ p = "ended"
    PROVE  TheStage' = TheStage /\ TheResult' = TheResult
  <1>1. pc \in [Calls -> Steps]
    BY DEF TypeOK
  <1>2. \A d \in Calls : pc'[d] = IF d = c THEN p ELSE pc[d]
    BY <1>1
  <1>3. \A d \in Calls : TheStage'[d] = TheStage[d]
    BY <1>2 DEF TheStage
  <1> QED
    BY <1>3 DEF TheStage, TheResult

\* The steps of the contract, in the handle's own variables.
ContractStep == Contract!Next \/ UNCHANGED <<TheStage, holding, served, TheResult>>

LEMMA AsFinish ==
    ASSUME NEW c \in Calls, NEW how \in {"reply", "no reply"}, TheStage[c] = "open", how = "reply" => c \in served,
           TheStage' = [TheStage EXCEPT ![c] = "done"], TheResult' = [TheResult EXCEPT ![c] = how],
           UNCHANGED served, holding' = holding \ {c} \/ (how = "no reply" /\ UNCHANGED holding)
    PROVE  ContractStep
  BY DEF ContractStep, Contract!Next, Contract!Finish, TheStage, TheResult

LEMMA AsRefuse ==
    ASSUME NEW c \in Calls, TheStage[c] = "idle", TheStage' = [TheStage EXCEPT ![c] = "done"],
           TheResult' = [TheResult EXCEPT ![c] = "no reply"], UNCHANGED <<holding, served>>
    PROVE  ContractStep
  BY DEF ContractStep, Contract!Next, Contract!Refuse, TheStage, TheResult

LEMMA AsStart ==
    ASSUME NEW c \in Calls, TheStage[c] = "idle", TheStage' = [TheStage EXCEPT ![c] = "open"],
           UNCHANGED <<holding, served, TheResult>>
    PROVE  ContractStep
  BY DEF ContractStep, Contract!Next, Contract!Start, TheStage, TheResult

LEMMA AsTake ==
    ASSUME NEW c \in Calls, TheStage[c] = "open", c \notin holding \cup served, Cardinality(holding) < MaxInflight,
           holding' = holding \cup {c}, UNCHANGED <<TheStage, served, TheResult>>
    PROVE  ContractStep
  <1>1. Contract!Cardinality(holding) = Cardinality(holding)
    BY DEF Contract!Cardinality, Cardinality
  <1> QED
    BY <1>1 DEF ContractStep, Contract!Next, Contract!Take, TheStage, TheResult

LEMMA AsTransmit ==
    ASSUME NEW c \in Calls, c \in holding \ served, served' = served \cup {c},
           holding' = holding \/ holding' = holding \ {c}, UNCHANGED <<TheStage, TheResult>>
    PROVE  ContractStep
  BY DEF ContractStep, Contract!Next, Contract!Transmit, Contract!TransmitAndGiveBack, TheStage, TheResult

LEMMA AsGiveBack ==
    ASSUME NEW S, holding' = holding \ S, UNCHANGED <<TheStage, served, TheResult>>
    PROVE  ContractStep
  <1>1. holding \cap S \in SUBSET holding /\ holding' = holding \ (holding \cap S)
    OBVIOUS
  <1> QED
    BY <1>1 DEF ContractStep, Contract!Next, Contract!GiveBack, TheStage, TheResult

LEMMA AsNothing ==
    ASSUME UNCHANGED <<pc, outcome, holding, served>>
    PROVE  ContractStep
  BY DEF ContractStep, TheStage, TheResult

\* The callers' tasks.
LEMMA CallerKeeps ==
    ASSUME MuxInv, TypeOK', ContractInv, route' = route, NEW c \in Calls, Caller(c)
    PROVE  ContractInv' /\ ContractStep
  <1> USE DEF callVars, idVars, queueVars, taskVars, peerVars
  <1>1. TypeOK /\ OnePlace /\ SentOnce /\ DirectInv /\ TasksAgree /\ SlotsHeld /\ ResultAfterSlot
    BY DEF MuxInv, ContractInv
  <1>2. pc \in [Calls -> Steps] /\ outcome \in [Calls -> Outcomes] /\ answer \in [Calls -> Answer]
        /\ holding \subseteq Calls /\ served \subseteq Calls
    BY <1>1 DEF TypeOK
  <1>3. ASSUME NEW p \in {"tally", "ended"}, NEW how \in Outcomes, how # "none", pc[c] # "idle",
               pc[c] \in {"acquire", "numbered", "waiting"},
               pc' = [pc EXCEPT ![c] = p], outcome' = [outcome EXCEPT ![c] = how],
               UNCHANGED served, how = "ok" => c \in served,
               holding' = holding \ {c} \/ (how # "ok" /\ UNCHANGED holding)
        PROVE  ContractStep
    <2>1. /\ TheStage' = [TheStage EXCEPT ![c] = "done"] /\ TheStage[c] = "open"
          /\ TheResult' = [TheResult EXCEPT ![c] = IF how = "ok" THEN "reply" ELSE "no reply"]
      BY <1>1, <1>3, EndsOnce
    <2>2. PICK said \in {"reply", "no reply"} : said = IF how = "ok" THEN "reply" ELSE "no reply"
      OBVIOUS
    <2>3. (said = "reply" => c \in served) /\ (holding' = holding \ {c} \/ (said = "no reply" /\ UNCHANGED holding))
      BY <1>3, <2>2
    <2> QED
      BY <1>3, <2>1, <2>2, <2>3, AsFinish
  <1>4. ASSUME NEW p \in {"acquire", "tally", "ended"}, pc' = [pc EXCEPT ![c] = p], p # "acquire" \/ pc[c] = "idle",
               UNCHANGED <<served, sending, inbox, actor>>, OnePlace', Queued' = Queued,
               waiting' = waiting, \A d \in Calls : answer'[d].kind = "ok" => d \in served,
               queue' = queue \/ route # "direct"
        PROVE  ContractInv'
    <2>1. \A d \in Calls : pc'[d] = IF d = c THEN p ELSE pc[d]
      BY <1>2, <1>4
    <2>2. SentOnce'
      BY <1>1, <1>4, <2>1 DEF SentOnce
    <2>3. DirectInv'
      BY <1>1, <1>4, <2>1 DEF DirectInv
    <2> QED
      BY <1>4, <2>2, <2>3 DEF ContractInv
  <1>5. ASSUME UNCHANGED <<queue, waiting>>, holding' = holding \/ (c \notin waiting \cup Queued /\ holding' = holding \ {c})
        PROVE  OnePlace' /\ Queued' = Queued
    BY <1>1, <1>5 DEF OnePlace, Queued
  <1>6. \A d \in Calls : answer[d].kind = "ok" => d \in served
    BY <1>1 DEF SentOnce
  <1>7. CASE BeginDown(c)
    <2>1. ContractInv'
      BY <1>4, <1>5, <1>6, <1>7 DEF BeginDown, Return
    <2>2. /\ TheStage' = [TheStage EXCEPT ![c] = "done"] /\ TheStage[c] = "idle"
          /\ TheResult' = [TheResult EXCEPT ![c] = "no reply"]
      <3>1. "down" \in Outcomes /\ "tally" \in {"tally", "ended"}
        BY DEF Outcomes
      <3>2. pc[c] = "idle" /\ pc' = [pc EXCEPT ![c] = "tally"] /\ outcome' = [outcome EXCEPT ![c] = "down"]
        BY <1>7 DEF BeginDown, Return
      <3> QED
        BY <1>1, <3>1, <3>2, EndsOnce
    <2> QED
      BY <1>7, <2>1, <2>2, AsRefuse DEF BeginDown
  <1>8. CASE Begin(c)
    <2>1. ContractInv'
      BY <1>4, <1>5, <1>6, <1>8 DEF Begin
    <2>2. \A d \in Calls : pc'[d] = IF d = c THEN "acquire" ELSE pc[d]
      BY <1>2, <1>8 DEF Begin
    <2>3. pc[c] = "idle" /\ UNCHANGED <<outcome, holding, served>>
      BY <1>8 DEF Begin
    <2>4. TheStage' = [TheStage EXCEPT ![c] = "open"] /\ TheStage[c] = "idle" /\ TheResult' = TheResult
      <3>1. \A d \in Calls : TheStage'[d] = IF d = c THEN "open" ELSE TheStage[d]
        BY <2>2 DEF TheStage
      <3> QED
        BY <2>3, <3>1 DEF TheStage, TheResult
    <2> QED
      BY <2>1, <2>3, <2>4, AsStart
  <1>9. CASE Acquire(c)
    <2>1. /\ pc[c] = "acquire" /\ pc' = [pc EXCEPT ![c] = "numbered"] /\ Cardinality(holding) < MaxInflight
          /\ holding' = holding \cup {c} /\ UNCHANGED <<outcome, answer, queue, actor, sending, waiting, served, inbox>>
      BY <1>9 DEF Acquire
    <2>2. \A d \in Calls : pc'[d] = IF d = c THEN "numbered" ELSE pc[d]
      BY <1>2, <2>1
    <2>3. c \notin holding \cup served
      BY <1>1, <2>1 DEF SlotsHeld, SentOnce
    <2>4. TheStage' = TheStage /\ TheResult' = TheResult /\ TheStage[c] = "open"
      BY <1>1, <2>1, SameStage DEF Steps, TheStage
    <2>5. OnePlace'
      BY <1>1, <2>1 DEF OnePlace, Queued
    <2>6. SentOnce'
      BY <1>1, <2>1, <2>2, <2>3 DEF SentOnce, Queued
    <2>7. DirectInv'
      BY <1>1, <2>1, <2>2 DEF DirectInv
    <2> QED
      BY <2>1, <2>3, <2>4, <2>5, <2>6, <2>7, AsTake DEF ContractInv
  <1>10. CASE Submit(c)
    <2> DEFINE x == [kind |-> "call", call |-> c]
    <2>1. /\ pc[c] = "numbered" /\ pc' = [pc EXCEPT ![c] = "waiting"] /\ queue' = Append(queue, x) /\ route # "direct"
          /\ UNCHANGED <<outcome, holding, answer, sending, waiting, served, inbox>>
      BY <1>10 DEF Submit
    <2>2. \A d \in Calls : pc'[d] = IF d = c THEN "waiting" ELSE pc[d]
      BY <1>2, <2>1
    <2>3. c \notin waiting /\ c \notin Queued /\ c \in holding /\ c \notin served
      BY <1>1, <2>1 DEF TasksAgree, SlotsHeld, SentOnce
    <2>4. x \in Command /\ x.kind = "call" /\ x.call = c
      BY DEF Command
    <2>5. TheStage' = TheStage /\ TheResult' = TheResult
      BY <1>1, <2>1, SameStage DEF Steps
    <2> HIDE DEF x
    <2>6. CalledOnce(queue') /\ Queued' = Queued \cup {c}
      BY <1>1, <2>1, <2>3, <2>4, QueuedAppended DEF OnePlace
    <2>7. OnePlace'
      BY <1>1, <2>1, <2>3, <2>6 DEF OnePlace
    <2>8. SentOnce'
      BY <1>1, <2>1, <2>2, <2>3, <2>6 DEF SentOnce
    <2>9. DirectInv'
      BY <2>1 DEF DirectInv
    <2> QED
      BY <2>1, <2>5, <2>7, <2>8, <2>9 DEF ContractInv, ContractStep
  <1>11. CASE SubmitLate(c)
    <2>1. /\ pc[c] = "numbered" /\ pc' = [pc EXCEPT ![c] = "tally"] /\ outcome' = [outcome EXCEPT ![c] = "down"]
          /\ holding' = holding \ {c} /\ UNCHANGED <<answer, queue, actor, sending, waiting, served, inbox>>
      BY <1>11 DEF SubmitLate, Return
    <2>2. c \notin waiting \cup Queued
      BY <1>1, <2>1 DEF TasksAgree
    <2>3. ContractInv'
      BY <1>4, <1>5, <1>6, <2>1, <2>2
    <2>4. "down" \in Outcomes
      BY DEF Outcomes
    <2> QED
      BY <1>3, <2>1, <2>3, <2>4
  <1>12. CASE StartExchange(c)
    <2>1. /\ pc[c] = "numbered" /\ pc' = [pc EXCEPT ![c] = "waiting"] /\ served' = served \cup {c} /\ route = "direct"
          /\ UNCHANGED <<outcome, holding, answer, queue, actor, sending, waiting, inbox>>
      BY <1>12 DEF StartExchange
    <2>2. \A d \in Calls : pc'[d] = IF d = c THEN "waiting" ELSE pc[d]
      BY <1>2, <2>1
    <2>3. c \in holding /\ c \notin served /\ c \notin Queued /\ c # sending
      <3>1. sending = NoCall /\ NoCall # c
        BY <1>1, <2>1, CallsAssumption DEF DirectInv
      <3> QED
        BY <1>1, <2>1, <3>1 DEF SlotsHeld, SentOnce, TasksAgree
    <2>4. TheStage' = TheStage /\ TheResult' = TheResult
      BY <1>1, <2>1, SameStage DEF Steps
    <2>5. OnePlace'
      BY <1>1, <2>1 DEF OnePlace, Queued
    <2>6. SentOnce'
      BY <1>1, <2>1, <2>2, <2>3 DEF SentOnce, Queued
    <2>7. DirectInv'
      BY <1>1, <2>1, <2>2 DEF DirectInv
    <2> QED
      BY <2>1, <2>3, <2>4, <2>5, <2>6, <2>7, AsTransmit DEF ContractInv
  <1>13. CASE ExchangeAnswered(c) \/ ExchangeLost(c) \/ ExchangeFailed(c)
    <2>1. /\ pc[c] = "waiting" /\ route = "direct" /\ holding' = holding \ {c}
          /\ UNCHANGED <<queue, actor, sending, waiting, served, inbox>>
      BY <1>13 DEF ExchangeAnswered, ExchangeLost, ExchangeFailed
    <2>2. PICK how \in {"ok", "failed", "down"} :
             pc' = [pc EXCEPT ![c] = "tally"] /\ outcome' = [outcome EXCEPT ![c] = how]
      BY <1>13 DEF ExchangeAnswered, ExchangeLost, ExchangeFailed, Return
    <2>3. c \in served /\ c \notin waiting \cup Queued
      <3>1. ToSet(<<>>) = {}
        BY DEF ToSet
      <3> QED
        BY <1>1, <2>1, <3>1 DEF DirectInv, Queued
    <2>4. \A d \in Calls : answer'[d].kind = "ok" => d \in served
      <3>1. answer' = answer \/ answer' = [answer EXCEPT ![c] = [kind |-> "ok", of |-> c]]
        BY <1>13 DEF ExchangeAnswered, ExchangeLost, ExchangeFailed
      <3> QED
        BY <1>2, <1>6, <2>3, <3>1
    <2>5. ContractInv'
      BY <1>4, <1>5, <2>1, <2>2, <2>3, <2>4
    <2>6. how \in Outcomes /\ how # "none"
      BY DEF Outcomes
    <2> QED
      BY <1>3, <2>1, <2>2, <2>3, <2>5, <2>6
  <1>14. CASE Receive(c)
    <2>1. /\ pc[c] = "waiting" /\ answer[c].kind # "none" /\ pc' = [pc EXCEPT ![c] = "tally"]
          /\ outcome' = [outcome EXCEPT ![c] = IF answer[c].kind = "lost" THEN "down" ELSE answer[c].kind]
          /\ UNCHANGED <<holding, answer, queue, actor, sending, waiting, served, inbox>>
      BY <1>14 DEF Receive, Return
    <2>2. PICK how \in {"ok", "down", "failed"} : how = IF answer[c].kind = "lost" THEN "down" ELSE answer[c].kind
      BY <1>2, <2>1 DEF Answer
    <2>3. how = "ok" => c \in served /\ holding = holding \ {c}
      BY <1>1, <1>6, <2>2 DEF ResultAfterSlot
    <2>4. ContractInv'
      BY <1>4, <1>5, <1>6, <2>1
    <2>5. how \in Outcomes /\ how # "none"
      BY DEF Outcomes
    <2> QED
      BY <1>3, <2>1, <2>2, <2>3, <2>4, <2>5
  <1>15. CASE Timeout(c) \/ Drop(c)
    <2>1. /\ pc[c] \in {"acquire", "waiting"} /\ Leave(c)
          /\ UNCHANGED <<answer, actor, sending, waiting, served, inbox>>
      BY <1>15 DEF Timeout, Drop, Suspended
    <2>2. PICK p \in {"tally", "ended"}, how \in {"timeout", "dropped"} :
             pc' = [pc EXCEPT ![c] = p] /\ outcome' = [outcome EXCEPT ![c] = how]
      BY <1>15 DEF Timeout, Drop, Return
    <2>3. /\ OnePlace' /\ Queued' = Queued /\ (queue' = queue \/ route # "direct")
          /\ holding' = holding \/ holding' = holding \ {c}
      BY <1>1, <2>1, LeftBehind DEF ContractInv
    <2>4. ContractInv'
      BY <1>4, <1>6, <2>1, <2>2, <2>3
    <2>5. how \in Outcomes /\ how # "none" /\ how # "ok"
      BY DEF Outcomes
    <2> QED
      BY <1>3, <2>1, <2>2, <2>3, <2>4, <2>5
  <1>16. CASE Tally(c)
    <2>1. /\ pc[c] = "tally" /\ pc' = [pc EXCEPT ![c] = "ended"]
          /\ UNCHANGED <<outcome, holding, answer, queue, actor, sending, waiting, served, inbox>>
      BY <1>16 DEF Tally
    <2>2. ContractInv'
      BY <1>4, <1>5, <1>6, <2>1
    <2>3. TheStage' = TheStage /\ TheResult' = TheResult
      BY <1>1, <2>1, SameStage DEF Steps
    <2> QED
      BY <2>1, <2>2, <2>3 DEF ContractStep
  <1> QED
    BY <1>7, <1>8, <1>9, <1>10, <1>11, <1>12, <1>13, <1>14, <1>15, <1>16 DEF Caller

\* Waiter::finish of several waiting calls, whose requests may have gone out.
LEMMA FinishedKeep ==
    ASSUME MuxInv, ContractInv, NEW S \in SUBSET Calls, NEW what, UNCHANGED <<pc, outcome, served>>,
           Finish(S, what), what.kind = "ok" => S \subseteq served
    PROVE  /\ \A c \in Calls : answer'[c].kind = "ok" => c \in served
           /\ ContractStep
  <1>1. \A c \in Calls : answer'[c] = answer[c] \/ (c \in S /\ answer'[c] = what)
    BY DEF Finish, Send
  <1>2. TheStage' = TheStage /\ TheResult' = TheResult
    BY DEF TheStage, TheResult
  <1> QED
    BY <1>1, <1>2, AsGiveBack DEF Finish, ContractInv, SentOnce

\* The actor's task.
LEMMA ActorKeeps ==
    ASSUME MuxInv, TypeOK', ContractInv, route' = route, ActorTask
    PROVE  ContractInv' /\ ContractStep
  <1> USE DEF callVars, idVars, queueVars, taskVars, peerVars
  <1>1. TypeOK /\ OnePlace /\ SentOnce /\ DirectInv /\ TasksAgree /\ RepliesTraced /\ IdsUnique
    BY DEF MuxInv, ContractInv
  <1>2. waiting \subseteq Calls /\ Queued \subseteq Calls /\ served \subseteq Calls /\ NoCall \notin served
    BY <1>1, CallsAssumption DEF TypeOK, Queued
  <1>3. sending # NoCall => sending \in waiting /\ sending \in Calls /\ sending \in holding
    BY <1>1, <1>2 DEF TasksAgree, OnePlace
  <1>4. \A c \in Calls : answer[c].kind = "ok" => c \in served
    BY <1>1 DEF SentOnce
  <1>5. Verdict("down").kind # "ok" /\ Verdict("failed").kind # "ok" /\ Verdict("lost").kind # "ok"
    BY DEF Verdict
  <1>6. route = "direct" => actor = "ended" /\ queue = <<>> /\ waiting = {} /\ sending = NoCall
    BY <1>1 DEF DirectInv
  \* What is left to show of a step, once it is known to give back these slots.
  <1>7. ASSUME NEW S, route # "direct", UNCHANGED <<pc, served>>,
               holding' = holding \ S, waiting' \subseteq waiting \cup (Queued \ Queued'), Queued' \subseteq Queued,
               (waiting' \cup Queued') \cap S = {}, CalledOnce(queue'), waiting' \cap Queued' = {},
               sending' = NoCall \/ sending' \notin served, inbox' \subseteq inbox,
               \A c \in Calls : answer'[c].kind = "ok" => c \in served
        PROVE  ContractInv'
    <2>1. OnePlace'
      BY <1>1, <1>7 DEF OnePlace
    <2>2. SentOnce'
      BY <1>1, <1>2, <1>7 DEF SentOnce
    <2>3. DirectInv'
      BY <1>7 DEF DirectInv
    <2> QED
      BY <2>1, <2>2, <2>3 DEF ContractInv
  <1>8. ASSUME queue' = queue PROVE Queued' = Queued /\ CalledOnce(queue')
    BY <1>1, <1>8 DEF Queued, OnePlace
  <1>9. CASE TakeCommand
    <2>1. queue # <<>> /\ queue' = Tail(queue) /\ Idle /\ UNCHANGED <<pc, outcome, served, inbox>>
      BY <1>9 DEF TakeCommand, TakeAbandoned, TakeDown, TakeCall, TakeForget, NextCommand
    <2> DEFINE h == Head(queue).call
    <2>2. /\ CalledOnce(queue') /\ h \in Calls
          /\ Head(queue).kind = "call" => h \in Queued /\ Queued' = Queued \ {h}
          /\ Head(queue).kind # "call" => Queued' = Queued
      BY <1>1, <2>1, QueuedTaken DEF OnePlace
    <2>3. route # "direct" /\ sending = NoCall
      BY <1>6, <2>1 DEF Idle
    <2> HIDE DEF h
    <2>4. waiting \cap Queued = {} /\ waiting \cup Queued \subseteq holding /\ Queued \cap served = {}
      BY <1>1 DEF OnePlace, SentOnce
    <2>5. CASE TakeAbandoned
      <3>1. Head(queue).kind = "call" /\ holding' = holding \ {h} /\ UNCHANGED <<answer, sending, waiting>>
        BY <2>5 DEF TakeAbandoned, NextCommand, h
      <3>2. ContractInv'
        BY <1>4, <1>7, <2>1, <2>2, <2>3, <2>4, <3>1
      <3>3. TheStage' = TheStage /\ TheResult' = TheResult
        BY <2>1 DEF TheStage, TheResult
      <3> QED
        BY <2>1, <3>1, <3>2, <3>3, AsGiveBack
    <2>6. CASE TakeDown
      <3>1. Head(queue).kind = "call" /\ Finish({h}, Verdict("down")) /\ UNCHANGED <<sending, waiting>>
        BY <2>6 DEF TakeDown, NextCommand, h
      <3>2. {h} \in SUBSET Calls
        BY <2>2
      <3>3. (\A c \in Calls : answer'[c].kind = "ok" => c \in served) /\ ContractStep
        BY <1>5, <2>1, <3>1, <3>2, FinishedKeep
      <3>4. ContractInv'
        BY <1>7, <2>1, <2>2, <2>3, <2>4, <3>1, <3>3 DEF Finish
      <3> QED
        BY <3>3, <3>4
    <2>7. CASE TakeCall
      <3>1. /\ Head(queue).kind = "call" /\ sending' = h /\ waiting' = waiting \cup {h}
            /\ UNCHANGED <<answer, holding>>
        BY <2>7 DEF TakeCall, NextCommand, h
      <3>2. h \notin served /\ holding' = holding \ {}
        BY <2>2, <2>4, <3>1
      <3>3. ContractInv'
        BY <1>4, <1>7, <2>1, <2>2, <2>3, <2>4, <3>1, <3>2
      <3> QED
        BY <2>1, <3>1, <3>3, AsNothing
    <2>8. CASE TakeForget
      <3>1. /\ Head(queue).kind # "call" /\ waiting' = waiting \ {h} /\ UNCHANGED <<answer, sending>>
            /\ holding' = IF h \in waiting THEN holding \ {h} ELSE holding
        BY <2>8 DEF TakeForget, NextCommand, h
      <3>2. holding' = holding \ ({h} \cap waiting)
        BY <3>1
      <3>3. ContractInv'
        BY <1>4, <1>7, <2>1, <2>2, <2>3, <2>4, <3>1, <3>2
      <3>4. TheStage' = TheStage /\ TheResult' = TheResult
        BY <2>1 DEF TheStage, TheResult
      <3> QED
        BY <2>1, <3>2, <3>3, <3>4, AsGiveBack
    <2> QED
      BY <1>9, <2>5, <2>6, <2>7, <2>8 DEF TakeCommand
  <1>10. CASE WriteDone \/ InlineRun
    <2>1. /\ sending # NoCall /\ served' = served \cup {sending} /\ sending' = NoCall /\ route # "direct"
          /\ UNCHANGED <<pc, outcome, queue, actor, inbox>>
      BY <1>10 DEF WriteDone, InlineRun
    <2>2. sending \in holding \ served /\ sending \notin Queued /\ sending \in waiting /\ sending \in Calls
      BY <1>1, <1>3, <2>1 DEF SentOnce, OnePlace
    <2>3. TheStage' = TheStage /\ TheResult' = TheResult
      BY <2>1 DEF TheStage, TheResult
    <2>4. \/ holding' = holding /\ waiting' = waiting /\ answer' = answer
          \/ /\ holding' = holding \ {sending} /\ waiting' = waiting \ {sending}
             /\ \A c \in Calls : answer'[c] = answer[c] \/ c = sending
      BY <1>10 DEF WriteDone, InlineRun, Finish, Send
    <2>5. pc[sending] \notin {"idle", "acquire", "numbered"}
      BY <1>1, <2>1, <2>2 DEF TasksAgree
    <2>6. OnePlace'
      BY <1>1, <1>8, <2>1, <2>2, <2>4 DEF OnePlace
    <2>7. SentOnce'
      <3>1. \A c \in Calls : answer'[c].kind = "ok" => c \in served'
        BY <1>4, <2>1, <2>4
      <3>2. NoCall \notin served'
        BY <1>2, <2>1
      <3> QED
        BY <1>1, <1>8, <2>1, <2>2, <2>5, <3>1, <3>2 DEF SentOnce
    <2>8. DirectInv'
      BY <2>1 DEF DirectInv
    <2> QED
      BY <2>1, <2>2, <2>3, <2>4, <2>6, <2>7, <2>8, AsTransmit DEF ContractInv
  <1>11. CASE WriteLost \/ WriteFailed
    <2>1. PICK what \in {Verdict("down"), Verdict("failed")} :
             /\ sending # NoCall /\ waiting' = waiting \ {sending} /\ sending' = NoCall /\ route # "direct"
             /\ Finish({sending}, what) /\ UNCHANGED <<pc, outcome, queue, actor, served, inbox>>
      BY <1>11 DEF WriteLost, WriteFailed
    <2>2. {sending} \in SUBSET Calls /\ what.kind # "ok"
      BY <1>3, <1>5, <2>1
    <2>3. (\A c \in Calls : answer'[c].kind = "ok" => c \in served) /\ ContractStep
      BY <2>1, <2>2, FinishedKeep
    <2>4. sending \notin Queued /\ waiting \cap Queued = {}
      BY <1>1, <1>3, <2>1 DEF OnePlace
    <2>5. ContractInv'
      BY <1>7, <1>8, <2>1, <2>3, <2>4 DEF Finish
    <2> QED
      BY <2>3, <2>5
  <1>12. CASE InlineLost \/ ReadEnd
    <2>1. /\ waiting' = {} /\ sending' = NoCall /\ route # "direct" /\ Finish(waiting, Verdict("down"))
          /\ UNCHANGED <<pc, outcome, queue, served, inbox>>
      BY <1>12 DEF InlineLost, ReadEnd, Stop, Idle
    <2>2. (\A c \in Calls : answer'[c].kind = "ok" => c \in served) /\ ContractStep
      BY <1>2, <1>5, <2>1, FinishedKeep
    <2>3. waiting \cap Queued = {}
      BY <1>1 DEF OnePlace
    <2>4. ContractInv'
      BY <1>7, <1>8, <2>1, <2>2, <2>3 DEF Finish
    <2> QED
      BY <2>2, <2>4
  <1>13. ASSUME NEW reply \in inbox, RouteReply(reply) PROVE ContractInv' /\ ContractStep
    <2>1. /\ waiting' = waiting \ Matching(reply) /\ route # "direct" /\ inbox' = inbox \ {reply}
          /\ Finish(Matching(reply), [kind |-> "ok", of |-> reply.of])
          /\ UNCHANGED <<pc, outcome, queue, actor, served, sending>> /\ sending = NoCall
      BY <1>13 DEF RouteReply, Idle
    <2>2. Matching(reply) \subseteq waiting /\ Matching(reply) \in SUBSET Calls
      BY <1>2 DEF Matching
    <2>3. Matching(reply) \subseteq served
      <3> SUFFICES ASSUME NEW c \in Matching(reply) PROVE c \in served
        OBVIOUS
      <3>1. c \in waiting /\ c \in Numbered /\ id[c] = reply.id /\ id[c] >= FirstId /\ id[c] \in Nat
        BY <1>1, <2>2 DEF Matching, TasksAgree, IdsUnique, TypeOK
      <3>2. CASE reply.of = NoCall /\ reply.id <= LastOpeningId
        BY <3>1, <3>2, IdAssumption
      <3>3. CASE reply.of \in Numbered /\ reply.id = id[reply.of]
        <4>1. reply.of = c
          BY <1>1, <3>1, <3>3 DEF IdsUnique
        <4>2. reply.of # NoCall
          BY <3>3, CallsAssumption DEF Numbered
        <4> QED
          BY <1>1, <4>1, <4>2 DEF SentOnce
      <3> QED
        BY <1>1, <3>2, <3>3 DEF RepliesTraced
    <2>4. (\A c \in Calls : answer'[c].kind = "ok" => c \in served) /\ ContractStep
      BY <2>1, <2>2, <2>3, FinishedKeep
    <2>5. waiting \cap Queued = {}
      BY <1>1 DEF OnePlace
    <2>6. ContractInv'
      BY <1>7, <1>8, <2>1, <2>2, <2>4, <2>5 DEF Finish
    <2> QED
      BY <2>4, <2>6
  <1>14. ASSUME NEW reply \in inbox, DropUnreadable(reply) PROVE ContractInv' /\ ContractStep
    <2>1. /\ inbox' = inbox \ {reply} /\ route # "direct"
          /\ UNCHANGED <<pc, outcome, holding, answer, queue, actor, served, sending, waiting>>
      BY <1>14 DEF DropUnreadable
    <2>2. SentOnce' /\ OnePlace' /\ DirectInv'
      BY <1>1, <1>8, <2>1 DEF SentOnce, OnePlace, DirectInv
    <2> QED
      BY <2>1, <2>2, AsNothing DEF ContractInv
  <1>15. CASE StopUnused
    <2>1. /\ waiting' = {} /\ holding' = holding \ waiting /\ route # "direct" /\ sending = NoCall
          /\ UNCHANGED <<pc, outcome, answer, queue, served, sending, inbox>>
      BY <1>6, <1>15 DEF StopUnused, Idle
    <2>2. waiting \cap Queued = {}
      BY <1>1 DEF OnePlace
    <2>3. ContractInv'
      BY <1>4, <1>7, <1>8, <2>1, <2>2
    <2>4. TheStage' = TheStage /\ TheResult' = TheResult
      BY <2>1 DEF TheStage, TheResult
    <2> QED
      BY <2>1, <2>3, <2>4, AsGiveBack
  <1>16. CASE Exit
    <2>1. /\ queue' = <<>> /\ Finish(Queued, Verdict("lost")) /\ route # "direct"
          /\ UNCHANGED <<pc, outcome, served, sending, waiting, inbox>>
      BY <1>6, <1>16 DEF Exit
    <2>2. Queued' = {} /\ CalledOnce(queue')
      <3>1. ToSet(<<>>) = {}
        BY DEF ToSet
      <3> QED
        BY <2>1, <3>1 DEF Queued, CalledOnce
    <2>3. (\A c \in Calls : answer'[c].kind = "ok" => c \in served) /\ ContractStep
      BY <1>2, <1>5, <2>1, FinishedKeep
    <2>4. waiting \cap Queued = {} /\ sending \notin served
      BY <1>1 DEF OnePlace, SentOnce
    <2>5. ContractInv'
      BY <1>7, <2>1, <2>2, <2>3, <2>4 DEF Finish
    <2> QED
      BY <2>3, <2>5
  <1> QED
    BY <1>9, <1>10, <1>11, <1>12, <1>13, <1>14, <1>15, <1>16 DEF ActorTask, Write

LEMMA ContractInit == Init => ContractInv /\ Contract!Init
  <1> SUFFICES ASSUME Init PROVE ContractInv /\ Contract!Init
    OBVIOUS
  <1>1. Queued = {}
    <2>1. ToSet(<<>>) = {}
      BY DEF ToSet
    <2> QED
      BY <2>1 DEF Init, Queued
  <1>2. OnePlace /\ DirectInv
    BY <1>1 DEF Init, OnePlace, CalledOnce, DirectInv
  <1>3. SentOnce
    BY <1>1 DEF Init, SentOnce, StrayReplies, NoAnswer
  <1>4. Contract!Init
    <2>1. TheStage = [c \in Calls |-> "idle"] /\ TheResult = [c \in Calls |-> "none"]
      BY DEF Init, TheStage, TheResult
    <2> QED
      BY <2>1 DEF Init, Contract!Init, TheStage, TheResult
  <1> QED
    BY <1>2, <1>3, <1>4 DEF ContractInv

LEMMA ContractNext == MuxInv /\ ContractInv /\ [Next]_vars => ContractInv' /\ ContractStep
  <1> SUFFICES ASSUME MuxInv, ContractInv, [Next]_vars PROVE ContractInv' /\ ContractStep
    OBVIOUS
  <1> USE DEF callVars, idVars, queueVars, taskVars, peerVars
  <1>1. TypeOK' /\ route' = route
    BY TypeStep DEF MuxInv, Next, vars
  <1>2. ASSUME UNCHANGED <<pc, outcome, holding, answer, queue, actor, sending, waiting, served>>,
               \A reply \in inbox' : reply.of # NoCall => reply.of \in served
        PROVE  ContractInv' /\ ContractStep
    <2>1. OnePlace' /\ SentOnce' /\ DirectInv'
      BY <1>1, <1>2 DEF ContractInv, OnePlace, SentOnce, DirectInv, Queued
    <2> QED
      BY <1>2, <2>1, AsNothing DEF ContractInv
  <1>3. \A reply \in inbox : reply.of # NoCall => reply.of \in served
    BY DEF ContractInv, SentOnce
  <1>4. CASE DropHandles \/ UNCHANGED vars
    BY <1>2, <1>3, <1>4 DEF DropHandles, vars, state
  <1>5. CASE Upstream
    <2>1. UNCHANGED <<pc, outcome, holding, answer, queue, actor, sending, waiting, served>>
      BY <1>5 DEF Upstream, UpstreamAnswers, UpstreamGoes
    <2>2. inbox' \subseteq inbox \/ \E c \in served : inbox' = inbox \cup {[id |-> id[c], of |-> c]}
      BY <1>5 DEF Upstream, UpstreamAnswers, UpstreamGoes
    <2> QED
      BY <1>2, <1>3, <2>1, <2>2
  <1> QED
    BY <1>1, <1>4, <1>5, CallerKeeps, ActorKeeps DEF Next

\* "Many concurrent calls over one upstream connection" (mux.rs): whatever the
\* route, the order of replies, timeouts, dropped callers and lost connections, a
\* call takes at most one slot, once, sends its request at most once and only
\* with a slot, and ends once, with a reply only to a request that went out and
\* with its slot back.
THEOREM ContractKept == Spec => KeepsContract
  <1>1. Init => ContractInv /\ Contract!Init
    BY ContractInit
  <1>2. MuxInv /\ ContractInv /\ [Next]_vars => ContractInv' /\ ContractStep
    BY ContractNext
  <1>3. ContractStep => [Contract!Next]_<<TheStage, holding, served, TheResult>>
    BY DEF ContractStep
  <1>4. [Contract!Next]_<<TheStage, holding, served, TheResult>> => [Contract!Next]_(Contract!contractVars)
    BY DEF TheStage, TheResult, Contract!contractVars
  <1> QED
    BY <1>1, <1>2, <1>3, <1>4, Invariance, PTL DEF Spec, KeepsContract, Contract!Spec
==============================================================================
