----------------------------- MODULE UpstreamMux -----------------------------
(***************************************************************************)
(* `UpstreamHandle` (mcpdef-transport/src/mux.rs): many concurrent calls   *)
(* over one upstream connection.                                           *)
(*                                                                         *)
(* Every caller is a task of its own that runs `call`: it checks whether   *)
(* the upstream is down, waits for one of MaxInflight slots, takes a       *)
(* private id, and then either talks to a concurrent peer itself (route    *)
(* "direct") or queues its request for the actor, the task that owns the   *)
(* transport (route "actor", or "inline" for a transport whose replies     *)
(* are produced by the send).  Each action is what one task does between   *)
(* two points where another thread can be seen to act.                     *)
(*                                                                         *)
(* Left out: the notification channel (it changes none of this state), the *)
(* refusals sent to the upstream's own requests, and the caller's own id,  *)
(* which `call` keeps in a local and puts back on the reply.               *)
(***************************************************************************)
EXTENDS Naturals, FiniteSets, SequencesExt

CONSTANTS
    Calls,          \* the calls made on the handle; each is made once
    Timed,          \* the calls made with a timeout
    Routes,         \* the ways a transport may be driven: Route, and request_concurrent
    MaxInflight,    \* HandleOptions::max_inflight
    TripAfter,      \* HandleOptions::trip_after; 0 stands for None
    FirstId,        \* FIRST_ID: 100 in the code
    LastOpeningId,  \* the last id the opening may have used: MAX_PAGES in the code
    NoCall          \* no call

ASSUME CallsAssumption == IsFiniteSet(Calls) /\ NoCall \notin Calls
ASSUME RouteAssumption == Timed \subseteq Calls /\ Routes \subseteq {"actor", "inline", "direct"}
ASSUME LimitAssumption == MaxInflight \in Nat \ {0} /\ TripAfter \in Nat
ASSUME IdAssumption == FirstId \in Nat /\ LastOpeningId \in Nat /\ LastOpeningId < FirstId

VARIABLES
    route,    \* how this handle's transport is driven, for good
    pc,       \* where each caller's task is
    outcome,  \* what `call` returned, or will once it has tallied it
    id,       \* the private id of each call's request; 0 until it has one
    nextId,   \* Shared::next_id
    holding,  \* the calls whose OwnedSemaphorePermit exists, whoever owns it
    answer,   \* what each call's oneshot channel holds
    queue,    \* the actor's command queue
    actor,    \* whether the actor runs, closes its transport, or has ended
    sending,  \* the call whose request the actor is writing
    waiting,  \* Actor::waiting, which the code keys by private id
    peer,     \* whether the upstream's end of the connection is there
    served,   \* the calls whose request reached the upstream
    inbox,    \* replies the upstream sent and nobody has read
    down,     \* DownSignal: the reason that stands, or "no"
    failures, \* Shared::failures
    open      \* whether a handle is left

callVars == <<pc, outcome>>
idVars == <<id, nextId>>
queueVars == <<queue, actor>>
taskVars == <<sending, waiting>>
peerVars == <<peer, served, inbox>>
state == <<callVars, idVars, holding, answer, queueVars, taskVars, peerVars, down, failures, open>>
vars == <<route, state>>

-----------------------------------------------------------------------------
Steps == {"idle", "acquire", "numbered", "waiting", "tally", "ended"}
Outcomes == {"none", "ok", "down", "failed", "timeout", "dropped"}
Reasons == {"no", "lost", "tripped"}
Reply == [id : Nat, of : Calls \cup {NoCall}]
Answer == [kind : {"none", "ok", "down", "failed", "lost"}, of : Calls \cup {NoCall}]
Command == [kind : {"call", "forget"}, call : Calls]

NoAnswer == [kind |-> "none", of |-> NoCall]
Verdict(kind) == [kind |-> kind, of |-> NoCall]

\* A caller between the start and the end of its `call`.
Active == {"acquire", "numbered", "waiting", "tally"}

\* Where a caller's task can be suspended, so where its future can be dropped.
Suspended == {"acquire", "waiting"}

\* The calls with a `Command::Call` still in the queue.
Queued == {c \in Calls : [kind |-> "call", call |-> c] \in ToSet(queue)}

-----------------------------------------------------------------------------
(***************************************************************************)
(* Steps shared by several actions.                                        *)
(***************************************************************************)

\* DownSignal::set: the first reason recorded wins.
SetDown(reason) == down' = IF down = "no" THEN reason ELSE down

\* The caller's task has an outcome and goes on to tally it.
Return(c, result) ==
    /\ pc' = [pc EXCEPT ![c] = "tally"]
    /\ outcome' = [outcome EXCEPT ![c] = result]

\* Senders of oneshot answers: a caller that stopped waiting gets nothing.
Send(S, what) ==
    answer' = [c \in Calls |-> IF c \in S /\ pc[c] = "waiting" THEN what ELSE answer[c]]

\* Waiter::finish, for each call of S: the slot goes back, then the result.
Finish(S, what) ==
    /\ holding' = holding \ S
    /\ Send(S, what)

\* Mutant: a direct call that is given up keeps its slot.
LeaveWithSlot(c) ==
    /\ holding' = holding
    /\ queue' = IF pc[c] = "waiting" /\ route # "direct" /\ actor = "running"
                THEN Append(queue, [kind |-> "forget", call |-> c]) ELSE queue

\* The caller of c stops waiting: its future is dropped where it is suspended.
\* Past its submission the Waiting guard tells the actor; the queue takes no
\* more once the actor has closed it.
Leave(c) ==
    /\ holding' = IF pc[c] = "waiting" /\ route = "direct" THEN holding \ {c} ELSE holding
    /\ queue' = IF pc[c] = "waiting" /\ route # "direct" /\ actor = "running"
                THEN Append(queue, [kind |-> "forget", call |-> c]) ELSE queue

-----------------------------------------------------------------------------
\* Mutant: private ids start where the opening's did.
ReusedFirstId == 0

\* Past every id the opening used, so a stray reply to it matches no call.
FirstPrivateId == FirstId

StrayReplies == {[id |-> i, of |-> NoCall] : i \in 0 .. LastOpeningId}

\* UpstreamHandle::start. The transport is open and may still hold a second
\* reply to a request of the opening.
Init ==
    /\ route \in Routes
    /\ pc = [c \in Calls |-> "idle"]
    /\ outcome = [c \in Calls |-> "none"]
    /\ id = [c \in Calls |-> 0]
    /\ nextId = FirstPrivateId
    /\ holding = {}
    /\ answer = [c \in Calls |-> NoAnswer]
    /\ queue = <<>>
    /\ actor = IF route = "direct" THEN "ended" ELSE "running"
    /\ sending = NoCall
    /\ waiting = {}
    /\ peer = "up"
    /\ served = {}
    /\ inbox \in IF route = "actor" THEN SUBSET StrayReplies ELSE {{}}
    /\ down = "no"
    /\ failures = 0
    /\ open = TRUE

-----------------------------------------------------------------------------
(***************************************************************************)
(* The caller's task: `call` and `round_trip`.                             *)
(***************************************************************************)

\* A call on a handle known to be down fails at once.
BeginDown(c) ==
    /\ open /\ pc[c] = "idle" /\ down # "no"
    /\ Return(c, "down")
    /\ UNCHANGED <<idVars, holding, answer, queueVars, taskVars, peerVars, down, failures, open>>

\* Otherwise it waits for a slot. Nothing looks at `down` again on this task.
Begin(c) ==
    /\ open /\ pc[c] = "idle" /\ down = "no"
    /\ pc' = [pc EXCEPT ![c] = "acquire"]
    /\ UNCHANGED <<outcome, idVars, holding, answer, queueVars, taskVars, peerVars, down, failures,
                   open>>

\* Mutant: one slot more than the cap.
AcquireOneMore(c) ==
    /\ pc[c] = "acquire"
    /\ Cardinality(holding) <= MaxInflight
    /\ holding' = holding \cup {c}
    /\ id' = [id EXCEPT ![c] = nextId]
    /\ nextId' = nextId + 1
    /\ pc' = [pc EXCEPT ![c] = "numbered"]
    /\ UNCHANGED <<outcome, answer, queueVars, taskVars, peerVars, down, failures, open>>

\* acquire_owned, then next_id.fetch_add.
Acquire(c) ==
    /\ pc[c] = "acquire"
    /\ Cardinality(holding) < MaxInflight
    /\ holding' = holding \cup {c}
    /\ id' = [id EXCEPT ![c] = nextId]
    /\ nextId' = nextId + 1
    /\ pc' = [pc EXCEPT ![c] = "numbered"]
    /\ UNCHANGED <<outcome, answer, queueVars, taskVars, peerVars, down, failures, open>>

\* commands.send(Command::Call): the permit moves into the queue.
Submit(c) ==
    /\ route # "direct" /\ pc[c] = "numbered" /\ actor = "running"
    /\ queue' = Append(queue, [kind |-> "call", call |-> c])
    /\ pc' = [pc EXCEPT ![c] = "waiting"]
    /\ UNCHANGED <<outcome, idVars, holding, answer, actor, taskVars, peerVars, down, failures,
                   open>>

\* The actor has closed its queue: the command comes back and is dropped.
SubmitLate(c) ==
    /\ route # "direct" /\ pc[c] = "numbered" /\ actor # "running"
    /\ holding' = holding \ {c}
    /\ Return(c, "down")
    /\ UNCHANGED <<idVars, answer, queueVars, taskVars, peerVars, down, failures, open>>

\* Route::Direct: Exchange::exchange sends the request from the caller's task.
StartExchange(c) ==
    /\ route = "direct" /\ pc[c] = "numbered"
    /\ served' = served \cup {c}
    /\ pc' = [pc EXCEPT ![c] = "waiting"]
    /\ UNCHANGED <<outcome, idVars, holding, answer, queueVars, taskVars, peer, inbox, down,
                   failures, open>>

\* reply_among: the response under the call's own id or under none.
ReplyAmong(carried) == carried \cap {"own id", "null id"} # {}

\* The exchange is over and the slot given back before its answer is read.
ExchangeAnswered(c) ==
    /\ route = "direct" /\ pc[c] = "waiting"
    /\ holding' = holding \ {c}
    /\ \E carried \in SUBSET {"own id", "null id", "other id"} :
          \/ /\ ReplyAmong(carried)
             /\ Return(c, "ok")
             /\ answer' = [answer EXCEPT ![c] = [kind |-> "ok", of |-> c]]
          \/ ~ReplyAmong(carried) /\ Return(c, "failed") /\ UNCHANGED answer
    /\ UNCHANGED <<idVars, queueVars, taskVars, peerVars, down, failures, open>>

\* SessionExpired or Closed: the handle is down for every later call.
ExchangeLost(c) ==
    /\ route = "direct" /\ pc[c] = "waiting"
    /\ holding' = holding \ {c}
    /\ SetDown("lost")
    /\ Return(c, "down")
    /\ UNCHANGED <<idVars, answer, queueVars, taskVars, peerVars, failures, open>>

\* Any other error fails this call alone.
ExchangeFailed(c) ==
    /\ route = "direct" /\ pc[c] = "waiting"
    /\ holding' = holding \ {c}
    /\ Return(c, "failed")
    /\ UNCHANGED <<idVars, answer, queueVars, taskVars, peerVars, down, failures, open>>

\* The oneshot channel has something: the reply, why there is none, or nothing
\* ever (its sender was dropped: down_error).
Receive(c) ==
    /\ route # "direct" /\ pc[c] = "waiting" /\ answer[c].kind # "none"
    /\ Return(c, IF answer[c].kind = "lost" THEN "down" ELSE answer[c].kind)
    /\ UNCHANGED <<idVars, holding, answer, queueVars, taskVars, peerVars, down, failures, open>>

\* Mutant: the timeout covers the wait for the reply and not that for a slot.
TimeoutOnceSent(c) ==
    /\ c \in Timed /\ pc[c] = "waiting" /\ answer[c] = NoAnswer
    /\ Leave(c)
    /\ Return(c, "timeout")
    /\ UNCHANGED <<idVars, answer, actor, taskVars, peerVars, down, failures, open>>

\* The call's timeout runs out. It looks at the round trip first, so an answer
\* already there wins.
Timeout(c) ==
    /\ c \in Timed /\ pc[c] \in Suspended /\ answer[c] = NoAnswer
    /\ Leave(c)
    /\ Return(c, "timeout")
    /\ UNCHANGED <<idVars, answer, actor, taskVars, peerVars, down, failures, open>>

\* The future of `call` is dropped: nothing after its await runs.
Drop(c) ==
    /\ pc[c] \in Suspended
    /\ Leave(c)
    /\ pc' = [pc EXCEPT ![c] = "ended"]
    /\ outcome' = [outcome EXCEPT ![c] = "dropped"]
    /\ UNCHANGED <<idVars, answer, actor, taskVars, peerVars, down, failures, open>>

\* tally: a reply ends the run of failures, Down says nothing about it, and
\* anything else lengthens it and may take the upstream down.
Tally(c) ==
    /\ pc[c] = "tally"
    /\ pc' = [pc EXCEPT ![c] = "ended"]
    /\ \/ outcome[c] = "ok" /\ failures' = 0 /\ UNCHANGED down
       \/ outcome[c] = "down" /\ UNCHANGED <<failures, down>>
       \/ /\ outcome[c] \in {"failed", "timeout"}
          /\ failures' = failures + 1
          /\ IF TripAfter # 0 /\ failures + 1 >= TripAfter
             THEN SetDown("tripped") ELSE UNCHANGED down
    /\ UNCHANGED <<outcome, idVars, holding, answer, queueVars, taskVars, peerVars, open>>

\* The last handle is dropped; a call in progress borrows one.
DropHandles ==
    /\ open /\ \A c \in Calls : pc[c] \notin Active
    /\ open' = FALSE
    /\ UNCHANGED <<callVars, idVars, holding, answer, queueVars, taskVars, peerVars, down, failures>>

-----------------------------------------------------------------------------
(***************************************************************************)
(* The actor's task: Actor::run, send and route.                           *)
(***************************************************************************)
Idle == actor = "running" /\ sending = NoCall

NextCommand(kind) == Idle /\ queue # <<>> /\ Head(queue).kind = kind

\* A request whose caller has gone is not sent; its command is dropped.
TakeAbandoned ==
    /\ NextCommand("call") /\ pc[Head(queue).call] # "waiting"
    /\ queue' = Tail(queue)
    /\ holding' = holding \ {Head(queue).call}
    /\ UNCHANGED <<callVars, idVars, answer, actor, taskVars, peerVars, down, failures, open>>

\* Once the upstream is down, nothing more is sent.
TakeDown ==
    /\ NextCommand("call") /\ pc[Head(queue).call] = "waiting" /\ down # "no"
    /\ queue' = Tail(queue)
    /\ Finish({Head(queue).call}, Verdict("down"))
    /\ UNCHANGED <<callVars, idVars, actor, taskVars, peerVars, down, failures, open>>

\* The call is filed as waiting before the write of its request starts.
TakeCall ==
    /\ NextCommand("call") /\ pc[Head(queue).call] = "waiting" /\ down = "no"
    /\ queue' = Tail(queue)
    /\ sending' = Head(queue).call
    /\ waiting' = waiting \cup {Head(queue).call}
    /\ UNCHANGED <<callVars, idVars, holding, answer, actor, peerVars, down, failures, open>>

\* Command::Forget: the waiter, if there still is one, is dropped with its slot.
TakeForget ==
    /\ NextCommand("forget")
    /\ queue' = Tail(queue)
    /\ waiting' = waiting \ {Head(queue).call}
    /\ holding' = IF Head(queue).call \in waiting THEN holding \ {Head(queue).call} ELSE holding
    /\ UNCHANGED <<callVars, idVars, answer, actor, sending, peerVars, down, failures, open>>

\* The request is written whole.
WriteDone ==
    /\ route = "actor" /\ sending # NoCall /\ peer = "up"
    /\ served' = served \cup {sending}
    /\ sending' = NoCall
    /\ UNCHANGED <<callVars, idVars, holding, answer, queueVars, waiting, peer, inbox, down,
                   failures, open>>

\* Closed or Io: the reason is recorded, and the actor goes on reading.
WriteLost ==
    /\ route = "actor" /\ sending # NoCall /\ peer = "gone"
    /\ SetDown("lost")
    /\ waiting' = waiting \ {sending}
    /\ Finish({sending}, Verdict("down"))
    /\ sending' = NoCall
    /\ UNCHANGED <<callVars, idVars, queueVars, peerVars, failures, open>>

\* Any other error: the request alone failed.
WriteFailed ==
    /\ route # "direct" /\ sending # NoCall
    /\ waiting' = waiting \ {sending}
    /\ Finish({sending}, Verdict("failed"))
    /\ sending' = NoCall
    /\ UNCHANGED <<callVars, idVars, queueVars, peerVars, down, failures, open>>

\* What the loop of `run` does once the connection is closed: record why, take
\* no more commands, and fail every call still waiting.
Stop(reason) ==
    /\ SetDown(reason)
    /\ actor' = "closing"
    /\ waiting' = {}
    /\ Finish(waiting, Verdict("down"))

\* An inline transport ran the request to its end, and what it queued is read:
\* its reply if there is one, or else the call fails.
InlineRun ==
    /\ route = "inline" /\ sending # NoCall
    /\ served' = served \cup {sending}
    /\ waiting' = waiting \ {sending}
    /\ \E what \in {[kind |-> "ok", of |-> sending], Verdict("failed")} : Finish({sending}, what)
    /\ sending' = NoCall
    /\ UNCHANGED <<callVars, idVars, queueVars, peer, inbox, down, failures, open>>

\* An inline transport that is gone has nothing buffered to go on reading.
InlineLost ==
    /\ route = "inline" /\ sending # NoCall
    /\ Stop("lost")
    /\ sending' = NoCall
    /\ UNCHANGED <<callVars, idVars, queue, peerVars, failures, open>>

\* The waiting calls a reply is matched with, by private id.
Matching(reply) == {c \in waiting : id[c] = reply.id}

\* Actor::route, for a response: to whoever waits under its id, or to nobody.
RouteReply(reply) ==
    /\ route = "actor" /\ Idle /\ reply \in inbox
    /\ inbox' = inbox \ {reply}
    /\ waiting' = waiting \ Matching(reply)
    /\ Finish(Matching(reply), [kind |-> "ok", of |-> reply.of])
    /\ UNCHANGED <<callVars, idVars, queueVars, sending, peer, served, down, failures, open>>

\* TransportError::Decode: an unreadable message is dropped, reply or not.
DropUnreadable(reply) ==
    /\ route = "actor" /\ Idle /\ reply \in inbox
    /\ inbox' = inbox \ {reply}
    /\ UNCHANGED <<callVars, idVars, holding, answer, queueVars, taskVars, peer, served, down,
                   failures, open>>

\* The end of the stream, behind everything buffered.
ReadEnd ==
    /\ route = "actor" /\ Idle /\ peer = "gone" /\ inbox = {}
    /\ Stop("lost")
    /\ UNCHANGED <<callVars, idVars, queue, sending, peerVars, failures, open>>

\* Every handle is gone and the queue is empty: no reason is recorded.
StopUnused ==
    /\ Idle /\ ~open /\ queue = <<>>
    /\ actor' = "ended"
    /\ waiting' = {}
    /\ holding' = holding \ waiting
    /\ UNCHANGED <<callVars, idVars, answer, queue, sending, peerVars, down, failures, open>>

\* transport.close has returned and the actor is dropped, its queue with it:
\* the calls left in there lose the sender of their answer, and their slots.
Exit ==
    /\ actor = "closing"
    /\ actor' = "ended"
    /\ queue' = <<>>
    /\ Finish(Queued, Verdict("lost"))
    /\ UNCHANGED <<callVars, idVars, taskVars, peerVars, down, failures, open>>

-----------------------------------------------------------------------------
(***************************************************************************)
(* The upstream on a pipe or a stream. It answers what it was sent, in any *)
(* order, never or more than once, and may go away at any time, with some  *)
(* of what it sent.                                                        *)
(***************************************************************************)
UpstreamAnswers ==
    /\ route = "actor" /\ peer = "up"
    /\ \E c \in served : inbox' = inbox \cup {[id |-> id[c], of |-> c]}
    /\ UNCHANGED <<callVars, idVars, holding, answer, queueVars, taskVars, peer, served, down,
                   failures, open>>

UpstreamGoes ==
    /\ route = "actor" /\ peer = "up"
    /\ peer' = "gone"
    /\ \E cut \in SUBSET inbox : inbox' = inbox \ cut
    /\ UNCHANGED <<callVars, idVars, holding, answer, queueVars, taskVars, served, down, failures,
                   open>>

-----------------------------------------------------------------------------
Caller(c) ==
    \/ BeginDown(c) \/ Begin(c) \/ Acquire(c) \/ Submit(c) \/ SubmitLate(c)
    \/ StartExchange(c) \/ ExchangeAnswered(c) \/ ExchangeLost(c) \/ ExchangeFailed(c)
    \/ Receive(c) \/ Timeout(c) \/ Drop(c) \/ Tally(c)

TakeCommand == TakeAbandoned \/ TakeDown \/ TakeCall \/ TakeForget

Write == WriteDone \/ WriteLost \/ WriteFailed

ActorTask ==
    \/ TakeCommand \/ Write \/ InlineRun \/ InlineLost
    \/ \E reply \in inbox : RouteReply(reply) \/ DropUnreadable(reply)
    \/ ReadEnd \/ StopUnused \/ Exit

Upstream == UpstreamAnswers \/ UpstreamGoes

Next ==
    /\ (\E c \in Calls : Caller(c)) \/ DropHandles \/ ActorTask \/ Upstream
    /\ UNCHANGED route

Spec == Init /\ [][Next]_vars

(***************************************************************************)
(* Fairness. Tokio polls every task that is woken, its semaphore is first  *)
(* come first served and a timer fires: each step of a started call, and   *)
(* of the actor, is eventually taken. Nothing makes an upstream answer,    *)
(* nor read what is written to it.                                         *)
(***************************************************************************)
CallerFairness ==
    \A c \in Calls :
        /\ WF_state(Acquire(c))
        /\ WF_state(Submit(c) \/ SubmitLate(c) \/ StartExchange(c))
        /\ WF_state(Receive(c))
        /\ WF_state(Timeout(c))
        /\ WF_state(Tally(c))

ActorFairness ==
    /\ WF_state(TakeCommand)
    /\ WF_state(\E reply \in inbox : RouteReply(reply))
    /\ WF_state(ReadEnd)
    /\ WF_state(WriteLost)
    /\ WF_state(InlineRun \/ InlineLost)
    /\ WF_state(Exit)

\* An upstream that keeps reading its input, so that every write ends.
WritesEnd == WF_state(Write)

FairSpec == Spec /\ CallerFairness /\ ActorFairness

-----------------------------------------------------------------------------
\* Each variable has its type (the state of Shared, Actor and the callers).
TypeOK ==
    /\ route \in Routes
    /\ pc \in [Calls -> Steps] /\ outcome \in [Calls -> Outcomes]
    /\ id \in [Calls -> Nat] /\ nextId \in Nat
    /\ holding \subseteq Calls
    /\ answer \in [Calls -> Answer]
    /\ queue \in Seq(Command) /\ actor \in {"running", "closing", "ended"}
    /\ sending \in Calls \cup {NoCall} /\ waiting \subseteq Calls
    /\ peer \in {"up", "gone"} /\ served \subseteq Calls /\ inbox \subseteq Reply
    /\ down \in Reasons /\ failures \in Nat /\ open \in BOOLEAN

\* Private ids and routing by id: the reply a call is given answers that call's
\* own request, whatever the order of replies, and though late, repeated and
\* stray ones arrive.
OwnReply == \A c \in Calls : answer[c].kind = "ok" => answer[c].of = c

\* The in-flight cap: requests that reached the upstream, are unanswered and
\* still have a caller waiting never outnumber the slots, so no slot is given
\* back, or given out again, while its call still waits.
OutstandingBounded ==
    Cardinality({c \in served : pc[c] = "waiting" /\ answer[c] = NoAnswer}) <= MaxInflight

\* No slot leaks: a permit that exists is in the hands of its caller, of a
\* command in the queue, or of a waiter the actor (or a direct exchange) keeps.
SlotHasOwner ==
    \A c \in holding :
        \/ pc[c] = "numbered"
        \/ c \in Queued
        \/ c \in waiting
        \/ route = "direct" /\ pc[c] = "waiting"

\* Waiter::finish: a caller that has its result is no longer counted inflight.
ResultAfterSlot ==
    \A c \in Calls : answer[c].kind \in {"ok", "down", "failed"} => c \notin holding

\* A timeout covers the whole call: waiting for a slot, for the actor, for the
\* write and for the reply. Whatever the upstream does, a timed call ends.
TimedCallsEnd == \A c \in Timed : pc[c] \in Active ~> pc[c] = "ended"

\* A connection that is gone ends every call, those without a timeout included.
LostConnectionEndsCalls ==
    \A c \in Calls : (peer = "gone" /\ pc[c] \in Active) ~> pc[c] = "ended"

\* "A call gives its slot back when its caller stops waiting": no slot outlives
\* its call for ever.
NoSlotOutlivesItsCall == \A c \in Calls : pc[c] = "ended" ~> c \notin holding

\* No call waits for ever where a timeout, or the end of its connection, ends it,
\* and with an upstream that reads its input every slot comes back.
CallsEnd == TimedCallsEnd /\ LostConnectionEndsCalls /\ (WritesEnd => NoSlotOutlivesItsCall)

-----------------------------------------------------------------------------
(***************************************************************************)
(* The inductive invariant behind the safety properties above.             *)
(***************************************************************************)
\* A call that has a private id, so a request that can be on its way.
Numbered == {c \in Calls : id[c] # 0}

\* Private ids are handed out once, past every id of the opening.
IdsUnique ==
    /\ nextId >= FirstId
    /\ \A c \in Calls : pc[c] \in {"idle", "acquire"} => id[c] = 0
    /\ \A c \in Calls : pc[c] \in {"numbered", "waiting"} => id[c] # 0
    /\ \A c \in Numbered : id[c] >= FirstId /\ id[c] < nextId
    /\ \A c, d \in Numbered : id[c] = id[d] => c = d

\* Every reply on its way answers a request that was sent, or the opening.
RepliesTraced ==
    /\ served \subseteq Numbered
    /\ \A reply \in inbox :
          \/ reply.of = NoCall /\ reply.id <= LastOpeningId
          \/ reply.of \in Numbered /\ reply.id = id[reply.of]

\* What the actor knows of a call agrees with where its caller is.
TasksAgree ==
    /\ \A c \in waiting \cup Queued :
          c \in Numbered /\ pc[c] \in {"waiting", "tally", "ended"}
    /\ sending # NoCall => sending \in waiting
    /\ \A c \in Calls : [kind |-> "forget", call |-> c] \in ToSet(queue) => pc[c] \in {"tally", "ended"}
    /\ \A c \in Calls : pc[c] \in {"idle", "acquire", "numbered"} => answer[c] = NoAnswer
    /\ ~open => \A c \in Calls : pc[c] \notin Active

\* A slot is held for exactly as long as its call is on its way.
SlotsHeld ==
    /\ Cardinality(holding) <= MaxInflight
    /\ \A c \in holding : pc[c] # "idle" /\ pc[c] # "acquire"
    /\ \A c \in Calls : pc[c] = "numbered" => c \in holding
    /\ \A c \in Calls : pc[c] = "waiting" /\ answer[c] = NoAnswer => c \in holding

MuxInv ==
    /\ TypeOK /\ IdsUnique /\ RepliesTraced /\ TasksAgree /\ SlotsHeld
    /\ OwnReply /\ SlotHasOwner /\ ResultAfterSlot

-----------------------------------------------------------------------------
\* What the handle promises its callers, whatever the route: see CallContract.
Contract == INSTANCE CallContract WITH
    Limit <- MaxInflight,
    stage <- [c \in Calls |-> IF pc[c] = "idle" THEN "idle"
                              ELSE IF pc[c] \in {"tally", "ended"} THEN "done" ELSE "open"],
    busy <- holding,
    sent <- served,
    result <- [c \in Calls |-> IF outcome[c] = "none" THEN "none"
                               ELSE IF outcome[c] = "ok" THEN "reply" ELSE "no reply"]

\* The handle keeps the contract.
KeepsContract == Contract!Spec
==============================================================================
