-------------------------- MODULE GatewayCallProofs ---------------------------
(***************************************************************************)
(* Proofs about GatewayCall, for any requests, answers, configurations and *)
(* verdicts, any number of calls and any bounds.                           *)
(***************************************************************************)
EXTENDS GatewayCall, FiniteSetTheorems, WellFoundedInduction, TLAPS

-----------------------------------------------------------------------------
(***************************************************************************)
(* The listener's permits.                                                 *)
(***************************************************************************)
Held == {"entered", "arrived", "passed", "asked", "recording"}

\* The requests that have a permit.
Holders == {c \in Calls : calls[c].stage \in Held}

HasStage == DOMAIN calls = Calls /\ \A c \in Calls : "stage" \in DOMAIN calls[c]

PermitsInv ==
    /\ HasStage
    /\ elsewhere \in Nat
    /\ inflight = elsewhere + Cardinality(Holders)

LEMMA PermitsInvMeans == PermitsInv => PermitsAreHeld
<1>1. Holders = {c \in Calls : calls[c].stage = "entered" \/ Running(c)}
  BY DEF Holders, Held, Running
<1> QED BY <1>1 DEF PermitsInv, PermitsAreHeld

LEMMA HoldersFinite == IsFiniteSet(Holders) /\ Cardinality(Holders) \in Nat
<1>1. Holders \subseteq Calls
  BY DEF Holders
<1> QED BY <1>1, GatewayAssumption, FS_Subset, FS_CardinalityType

\* A request that becomes r, and what it has before and after.
LEMMA Becoming ==
  ASSUME HasStage, NEW c \in Calls, NEW r, "stage" \in DOMAIN r, Becomes(c, r)
  PROVE  HasStage' /\ \A d \in Calls : calls'[d] = IF d = c THEN r ELSE calls[d]
<1>1. DOMAIN calls' = Calls /\ \A d \in Calls : calls'[d] = IF d = c THEN r ELSE calls[d]
  BY DEF Becomes, HasStage
<1> QED BY <1>1 DEF HasStage

\* A request goes on with its permit, or without one as before.
LEMMA KeepsPermit ==
  ASSUME PermitsInv, NEW c \in Calls, NEW r, "stage" \in DOMAIN r, Becomes(c, r),
         (calls[c].stage \in Held) <=> (r.stage \in Held), UNCHANGED <<inflight, elsewhere>>
  PROVE  PermitsInv'
<1>1. HasStage' /\ \A d \in Calls : calls'[d] = IF d = c THEN r ELSE calls[d]
  BY Becoming DEF PermitsInv
<1>2. Holders' = Holders
  BY <1>1 DEF Holders
<1> QED BY <1>1, <1>2 DEF PermitsInv

\* A request takes a permit.
LEMMA TakesPermit ==
  ASSUME PermitsInv, NEW c \in Calls, NEW r, "stage" \in DOMAIN r, Becomes(c, r),
         calls[c].stage \notin Held, r.stage \in Held,
         inflight' = inflight + 1, UNCHANGED elsewhere
  PROVE  PermitsInv'
<1>1. HasStage' /\ \A d \in Calls : calls'[d] = IF d = c THEN r ELSE calls[d]
  BY Becoming DEF PermitsInv
<1>2. Holders' = Holders \cup {c} /\ c \notin Holders
  BY <1>1 DEF Holders
<1>3. Cardinality(Holders') = Cardinality(Holders) + 1
  BY <1>2, HoldersFinite, FS_AddElement
<1> QED BY <1>1, <1>3, HoldersFinite DEF PermitsInv

\* A request gives its permit back.
LEMMA GivesPermitBack ==
  ASSUME PermitsInv, NEW c \in Calls, NEW r, "stage" \in DOMAIN r, Becomes(c, r),
         calls[c].stage \in Held, r.stage \notin Held,
         inflight' = inflight - 1, UNCHANGED elsewhere
  PROVE  PermitsInv'
<1>1. HasStage' /\ \A d \in Calls : calls'[d] = IF d = c THEN r ELSE calls[d]
  BY Becoming DEF PermitsInv
<1>2. Holders' = Holders \ {c} /\ c \in Holders
  BY <1>1 DEF Holders
<1>3. Cardinality(Holders') = Cardinality(Holders) - 1
  BY <1>2, HoldersFinite, FS_RemoveElement
<1> QED BY <1>1, <1>3, HoldersFinite DEF PermitsInv

-----------------------------------------------------------------------------
LEMMA InitPermits == Init => PermitsInv
<1> SUFFICES ASSUME Init PROVE PermitsInv
  OBVIOUS
<1>1. calls = [c \in Calls |-> Idle] /\ elsewhere \in Elsewhere /\ inflight = elsewhere
  BY DEF Init
<1>2. HasStage /\ \A c \in Calls : calls[c].stage = "new"
  BY <1>1 DEF HasStage, Idle
<1>3. Holders = {}
  BY <1>2 DEF Holders, Held
<1>4. Cardinality(Holders) = 0
  BY <1>3, FS_EmptySet
<1> QED BY <1>1, <1>2, <1>4, GatewayAssumption DEF PermitsInv

LEMMA Entering ==
  ASSUME NEW c \in Calls, Enter(c)
  PROVE  \E req \in Requests[c] :
            IF inflight < MaxInflight
            THEN /\ inflight' = inflight + 1
                 /\ Becomes(c, [Idle EXCEPT !.stage = "entered", !.req = req])
            ELSE /\ Becomes(c, [Idle EXCEPT !.stage = "gone"])
                 /\ UNCHANGED inflight
  BY DEF Enter

LEMMA EnterPermits ==
  ASSUME PermitsInv, NEW c \in Calls, Enter(c)
  PROVE  PermitsInv'
<1>1. calls[c].stage = "new" /\ UNCHANGED elsewhere
  BY DEF Enter, At, shared
<1>2. PICK req \in Requests[c] :
         IF inflight < MaxInflight
         THEN /\ inflight' = inflight + 1
              /\ Becomes(c, [Idle EXCEPT !.stage = "entered", !.req = req])
         ELSE /\ Becomes(c, [Idle EXCEPT !.stage = "gone"])
              /\ UNCHANGED inflight
  BY DEF Enter
<1>3. CASE inflight < MaxInflight
  <2> DEFINE r == [Idle EXCEPT !.stage = "entered", !.req = req]
  <2>1. "stage" \in DOMAIN r /\ r.stage = "entered"
    BY DEF Idle
  <2> HIDE DEF r
  <2>2. Becomes(c, r) /\ inflight' = inflight + 1
    BY <1>2, <1>3 DEF r
  <2> QED BY <1>1, <2>1, <2>2, TakesPermit DEF Held
<1>4. CASE ~(inflight < MaxInflight)
  <2> DEFINE r == [Idle EXCEPT !.stage = "gone"]
  <2>1. "stage" \in DOMAIN r /\ r.stage = "gone"
    BY DEF Idle
  <2> HIDE DEF r
  <2>2. Becomes(c, r) /\ UNCHANGED inflight
    BY <1>2, <1>4 DEF r
  <2> QED BY <1>1, <2>1, <2>2, KeepsPermit DEF Held
<1> QED BY <1>3, <1>4

\* Refused, or answered by the gateway alone.
LEMMA GonePermits ==
  ASSUME PermitsInv, NEW c \in Calls, calls[c].stage \in Held,
         inflight' = inflight - 1, Becomes(c, [Idle EXCEPT !.stage = "gone"]), UNCHANGED elsewhere
  PROVE  PermitsInv'
<1> DEFINE r == [Idle EXCEPT !.stage = "gone"]
<1>1. "stage" \in DOMAIN r /\ r.stage = "gone" /\ Becomes(c, r)
  BY DEF Idle
<1> HIDE DEF r
<1> QED BY <1>1, GivesPermitBack DEF Held

\* Judged, whatever the judgement.
LEMMA GoesOnPermits ==
  ASSUME PermitsInv, NEW c \in Calls, NEW call, At(c, "arrived"), "stage" \in DOMAIN call,
         GoesOn(c, call)
  PROVE  PermitsInv'
<1> DEFINE r == [call EXCEPT !.stage = IF call.decision = Allow THEN "passed" ELSE "recording"]
<1>1. "stage" \in DOMAIN r /\ r.stage \in {"passed", "recording"}
  OBVIOUS
<1>2. Becomes(c, r) /\ UNCHANGED <<inflight, elsewhere>>
  BY DEF GoesOn, shared
<1> HIDE DEF r
<1> QED BY <1>1, <1>2, KeepsPermit DEF At, Held

\* What judges a request changes nothing of it but what it judges.
LEMMA JudgedHasStage ==
  ASSUME HasStage, NEW c \in Calls
  PROVE  /\ \A route : "stage" \in DOMAIN JudgeTool(c, route)
         /\ \A server, target, args : "stage" \in DOMAIN JudgeTarget(c, server, target, args)
         /\ \A target, rule : "stage" \in DOMAIN Denied(c, target, rule)
<1>1. "stage" \in DOMAIN calls[c]
  BY DEF HasStage
<1>2. ASSUME NEW route PROVE "stage" \in DOMAIN JudgeTool(c, route)
  BY <1>1 DEF JudgeTool
<1>3. ASSUME NEW server, NEW target, NEW args
      PROVE  "stage" \in DOMAIN JudgeTarget(c, server, target, args)
  BY <1>1 DEF JudgeTarget
<1>4. ASSUME NEW target, NEW rule PROVE "stage" \in DOMAIN Denied(c, target, rule)
  BY <1>1 DEF Denied
<1> QED BY <1>2, <1>3, <1>4

LEMMA CallToolPermits ==
  ASSUME PermitsInv, NEW c \in Calls, CallTool(c)
  PROVE  PermitsInv'
<1>1. HasStage /\ At(c, "arrived")
  BY DEF PermitsInv, CallTool
<1>2. PICK call : "stage" \in DOMAIN call /\ GoesOn(c, call)
  BY <1>1, JudgedHasStage DEF CallTool
<1> QED BY <1>1, <1>2, GoesOnPermits

LEMMA AskForPermits ==
  ASSUME PermitsInv, NEW c \in Calls, At(c, "arrived"), NEW target, NEW args,
         AskFor(c, target, args)
  PROVE  PermitsInv'
<1>1. PICK call : "stage" \in DOMAIN call /\ GoesOn(c, call)
  <2> DEFINE ways == Routed(calls[c].gov.cfg, target)
  <2>1. GoesOn(c, IF ways = <<>> THEN Denied(c, target, NotAllowed[target.kind])
                  ELSE JudgeTarget(c, Head(ways), target, args))
    BY DEF AskFor
  <2>2. HasStage
    BY DEF PermitsInv
  <2> HIDE DEF ways
  <2> QED BY <2>1, <2>2, JudgedHasStage
<1> QED BY <1>1, GoesOnPermits

LEMMA ReadPermits ==
  ASSUME PermitsInv, NEW c \in Calls, Read(c)
  PROVE  PermitsInv'
<1> DEFINE uri == Normal[calls[c].req.name]
           target == [kind |-> "resource", name |-> uri]
<1>1. At(c, "arrived") /\ (IF uri = UriRefused THEN GoesOn(c, Denied(c, target, "uri-refused"))
                           ELSE AskFor(c, target, Nothing))
  BY DEF Read
<1>2. "stage" \in DOMAIN Denied(c, target, "uri-refused")
  BY JudgedHasStage DEF PermitsInv
<1> HIDE DEF target, uri
<1> QED BY <1>1, <1>2, GoesOnPermits, AskForPermits

LEMMA Dispatching ==
  ASSUME HasStage, NEW c \in Calls, Dispatch(c)
  PROVE  \E r : Becomes(c, r) /\ "stage" \in DOMAIN r /\ r.stage \in {"recording", "asked"}
<1>0. "stage" \in DOMAIN calls[c]
  BY SMTT(30) DEF HasStage
<1> DEFINE call == calls[c]
           tried == {Spend(l, Bucket(call), clock) : l \in limiter.on}
           shed == \E t \in tried : t.shed # "none"
           down == call.gov.slots[call.server].conn = {}
           spent == [bucket |-> Bucket(call), at |-> clock, limiter |-> limiter.before]
           late == [call EXCEPT !.stage = "recording", !.decision = "rate-limited"]
           lost == [call EXCEPT !.stage = "recording", !.decision = "upstream-down", !.spent = {spent}]
           asks == [call EXCEPT !.stage = "asked", !.spent = {spent},
                                !.sent = {[server |-> call.server, target |-> call.target,
                                           args |-> call.args]}]
<1>1. Becomes(c, CASE shed -> late [] ~shed /\ down -> lost [] ~shed /\ ~down -> asks)
  BY DEF Dispatch
<1>2. "stage" \in DOMAIN late /\ late.stage = "recording"
  BY <1>0
<1>3. "stage" \in DOMAIN lost /\ lost.stage = "recording"
  BY <1>0
<1>4. "stage" \in DOMAIN asks /\ asks.stage = "asked"
  BY <1>0
<1> HIDE DEF late, lost, asks, shed, down
<1>5. Becomes(c, late) \/ Becomes(c, lost) \/ Becomes(c, asks)
  <2>1. CASE shed
    BY <1>1, <2>1
  <2>2. CASE ~shed /\ down
    BY <1>1, <2>2
  <2>3. CASE ~shed /\ ~down
    BY <1>1, <2>3
  <2> QED BY <2>1, <2>2, <2>3
<1> QED BY <1>2, <1>3, <1>4, <1>5

LEMMA DispatchPermits ==
  ASSUME PermitsInv, NEW c \in Calls, Dispatch(c)
  PROVE  PermitsInv'
<1>1. calls[c].stage = "passed" /\ UNCHANGED <<inflight, elsewhere>>
  BY DEF Dispatch, At
<1>2. PICK r : Becomes(c, r) /\ "stage" \in DOMAIN r /\ r.stage \in {"recording", "asked"}
  BY Dispatching DEF PermitsInv
<1> QED BY <1>1, <1>2, KeepsPermit, SMTT(30) DEF Held

LEMMA AnsweredPermits ==
  ASSUME PermitsInv, NEW c \in Calls, Answered(c)
  PROVE  PermitsInv'
<1>1. calls[c].stage = "asked" /\ UNCHANGED <<inflight, elsewhere>>
  BY DEF Answered, At
<1>2. PICK answer \in Answers : Becomes(c, Inspected(calls[c], answer))
  BY DEF Answered
<1>3. "stage" \in DOMAIN calls[c]
  BY DEF PermitsInv, HasStage
<1>4. "stage" \in DOMAIN Inspected(calls[c], answer) /\ Inspected(calls[c], answer).stage = "recording"
  BY <1>3 DEF Inspected, InspectedContents, InspectedPrompt, InspectedCompletion, Settled
<1> QED BY <1>1, <1>2, <1>4, KeepsPermit DEF Held

LEMMA RecordPermits ==
  ASSUME PermitsInv, NEW c \in Calls, Record(c)
  PROVE  PermitsInv'
<1> DEFINE r == [Idle EXCEPT !.stage = "done", !.spent = calls[c].spent,
                             !.sent = calls[c].sent, !.decision = calls[c].decision]
<1>1. "stage" \in DOMAIN r /\ r.stage = "done"
  BY DEF Idle
<1>2. Becomes(c, r) /\ inflight' = inflight - 1 /\ UNCHANGED elsewhere /\ calls[c].stage = "recording"
  BY DEF Record, shared, At
<1> HIDE DEF r
<1> QED BY <1>1, <1>2, GivesPermitBack DEF Held

\* The steps that only say how far the request is.
LEMMA PlainPermits ==
  ASSUME PermitsInv, NEW c \in Calls, Leave(c) \/ Arrive(c) \/ AskLists(c) \/ Fails(c)
  PROVE  PermitsInv'
<1>1. "stage" \in DOMAIN calls[c]
  BY DEF PermitsInv, HasStage
<1>2. CASE Leave(c)
  BY <1>1, <1>2, KeepsPermit DEF Leave, shared
<1>3. CASE Arrive(c)
  BY <1>1, <1>3, KeepsPermit DEF Arrive, At, Held, shared
<1>4. CASE AskLists(c)
  BY <1>1, <1>4, KeepsPermit DEF AskLists, At, Held, shared
<1>5. CASE Fails(c)
  BY <1>1, <1>5, KeepsPermit DEF Fails, At, Held, shared
<1> QED BY <1>2, <1>3, <1>4, <1>5

LEMMA CallStepPermits ==
  ASSUME PermitsInv, NEW c \in Calls, CallStep(c)
  PROVE  PermitsInv'
<1>1. CASE Enter(c)
  BY <1>1, EnterPermits
<1>2. CASE Refuse(c)
  BY <1>2, GonePermits DEF Refuse, At, Held, shared
<1>3. CASE AnswerAlone(c)
  BY <1>3, GonePermits DEF AnswerAlone, At, Held, shared
<1>4. CASE Gather(c)
  BY <1>4, GonePermits DEF Gather, At, Held
<1>5. CASE Leave(c) \/ Arrive(c) \/ AskLists(c) \/ Fails(c)
  BY <1>5, PlainPermits
<1>6. CASE CallTool(c)
  BY <1>6, CallToolPermits
<1>7. CASE Read(c)
  BY <1>7, ReadPermits
<1>8. CASE GetPrompt(c) \/ Complete(c)
  BY <1>8, AskForPermits DEF GetPrompt, Complete
<1>9. CASE RefuseMethod(c)
  BY <1>9, GoesOnPermits, JudgedHasStage DEF RefuseMethod, PermitsInv
<1>10. CASE Dispatch(c)
  BY <1>10, DispatchPermits
<1>11. CASE Answered(c)
  BY <1>11, AnsweredPermits
<1>12. CASE Record(c)
  BY <1>12, RecordPermits
<1> QED BY <1>1, <1>2, <1>3, <1>4, <1>5, <1>6, <1>7, <1>8, <1>9, <1>10, <1>11, <1>12 DEF CallStep

LEMMA UntouchedPermits ==
  ASSUME PermitsInv, UNCHANGED <<calls, inflight, elsewhere>>
  PROVE  PermitsInv'
  BY DEF PermitsInv, HasStage, Holders

LEMMA NextPermits ==
  ASSUME PermitsInv, [Next]_vars
  PROVE  PermitsInv'
<1>1. ASSUME NEW c \in Calls, CallStep(c) PROVE PermitsInv'
  BY <1>1, CallStepPermits
<1>2. ASSUME NEW s \in DOMAIN Verdicts, Opened(s) PROVE PermitsInv'
  BY <1>2, UntouchedPermits DEF Opened
<1>3. CASE Reload
  BY <1>3, UntouchedPermits DEF Reload
<1>4. CASE StoreLimiter
  BY <1>4, UntouchedPermits DEF StoreLimiter
<1>5. CASE Tick
  BY <1>5, UntouchedPermits DEF Tick, shared
<1>6. CASE UNCHANGED vars
  BY <1>6, UntouchedPermits DEF vars, shared
<1> QED BY <1>1, <1>2, <1>3, <1>4, <1>5, <1>6 DEF Next

\* A permit is taken for exactly as long as its call goes on: handle_post gives
\* it to a future that RunToEnd keeps, whichever way the call ends and whether or
\* not its client waits. No request leaks one, and none gives back two.
THEOREM PermitsFollowCalls == Spec => []PermitsAreHeld
<1>1. Init => PermitsInv
  BY InitPermits
<1>2. PermitsInv /\ [Next]_vars => PermitsInv'
  BY NextPermits
<1>3. PermitsInv => PermitsAreHeld
  BY PermitsInvMeans
<1> QED BY <1>1, <1>2, <1>3, PTL DEF Spec

-----------------------------------------------------------------------------
(***************************************************************************)
(* Where a name's calls go.                                                *)
(***************************************************************************)
LEMMA Least ==
  ASSUME NEW T \in SUBSET Nat, T # {}
  PROVE  \E m \in T : \A j \in T : m <= j
<1> DEFINE before == {ss \in Nat \X Nat : ss[1] < ss[2]}
<1>1. IsWellFoundedOn(before, Nat)
  BY NatLessThanWellFounded DEF OpToRel
<1>2. PICK m \in T : \A j \in T : ~(<<j, m>> \in before)
  <2> HIDE DEF before
  <2> QED BY <1>1, WFMin
<1>3. ASSUME NEW j \in T PROVE m <= j
  <2>1. m \in Nat /\ j \in Nat
    OBVIOUS
  <2>2. ASSUME j < m PROVE <<j, m>> \in before
    <3>1. <<j, m>>[1] = j /\ <<j, m>>[2] = m /\ <<j, m>> \in Nat \X Nat
      BY <2>1
    <3> QED BY <2>2, <3>1
  <2>3. ~(j < m)
    <3> HIDE DEF before
    <3> QED BY <1>2, <2>2
  <2> QED BY <2>1, <2>3
<1> QED BY <1>3

\* The servers' places where FirstWith may choose, and what it chooses.
Having(p, tools) == {i \in DOMAIN p.order : tools[i] # {}}

LEMMA FirstWithIsFirst ==
  ASSUME NEW p, DOMAIN p.order \subseteq Nat, NEW tools
  PROVE  /\ Having(p, tools) = {} => FirstWith(p, tools) = {}
         /\ Having(p, tools) # {} => \E first \in Having(p, tools) :
               /\ \A j \in Having(p, tools) : first <= j
               /\ \E tool \in tools[first] :
                     FirstWith(p, tools) = {[server |-> p.order[first], tool |-> tool]}
<1> DEFINE having == Having(p, tools)
           first == CHOOSE i \in having : \A j \in having : i <= j
           tool == CHOOSE tool \in tools[first] : TRUE
<1>1. FirstWith(p, tools) = IF having = {} THEN {} ELSE {[server |-> p.order[first], tool |-> tool]}
  BY DEF FirstWith, Having
<1>2. ASSUME having # {} PROVE first \in having /\ \A j \in having : first <= j
  <2>1. \E i \in having : \A j \in having : i <= j
    BY <1>2, Least DEF Having
  <2> QED BY <2>1
<1>3. ASSUME having # {} PROVE tool \in tools[first]
  <2>1. tools[first] # {}
    BY <1>2, <1>3 DEF Having
  <2> QED BY <2>1
<1> HIDE DEF first, tool
<1> QED BY <1>1, <1>2, <1>3

\* A version of the governance: its names routed by its own slots.
Version(g) ==
    /\ g.cfg \in Configs
    /\ g.routes = Reroute(g.cfg, g.slots)
    /\ DOMAIN g.slots = Range(g.cfg.order)
    /\ \A s \in DOMAIN g.slots : ToolsOf(g.slots[s]) \subseteq Tools

LEMMA OrderType ==
  ASSUME NEW p \in Configs
  PROVE  /\ DOMAIN p.order \subseteq Nat
         /\ Range(p.order) \subseteq DOMAIN Verdicts
         /\ \A i \in DOMAIN p.order : p.order[i] \in Range(p.order)
<1>1. p.order \in Seq(DOMAIN Verdicts)
  BY ServersAssumption
<1> QED BY <1>1 DEF Range

\* The places of the servers that offer the name.
Offers(g, name) == {i \in DOMAIN g.cfg.order : Offering(g.cfg, g.slots, i, name) # {}}

\* The owner of a name is the first that offers it.
LEMMA OwnerIsFirst ==
  ASSUME NEW g, g.cfg \in Configs, NEW name, NEW first \in Offers(g, name),
         \A j \in Offers(g, name) : first <= j
  PROVE  Owner(g, name) = {g.cfg.order[first]}
<1> DEFINE owners == {i \in DOMAIN g.cfg.order :
                        \E tool \in ToolsOf(g.slots[g.cfg.order[i]]) :
                           /\ ListedName(g.cfg, g.cfg.order[i], tool) = name
                           /\ DecideTool(g.cfg, g.cfg.order[i], tool) = Allow}
<1>1. owners = Offers(g, name)
  BY DEF Offers, Offering, Listing
<1>2. Owner(g, name) = {g.cfg.order[i] : i \in {i \in owners : \A j \in owners : i <= j}}
  BY DEF Owner
<1>3. Offers(g, name) \subseteq Nat
  BY OrderType DEF Offers
<1>4. \A i \in Offers(g, name) : (\A j \in Offers(g, name) : i <= j) => i = first
  BY <1>3
<1> HIDE DEF owners
<1> QED BY <1>1, <1>2, <1>4

LEMMA NoOwner ==
  ASSUME NEW g, NEW name, Offers(g, name) = {}
  PROVE  Owner(g, name) = {}
<1>1. {i \in DOMAIN g.cfg.order :
         \E tool \in ToolsOf(g.slots[g.cfg.order[i]]) :
            /\ ListedName(g.cfg, g.cfg.order[i], tool) = name
            /\ DecideTool(g.cfg, g.cfg.order[i], tool) = Allow} = Offers(g, name)
  BY DEF Offers, Offering, Listing
<1> QED BY <1>1 DEF Owner

\* A name that some server offers is routed to its owner.
LEMMA OfferedIsRouted ==
  ASSUME NEW g, Version(g), NEW name \in DOMAIN g.routes, Offers(g, name) # {}
  PROVE  Owner(g, name) = {g.routes[name].server}
<1> DEFINE p == g.cfg
           offering == [i \in DOMAIN p.order |-> Offering(p, g.slots, i, name)]
           listing == [i \in DOMAIN p.order |-> Listing(p, g.slots, i, name)]
<1>1. p \in Configs /\ DOMAIN p.order \subseteq Nat
  BY OrderType DEF Version
<1>2. Offers(g, name) = Having(p, offering)
  BY DEF Offers, Having
<1>3. PICK first \in Offers(g, name) :
         /\ \A j \in Offers(g, name) : first <= j
         /\ \E tool \in offering[first] :
               FirstWith(p, offering) = {[server |-> p.order[first], tool |-> tool]}
  <2> HIDE DEF offering, p
  <2> QED BY <1>1, <1>2, FirstWithIsFirst
<1>4. PICK tool : FirstWith(p, offering) = {[server |-> p.order[first], tool |-> tool]}
  BY <1>3
<1>5. g.routes[name] = CHOOSE route \in IF FirstWith(p, offering) # {} THEN FirstWith(p, offering)
                                        ELSE FirstWith(p, listing) : TRUE
  <2>1. g.routes = Reroute(p, g.slots) /\ name \in ListedNames(p, g.slots)
    BY DEF Version, Reroute
  <2> QED BY <2>1 DEF Reroute
<1>6. g.routes[name].server = p.order[first]
  <2> DEFINE routes == IF FirstWith(p, offering) # {} THEN FirstWith(p, offering)
                       ELSE FirstWith(p, listing)
  <2> HIDE DEF offering, listing, p
  <2>1. routes = {[server |-> p.order[first], tool |-> tool]}
    BY <1>4
  <2>2. g.routes[name] = CHOOSE route \in routes : TRUE
    BY <1>5
  <2> HIDE DEF routes
  <2>3. g.routes[name] \in routes
    BY <2>1, <2>2
  <2> QED BY <2>1, <2>3
<1>7. Owner(g, name) = {p.order[first]}
  BY <1>1, <1>3, OwnerIsFirst
<1> QED BY <1>6, <1>7

Suspects(slot) == slot.drifted \cup slot.poisoned \cup slot.refused

\* What is shown, spelt out.
LEMMA ShownEntries ==
  ASSUME NEW p, NEW slots, NEW routes, NEW entry
  PROVE  entry \in Listed(p, slots, routes) <=>
           \E i \in DOMAIN p.order : \E tool \in ToolsOf(slots[p.order[i]]) :
              /\ entry = [server |-> p.order[i], tool |-> tool,
                          name |-> ListedName(p, p.order[i], tool)]
              /\ DecideTool(p, p.order[i], tool) = Allow
              /\ tool \notin Suspects(slots[p.order[i]])
              /\ entry.name \in DOMAIN routes
              /\ routes[entry.name].server = p.order[i]
<1> DEFINE Of(i) == {[server |-> p.order[i], tool |-> tool,
                      name |-> ListedName(p, p.order[i], tool)] :
                        tool \in ToolsOf(slots[p.order[i]])}
           Stays(e) == LET slot == slots[e.server]
                       IN /\ DecideTool(p, e.server, e.tool) = Allow
                          /\ e.tool \notin slot.drifted \cup slot.poisoned \cup slot.refused
                          /\ e.name \in DOMAIN routes
                          /\ routes[e.name].server = e.server
<1>1. Listed(p, slots, routes) = {e \in UNION {Of(i) : i \in DOMAIN p.order} : Stays(e)}
  BY DEF Listed
<1>2. entry \in Listed(p, slots, routes) <=> (\E i \in DOMAIN p.order : entry \in Of(i)) /\ Stays(entry)
  <2> HIDE DEF Of, Stays
  <2> QED BY <1>1
<1>3. ASSUME NEW i \in DOMAIN p.order, NEW tool \in ToolsOf(slots[p.order[i]]),
             entry = [server |-> p.order[i], tool |-> tool,
                      name |-> ListedName(p, p.order[i], tool)]
      PROVE  Stays(entry) <=> /\ DecideTool(p, p.order[i], tool) = Allow
                              /\ tool \notin Suspects(slots[p.order[i]])
                              /\ entry.name \in DOMAIN routes
                              /\ routes[entry.name].server = p.order[i]
  BY <1>3 DEF Suspects
<1> HIDE DEF Stays
<1> QED BY <1>2, <1>3

LEMMA ShownHasOwner ==
  ASSUME NEW g, Version(g), NEW entry \in Listed(g.cfg, g.slots, g.routes)
  PROVE  Owner(g, entry.name) = {entry.server}
<1>0. PICK i \in DOMAIN g.cfg.order : \E tool \in ToolsOf(g.slots[g.cfg.order[i]]) :
         /\ entry = [server |-> g.cfg.order[i], tool |-> tool,
                     name |-> ListedName(g.cfg, g.cfg.order[i], tool)]
         /\ DecideTool(g.cfg, g.cfg.order[i], tool) = Allow
         /\ entry.name \in DOMAIN g.routes
         /\ g.routes[entry.name].server = g.cfg.order[i]
  BY ShownEntries
<1>1. PICK tool \in ToolsOf(g.slots[g.cfg.order[i]]) :
         /\ entry = [server |-> g.cfg.order[i], tool |-> tool,
                     name |-> ListedName(g.cfg, g.cfg.order[i], tool)]
         /\ DecideTool(g.cfg, g.cfg.order[i], tool) = Allow
         /\ entry.name \in DOMAIN g.routes
         /\ g.routes[entry.name].server = g.cfg.order[i]
  BY <1>0
<1>2. entry.server = g.cfg.order[i] /\ entry.name = ListedName(g.cfg, g.cfg.order[i], tool)
  BY <1>1
<1>3. tool \in Offering(g.cfg, g.slots, i, entry.name)
  BY <1>1, <1>2 DEF Offering, Listing
<1>4. Offers(g, entry.name) # {}
  BY <1>3 DEF Offers
<1> QED BY <1>1, <1>2, <1>4, OfferedIsRouted

\* The tools shown by a name, and those a server lists by it.
ShownTools(g, name) ==
  {entry.tool : entry \in {entry \in Listed(g.cfg, g.slots, g.routes) : entry.name = name}}

ToolsNamed(g, server, name) ==
  {tool \in ToolsOf(g.slots[server]) : ListedName(g.cfg, server, tool) = name}

\* All the tools an owner lists by the name are shown, but for the suspects.
LEMMA OwnerShows ==
  ASSUME NEW g, Version(g), NEW name \in DOMAIN g.routes, NEW owner \in Owner(g, name)
  PROVE  ShownTools(g, name) = ToolsNamed(g, owner, name) \ Suspects(g.slots[owner])
<1> DEFINE shown == Listed(g.cfg, g.slots, g.routes)
           tools == ToolsNamed(g, owner, name)
<1>1. Offers(g, name) # {}
  BY NoOwner
<1>2. owner = g.routes[name].server /\ Owner(g, name) = {owner}
  BY <1>1, OfferedIsRouted
<1>3. PICK i \in DOMAIN g.cfg.order :
         /\ g.cfg.order[i] = owner
         /\ \E tool \in ToolsOf(g.slots[owner]) :
               ListedName(g.cfg, owner, tool) = name /\ DecideTool(g.cfg, owner, tool) = Allow
  BY DEF Owner
<1>4. g.cfg \in Configs /\ owner \in Range(g.cfg.order) /\ ToolsOf(g.slots[owner]) \subseteq Tools
  BY <1>3, OrderType DEF Version
<1>5. ASSUME NEW entry \in shown, entry.name = name
      PROVE  entry.tool \in tools \ Suspects(g.slots[owner])
  <2>0. PICK j \in DOMAIN g.cfg.order : \E tool \in ToolsOf(g.slots[g.cfg.order[j]]) :
           /\ entry = [server |-> g.cfg.order[j], tool |-> tool,
                       name |-> ListedName(g.cfg, g.cfg.order[j], tool)]
           /\ tool \notin Suspects(g.slots[g.cfg.order[j]])
           /\ g.routes[entry.name].server = g.cfg.order[j]
    BY ShownEntries
  <2>1. PICK tool \in ToolsOf(g.slots[g.cfg.order[j]]) :
           /\ entry = [server |-> g.cfg.order[j], tool |-> tool,
                       name |-> ListedName(g.cfg, g.cfg.order[j], tool)]
           /\ tool \notin Suspects(g.slots[g.cfg.order[j]])
           /\ g.routes[entry.name].server = g.cfg.order[j]
    BY <2>0
  <2>2. g.cfg.order[j] = owner
    BY <2>1, <1>2, <1>5
  <2>3. entry.tool = tool /\ ListedName(g.cfg, owner, tool) = name
    BY <2>1, <2>2, <1>5
  <2> QED BY <2>1, <2>2, <2>3 DEF ToolsNamed
<1>6. ASSUME NEW tool \in tools \ Suspects(g.slots[owner])
      PROVE  \E entry \in shown : entry.name = name /\ entry.tool = tool
  <2>1. DecideTool(g.cfg, owner, tool) = Allow
    <3>1. PICK other \in ToolsOf(g.slots[owner]) :
             ListedName(g.cfg, owner, other) = name /\ DecideTool(g.cfg, owner, other) = Allow
      BY <1>3
    <3>2. other = tool
      BY <1>4, <1>6, <3>1, ServersAssumption DEF ToolsNamed
    <3> QED BY <3>1, <3>2
  <2> DEFINE entry == [server |-> owner, tool |-> tool, name |-> ListedName(g.cfg, owner, tool)]
  <2>2. entry.name = name /\ entry.tool = tool
    BY <1>6 DEF ToolsNamed
  <2>3. entry \in shown
    <3>1. tool \in ToolsOf(g.slots[g.cfg.order[i]]) /\ tool \notin Suspects(g.slots[g.cfg.order[i]])
      BY <1>3, <1>6 DEF ToolsNamed
    <3>2. entry = [server |-> g.cfg.order[i], tool |-> tool,
                   name |-> ListedName(g.cfg, g.cfg.order[i], tool)]
      BY <1>3
    <3>3. DecideTool(g.cfg, g.cfg.order[i], tool) = Allow
      BY <1>3, <2>1
    <3>4. entry.name \in DOMAIN g.routes /\ g.routes[entry.name].server = g.cfg.order[i]
      BY <1>2, <1>3, <2>2
    <3> HIDE DEF entry
    <3> QED BY <3>1, <3>2, <3>3, <3>4, ShownEntries
  <2> QED BY <2>2, <2>3
<1> HIDE DEF shown, tools
<1>7. {entry.tool : entry \in {entry \in shown : entry.name = name}} = tools \ Suspects(g.slots[owner])
  BY <1>5, <1>6
<1> QED BY <1>7 DEF ShownTools, shown, tools

LEMMA VersionShows == ASSUME Version(governance) PROVE ShownIsServed
<1> DEFINE g == governance
<1>1. \A entry \in Listed(g.cfg, g.slots, g.routes) : Owner(g, entry.name) = {entry.server}
  BY ShownHasOwner
<1>2. ASSUME NEW name \in ListedNames(g.cfg, g.slots), NEW owner \in Owner(g, name)
      PROVE  ShownTools(g, name) = ToolsNamed(g, owner, name) \ Suspects(g.slots[owner])
  <2>1. name \in DOMAIN g.routes
    BY DEF Version, Reroute
  <2> QED BY <2>1, OwnerShows
<1> QED BY <1>1, <1>2 DEF ShownIsServed, ShownTools, ToolsNamed, Suspects

-----------------------------------------------------------------------------
(***************************************************************************)
(* Every version there ever is, in force or kept by a request.             *)
(***************************************************************************)
LEMMA GovernedVersion ==
  ASSUME NEW p \in Configs, NEW slots, DOMAIN slots = Range(p.order),
         \A s \in DOMAIN slots : ToolsOf(slots[s]) \subseteq Tools
  PROVE  Version(Govern(p, slots))
  BY DEF Version, Govern

LEMMA UnopenedTools == ToolsOf(Unopened) = {}
  BY DEF ToolsOf, Unopened

LEMMA InitVersion == Init => Version(governance)
<1> SUFFICES ASSUME Init PROVE Version(governance)
  OBVIOUS
<1>1. PICK p \in Configs : \E slots \in Starts :
         DOMAIN slots = Range(p.order) /\ governance = Govern(p, slots)
  BY DEF Init
<1>2. PICK slots \in Starts : DOMAIN slots = Range(p.order) /\ governance = Govern(p, slots)
  BY <1>1
<1>3. \A s \in DOMAIN slots : ToolsOf(slots[s]) \subseteq Tools
  BY ServersAssumption
<1> QED BY <1>2, <1>3, GovernedVersion

LEMMA ReloadVersion ==
  ASSUME Version(governance), Reload
  PROVE  Version(governance)'
<1>1. PICK p \in Configs :
         \E slots \in [Range(p.order) -> {Unopened} \cup UNION {Verdicts[s] : s \in Range(p.order)}] :
            /\ \A s \in Range(p.order) :
                  slots[s] \in Verdicts[s] \cup
                    IF s \in DOMAIN governance.slots THEN {governance.slots[s]} ELSE {Unopened}
            /\ governance' = Govern(p, slots)
  BY DEF Reload, Changes
<1>2. PICK slots \in [Range(p.order) -> {Unopened} \cup UNION {Verdicts[s] : s \in Range(p.order)}] :
            /\ \A s \in Range(p.order) :
                  slots[s] \in Verdicts[s] \cup
                    IF s \in DOMAIN governance.slots THEN {governance.slots[s]} ELSE {Unopened}
            /\ governance' = Govern(p, slots)
  BY <1>1
<1>3. ASSUME NEW s \in Range(p.order) PROVE ToolsOf(slots[s]) \subseteq Tools
  <2>1. s \in DOMAIN Verdicts
    BY OrderType
  <2>2. CASE slots[s] \in Verdicts[s]
    BY <2>1, <2>2, ServersAssumption
  <2>3. CASE s \in DOMAIN governance.slots /\ slots[s] = governance.slots[s]
    BY <2>3 DEF Version
  <2>4. CASE slots[s] = Unopened
    BY <2>4, UnopenedTools
  <2> QED BY <1>2, <2>2, <2>3, <2>4
<1>4. Version(Govern(p, slots))
  BY <1>2, <1>3, GovernedVersion
<1> QED BY <1>2, <1>4 DEF Version

LEMMA OpenedVersion ==
  ASSUME Version(governance), NEW s \in DOMAIN Verdicts, Opened(s)
  PROVE  Version(governance)'
<1>1. PICK slot \in Verdicts[s] :
         governance' = Govern(governance.cfg, [governance.slots EXCEPT ![s] = slot])
  BY DEF Opened, Changes
<1> DEFINE slots == [governance.slots EXCEPT ![s] = slot]
<1>2. DOMAIN slots = Range(governance.cfg.order) /\ governance.cfg \in Configs
  BY DEF Version
<1>3. ASSUME NEW t \in DOMAIN slots PROVE ToolsOf(slots[t]) \subseteq Tools
  <2>1. ToolsOf(slot) \subseteq Tools
    BY ServersAssumption
  <2>2. t \in DOMAIN governance.slots /\ slots[t] = IF t = s THEN slot ELSE governance.slots[t]
    OBVIOUS
  <2>3. ToolsOf(governance.slots[t]) \subseteq Tools
    BY <2>2 DEF Version
  <2> HIDE DEF slots
  <2> QED BY <2>1, <2>2, <2>3
<1> HIDE DEF slots
<1>4. Version(Govern(governance.cfg, slots))
  BY <1>2, <1>3, GovernedVersion
<1> QED BY <1>1, <1>4 DEF Version, slots

LEMMA NextVersion ==
  ASSUME Version(governance), [Next]_vars
  PROVE  Version(governance)'
<1>1. ASSUME UNCHANGED governance PROVE Version(governance)'
  BY <1>1 DEF Version
<1>2. ASSUME NEW c \in Calls, CallStep(c) PROVE Version(governance)'
  <2>1. UNCHANGED governance
    BY <1>2 DEF CallStep, Enter, Refuse, Leave, Arrive, CallTool, Read, GetPrompt, Complete, Named,
                RefuseMethod,
                AnswerAlone, AskLists, Dispatch, Fails, Answered, Gather, Record, AskFor, GoesOn, shared
  <2> QED BY <1>1, <2>1, SMTT(30)
<1>3. ASSUME NEW s \in DOMAIN Verdicts, Opened(s) PROVE Version(governance)'
  BY <1>3, OpenedVersion
<1>4. CASE Reload
  BY <1>4, ReloadVersion
<1>5. CASE StoreLimiter \/ Tick \/ UNCHANGED vars
  BY <1>1, <1>5 DEF StoreLimiter, Tick, vars, shared
<1> QED BY <1>2, <1>3, <1>4, <1>5 DEF Next

\* Whatever servers open, change their tools, fall under suspicion or are
\* reloaded, in any order: tools/list shows of every name the tools of the server
\* its calls go to, all of them but the suspects, and no other's (reroute: "the
\* one tools/list shows").
THEOREM ListsShowWhatIsServed == Spec => []ShownIsServed
<1>1. Init => Version(governance)
  BY InitVersion
<1>2. Version(governance) /\ [Next]_vars => Version(governance)'
  BY NextVersion
<1>3. Version(governance) => ShownIsServed
  BY VersionShows
<1> QED BY <1>1, <1>2, <1>3, PTL DEF Spec

-----------------------------------------------------------------------------
(***************************************************************************)
(* Where calls are sent.                                                   *)
(***************************************************************************)
LEMMA NoDenial ==
  ASSUME NEW decisions, DOMAIN decisions \subseteq Nat, FirstDenial(decisions) = Allow
  PROVE  \A i \in DOMAIN decisions : decisions[i] = Allow
<1> DEFINE denials == {i \in DOMAIN decisions : decisions[i] # Allow}
<1>1. FirstDenial(decisions) = IF denials = {} THEN Allow
                               ELSE decisions[CHOOSE i \in denials : \A j \in denials : i <= j]
  BY DEF FirstDenial
<1>2. ASSUME denials # {} PROVE FALSE
  <2>1. \E i \in denials : \A j \in denials : i <= j
    BY <1>2, Least
  <2>2. (CHOOSE i \in denials : \A j \in denials : i <= j) \in denials
    <3> HIDE DEF denials
    <3> QED BY <2>1
  <2> QED BY <1>1, <1>2, <2>2
<1> QED BY <1>2

\* A gate's denial, or none.
LEMMA FirstDenialIsOne ==
  ASSUME NEW decisions, DOMAIN decisions \subseteq Nat, FirstDenial(decisions) # Allow
  PROVE  \E i \in DOMAIN decisions : FirstDenial(decisions) = decisions[i]
<1> DEFINE denials == {i \in DOMAIN decisions : decisions[i] # Allow}
           first == CHOOSE i \in denials : \A j \in denials : i <= j
<1>1. FirstDenial(decisions) = IF denials = {} THEN Allow ELSE decisions[first]
  BY DEF FirstDenial
<1>2. denials # {} => first \in denials
  <2>1. denials # {} => \E i \in denials : \A j \in denials : i <= j
    BY Least
  <2> HIDE DEF denials
  <2> QED BY <2>1
<1> HIDE DEF first
<1> QED BY <1>1, <1>2

\* Whoever a name is routed to is its owner, if its allowlist takes the tool.
LEMMA RoutedToOwner ==
  ASSUME NEW g, Version(g), NEW name \in DOMAIN g.routes,
         DecideTool(g.cfg, g.routes[name].server, g.routes[name].tool) = Allow
  PROVE  g.routes[name].server \in Owner(g, name)
<1>1. CASE Offers(g, name) # {}
  BY <1>1, OfferedIsRouted
<1>2. CASE Offers(g, name) = {}
  <2> DEFINE p == g.cfg
             offering == [i \in DOMAIN p.order |-> Offering(p, g.slots, i, name)]
             listing == [i \in DOMAIN p.order |-> Listing(p, g.slots, i, name)]
             lists == Having(p, listing)
  <2>1. p \in Configs /\ DOMAIN p.order \subseteq Nat
    BY OrderType DEF Version
  <2>2. g.routes = Reroute(p, g.slots) /\ name \in ListedNames(p, g.slots)
    BY DEF Version, Reroute
  <2>3. lists # {}
    <3>1. PICK i \in DOMAIN p.order :
             name \in {ListedName(p, p.order[i], tool) : tool \in ToolsOf(g.slots[p.order[i]])}
      BY <2>2 DEF ListedNames
    <3>2. Listing(p, g.slots, i, name) # {}
      BY <3>1 DEF Listing
    <3> QED BY <3>2 DEF Having
  <2>4. FirstWith(p, offering) = {}
    <3>1. Having(p, offering) = {}
      BY <1>2 DEF Offers, Having
    <3> HIDE DEF offering, p
    <3> QED BY <2>1, <3>1, FirstWithIsFirst
  <2>5. PICK first \in lists : \E tool \in listing[first] :
           FirstWith(p, listing) = {[server |-> p.order[first], tool |-> tool]}
    <3> HIDE DEF listing, p
    <3> QED BY <2>1, <2>3, FirstWithIsFirst
  <2>6. PICK tool \in listing[first] :
           FirstWith(p, listing) = {[server |-> p.order[first], tool |-> tool]}
    BY <2>5
  <2>7. g.routes[name] = CHOOSE route \in IF FirstWith(p, offering) # {} THEN FirstWith(p, offering)
                                          ELSE FirstWith(p, listing) : TRUE
    BY <2>2 DEF Reroute
  <2>8. g.routes[name] = [server |-> p.order[first], tool |-> tool]
    <3> HIDE DEF offering, listing, p
    <3>1. g.routes[name] = CHOOSE route \in FirstWith(p, listing) : TRUE
      BY <2>4, <2>7
    <3> QED BY <2>6, <3>1
  <2>9. first \in DOMAIN p.order /\ tool \in Offering(p, g.slots, first, name)
    BY <2>6, <2>8 DEF Offering, Having
  <2> QED BY <1>2, <2>9 DEF Offers
<1> QED BY <1>1, <1>2

\* Whoever claims a name has never opened.
LEMMA ClaimantIsClosed ==
  ASSUME NEW g, g.cfg \in Configs, NEW name, NEW route \in Claimant(g.cfg, g.slots, Tools, name)
  PROVE  g.slots[route.server].conn = {}
<1> DEFINE p == g.cfg
           claims == [i \in DOMAIN p.order |->
                        {tool \in Tools : /\ g.slots[p.order[i]].conn = {}
                                          /\ ListedName(p, p.order[i], tool) = name
                                          /\ ListsTool(p, p.order[i], tool)}]
           having == Having(p, claims)
<1>1. Claimant(p, g.slots, Tools, name) = FirstWith(p, claims)
  BY DEF Claimant
<1>2. DOMAIN p.order \subseteq Nat
  BY OrderType
<1>3. PICK first \in having : \E tool \in claims[first] :
         FirstWith(p, claims) = {[server |-> p.order[first], tool |-> tool]}
  <2>1. FirstWith(p, claims) # {}
    BY <1>1
  <2> HIDE DEF claims, p
  <2> QED BY <1>2, <2>1, FirstWithIsFirst
<1>4. PICK tool \in claims[first] :
         FirstWith(p, claims) = {[server |-> p.order[first], tool |-> tool]}
  BY <1>3
<1>5. route.server = p.order[first]
  <2> HIDE DEF claims
  <2> QED BY <1>1, <1>4
<1>6. first \in DOMAIN p.order
  BY DEF Having
<1> QED BY <1>4, <1>5, <1>6

-----------------------------------------------------------------------------
(***************************************************************************)
(* What the gates let by.                                                  *)
(***************************************************************************)
LEMMA DenyReasonAllows ==
  ASSUME NEW sp, NEW tool, DenyReason(sp, tool) = Allow
  PROVE  /\ \A globs \in sp.allow : \E glob \in globs : tool \in glob
         /\ \A glob \in sp.deny : tool \notin glob
<1> DEFINE decisions == <<Unless(~Matches(sp.deny, tool), "deny-glob"),
                          Unless(GlobAny(sp.allow, tool), "not-on-allowlist")>>
<1>1. DOMAIN decisions = {1, 2} /\ FirstDenial(decisions) = Allow
  BY DEF DenyReason
<1>2. decisions[1] = Allow /\ decisions[2] = Allow
  <2> HIDE DEF decisions
  <2> QED BY <1>1, NoDenial
<1>3. ~Matches(sp.deny, tool) /\ GlobAny(sp.allow, tool)
  BY <1>2 DEF Unless, Allow
<1> QED BY <1>3 DEF Matches, GlobAny

LEMMA DecideToolAllows ==
  ASSUME NEW p, NEW server, NEW tool, DecideTool(p, server, tool) = Allow
  PROVE  /\ server \in DOMAIN p.servers
         /\ DenyReason(p.servers[server], tool) = Allow
         /\ \A profile \in p.active : DenyReason(profile, tool) = Allow
<1> DEFINE inProfiles == \A profile \in p.active : DenyReason(profile, tool) = Allow
           decisions == <<DenyReason(p.servers[server], tool),
                          Unless(inProfiles, "not-in-active-profile")>>
<1>1. server \in DOMAIN p.servers /\ FirstDenial(decisions) = Allow
  BY DEF DecideTool, Allow
<1>2. DOMAIN decisions = {1, 2}
  OBVIOUS
<1>3. decisions[1] = Allow /\ decisions[2] = Allow
  <2> HIDE DEF decisions
  <2> QED BY <1>1, <1>2, NoDenial
<1>4. inProfiles
  <2> HIDE DEF inProfiles
  <2> QED BY <1>3 DEF Unless, Allow
<1> QED BY <1>1, <1>3, <1>4

LEMMA DecideTargetAllows ==
  ASSUME NEW p, NEW server, NEW target, target.kind \in {"resource", "template", "prompt"},
         DecideTarget(p, server, target) = Allow
  PROVE  server \in DOMAIN p.servers /\ Shows(p, server, target)
<1>1. NotAllowed[target.kind] # Allow
  BY DEF NotAllowed, Allow
<1> QED BY <1>1 DEF DecideTarget, Unless, Allow

LEMMA RulesType ==
  ASSUME NEW p \in Configs
  PROVE  /\ Len(p.rules) \in Nat /\ DOMAIN p.rules = 1..Len(p.rules)
         /\ \A i \in DOMAIN p.rules : p.rules[i] \in Range(p.rules) /\ p.rules[i].name # Allow
<1> DEFINE rules == p.rules
<1>1. rules \in Seq(Range(rules)) /\ \A rule \in Range(rules) : rule.name # Allow
  BY RulesAssumption
<1>2. \A i \in DOMAIN rules : rules[i] \in Range(rules)
  BY DEF Range
<1> HIDE DEF rules
<1>3. Len(rules) \in Nat /\ DOMAIN rules = 1..Len(rules)
  BY <1>1
<1> QED BY <1>1, <1>2, <1>3 DEF rules

\* A deny rule that matches comes after an allow rule that does.
LEMMA EvaluateAllows ==
  ASSUME NEW p \in Configs, NEW ctx, Evaluate(p.rules, ctx) = Allow, NEW i \in DOMAIN p.rules,
         p.rules[i].effect = "deny", RuleMatches(p.rules[i], ctx)
  PROVE  \E j \in 1..(i - 1) : p.rules[j].effect = "allow" /\ RuleMatches(p.rules[j], ctx)
<1> DEFINE rules == p.rules
           hits == {k \in DOMAIN rules : rules[k].effect # "transform" /\ RuleMatches(rules[k], ctx)}
           first == CHOOSE k \in hits : \A j \in hits : k <= j
<1>1. DOMAIN rules = 1..Len(rules) /\ Len(rules) \in Nat /\ \A k \in DOMAIN rules : rules[k].name # Allow
  BY RulesType
<1>2. i \in hits /\ hits \subseteq Nat
  BY <1>1
<1>3. first \in hits /\ first <= i
  <2>1. \E k \in hits : \A j \in hits : k <= j
    <3> HIDE DEF hits
    <3> QED BY <1>2, Least
  <2> HIDE DEF hits
  <2> QED BY <1>2, <2>1
<1>4. Evaluate(rules, ctx) = Unless(rules[first].effect = "allow", rules[first].name)
  BY <1>2 DEF Evaluate
<1>5. rules[first].effect = "allow" /\ first \in DOMAIN rules /\ RuleMatches(rules[first], ctx)
  <2> HIDE DEF first
  <2> QED BY <1>1, <1>3, <1>4 DEF Unless
<1>6. first # i
  BY <1>5
<1> HIDE DEF first
<1> QED BY <1>1, <1>2, <1>3, <1>5, <1>6

LEMMA DecideRbacAllows ==
  ASSUME NEW p, NEW caller, NEW server, NEW target, DecideRbac(p, caller, server, target) = Allow
  PROVE  \A rbac \in p.rbac : \A subjects \in Grants(rbac, caller) :
            \E role \in subjects : role \in DOMAIN rbac.roles
               /\ Granted(rbac, {role}, server, target)
<1>1. \A rbac \in p.rbac : \A subjects \in Grants(rbac, caller) :
         Granted(rbac, subjects, server, target)
  BY DEF DecideRbac, Unless, Allow
<1>2. ASSUME NEW rbac, NEW subjects, Granted(rbac, subjects, server, target)
      PROVE  \E role \in subjects : role \in DOMAIN rbac.roles
                /\ Granted(rbac, {role}, server, target)
  BY <1>2 DEF Granted
<1> QED BY <1>1, <1>2

-----------------------------------------------------------------------------
(***************************************************************************)
(* What a pass of the transforms comes to.                                 *)
(***************************************************************************)

\* What one rule makes of what those before it left.
Passed(rule, sort, ctx, done) ==
  LET to == (CHOOSE edit \in rule[sort] : TRUE)[done.value]
  IN IF /\ done.refused = Allow
        /\ rule.effect = "transform"
        /\ rule[sort] # {}
        /\ RuleMatches(rule, IF sort = "edits" THEN [ctx EXCEPT !.args = done.value] ELSE ctx)
     THEN CASE to # CannotApply ->
                 [done EXCEPT !.value = to]
            [] to = CannotApply /\ rule.skips -> done
            [] to = CannotApply /\ ~rule.skips ->
                 [done EXCEPT !.refused = rule.name]
     ELSE done

\* A function of what has been reached after each of the first n rules.
IsPass(pass, n, rules, sort, ctx, value) ==
  pass = [i \in 0..n |-> IF i = 0 THEN [value |-> value, refused |-> Allow]
                         ELSE Passed(rules[i], sort, ctx, pass[i - 1])]

LEMMA PassExists ==
  ASSUME NEW rules, NEW sort, NEW ctx, NEW value, NEW n \in Nat
  PROVE  \E pass : IsPass(pass, n, rules, sort, ctx, value)
<1> DEFINE Is(pass, k) == IsPass(pass, k, rules, sort, ctx, value)
           without == {k \in Nat : \A pass : ~Is(pass, k)}
<1>1. ASSUME without # {} PROVE FALSE
  <2>1. PICK k \in without : \A j \in without : k <= j
    BY <1>1, Least
  <2>2. k # 0
    <3> DEFINE none == [i \in 0..0 |-> [value |-> value, refused |-> Allow]]
    <3>1. none = [i \in 0..0 |-> IF i = 0 THEN [value |-> value, refused |-> Allow]
                                 ELSE Passed(rules[i], sort, ctx, none[i - 1])]
      OBVIOUS
    <3>2. Is(none, 0)
      BY <3>1 DEF IsPass
    <3> HIDE DEF none, Is
    <3> QED BY <2>1, <3>2
  <2>3. k - 1 \in Nat /\ k - 1 \notin without
    BY <2>1, <2>2
  <2>4. PICK pass : Is(pass, k - 1)
    BY <2>3
  <2> DEFINE more == [i \in 0..k |-> IF i = k THEN Passed(rules[k], sort, ctx, pass[k - 1])
                                     ELSE pass[i]]
  <2>5. pass = [i \in 0..(k - 1) |-> IF i = 0 THEN [value |-> value, refused |-> Allow]
                                     ELSE Passed(rules[i], sort, ctx, pass[i - 1])]
    BY <2>4 DEF IsPass
  <2>6. ASSUME NEW i \in 0..k
        PROVE  more[i] = IF i = 0 THEN [value |-> value, refused |-> Allow]
                         ELSE Passed(rules[i], sort, ctx, more[i - 1])
    <3>1. CASE i = k
      <4>1. more[k - 1] = pass[k - 1] /\ more[k] = Passed(rules[k], sort, ctx, pass[k - 1])
        BY <2>1, <2>2
      <4> QED BY <2>2, <3>1, <4>1
    <3>2. CASE i # k /\ i # 0
      <4>1. i \in 0..(k - 1) /\ i - 1 \in 0..(k - 1) /\ i - 1 \in 0..k /\ i - 1 # k
        BY <2>1, <3>2
      <4>2. more[i] = pass[i] /\ more[i - 1] = pass[i - 1]
        BY <3>2, <4>1
      <4>3. pass[i] = Passed(rules[i], sort, ctx, pass[i - 1])
        <5> HIDE DEF more
        <5> QED BY <2>5, <3>2, <4>1
      <4> HIDE DEF more
      <4> QED BY <3>2, <4>2, <4>3
    <3>3. CASE i = 0
      <4>1. 0 \in 0..(k - 1) /\ more[0] = pass[0]
        BY <2>1, <2>2
      <4>2. pass[0] = [value |-> value, refused |-> Allow]
        <5> HIDE DEF more
        <5> QED BY <2>5, <4>1
      <4> HIDE DEF more
      <4> QED BY <3>3, <4>1, <4>2
    <3> QED BY <3>1, <3>2, <3>3
  <2>7. more = [i \in 0..k |-> IF i = 0 THEN [value |-> value, refused |-> Allow]
                               ELSE Passed(rules[i], sort, ctx, more[i - 1])]
    <3>1. DOMAIN more = 0..k /\ more = [i \in 0..k |-> more[i]]
      OBVIOUS
    <3> HIDE DEF more
    <3> QED BY <2>6, <3>1
  <2>8. Is(more, k)
    <3> HIDE DEF more
    <3> QED BY <2>7 DEF IsPass
  <2> HIDE DEF more, Is
  <2> QED BY <2>1, <2>8
<1>2. \E pass : Is(pass, n)
  <2> HIDE DEF Is
  <2> QED BY <1>1
<1> QED BY <1>2

\* A pass is what has been reached after the last rule.
LEMMA PassUnfolds ==
  ASSUME NEW rules, NEW sort, NEW ctx, NEW value, Len(rules) \in Nat
  PROVE  \E pass : /\ Pass(rules, sort, ctx, value) = pass[Len(rules)]
                   /\ pass[0] = [value |-> value, refused |-> Allow]
                   /\ \A i \in 1..Len(rules) : pass[i] = Passed(rules[i], sort, ctx, pass[i - 1])
<1> DEFINE n == Len(rules)
           chosen == CHOOSE pass : IsPass(pass, n, rules, sort, ctx, value)
<1>1. Pass(rules, sort, ctx, value) = chosen[n]
  BY DEF Pass, Passed, IsPass
<1>2. IsPass(chosen, n, rules, sort, ctx, value)
  <2>1. \E pass : IsPass(pass, n, rules, sort, ctx, value)
    BY PassExists
  <2> QED BY <2>1
<1> HIDE DEF chosen
<1>3. chosen = [i \in 0..n |-> IF i = 0 THEN [value |-> value, refused |-> Allow]
                               ELSE Passed(rules[i], sort, ctx, chosen[i - 1])]
  BY <1>2 DEF IsPass
<1>4. chosen[0] = [value |-> value, refused |-> Allow]
  BY <1>3
<1>5. \A i \in 1..n : chosen[i] = Passed(rules[i], sort, ctx, chosen[i - 1])
  BY <1>3
<1> QED BY <1>1, <1>4, <1>5

\* The names of the rules that may deny a result.
Editors(p) == {rule.name : rule \in {rule \in Range(p.rules) : rule.results # {}}}

\* The transforms of results leave a result, and deny by the name of one of them.
LEMMA ResultsStayResults ==
  ASSUME NEW p \in Configs, NEW ctx, NEW content \in Contents
  PROVE  LET edited == TransformResult(p.rules, ctx, content)
         IN edited.value \in Contents /\ edited.refused \in {Allow} \cup Editors(p)
<1> DEFINE Fine(done) == /\ done = [value |-> done.value, refused |-> done.refused]
                         /\ done.value \in Contents
                         /\ done.refused \in {Allow} \cup Editors(p)
           n == Len(p.rules)
<1>1. n \in Nat /\ \A i \in 1..n : p.rules[i] \in Range(p.rules)
  BY RulesType
<1>2. PICK pass : /\ TransformResult(p.rules, ctx, content) = pass[n]
                  /\ pass[0] = [value |-> content, refused |-> Allow]
                  /\ \A i \in 1..n : pass[i] = Passed(p.rules[i], "results", ctx, pass[i - 1])
  BY <1>1, PassUnfolds DEF TransformResult
<1>3. Fine(pass[0])
  BY <1>2
<1>4. ASSUME NEW rule \in Range(p.rules), NEW done, Fine(done)
      PROVE  Fine(Passed(rule, "results", ctx, done))
  <2> DEFINE edits == rule.results
             to == (CHOOSE edit \in edits : TRUE)[done.value]
  <2>1. CASE Passed(rule, "results", ctx, done) = done
    BY <1>4, <2>1
  <2>2. CASE /\ Passed(rule, "results", ctx, done) = [done EXCEPT !.value = to]
             /\ to # CannotApply /\ edits # {}
    <3>1. to \in Contents
      <4>1. (CHOOSE edit \in edits : TRUE) \in edits
        BY <2>2
      <4>2. (CHOOSE edit \in edits : TRUE) \in [Contents -> Contents \cup {CannotApply}]
        BY <4>1, RulesAssumption
      <4> QED BY <1>4, <2>2, <4>2
    <3> HIDE DEF to, edits
    <3>2. [done EXCEPT !.value = to] = [value |-> to, refused |-> done.refused]
      BY <1>4
    <3> QED BY <1>4, <2>2, <3>1, <3>2
  <2>3. CASE /\ Passed(rule, "results", ctx, done) = [done EXCEPT !.refused = rule.name]
             /\ edits # {}
    <3>1. rule.name \in Editors(p)
      BY <2>3 DEF Editors
    <3>2. [done EXCEPT !.refused = rule.name] = [value |-> done.value, refused |-> rule.name]
      BY <1>4
    <3> QED BY <1>4, <2>3, <3>1, <3>2
  <2>4. \/ Passed(rule, "results", ctx, done) = done
        \/ Passed(rule, "results", ctx, done) = [done EXCEPT !.value = to] /\ to # CannotApply
              /\ edits # {}
        \/ Passed(rule, "results", ctx, done) = [done EXCEPT !.refused = rule.name] /\ edits # {}
    BY DEF Passed
  <2> QED BY <2>1, <2>2, <2>3, <2>4
<1> HIDE DEF Fine
<1> DEFINE bad == {i \in 0..n : ~Fine(pass[i])}
<1>5. ASSUME bad # {} PROVE FALSE
  <2>1. PICK i \in bad : \A j \in bad : i <= j
    <3>1. bad \in SUBSET Nat
      BY <1>1
    <3> HIDE DEF bad
    <3> QED BY <1>5, <3>1, Least
  <2>2. i # 0
    BY <1>3, <2>1
  <2>3. i \in 1..n /\ i - 1 \in 0..n /\ i - 1 \notin bad
    BY <1>1, <2>1, <2>2
  <2>4. Fine(pass[i - 1])
    BY <2>3
  <2>5. Fine(pass[i])
    BY <1>1, <1>2, <1>4, <2>3, <2>4
  <2> QED BY <2>1, <2>5
<1>6. Fine(pass[n])
  BY <1>1, <1>5
<1> QED BY <1>2, <1>6 DEF Fine

-----------------------------------------------------------------------------
(***************************************************************************)
(* A request in the gateway's hands, stage by stage.                       *)
(***************************************************************************)

\* What the argument needs of a request's fields.
Fields == {"stage", "req", "gov", "server", "target", "args", "spent", "sent", "decision", "got"}

\* A request that may go on is for its name's owner, or for a server never opened.
ToItsOwner(r) ==
    r.target.kind = "tool" =>
        r.server \in Owner(r.gov, r.req.name) \/ r.gov.slots[r.server].conn = {}

\* It is permitted as it would be sent, if its server is open.
MayBeSent(r) ==
    r.gov.slots[r.server].conn # {} =>
        Permits(r.gov, r.req.caller, [server |-> r.server, target |-> r.target, args |-> r.args])

\* A request that was sent was permitted, and went to its name's owner.
SentWell(r) ==
    \A sent \in r.sent :
       /\ sent.server = r.server /\ sent.target = r.target
       /\ sent.target.kind = "tool" => sent.server \in Owner(r.gov, r.req.name)
       /\ Permits(r.gov, r.req.caller, sent)

\* What a record, or a request about to be recorded, says of what was sent.
TellsOf(sent, record) ==
    /\ record.decision = Allow => sent # {}
    /\ \A one \in sent : /\ record.server = one.server /\ record.target = one.target
                         /\ record.decision \in AfterSending \cup {Allow}

GotUnflagged(r) ==
    r.got # Nothing /\ r.gov.cfg.inspect \in {"enforce", "redact"} => r.got \in Unflagged

GoodCall(c, r) ==
    /\ Fields \subseteq DOMAIN r
    /\ r.stage \in Held => r.req \in Requests[c]
    /\ r.stage \in Held \ {"entered"} => Version(r.gov)
    /\ r.stage \in {"entered", "arrived", "passed"} => r.sent = {}
    /\ r.stage \in {"entered", "arrived", "passed", "asked"} => r.got = Nothing
    /\ r.stage = "passed" => ToItsOwner(r) /\ MayBeSent(r)
    /\ r.stage = "asked" => r.req.method = "list" \/ r.sent # {}
    /\ r.stage \in {"asked", "recording"} => SentWell(r)
    /\ r.stage = "recording" => TellsOf(r.sent, r) /\ GotUnflagged(r)

CallsInv ==
    /\ Version(governance)
    /\ DOMAIN calls = Calls
    /\ \A c \in Calls : GoodCall(c, calls[c])

LEMMA CallsInvMeans == CallsInv => NameKeepsItsServer /\ SentWasAllowed /\ NothingFlaggedPasses
<1> SUFFICES ASSUME CallsInv, NEW c \in Calls, Running(c)
             PROVE  /\ \A sent \in calls[c].sent :
                         /\ sent.target.kind = "tool" =>
                               sent.server \in Owner(calls[c].gov, calls[c].req.name)
                         /\ Permits(calls[c].gov, calls[c].req.caller, sent)
                    /\ GotUnflagged(calls[c])
  BY DEF NameKeepsItsServer, SentWasAllowed, NothingFlaggedPasses, GotUnflagged
<1>1. GoodCall(c, calls[c])
  BY DEF CallsInv
<1>2. calls[c].sent = {} \/ SentWell(calls[c])
  BY <1>1 DEF GoodCall, Running
<1>3. calls[c].got = Nothing \/ GotUnflagged(calls[c])
  BY <1>1 DEF GoodCall, Running
<1> QED BY <1>2, <1>3 DEF SentWell, GotUnflagged

LEMMA CallsStep ==
  ASSUME CallsInv, Version(governance)', NEW c \in Calls, NEW r, GoodCall(c, r), Becomes(c, r)
  PROVE  CallsInv'
<1>1. DOMAIN calls' = Calls /\ \A d \in Calls : calls'[d] = IF d = c THEN r ELSE calls[d]
  BY DEF Becomes, CallsInv
<1>2. \A d \in Calls : GoodCall(d, calls'[d])
  BY <1>1 DEF CallsInv
<1> QED BY <1>1, <1>2 DEF CallsInv

\* What else a request has is of no account.
LEMMA SameFields ==
  ASSUME NEW c \in Calls, NEW call, GoodCall(c, call), NEW r,
         Fields \subseteq DOMAIN r, \A field \in Fields : r[field] = call[field]
  PROVE  GoodCall(c, r)
<1>1. /\ r.stage = call.stage /\ r.req = call.req /\ r.gov = call.gov
      /\ r.server = call.server /\ r.target = call.target /\ r.args = call.args
      /\ r.sent = call.sent /\ r.decision = call.decision /\ r.got = call.got
      /\ r.spent = call.spent
  BY DEF Fields
<1>2. /\ ToItsOwner(call) => ToItsOwner(r)
      /\ MayBeSent(call) => MayBeSent(r)
      /\ SentWell(call) => SentWell(r)
      /\ TellsOf(call.sent, call) => TellsOf(r.sent, r)
      /\ GotUnflagged(call) => GotUnflagged(r)
  BY <1>1 DEF ToItsOwner, MayBeSent, SentWell, TellsOf, GotUnflagged
<1> QED BY <1>1, <1>2 DEF GoodCall

\* A request that is not in hand, or is done.
LEMMA EndedIsGood ==
  ASSUME NEW c \in Calls, NEW r, Fields \subseteq DOMAIN r, r.stage \in {"new", "done", "gone"}
  PROVE  GoodCall(c, r)
  BY DEF GoodCall, Held

LEMMA EnteredIsGood ==
  ASSUME NEW c \in Calls, NEW r, Fields \subseteq DOMAIN r, r.stage = "entered",
         r.req \in Requests[c], r.sent = {}, r.got = Nothing
  PROVE  GoodCall(c, r)
  BY DEF GoodCall, Held

\* What a judgement leaves of a request, and what it must answer for.
Judged(c, call) ==
    /\ Fields \subseteq DOMAIN call
    /\ call.req = calls[c].req /\ call.gov = calls[c].gov
    /\ call.sent = calls[c].sent /\ call.got = calls[c].got
    /\ call.decision = Allow => ToItsOwner(call) /\ MayBeSent(call)

LEMMA JudgedIsGood ==
  ASSUME NEW c \in Calls, GoodCall(c, calls[c]), At(c, "arrived"), NEW call, Judged(c, call)
  PROVE  GoodCall(c, [call EXCEPT !.stage = IF call.decision = Allow THEN "passed" ELSE "recording"])
<1> DEFINE r == [call EXCEPT !.stage = IF call.decision = Allow THEN "passed" ELSE "recording"]
<1>1. Fields \subseteq DOMAIN call
  BY DEF Judged
<1>2. /\ Fields \subseteq DOMAIN r
      /\ r.stage = IF call.decision = Allow THEN "passed" ELSE "recording"
      /\ r.req = call.req /\ r.gov = call.gov /\ r.sent = call.sent /\ r.got = call.got
      /\ r.server = call.server /\ r.target = call.target /\ r.args = call.args
      /\ r.decision = call.decision
  BY <1>1 DEF Fields
<1> HIDE DEF r
<1>3. r.sent = {} /\ r.got = Nothing /\ r.req \in Requests[c] /\ Version(r.gov)
  BY <1>2 DEF GoodCall, Judged, At, Held
<1>4. r.stage = "passed" => ToItsOwner(r) /\ MayBeSent(r)
  BY <1>2 DEF Judged, ToItsOwner, MayBeSent
<1>5. r.stage = "recording" => TellsOf(r.sent, r) /\ GotUnflagged(r)
  BY <1>2, <1>3 DEF TellsOf, GotUnflagged
<1>6. GoodCall(c, r)
  BY <1>2, <1>3, <1>4, <1>5 DEF GoodCall, SentWell, Held
<1> QED BY <1>6 DEF r

LEMMA DeniedIsJudged ==
  ASSUME NEW c \in Calls, GoodCall(c, calls[c]), NEW target, NEW rule, rule # Allow
  PROVE  Judged(c, Denied(c, target, rule))
<1> DEFINE call == Denied(c, target, rule)
<1>1. Fields \subseteq DOMAIN calls[c]
  BY DEF GoodCall
<1>2. /\ Fields \subseteq DOMAIN call
      /\ call.req = calls[c].req /\ call.gov = calls[c].gov
      /\ call.sent = calls[c].sent /\ call.got = calls[c].got /\ call.decision = rule
  BY <1>1 DEF Denied, Fields
<1> HIDE DEF call
<1> QED BY <1>2 DEF Judged, call

LEMMA TargetIsJudged ==
  ASSUME NEW c \in Calls, GoodCall(c, calls[c]), At(c, "arrived"),
         NEW server, NEW target, NEW args, target.kind \in {"resource", "template", "prompt"}
  PROVE  Judged(c, JudgeTarget(c, server, target, args))
<1> DEFINE call == JudgeTarget(c, server, target, args)
           p == calls[c].gov.cfg
           ctx == Context(c, server, target, args)
           caller == calls[c].req.caller
           decisions == <<DecideTarget(p, server, target), Evaluate(p.rules, ctx),
                          DecideRbac(p, caller, server, target)>>
           going == [server |-> server, target |-> target, args |-> args]
<1>1. Fields \subseteq DOMAIN calls[c] /\ p \in Configs
  BY DEF GoodCall, At, Held, Version
<1>2. /\ Fields \subseteq DOMAIN call
      /\ call.req = calls[c].req /\ call.gov = calls[c].gov
      /\ call.sent = calls[c].sent /\ call.got = calls[c].got
      /\ call.server = server /\ call.target = target /\ call.args = args
      /\ call.decision = FirstDenial(decisions)
  BY <1>1 DEF JudgeTarget, Fields
<1>3. ASSUME call.decision = Allow PROVE MayBeSent(call)
  <2>1. DOMAIN decisions = {1, 2, 3} /\ DOMAIN decisions \subseteq Nat
    OBVIOUS
  <2>2. decisions[1] = Allow /\ decisions[2] = Allow /\ decisions[3] = Allow
    <3> HIDE DEF decisions, call
    <3> QED BY <1>2, <1>3, <2>1, NoDenial
  <2>3. server \in DOMAIN p.servers /\ Shows(p, server, target)
    BY <2>2, DecideTargetAllows
  <2>4. \A i \in DOMAIN p.rules :
           p.rules[i].effect = "deny" /\ RuleMatches(p.rules[i], ctx) =>
             \E j \in 1..(i - 1) : p.rules[j].effect = "allow" /\ RuleMatches(p.rules[j], ctx)
    <3>1. Evaluate(p.rules, ctx) = Allow
      BY <2>2
    <3> HIDE DEF ctx, p
    <3> QED BY <1>1, <3>1, EvaluateAllows
  <2>5. \A rbac \in p.rbac : \A subjects \in Grants(rbac, caller) :
           \E role \in subjects : role \in DOMAIN rbac.roles
              /\ Granted(rbac, {role}, server, target)
    <3>1. DecideRbac(p, caller, server, target) = Allow
      BY <2>2
    <3> HIDE DEF p, caller
    <3> QED BY <3>1, DecideRbacAllows
  <2>6. ctx = [agent |-> Agent(caller, Unnamed), server |-> server, target |-> target, args |-> args]
    BY DEF Context
  <2>7. calls[c].gov.slots[server].conn # {} => Permits(calls[c].gov, caller, going)
    <3> HIDE DEF ctx, caller
    <3> QED BY <2>3, <2>4, <2>5, <2>6 DEF Permits
  <2> HIDE DEF call, decisions
  <2> QED BY <1>2, <2>7 DEF MayBeSent
<1> HIDE DEF call, decisions
<1> QED BY <1>2, <1>3 DEF Judged, ToItsOwner, call

LEMMA ToolIsJudged ==
  ASSUME NEW c \in Calls, GoodCall(c, calls[c]), At(c, "arrived"), NEW route,
         \/ calls[c].gov.slots[route.server].conn = {}
         \/ DecideTool(calls[c].gov.cfg, route.server, route.tool) = Allow =>
               route.server \in Owner(calls[c].gov, calls[c].req.name)
  PROVE  Judged(c, JudgeTool(c, route))
<1> DEFINE call == JudgeTool(c, route)
           p == calls[c].gov.cfg
           slot == calls[c].gov.slots[route.server]
           target == [kind |-> "tool", name |-> route.tool]
           caller == calls[c].req.caller
           edited == TransformArgs(p.rules, Context(c, route.server, target, calls[c].req.args))
           args == edited.value
           ctx == Context(c, route.server, target, args)
           decisions == <<DecideTool(p, route.server, route.tool), edited.refused,
                          Evaluate(p.rules, ctx), DecideRbac(p, caller, route.server, target),
                          Unless(route.tool \notin slot.drifted, "rug-pull"),
                          Unless(route.tool \notin slot.poisoned, "injection"),
                          Unless(route.tool \notin slot.refused, "x-mcp-header")>>
           going == [server |-> route.server, target |-> target, args |-> args]
<1>1. Fields \subseteq DOMAIN calls[c] /\ p \in Configs
  BY DEF GoodCall, At, Held, Version
<1>2. /\ Fields \subseteq DOMAIN call
      /\ call.req = calls[c].req /\ call.gov = calls[c].gov
      /\ call.sent = calls[c].sent /\ call.got = calls[c].got
      /\ call.server = route.server /\ call.target = target /\ call.args = args
      /\ call.decision = FirstDenial(decisions)
  <2> HIDE DEF edited
  <2> QED BY <1>1 DEF JudgeTool, Fields, edited
<1> HIDE DEF call
<1>3. ASSUME call.decision = Allow
      PROVE  /\ DecideTool(p, route.server, route.tool) = Allow
             /\ Evaluate(p.rules, ctx) = Allow
             /\ DecideRbac(p, caller, route.server, target) = Allow
             /\ route.tool \notin slot.drifted \cup slot.poisoned \cup slot.refused
  <2>1. DOMAIN decisions = 1..7 /\ DOMAIN decisions \subseteq Nat
    OBVIOUS
  <2>2. \A i \in 1..7 : decisions[i] = Allow
    <3> HIDE DEF decisions
    <3> QED BY <1>2, <1>3, <2>1, NoDenial
  <2> HIDE DEF edited, p, slot, caller, ctx, target
  <2>3. /\ decisions[1] = DecideTool(p, route.server, route.tool)
        /\ decisions[3] = Evaluate(p.rules, ctx)
        /\ decisions[4] = DecideRbac(p, caller, route.server, target)
        /\ decisions[5] = Unless(route.tool \notin slot.drifted, "rug-pull")
        /\ decisions[6] = Unless(route.tool \notin slot.poisoned, "injection")
        /\ decisions[7] = Unless(route.tool \notin slot.refused, "x-mcp-header")
    OBVIOUS
  <2> HIDE DEF decisions
  <2> QED BY <2>2, <2>3 DEF Unless, Allow
<1> HIDE DEF decisions
<1>4. call.decision = Allow => ToItsOwner(call)
  BY <1>2, <1>3 DEF ToItsOwner
<1>5. ASSUME call.decision = Allow PROVE MayBeSent(call)
  <2> HIDE DEF args
  <2>1. /\ route.server \in DOMAIN p.servers
        /\ DenyReason(p.servers[route.server], route.tool) = Allow
        /\ \A profile \in p.active : DenyReason(profile, route.tool) = Allow
    <3> HIDE DEF p
    <3> QED BY <1>3, <1>5, DecideToolAllows
  <2>2. \A i \in DOMAIN p.rules :
           p.rules[i].effect = "deny" /\ RuleMatches(p.rules[i], ctx) =>
             \E j \in 1..(i - 1) : p.rules[j].effect = "allow" /\ RuleMatches(p.rules[j], ctx)
    <3> HIDE DEF ctx, p
    <3> QED BY <1>1, <1>3, <1>5, EvaluateAllows
  <2>3. \A rbac \in p.rbac : \A subjects \in Grants(rbac, caller) :
           \E role \in subjects : role \in DOMAIN rbac.roles
              /\ Granted(rbac, {role}, route.server, target)
    <3> HIDE DEF p, caller, target
    <3> QED BY <1>3, <1>5, DecideRbacAllows
  <2>4. ctx = [agent |-> Agent(caller, Unnamed), server |-> route.server, target |-> target,
               args |-> args]
    BY DEF Context
  <2>5. \A list : DenyReason(list, route.tool) = Allow =>
           /\ \A globs \in list.allow : \E glob \in globs : route.tool \in glob
           /\ \A glob \in list.deny : route.tool \notin glob
    BY DenyReasonAllows
  <2>6. calls[c].gov.slots[route.server].conn # {} => Permits(calls[c].gov, caller, going)
    <3>1. /\ going.server = route.server /\ going.target = target /\ going.args = args
          /\ going.target.kind = "tool" /\ going.target.name = route.tool
          /\ p = calls[c].gov.cfg /\ slot = calls[c].gov.slots[route.server]
      OBVIOUS
    <3>2. route.tool \notin slot.drifted \cup slot.poisoned \cup slot.refused
      BY <1>3, <1>5
    <3>3. ctx = [agent |-> Agent(caller, Unnamed), server |-> going.server,
                 target |-> going.target, args |-> going.args]
      BY <2>4, <3>1
    <3> HIDE DEF ctx, caller, going, p, slot, target
    <3>4. DenyReason(p.servers[route.server], route.tool) = Allow
          /\ \A profile \in p.active : DenyReason(profile, route.tool) = Allow
      BY <2>1
    <3>5. \A list \in {p.servers[route.server]} \cup p.active :
             /\ \A globs \in list.allow : \E glob \in globs : route.tool \in glob
             /\ \A glob \in list.deny : route.tool \notin glob
      BY <2>5, <3>4
    <3> QED BY Zenon, <2>1, <2>2, <2>3, <3>1, <3>2, <3>3, <3>5 DEF Permits
  <2> QED BY <1>2, <2>6 DEF MayBeSent
<1> QED BY <1>2, <1>4, <1>5 DEF Judged, call

-----------------------------------------------------------------------------
LEMMA InitCalls == Init => CallsInv
<1> SUFFICES ASSUME Init PROVE CallsInv
  OBVIOUS
<1>1. Version(governance)
  BY InitVersion
<1>2. DOMAIN calls = Calls /\ \A c \in Calls : calls[c] = Idle
  BY DEF Init
<1>3. Fields \subseteq DOMAIN Idle /\ Idle.stage = "new"
  BY DEF Fields, Idle
<1>4. \A c \in Calls : GoodCall(c, Idle)
  BY <1>3, EndedIsGood
<1> QED BY <1>1, <1>2, <1>4 DEF CallsInv

LEMMA EnterKeeps ==
  ASSUME CallsInv, Version(governance)', NEW c \in Calls, Enter(c)
  PROVE  CallsInv'
<1>1. PICK req \in Requests[c] :
         IF inflight < MaxInflight
         THEN /\ inflight' = inflight + 1
              /\ Becomes(c, [Idle EXCEPT !.stage = "entered", !.req = req])
         ELSE /\ Becomes(c, [Idle EXCEPT !.stage = "gone"])
              /\ UNCHANGED inflight
  BY Entering
<1>2. CASE inflight < MaxInflight
  <2> DEFINE r == [Idle EXCEPT !.stage = "entered", !.req = req]
  <2>1. Fields \subseteq DOMAIN r /\ r.stage = "entered" /\ r.req = req /\ r.sent = {}
        /\ r.got = Nothing
    BY DEF Idle, Fields
  <2> HIDE DEF r
  <2>2. Becomes(c, r)
    BY <1>1, <1>2 DEF r
  <2>3. GoodCall(c, r)
    BY <2>1, EnteredIsGood
  <2> QED BY <2>2, <2>3, CallsStep
<1>3. CASE ~(inflight < MaxInflight)
  <2> DEFINE r == [Idle EXCEPT !.stage = "gone"]
  <2>1. Fields \subseteq DOMAIN r /\ r.stage = "gone"
    BY DEF Idle, Fields
  <2> HIDE DEF r
  <2>2. Becomes(c, r)
    BY <1>1, <1>3 DEF r
  <2>3. GoodCall(c, r)
    BY <2>1, EndedIsGood
  <2> QED BY <2>2, <2>3, CallsStep
<1> QED BY <1>2, <1>3

\* The gateway has nothing more to do with it.
LEMMA GoneKeeps ==
  ASSUME CallsInv, Version(governance)', NEW c \in Calls,
         Becomes(c, [Idle EXCEPT !.stage = "gone"])
  PROVE  CallsInv'
<1> DEFINE gone == [Idle EXCEPT !.stage = "gone"]
<1>1. Fields \subseteq DOMAIN gone /\ gone.stage = "gone"
  BY DEF Fields, Idle
<1> HIDE DEF gone
<1>2. GoodCall(c, gone)
  BY <1>1, EndedIsGood
<1> QED BY <1>2, CallsStep DEF gone

LEMMA LeaveKeeps ==
  ASSUME CallsInv, Version(governance)', NEW c \in Calls, Leave(c)
  PROVE  CallsInv'
<1> DEFINE r == [calls[c] EXCEPT !.here = FALSE]
<1>1. GoodCall(c, calls[c]) /\ Becomes(c, r)
  BY DEF CallsInv, Leave
<1>2. Fields \subseteq DOMAIN r /\ \A field \in Fields : r[field] = calls[c][field]
  BY <1>1 DEF GoodCall, Fields
<1> HIDE DEF r
<1>3. GoodCall(c, r)
  BY <1>1, <1>2, SameFields
<1> QED BY <1>1, <1>3, CallsStep

\* The version in force becomes the request's.
LEMMA ArriveKeeps ==
  ASSUME CallsInv, Version(governance)', NEW c \in Calls, Arrive(c)
  PROVE  CallsInv'
<1> DEFINE r == [calls[c] EXCEPT !.stage = "arrived", !.gov = governance]
<1>1. GoodCall(c, calls[c]) /\ Becomes(c, r) /\ calls[c].stage = "entered" /\ Version(governance)
  BY DEF CallsInv, Arrive, At
<1>2. /\ Fields \subseteq DOMAIN r /\ r.stage = "arrived"
      /\ r.req = calls[c].req /\ r.gov = governance
      /\ r.sent = calls[c].sent /\ r.got = calls[c].got
  BY <1>1 DEF GoodCall, Fields
<1> HIDE DEF r
<1>3. GoodCall(c, r)
  BY <1>1, <1>2 DEF GoodCall, Held
<1> QED BY <1>1, <1>3, CallsStep

LEMMA GoesOnKeeps ==
  ASSUME CallsInv, Version(governance)', NEW c \in Calls, At(c, "arrived"),
         NEW call, Judged(c, call), GoesOn(c, call)
  PROVE  CallsInv'
<1>1. GoodCall(c, calls[c])
  BY DEF CallsInv
<1>2. Becomes(c, [call EXCEPT !.stage = IF call.decision = Allow THEN "passed" ELSE "recording"])
  BY DEF GoesOn
<1> QED BY <1>1, <1>2, JudgedIsGood, CallsStep

\* By the route, the owner; by the claim, a server that is down.
LEMMA CallToolKeeps ==
  ASSUME CallsInv, Version(governance)', NEW c \in Calls, CallTool(c)
  PROVE  CallsInv'
<1> DEFINE g == calls[c].gov
           name == calls[c].req.name
           routes == IF name \in DOMAIN g.routes THEN {g.routes[name]}
                     ELSE Claimant(g.cfg, g.slots, Tools, name)
           target == [kind |-> "tool", name |-> name]
<1>1. GoodCall(c, calls[c]) /\ At(c, "arrived") /\ Version(g)
  BY DEF CallsInv, CallTool, GoodCall, At, Held
<1>2. IF routes = {} THEN GoesOn(c, Denied(c, target, "unknown-tool"))
      ELSE \E route \in routes : GoesOn(c, JudgeTool(c, route))
  BY DEF CallTool
<1>3. CASE routes = {}
  <2>1. Judged(c, Denied(c, target, "unknown-tool"))
    BY <1>1, DeniedIsJudged DEF Allow
  <2> QED BY <1>1, <1>2, <1>3, <2>1, GoesOnKeeps
<1>4. CASE routes # {}
  <2>1. PICK route \in routes : GoesOn(c, JudgeTool(c, route))
    BY <1>2, <1>4
  <2>2. CASE name \in DOMAIN g.routes
    <3>1. route = g.routes[name]
      BY <2>1, <2>2
    <3>2. DecideTool(g.cfg, route.server, route.tool) = Allow => route.server \in Owner(g, name)
      BY <1>1, <2>2, <3>1, RoutedToOwner
    <3>3. Judged(c, JudgeTool(c, route))
      BY <1>1, <3>2, ToolIsJudged
    <3> QED BY <1>1, <2>1, <3>3, GoesOnKeeps
  <2>3. CASE name \notin DOMAIN g.routes
    <3>1. route \in Claimant(g.cfg, g.slots, Tools, name)
      BY <2>1, <2>3
    <3>2. g.slots[route.server].conn = {}
      BY <1>1, <3>1, ClaimantIsClosed DEF Version
    <3>3. Judged(c, JudgeTool(c, route))
      BY <1>1, <3>2, ToolIsJudged
    <3> QED BY <1>1, <2>1, <3>3, GoesOnKeeps
  <2> QED BY <2>2, <2>3
<1> QED BY <1>3, <1>4

LEMMA AskForKeeps ==
  ASSUME CallsInv, Version(governance)', NEW c \in Calls, At(c, "arrived"),
         NEW target, NEW args, target.kind \in {"resource", "template", "prompt"},
         AskFor(c, target, args)
  PROVE  CallsInv'
<1> DEFINE ways == Routed(calls[c].gov.cfg, target)
<1>1. GoesOn(c, IF ways = <<>> THEN Denied(c, target, NotAllowed[target.kind])
                ELSE JudgeTarget(c, Head(ways), target, args))
  BY DEF AskFor
<1>2. GoodCall(c, calls[c])
  BY DEF CallsInv
<1> HIDE DEF ways
<1>3. Judged(c, Denied(c, target, NotAllowed[target.kind]))
  BY <1>2, DeniedIsJudged DEF NotAllowed, Allow
<1>4. Judged(c, JudgeTarget(c, Head(ways), target, args))
  BY <1>2, TargetIsJudged
<1>5. CASE ways = <<>>
  BY <1>1, <1>3, <1>5, GoesOnKeeps
<1>6. CASE ways # <<>>
  BY <1>1, <1>4, <1>6, GoesOnKeeps
<1> QED BY <1>5, <1>6

LEMMA ReadKeeps ==
  ASSUME CallsInv, Version(governance)', NEW c \in Calls, Read(c)
  PROVE  CallsInv'
<1> DEFINE uri == Normal[calls[c].req.name]
           target == [kind |-> "resource", name |-> uri]
<1>1. /\ At(c, "arrived")
      /\ IF uri = UriRefused THEN GoesOn(c, Denied(c, target, "uri-refused"))
         ELSE AskFor(c, target, Nothing)
  BY DEF Read
<1>2. target.kind \in {"resource", "template", "prompt"}
  OBVIOUS
<1> HIDE DEF target, uri
<1>3. Judged(c, Denied(c, target, "uri-refused"))
  BY DeniedIsJudged DEF CallsInv, Allow
<1> QED BY <1>1, <1>2, <1>3, GoesOnKeeps, AskForKeeps

LEMMA AskNamedKeeps ==
  ASSUME CallsInv, Version(governance)', NEW c \in Calls, GetPrompt(c) \/ Complete(c)
  PROVE  CallsInv'
<1> DEFINE target == [kind |-> calls[c].req.kind, name |-> calls[c].req.name]
<1>1. /\ At(c, "arrived") /\ calls[c].req.method \in {"prompts/get", "completion/complete"}
      /\ AskFor(c, target, calls[c].req.args)
  BY DEF GetPrompt, Complete, Named
<1>2. calls[c].req \in Requests[c]
  BY <1>1 DEF CallsInv, GoodCall, At, Held
<1>3. target.kind \in {"resource", "template", "prompt"}
  BY <1>1, <1>2, RequestsAssumption
<1> HIDE DEF target
<1> QED BY <1>1, <1>3, AskForKeeps

LEMMA RefuseMethodKeeps ==
  ASSUME CallsInv, Version(governance)', NEW c \in Calls, RefuseMethod(c)
  PROVE  CallsInv'
<1>1. Judged(c, Denied(c, Nothing, "method-not-found"))
  BY DeniedIsJudged DEF CallsInv, Allow
<1> QED BY <1>1, GoesOnKeeps DEF RefuseMethod

\* Nothing is sent to a server that is down.
LEMMA DispatchKeeps ==
  ASSUME CallsInv, Version(governance)', NEW c \in Calls, Dispatch(c)
  PROVE  CallsInv'
<1> DEFINE call == calls[c]
           tried == {Spend(l, Bucket(call), clock) : l \in limiter.on}
           shed == \E t \in tried : t.shed # "none"
           down == call.gov.slots[call.server].conn = {}
           spent == [bucket |-> Bucket(call), at |-> clock, limiter |-> limiter.before]
           going == [server |-> call.server, target |-> call.target, args |-> call.args]
           late == [call EXCEPT !.stage = "recording", !.decision = "rate-limited"]
           lost == [call EXCEPT !.stage = "recording", !.decision = "upstream-down",
                                !.spent = {spent}]
           asks == [call EXCEPT !.stage = "asked", !.spent = {spent}, !.sent = {going}]
<1>1. GoodCall(c, calls[c]) /\ calls[c].stage = "passed"
  BY DEF CallsInv, Dispatch, At
<1>2. Fields \subseteq DOMAIN calls[c]
  BY <1>1, SMTT(30) DEF GoodCall
<1>3. Becomes(c, CASE shed -> late [] ~shed /\ down -> lost [] ~shed /\ ~down -> asks)
  BY DEF Dispatch
<1>4. Fields \subseteq DOMAIN late /\ late.stage = "recording" /\ late.req = call.req
      /\ late.gov = call.gov /\ late.sent = call.sent /\ late.got = call.got
      /\ late.decision = "rate-limited"
  BY <1>2 DEF Fields
<1>5. Fields \subseteq DOMAIN lost /\ lost.stage = "recording" /\ lost.req = call.req
      /\ lost.gov = call.gov /\ lost.sent = call.sent /\ lost.got = call.got
      /\ lost.decision = "upstream-down"
  BY <1>2 DEF Fields
<1>6. Fields \subseteq DOMAIN asks /\ asks.stage = "asked" /\ asks.req = call.req
      /\ asks.gov = call.gov /\ asks.got = call.got /\ asks.sent = {going}
      /\ asks.server = call.server /\ asks.target = call.target
  BY <1>2 DEF Fields
<1>7. going.server = call.server /\ going.target = call.target
  OBVIOUS
<1> HIDE DEF late, lost, asks, shed, spent
<1>8. /\ call.req \in Requests[c] /\ Version(call.gov) /\ call.sent = {} /\ call.got = Nothing
      /\ ToItsOwner(call) /\ MayBeSent(call)
  BY <1>1 DEF GoodCall, Held
<1>9. GoodCall(c, late)
  BY <1>4, <1>8 DEF GoodCall, SentWell, TellsOf, GotUnflagged, Allow
<1>10. GoodCall(c, lost)
  BY <1>5, <1>8 DEF GoodCall, SentWell, TellsOf, GotUnflagged, Allow
<1>11. ASSUME ~down PROVE GoodCall(c, asks)
  <2>1. Permits(call.gov, call.req.caller, going)
    BY <1>8, <1>11 DEF MayBeSent
  <2>2. going.target.kind = "tool" => going.server \in Owner(call.gov, call.req.name)
    BY <1>7, <1>8, <1>11 DEF ToItsOwner
  <2> HIDE DEF going
  <2>3. SentWell(asks)
    BY <1>6, <1>7, <2>1, <2>2 DEF SentWell
  <2> QED BY <1>6, <1>8, <2>3 DEF GoodCall
<1> HIDE DEF down
<1>12. CASE shed
  BY <1>3, <1>9, <1>12, CallsStep
<1>13. CASE ~shed /\ down
  BY <1>3, <1>10, <1>13, CallsStep
<1>14. CASE ~shed /\ ~down
  BY <1>3, <1>11, <1>14, CallsStep
<1> QED BY <1>12, <1>13, <1>14, SMTT(30)

\* A request that was sent, and what comes of it.
LEMMA AnsweredIsGood ==
  ASSUME NEW c \in Calls, GoodCall(c, calls[c]), calls[c].stage = "asked",
         calls[c].req.method # "list", NEW r,
         Fields \subseteq DOMAIN r, r.stage = "recording",
         r.req = calls[c].req, r.gov = calls[c].gov, r.sent = calls[c].sent,
         r.server = calls[c].server, r.target = calls[c].target,
         r.decision \in AfterSending \cup {Allow}, GotUnflagged(r)
  PROVE  GoodCall(c, r)
<1>1. SentWell(r) /\ r.sent # {} /\ r.req \in Requests[c] /\ Version(r.gov)
  BY DEF GoodCall, SentWell, Held
<1>2. TellsOf(r.sent, r)
  BY <1>1 DEF SentWell, TellsOf
<1> QED BY <1>1, <1>2 DEF GoodCall, Held

LEMMA FailsKeeps ==
  ASSUME CallsInv, Version(governance)', NEW c \in Calls, Fails(c)
  PROVE  CallsInv'
<1>1. PICK rule \in {"upstream-down", "upstream-error"} :
         Becomes(c, [calls[c] EXCEPT !.stage = "recording", !.decision = rule])
  BY DEF Fails
<1>2. GoodCall(c, calls[c]) /\ calls[c].stage = "asked" /\ calls[c].req.method # "list"
  BY DEF CallsInv, Fails, At
<1> DEFINE r == [calls[c] EXCEPT !.stage = "recording", !.decision = rule]
<1>3. /\ Fields \subseteq DOMAIN r /\ r.stage = "recording" /\ r.decision = rule
      /\ r.req = calls[c].req /\ r.gov = calls[c].gov /\ r.sent = calls[c].sent
      /\ r.server = calls[c].server /\ r.target = calls[c].target /\ r.got = calls[c].got
  BY <1>2 DEF GoodCall, Fields
<1> HIDE DEF r
<1>4. rule \in AfterSending
  BY DEF AfterSending
<1>5. GotUnflagged(r)
  BY <1>2, <1>3 DEF GoodCall, GotUnflagged
<1>6. GoodCall(c, r)
  BY <1>2, <1>3, <1>4, <1>5, AnsweredIsGood
<1> QED BY <1>1, <1>6, CallsStep DEF r

\* What inspect lets by is clean while it enforces or redacts.
LEMMA InspectedResult ==
  ASSUME NEW mode, NEW content \in Contents \cup {"error"}, NEW complete
  PROVE  LET inspected == InspectResult(mode, content, complete)
         IN /\ inspected.decision \in {Allow, "secret-exfil", "injection"}
            /\ inspected.decision = Allow /\ mode \in {"enforce", "redact"} =>
                  inspected.content \in Unflagged
<1> DEFINE passed == [decision |-> Allow, content |-> content, redacted |-> FALSE]
<1>1. CASE content \in Unflagged \/ mode \in {"off", "warn"}
  BY <1>1 DEF InspectResult
<1>2. CASE ~(content \in Unflagged \/ mode \in {"off", "warn"})
  <2>1. CASE mode = "redact" /\ complete /\ content = "secret"
    <3>1. InspectResult(mode, content, complete)
             = [passed EXCEPT !.content = "clean", !.redacted = TRUE]
      BY <1>2, <2>1 DEF InspectResult
    <3> QED BY <3>1 DEF Unflagged
  <2>2. CASE ~(mode = "redact" /\ complete /\ content = "secret")
    <3>1. InspectResult(mode, content, complete) = [passed EXCEPT !.decision = RuleOf[content]]
      BY <1>2, <2>2 DEF InspectResult
    <3>2. RuleOf[content] \in {"secret-exfil", "injection"}
      BY <1>2 DEF Unflagged, Contents, RuleOf
    <3>3. InspectResult(mode, content, complete).decision = RuleOf[content]
      BY <3>1
    <3> QED BY <3>2, <3>3 DEF Allow
  <2> QED BY <2>1, <2>2
<1> QED BY <1>1, <1>2

\* An answer settled as it was edited, if the edits left a result.
LEMMA SettledIsGood ==
  ASSUME NEW c \in Calls, GoodCall(c, calls[c]), calls[c].stage = "asked",
         calls[c].req.method # "list", NEW edited, NEW final,
         edited.value \in Contents \cup {"error"},
         edited.refused \in {Allow} \cup Editors(calls[c].gov.cfg)
  PROVE  GoodCall(c, Settled(calls[c], edited, final))
<1> DEFINE call == calls[c]
           mode == call.gov.cfg.inspect
           inspected == InspectResult(mode, edited.value, final)
           decisions == <<edited.refused, inspected.decision,
                          Unless(final \/ call.req.answers, "input-required")>>
           r == Settled(call, edited, final)
<1>1. Fields \subseteq DOMAIN call /\ Version(call.gov)
  BY DEF GoodCall, Held
<1> HIDE DEF inspected
<1>2. /\ Fields \subseteq DOMAIN r /\ r.stage = "recording" /\ r.decision = FirstDenial(decisions)
      /\ r.req = call.req /\ r.gov = call.gov /\ r.sent = call.sent
      /\ r.server = call.server /\ r.target = call.target
      /\ r.got = IF r.decision = Allow THEN inspected.content ELSE Nothing
  BY <1>1 DEF Settled, Fields, inspected
<1> HIDE DEF r
<1>3. /\ inspected.decision \in {Allow, "secret-exfil", "injection"}
      /\ inspected.decision = Allow /\ mode \in {"enforce", "redact"} =>
            inspected.content \in Unflagged
  BY InspectedResult DEF inspected
<1>4. DOMAIN decisions = {1, 2, 3} /\ decisions[1] = edited.refused
      /\ decisions[2] = inspected.decision
      /\ decisions[3] = Unless(final \/ call.req.answers, "input-required")
  OBVIOUS
<1> HIDE DEF decisions
<1>5. r.decision \in AfterSending \cup {Allow}
  <2>1. r.decision = Allow \/ \E i \in DOMAIN decisions : r.decision = decisions[i]
    BY <1>2, <1>4, FirstDenialIsOne
  <2>2. Editors(call.gov.cfg) \subseteq AfterSending
    BY <1>1 DEF Editors, AfterSending, Version
  <2>3. \A i \in DOMAIN decisions : decisions[i] \in AfterSending \cup {Allow}
    BY <1>3, <1>4, <2>2 DEF AfterSending, Unless
  <2> QED BY <2>1, <2>3
<1>6. ASSUME r.decision = Allow PROVE inspected.decision = Allow
  <2>1. DOMAIN decisions \subseteq Nat /\ 2 \in DOMAIN decisions
    BY <1>4
  <2>2. FirstDenial(decisions) = Allow
    BY <1>2, <1>6
  <2>3. decisions[2] = Allow
    BY <2>1, <2>2, NoDenial
  <2> QED BY <1>4, <2>3
<1>7. GotUnflagged(r)
  BY <1>2, <1>3, <1>6 DEF GotUnflagged
<1>8. GoodCall(c, r)
  BY <1>2, <1>5, <1>7, AnsweredIsGood
<1> QED BY <1>8 DEF r

LEMMA AnsweredKeeps ==
  ASSUME CallsInv, Version(governance)', NEW c \in Calls, Answered(c)
  PROVE  CallsInv'
<1>1. PICK answer \in Answers : Becomes(c, Inspected(calls[c], answer))
  BY DEF Answered
<1>2. GoodCall(c, calls[c]) /\ calls[c].stage = "asked" /\ calls[c].req.method # "list"
  BY DEF CallsInv, Answered, At
<1>3. answer.content \in Contents \cup {"error"} /\ calls[c].gov.cfg \in Configs
  BY <1>2, RulesAssumption DEF GoodCall, Held, Version
<1> DEFINE Edits(edited) == /\ edited.value \in Contents \cup {"error"}
                            /\ edited.refused \in {Allow} \cup Editors(calls[c].gov.cfg)
<1>4. Edits(Unedited(answer))
  BY <1>3 DEF Unedited
<1>5. Edits(Edited(calls[c], answer))
  <2>1. CASE answer.interim \/ answer.content = "error"
    BY <1>4, <2>1 DEF Edited, Unedited
  <2>2. CASE ~(answer.interim \/ answer.content = "error")
    <3>1. answer.content \in Contents
      BY <1>3, <2>2
    <3> QED BY <1>3, <2>2, <3>1, ResultsStayResults DEF Edited
  <2> QED BY <2>1, <2>2
<1>6. PICK edited, final : Inspected(calls[c], answer) = Settled(calls[c], edited, final)
                           /\ Edits(edited)
  <2> HIDE DEF Edits
  <2> QED BY <1>4, <1>5 DEF Inspected, InspectedContents, InspectedPrompt, InspectedCompletion
<1>7. GoodCall(c, Inspected(calls[c], answer))
  BY <1>2, <1>6, SettledIsGood
<1> QED BY <1>1, <1>7, CallsStep

LEMMA AskListsKeeps ==
  ASSUME CallsInv, Version(governance)', NEW c \in Calls, AskLists(c)
  PROVE  CallsInv'
<1> DEFINE r == [calls[c] EXCEPT !.stage = "asked"]
<1>1. GoodCall(c, calls[c]) /\ calls[c].stage = "arrived" /\ Becomes(c, r)
  BY DEF CallsInv, AskLists, At
<1>2. /\ Fields \subseteq DOMAIN r /\ r.stage = "asked"
      /\ r.req = calls[c].req /\ r.gov = calls[c].gov
      /\ r.sent = calls[c].sent /\ r.got = calls[c].got
  BY <1>1 DEF GoodCall, Fields
<1> HIDE DEF r
<1>3. calls[c].req.method = "list"
  BY DEF AskLists
<1>4. GoodCall(c, r)
  BY <1>1, <1>2, <1>3 DEF GoodCall, Held, SentWell
<1> QED BY <1>1, <1>4, CallsStep

LEMMA RecordKeeps ==
  ASSUME CallsInv, Version(governance)', NEW c \in Calls, Record(c)
  PROVE  CallsInv'
<1> DEFINE r == [Idle EXCEPT !.stage = "done", !.spent = calls[c].spent,
                             !.sent = calls[c].sent, !.decision = calls[c].decision]
<1>1. Becomes(c, r)
  BY DEF Record
<1>2. Fields \subseteq DOMAIN r /\ r.stage = "done"
  BY DEF Idle, Fields
<1> HIDE DEF r
<1>3. GoodCall(c, r)
  BY <1>2, EndedIsGood
<1> QED BY <1>1, <1>3, CallsStep

LEMMA CallStepKeeps ==
  ASSUME CallsInv, Version(governance)', NEW c \in Calls, CallStep(c)
  PROVE  CallsInv'
<1>1. CASE Enter(c)
  BY <1>1, EnterKeeps
<1>2. CASE Refuse(c)
  BY <1>2, GoneKeeps DEF Refuse
<1>3. CASE AnswerAlone(c)
  BY <1>3, GoneKeeps DEF AnswerAlone
<1>4. CASE Gather(c)
  BY <1>4, GoneKeeps DEF Gather
<1>5. CASE Leave(c)
  BY <1>5, LeaveKeeps
<1>6. CASE Arrive(c)
  BY <1>6, ArriveKeeps
<1>7. CASE CallTool(c)
  BY <1>7, CallToolKeeps
<1>8. CASE Read(c)
  BY <1>8, ReadKeeps
<1>9. CASE GetPrompt(c) \/ Complete(c)
  BY <1>9, AskNamedKeeps
<1>10. CASE RefuseMethod(c)
  BY <1>10, RefuseMethodKeeps
<1>11. CASE AskLists(c)
  BY <1>11, AskListsKeeps
<1>12. CASE Dispatch(c)
  BY <1>12, DispatchKeeps
<1>13. CASE Fails(c)
  BY <1>13, FailsKeeps
<1>14. CASE Answered(c)
  BY <1>14, AnsweredKeeps
<1>15. CASE Record(c)
  BY <1>15, RecordKeeps
<1> QED BY <1>1, <1>2, <1>3, <1>4, <1>5, <1>6, <1>7, <1>8, <1>9, <1>10, <1>11, <1>12, <1>13,
           <1>14, <1>15 DEF CallStep

LEMMA NextKeeps ==
  ASSUME CallsInv, [Next]_vars
  PROVE  CallsInv'
<1>1. Version(governance)'
  BY NextVersion DEF CallsInv
<1>2. ASSUME UNCHANGED calls PROVE CallsInv'
  BY <1>1, <1>2 DEF CallsInv
<1>3. ASSUME NEW c \in Calls, CallStep(c) PROVE CallsInv'
  BY <1>1, <1>3, CallStepKeeps
<1>4. ASSUME NEW s \in DOMAIN Verdicts, Opened(s) PROVE CallsInv'
  BY <1>2, <1>4 DEF Opened
<1>5. CASE Reload \/ StoreLimiter \/ Tick \/ UNCHANGED vars
  BY <1>2, <1>5 DEF Reload, StoreLimiter, Tick, vars
<1> QED BY <1>3, <1>4, <1>5 DEF Next

LEMMA CallsInvHolds == Spec => []CallsInv
<1>1. Init => CallsInv
  BY InitCalls
<1>2. CallsInv /\ [Next]_vars => CallsInv'
  BY NextKeeps
<1> QED BY <1>1, <1>2, PTL DEF Spec

\* A call by a name is only ever sent to the name's owner in the version of the
\* governance the call arrived under: the first server that lists it and takes
\* it, whether or not its definition has fallen under suspicion (Governance::
\* offers: "never handed to another server").
THEOREM CallsGoToTheOwner == Spec => []NameKeepsItsServer
<1>1. CallsInv => NameKeepsItsServer
  BY CallsInvMeans
<1> QED BY <1>1, CallsInvHolds, PTL

\* Nothing reaches a server that the one version of the governance its call
\* arrived under does not permit, arguments as the transforms left them and all:
\* not by way of a reload or a verdict that came between two gates, nor by a
\* rule that judged what a later transform changed (handle_tools_call).
THEOREM WhatIsSentWasAllowed == Spec => []SentWasAllowed
<1>1. CallsInv => SentWasAllowed
  BY CallsInvMeans
<1> QED BY <1>1, CallsInvHolds, PTL

\* While inspect enforces or redacts, whatever an upstream answers and whatever
\* the transforms make of it, no client gets what inspect finds fault with.
THEOREM FlaggedResultsStay == Spec => []NothingFlaggedPasses
<1>1. CallsInv => NothingFlaggedPasses
  BY CallsInvMeans
<1> QED BY <1>1, CallsInvHolds, PTL

-----------------------------------------------------------------------------
(***************************************************************************)
(* Every other step of a request: it does not end, and spends nothing.     *)
(***************************************************************************)
Goes(c, r) ==
    /\ Becomes(c, r)
    /\ calls[c].stage # "done" /\ r.stage # "done"
    /\ r.spent = calls[c].spent \/ r.spent = {}
    /\ UNCHANGED <<records, losses, limiter, owed, clock>>

LEMMA ProgressJudged ==
  ASSUME CallsInv, NEW c \in Calls,
         CallTool(c) \/ Read(c) \/ GetPrompt(c) \/ Complete(c) \/ RefuseMethod(c)
  PROVE  \E r : Goes(c, r)
<1> DEFINE Judgement(call) == "stage" \in DOMAIN call /\ call.spent = calls[c].spent
<1>1. At(c, "arrived")
  BY DEF CallTool, Read, GetPrompt, Complete, RefuseMethod
<1>2. Fields \subseteq DOMAIN calls[c]
  BY DEF CallsInv, GoodCall
<1>3. /\ \A route : Judgement(JudgeTool(c, route))
      /\ \A server, target, args : Judgement(JudgeTarget(c, server, target, args))
      /\ \A target, rule : Judgement(Denied(c, target, rule))
  <2>1. ASSUME NEW route PROVE Judgement(JudgeTool(c, route))
    BY <1>2 DEF JudgeTool, Fields
  <2>2. ASSUME NEW server, NEW target, NEW args PROVE Judgement(JudgeTarget(c, server, target, args))
    BY <1>2 DEF JudgeTarget, Fields
  <2>3. ASSUME NEW target, NEW rule PROVE Judgement(Denied(c, target, rule))
    BY <1>2 DEF Denied, Fields
  <2> HIDE DEF Judgement
  <2> QED BY <2>1, <2>2, <2>3
<1> HIDE DEF Judgement
<1>4. ASSUME NEW target, NEW args, AskFor(c, target, args)
      PROVE  \E call : Judgement(call) /\ GoesOn(c, call)
  <2> DEFINE ways == Routed(calls[c].gov.cfg, target)
  <2>1. GoesOn(c, IF ways = <<>> THEN Denied(c, target, NotAllowed[target.kind])
                  ELSE JudgeTarget(c, Head(ways), target, args))
    BY <1>4 DEF AskFor
  <2> HIDE DEF ways
  <2> QED BY <1>3, <2>1
<1>5. PICK call : Judgement(call) /\ GoesOn(c, call)
  <2>1. CASE CallTool(c)
    BY <1>3, <2>1 DEF CallTool
  <2>2. CASE Read(c)
    BY <1>3, <1>4, <2>2 DEF Read
  <2>3. CASE GetPrompt(c) \/ Complete(c)
    BY <1>4, <2>3 DEF GetPrompt, Complete
  <2>4. CASE RefuseMethod(c)
    BY <1>3, <2>4 DEF RefuseMethod
  <2> QED BY <2>1, <2>2, <2>3, <2>4, SMTT(30)
<1> DEFINE r == [call EXCEPT !.stage = IF call.decision = Allow THEN "passed" ELSE "recording"]
<1>6. r.stage # "done" /\ r.spent = calls[c].spent
  BY <1>5 DEF Judgement
<1>7. Becomes(c, r) /\ UNCHANGED <<records, losses, limiter, owed, clock>>
  BY <1>5 DEF GoesOn, shared
<1> HIDE DEF r
<1> QED BY <1>1, <1>6, <1>7 DEF Goes, At

LEMMA ProgressGone ==
  ASSUME NEW c \in Calls, Refuse(c) \/ AnswerAlone(c) \/ Gather(c)
  PROVE  \E r : Goes(c, r)
<1> DEFINE r == [Idle EXCEPT !.stage = "gone"]
<1>1. r.stage = "gone" /\ r.spent = {}
  BY DEF Idle
<1>2. Becomes(c, r) /\ UNCHANGED <<records, losses, limiter, owed, clock>> /\ calls[c].stage # "done"
  BY DEF Refuse, AnswerAlone, Gather, At, shared
<1> HIDE DEF r
<1> QED BY <1>1, <1>2 DEF Goes

LEMMA ProgressEntered ==
  ASSUME NEW c \in Calls, Enter(c)
  PROVE  \E r : Goes(c, r)
<1>1. PICK r : Becomes(c, r) /\ r.stage \in {"entered", "gone"} /\ r.spent = {}
  <2>1. PICK req \in Requests[c] :
           IF inflight < MaxInflight
           THEN /\ inflight' = inflight + 1
                /\ Becomes(c, [Idle EXCEPT !.stage = "entered", !.req = req])
           ELSE /\ Becomes(c, [Idle EXCEPT !.stage = "gone"])
                /\ UNCHANGED inflight
    BY Entering
  <2> DEFINE entered == [Idle EXCEPT !.stage = "entered", !.req = req]
             gone == [Idle EXCEPT !.stage = "gone"]
  <2>2. entered.stage = "entered" /\ entered.spent = {}
    BY DEF Idle
  <2>3. gone.stage = "gone" /\ gone.spent = {}
    BY DEF Idle
  <2>4. Becomes(c, entered) \/ Becomes(c, gone)
    BY <2>1
  <2> HIDE DEF entered, gone
  <2> QED BY <2>2, <2>3, <2>4
<1>2. UNCHANGED <<records, losses, limiter, owed, clock>> /\ calls[c].stage = "new"
  BY DEF Enter, At, shared
<1> QED BY <1>1, <1>2 DEF Goes

LEMMA Progress ==
  ASSUME CallsInv, NEW c \in Calls, CallStep(c), ~Record(c), ~Dispatch(c)
  PROVE  \E r : Goes(c, r)
<1>1. Fields \subseteq DOMAIN calls[c]
  BY DEF CallsInv, GoodCall
<1>2. CASE Enter(c)
  BY <1>2, ProgressEntered
<1>3. CASE Refuse(c) \/ AnswerAlone(c) \/ Gather(c)
  BY <1>3, ProgressGone
<1>4. CASE CallTool(c) \/ Read(c) \/ GetPrompt(c) \/ Complete(c) \/ RefuseMethod(c)
  BY <1>4, ProgressJudged
<1>5. CASE Leave(c)
  <2> DEFINE r == [calls[c] EXCEPT !.here = FALSE]
  <2>1. r.stage = calls[c].stage /\ r.spent = calls[c].spent
    BY <1>1 DEF Fields
  <2>2. Becomes(c, r) /\ UNCHANGED <<records, losses, limiter, owed, clock>>
        /\ calls[c].stage # "done"
    BY <1>5 DEF Leave, Running, shared
  <2> HIDE DEF r
  <2> QED BY <2>1, <2>2 DEF Goes
<1>6. CASE Arrive(c)
  <2> DEFINE r == [calls[c] EXCEPT !.stage = "arrived", !.gov = governance]
  <2>1. r.stage = "arrived" /\ r.spent = calls[c].spent
    BY <1>1 DEF Fields
  <2>2. Becomes(c, r) /\ UNCHANGED <<records, losses, limiter, owed, clock>>
        /\ calls[c].stage # "done"
    BY <1>6 DEF Arrive, At, shared
  <2> HIDE DEF r
  <2> QED BY <2>1, <2>2 DEF Goes
<1>7. CASE AskLists(c)
  <2> DEFINE r == [calls[c] EXCEPT !.stage = "asked"]
  <2>1. r.stage = "asked" /\ r.spent = calls[c].spent
    BY <1>1 DEF Fields
  <2>2. Becomes(c, r) /\ UNCHANGED <<records, losses, limiter, owed, clock>>
        /\ calls[c].stage # "done"
    BY <1>7 DEF AskLists, At, shared
  <2> HIDE DEF r
  <2> QED BY <2>1, <2>2 DEF Goes
<1>8. CASE Fails(c)
  <2>1. PICK rule : Becomes(c, [calls[c] EXCEPT !.stage = "recording", !.decision = rule])
    BY <1>8 DEF Fails
  <2> DEFINE r == [calls[c] EXCEPT !.stage = "recording", !.decision = rule]
  <2>2. r.stage = "recording" /\ r.spent = calls[c].spent
    BY <1>1 DEF Fields
  <2>3. Becomes(c, r) /\ UNCHANGED <<records, losses, limiter, owed, clock>>
        /\ calls[c].stage # "done"
    BY <1>8, <2>1 DEF Fails, At, shared
  <2> HIDE DEF r
  <2> QED BY <2>2, <2>3 DEF Goes
<1>9. CASE Answered(c)
  <2>1. PICK answer : Becomes(c, Inspected(calls[c], answer))
    BY <1>9 DEF Answered
  <2> DEFINE r == Inspected(calls[c], answer)
  <2>2. r.stage = "recording" /\ r.spent = calls[c].spent
    BY <1>1 DEF Fields, Inspected, InspectedContents, InspectedPrompt, InspectedCompletion, Settled
  <2>3. Becomes(c, r) /\ UNCHANGED <<records, losses, limiter, owed, clock>>
        /\ calls[c].stage # "done"
    BY <1>9, <2>1 DEF Answered, At
  <2> HIDE DEF r
  <2> QED BY <2>2, <2>3 DEF Goes
<1> QED BY <1>2, <1>3, <1>4, <1>5, <1>6, <1>7, <1>8, <1>9 DEF CallStep

-----------------------------------------------------------------------------
(***************************************************************************)
(* The record of a request.                                                *)
(***************************************************************************)

\* The requests that ended without one.
Unrecorded == {c \in Calls : calls[c].stage = "done" /\ records[c] = <<>>}

RecordedWell(c) ==
    /\ calls[c].stage = "done"
    /\ \E record : records[c] = <<record>> /\ TellsOf(calls[c].sent, record)

RecordsInv ==
    /\ DOMAIN records = Calls
    /\ losses \in Nat /\ losses = Cardinality(Unrecorded)
    /\ \A c \in Calls : records[c] = <<>> \/ RecordedWell(c)

LEMMA RecordsInvMeans == RecordsInv => RecordTellsTheTruth
<1> SUFFICES ASSUME RecordsInv PROVE RecordTellsTheTruth
  OBVIOUS
<1> DEFINE ended == {c \in Calls : calls[c].stage = "done"}
<1>1. {c \in ended : records[c] = <<>>} = Unrecorded
  BY DEF Unrecorded
<1>2. ASSUME NEW c \in Calls, records[c] # <<>>
      PROVE  /\ c \in ended /\ Len(records[c]) = 1
             /\ \A i \in DOMAIN records[c] : TellsOf(calls[c].sent, records[c][i])
  <2>1. PICK record : records[c] = <<record>> /\ TellsOf(calls[c].sent, record)
    BY <1>2 DEF RecordsInv, RecordedWell
  <2>2. calls[c].stage = "done"
    BY <1>2 DEF RecordsInv, RecordedWell
  <2> QED BY <2>1, <2>2
<1>3. \A c \in ended : \A i \in DOMAIN records[c] :
         /\ records[c][i].decision = Allow => calls[c].sent # {}
         /\ \A sent \in calls[c].sent :
              /\ records[c][i].server = sent.server /\ records[c][i].target = sent.target
              /\ records[c][i].decision \in AfterSending \cup {Allow}
  <2> SUFFICES ASSUME NEW c \in ended, NEW i \in DOMAIN records[c]
               PROVE  TellsOf(calls[c].sent, records[c][i])
    BY DEF TellsOf
  <2>1. records[c] # <<>>
    OBVIOUS
  <2> QED BY <1>2, <2>1
<1>4. Cardinality({c \in ended : records[c] = <<>>}) = losses
  BY <1>1 DEF RecordsInv
<1> QED BY <1>2, <1>3, <1>4 DEF RecordTellsTheTruth

\* A request that does not end in this step.
LEMMA GoesOnRecords ==
  ASSUME CallsInv, RecordsInv, NEW c \in Calls, NEW r, Becomes(c, r),
         calls[c].stage # "done", r.stage # "done", UNCHANGED <<records, losses>>
  PROVE  RecordsInv'
<1>1. DOMAIN calls = Calls /\ \A d \in Calls : calls'[d] = IF d = c THEN r ELSE calls[d]
  BY DEF Becomes, CallsInv
<1>2. Unrecorded' = Unrecorded
  BY <1>1 DEF Unrecorded
<1>3. ASSUME NEW d \in Calls, records'[d] # <<>> PROVE RecordedWell(d)'
  <2>1. RecordedWell(d)
    BY <1>3 DEF RecordsInv
  <2>2. d # c
    BY <2>1 DEF RecordedWell
  <2> QED BY <1>1, <2>1, <2>2 DEF RecordedWell
<1> QED BY <1>2, <1>3 DEF RecordsInv

\* The one step that ends a request: with a record of it, or one that was lost.
LEMMA RecordRecords ==
  ASSUME CallsInv, RecordsInv, NEW c \in Calls, Record(c)
  PROVE  RecordsInv'
<1> DEFINE call == calls[c]
           record == [server |-> call.server, target |-> call.target,
                      decision |-> call.decision, note |-> call.note]
           r == [Idle EXCEPT !.stage = "done", !.spent = call.spent,
                             !.sent = call.sent, !.decision = call.decision]
<1>1. r.stage = "done" /\ r.sent = call.sent
  BY DEF Idle
<1>2. Becomes(c, r) /\ call.stage = "recording"
  BY DEF Record, At
<1>3. \/ records' = [records EXCEPT ![c] = Append(@, record)] /\ UNCHANGED losses
      \/ losses' = losses + 1 /\ UNCHANGED records
  BY DEF Record
<1> HIDE DEF r
<1>4. DOMAIN calls = Calls /\ \A d \in Calls : calls'[d] = IF d = c THEN r ELSE calls[d]
  BY <1>2 DEF Becomes, CallsInv
<1>5. records[c] = <<>> /\ TellsOf(call.sent, record)
  <2>1. ~RecordedWell(c)
    BY <1>2 DEF RecordedWell
  <2>2. TellsOf(call.sent, call)
    BY <1>2 DEF CallsInv, GoodCall
  <2> QED BY <2>1, <2>2 DEF RecordsInv, TellsOf
<1> HIDE DEF record
<1>6. ASSUME NEW d \in Calls, d # c PROVE RecordedWell(d) => (records'[d] = records[d] => RecordedWell(d)')
  BY <1>4, <1>6 DEF RecordedWell
<1>7. CASE records' = [records EXCEPT ![c] = Append(@, record)] /\ UNCHANGED losses
  <2>1. DOMAIN records' = Calls /\ records'[c] = <<record>>
        /\ \A d \in Calls \ {c} : records'[d] = records[d]
    BY <1>5, <1>7 DEF RecordsInv
  <2>2. Unrecorded' = Unrecorded
    BY <1>1, <1>2, <1>4, <2>1 DEF Unrecorded
  <2>3. RecordedWell(c)'
    BY <1>1, <1>4, <1>5, <2>1 DEF RecordedWell
  <2>4. \A d \in Calls : records'[d] = <<>> \/ RecordedWell(d)'
    BY <1>6, <2>1, <2>3 DEF RecordsInv
  <2> QED BY <1>7, <2>1, <2>2, <2>4 DEF RecordsInv
<1>8. CASE losses' = losses + 1 /\ UNCHANGED records
  <2>1. Unrecorded' = Unrecorded \cup {c} /\ c \notin Unrecorded
    BY <1>1, <1>2, <1>4, <1>5, <1>8 DEF Unrecorded
  <2>2. IsFiniteSet(Unrecorded)
    BY GatewayAssumption, FS_Subset DEF Unrecorded
  <2>3. Cardinality(Unrecorded') = Cardinality(Unrecorded) + 1
    BY <2>1, <2>2, FS_AddElement
  <2>4. \A d \in Calls : records'[d] = <<>> \/ RecordedWell(d)'
    BY <1>5, <1>6, <1>8 DEF RecordsInv
  <2> QED BY <1>8, <2>3, <2>4 DEF RecordsInv
<1> QED BY <1>3, <1>7, <1>8

LEMMA CallStepRecords ==
  ASSUME CallsInv, RecordsInv, NEW c \in Calls, CallStep(c)
  PROVE  RecordsInv'
<1>1. CASE Record(c)
  BY <1>1, RecordRecords
<1>2. CASE Dispatch(c)
  <2>1. PICK r : Becomes(c, r) /\ r.stage \in {"recording", "asked"}
    BY <1>2, Dispatching, SMTT(30) DEF HasStage, CallsInv, GoodCall, Fields
  <2>2. UNCHANGED <<records, losses>> /\ calls[c].stage = "passed"
    BY <1>2 DEF Dispatch, At
  <2> QED BY <2>1, <2>2, GoesOnRecords
<1>3. CASE ~Record(c) /\ ~Dispatch(c)
  BY <1>3, Progress, GoesOnRecords DEF Goes
<1> QED BY <1>1, <1>2, <1>3

LEMMA NextRecords ==
  ASSUME CallsInv, RecordsInv, [Next]_vars
  PROVE  RecordsInv'
<1>1. ASSUME UNCHANGED <<calls, records, losses>> PROVE RecordsInv'
  BY <1>1 DEF RecordsInv, RecordedWell, Unrecorded
<1>2. ASSUME NEW c \in Calls, CallStep(c) PROVE RecordsInv'
  BY <1>2, CallStepRecords
<1>3. ASSUME NEW s \in DOMAIN Verdicts, Opened(s) PROVE RecordsInv'
  BY <1>1, <1>3 DEF Opened
<1>4. CASE Reload \/ StoreLimiter \/ Tick \/ UNCHANGED vars
  BY <1>1, <1>4 DEF Reload, StoreLimiter, Tick, vars
<1> QED BY <1>2, <1>3, <1>4 DEF Next

LEMMA InitRecords == Init => RecordsInv
<1> SUFFICES ASSUME Init PROVE RecordsInv
  OBVIOUS
<1>1. records = [c \in Calls |-> <<>>] /\ losses = 0 /\ calls = [c \in Calls |-> Idle]
  BY DEF Init
<1>2. Unrecorded = {}
  BY <1>1 DEF Unrecorded, Idle
<1> QED BY <1>1, <1>2, FS_EmptySet DEF RecordsInv

\* Every request handed to the gateway ends in one record or in one failed append,
\* though its client has left; the record names the server and the target of what
\* was sent, an allowed request was sent, and one that was sent is not recorded
\* as if a gate had stopped it (audit_with, RunToEnd).
THEOREM RecordsTellTheTruth == Spec => []RecordTellsTheTruth
<1>1. Init => RecordsInv
  BY InitRecords
<1>2. CallsInv /\ RecordsInv /\ [Next]_vars => RecordsInv'
  BY NextRecords
<1>3. RecordsInv => RecordTellsTheTruth
  BY RecordsInvMeans
<1> QED BY <1>1, <1>2, <1>3, CallsInvHolds, PTL DEF Spec

-----------------------------------------------------------------------------
(***************************************************************************)
(* What a bucket lets by, and since when: of each stretch of time, the     *)
(* requests that spent one of its tokens in it.                            *)
(***************************************************************************)
Stretches == [Nat -> [Nat -> SUBSET Calls]]

Template == [capacity : Nat, refill : Nat]

\* What it has left, and what was let by since any time, are not more than it
\* held full and gained since; nobody spent after it was last touched.
BucketKeeps(b, T, spenders) ==
    /\ b.tokens \in Nat /\ b.last \in Nat
    /\ \A t1, t2 \in Nat : b.last < t1 => spenders[t1][t2] = {}
    /\ \A t1, t2 \in Nat : t1 <= b.last =>
          b.tokens + Cardinality(spenders[t1][t2]) * Cost <= T.capacity + (b.last - t1) * T.refill
    /\ \A t1, t2 \in Nat : t1 <= t2 =>
          Cardinality(spenders[t1][t2]) * Cost <= T.capacity + (t2 - t1) * T.refill

LEMMA Sizes ==
  ASSUME NEW S \in SUBSET Calls
  PROVE  /\ IsFiniteSet(S) /\ Cardinality(S) \in Nat
         /\ \A R \in SUBSET S : Cardinality(R) \in Nat /\ Cardinality(R) <= Cardinality(S)
         /\ \A c : Cardinality(S \cup {c}) <= Cardinality(S) + 1
<1>1. IsFiniteSet(S)
  BY GatewayAssumption, FS_Subset
<1>2. Cardinality(S) \in Nat
  BY <1>1, FS_CardinalityType
<1>3. \A R \in SUBSET S : Cardinality(R) \in Nat /\ Cardinality(R) <= Cardinality(S)
  BY <1>1, FS_Subset, FS_CardinalityType
<1>4. ASSUME NEW c PROVE Cardinality(S \cup {c}) <= Cardinality(S) + 1
  <2>1. CASE c \in S
    <3>1. S \cup {c} = S
      BY <2>1
    <3> QED BY <1>2, <3>1
  <2>2. CASE c \notin S
    <3>1. Cardinality(S \cup {c}) = Cardinality(S) + 1
      BY <1>1, <2>2, FS_AddElement
    <3> QED BY <1>2, <3>1
  <2> QED BY <2>1, <2>2
<1> QED BY <1>1, <1>2, <1>3, <1>4

LEMMA Products ==
  ASSUME NEW a \in Nat, NEW b \in Nat, NEW k \in Nat
  PROVE  /\ a * k \in Nat /\ (a + b) * k = a * k + b * k
         /\ a <= b => a * k <= b * k
<1>1. a * k \in Nat /\ b * k \in Nat /\ (a + b) * k = a * k + b * k
  OBVIOUS
<1>2. ASSUME a <= b PROVE a * k <= b * k
  <2>1. b - a \in Nat /\ b = a + (b - a)
    BY <1>2
  <2>2. (b - a) * k \in Nat /\ b * k = a * k + (b - a) * k
    BY <2>1
  <2> QED BY <1>1, <2>2
<1> QED BY <1>1, <1>2

\* No bucket fills past its capacity, nor faster than it gains.
LEMMA FilledBounds ==
  ASSUME NEW b, NEW T \in Template, NEW now \in Nat,
         b.tokens \in Nat, b.last \in Nat, b.last <= now
  PROVE  LET filled == Filled(b, T, now)
         IN /\ filled \in Nat /\ filled <= T.capacity
            /\ filled <= b.tokens + (now - b.last) * T.refill
<1>1. T.capacity \in Nat /\ T.refill \in Nat
  BY DEF Template
<1>2. (IF now > b.last THEN now - b.last ELSE 0) = now - b.last /\ now - b.last \in Nat
  OBVIOUS
<1>3. (now - b.last) * T.refill \in Nat
  BY <1>1, <1>2, Products
<1> DEFINE gained == (now - b.last) * T.refill
<1>4. Filled(b, T, now) = IF b.tokens + gained > T.capacity THEN T.capacity
                          ELSE b.tokens + gained
  BY <1>2 DEF Filled
<1>5. gained \in Nat
  BY <1>3
<1> HIDE DEF gained
<1>6. /\ Filled(b, T, now) \in Nat /\ Filled(b, T, now) <= T.capacity
      /\ Filled(b, T, now) <= b.tokens + gained
  BY <1>1, <1>4, <1>5
<1> QED BY <1>6 DEF gained

\* A bucket keeps to its template when it is asked for a token.
LEMMA AcquireKeeps ==
  ASSUME NEW b, NEW T \in Template, NEW now \in Nat, NEW spenders \in Stretches,
         BucketKeeps(b, T, spenders), b.last <= now,
         NEW after \in Stretches, NEW c \in Calls,
         \A t1, t2 \in Nat :
            after[t1][t2] \subseteq
               IF TryAcquire(b, T, now).had /\ t1 <= now /\ now <= t2
               THEN spenders[t1][t2] \cup {c} ELSE spenders[t1][t2]
  PROVE  LET bucket == TryAcquire(b, T, now).bucket
         IN BucketKeeps(bucket, T, after) /\ bucket.last = now
<1> DEFINE filled == Filled(b, T, now)
           had == filled >= Cost
           left == IF had THEN filled - Cost ELSE filled
           N(t1, t2) == Cardinality(spenders[t1][t2])
           M(t1, t2) == Cardinality(after[t1][t2])
<1>1. /\ TryAcquire(b, T, now).had = had
      /\ TryAcquire(b, T, now).bucket.tokens = left /\ TryAcquire(b, T, now).bucket.last = now
  BY DEF TryAcquire
<1>2. /\ T.capacity \in Nat /\ T.refill \in Nat /\ Cost \in Nat
      /\ b.tokens \in Nat /\ b.last \in Nat
  BY GatewayAssumption DEF Template, BucketKeeps
<1>3. filled \in Nat /\ filled <= T.capacity /\ filled <= b.tokens + (now - b.last) * T.refill
  BY <1>2, FilledBounds
<1> HIDE DEF filled
<1>4. left \in Nat /\ left <= filled /\ (had => left + Cost = filled)
  BY <1>2, <1>3
<1>5. ASSUME NEW t1 \in Nat, NEW t2 \in Nat
      PROVE  /\ spenders[t1][t2] \in SUBSET Calls /\ after[t1][t2] \in SUBSET Calls
             /\ N(t1, t2) \in Nat /\ M(t1, t2) \in Nat
             /\ M(t1, t2) <= N(t1, t2) + 1
             /\ ~(had /\ t1 <= now /\ now <= t2) => M(t1, t2) <= N(t1, t2)
  <2>1. spenders[t1][t2] \in SUBSET Calls /\ after[t1][t2] \in SUBSET Calls
    BY DEF Stretches
  <2>2. after[t1][t2] \subseteq IF had /\ t1 <= now /\ now <= t2
                                THEN spenders[t1][t2] \cup {c} ELSE spenders[t1][t2]
    BY <1>1
  <2>3. spenders[t1][t2] \cup {c} \in SUBSET Calls /\ after[t1][t2] \subseteq spenders[t1][t2] \cup {c}
    BY <2>1, <2>2
  <2>4. N(t1, t2) \in Nat /\ Cardinality(spenders[t1][t2] \cup {c}) <= N(t1, t2) + 1
    BY <2>1, Sizes
  <2>5. /\ M(t1, t2) \in Nat /\ Cardinality(spenders[t1][t2] \cup {c}) \in Nat
        /\ M(t1, t2) <= Cardinality(spenders[t1][t2] \cup {c})
    BY <2>3, Sizes
  <2>6. ASSUME ~(had /\ t1 <= now /\ now <= t2) PROVE M(t1, t2) <= N(t1, t2)
    <3>1. after[t1][t2] \in SUBSET spenders[t1][t2]
      BY <2>2, <2>6
    <3> QED BY <2>1, <3>1, Sizes
  <2> HIDE DEF N, M
  <2> QED BY <2>1, <2>4, <2>5, <2>6
\* What is left, with what it let by: each token spent was one it had.
<1>6. ASSUME NEW t1 \in Nat, NEW t2 \in Nat
      PROVE  left + M(t1, t2) * Cost <= filled + N(t1, t2) * Cost
  <2>1. CASE had
    <3>1. M(t1, t2) * Cost <= (N(t1, t2) + 1) * Cost
      <4> HIDE DEF N, M
      <4> QED BY <1>2, <1>5, Products
    <3>2. (N(t1, t2) + 1) * Cost = N(t1, t2) * Cost + Cost /\ N(t1, t2) * Cost \in Nat
          /\ M(t1, t2) * Cost \in Nat
      <4>1. N(t1, t2) \in Nat /\ M(t1, t2) \in Nat
        BY <1>5
      <4>2. 1 * Cost = Cost
        BY <1>2
      <4> HIDE DEF N, M
      <4> QED BY <1>2, <4>1, <4>2, Products
    <3> HIDE DEF N, M, left
    <3> QED BY <1>2, <1>3, <1>4, <2>1, <3>1, <3>2
  <2>2. CASE ~had
    <3>1. M(t1, t2) * Cost <= N(t1, t2) * Cost
      <4> HIDE DEF N, M
      <4> QED BY <1>2, <1>5, <2>2, Products
    <3>2. N(t1, t2) * Cost \in Nat /\ M(t1, t2) * Cost \in Nat
      <4>1. N(t1, t2) \in Nat /\ M(t1, t2) \in Nat
        BY <1>5
      <4> HIDE DEF N, M
      <4> QED BY <1>2, <4>1, Products
    <3> HIDE DEF N, M, left
    <3> QED BY <1>3, <1>4, <3>1, <3>2
  <2> QED BY <2>1, <2>2
<1>7. ASSUME NEW t1 \in Nat, NEW t2 \in Nat, t1 <= now
      PROVE  left + M(t1, t2) * Cost <= T.capacity + (now - t1) * T.refill
  <2>1. N(t1, t2) * Cost \in Nat /\ M(t1, t2) * Cost \in Nat
    <3>1. N(t1, t2) \in Nat /\ M(t1, t2) \in Nat
      BY <1>5
    <3> HIDE DEF N, M
    <3> QED BY <1>2, <3>1, Products
  <2>2. CASE t1 <= b.last
    <3>1. b.tokens + N(t1, t2) * Cost <= T.capacity + (b.last - t1) * T.refill
      BY <2>2 DEF BucketKeeps
    <3>2. now - b.last \in Nat /\ b.last - t1 \in Nat /\ now - t1 = (now - b.last) + (b.last - t1)
      BY <1>2, <2>2
    <3>3. /\ (now - t1) * T.refill = (now - b.last) * T.refill + (b.last - t1) * T.refill
          /\ (now - b.last) * T.refill \in Nat /\ (b.last - t1) * T.refill \in Nat
      BY <1>2, <3>2, Products
    <3> DEFINE n == N(t1, t2) * Cost
               m == M(t1, t2) * Cost
               early == (b.last - t1) * T.refill
               late == (now - b.last) * T.refill
               all == (now - t1) * T.refill
    <3>4. n \in Nat /\ m \in Nat /\ early \in Nat /\ late \in Nat /\ all = late + early
      BY <2>1, <3>3
    <3>5. left + m <= filled + n /\ b.tokens + n <= T.capacity + early /\ filled <= b.tokens + late
      BY <1>3, <1>6, <3>1
    <3> HIDE DEF n, m, early, late, all, left
    <3>6. left + m <= T.capacity + all
      BY <1>2, <1>3, <1>4, <3>4, <3>5
    <3> QED BY <3>6 DEF n, m, all
  <2>3. CASE b.last < t1
    <3>1. N(t1, t2) = 0
      BY <2>3, FS_EmptySet DEF BucketKeeps
    <3>2. N(t1, t2) * Cost = 0
      BY <1>2, <3>1
    <3>3. (now - t1) * T.refill \in Nat
      BY <1>2, <1>7, Products
    <3> DEFINE m == M(t1, t2) * Cost
               all == (now - t1) * T.refill
    <3>4. m \in Nat /\ all \in Nat /\ left + m <= filled + 0
      BY <1>6, <2>1, <3>2, <3>3
    <3> HIDE DEF m, all, left
    <3>5. left + m <= T.capacity + all
      BY <1>2, <1>3, <1>4, <3>4
    <3> QED BY <3>5 DEF m, all
  <2> QED BY <1>2, <2>2, <2>3
<1>8. ASSUME NEW t1 \in Nat, NEW t2 \in Nat, t1 <= t2
      PROVE  M(t1, t2) * Cost <= T.capacity + (t2 - t1) * T.refill
  <2>1. M(t1, t2) * Cost \in Nat /\ N(t1, t2) * Cost \in Nat
    <3>1. N(t1, t2) \in Nat /\ M(t1, t2) \in Nat
      BY <1>5
    <3> HIDE DEF N, M
    <3> QED BY <1>2, <3>1, Products
  <2>2. CASE t1 <= now /\ now <= t2
    <3>1. left + M(t1, t2) * Cost <= T.capacity + (now - t1) * T.refill
      BY <1>7, <2>2
    <3>2. now - t1 \in Nat /\ t2 - t1 \in Nat /\ now - t1 <= t2 - t1
      BY <2>2
    <3>3. (now - t1) * T.refill <= (t2 - t1) * T.refill
          /\ (now - t1) * T.refill \in Nat /\ (t2 - t1) * T.refill \in Nat
      BY <1>2, <3>2, Products
    <3> DEFINE m == M(t1, t2) * Cost
               one == (now - t1) * T.refill
               two == (t2 - t1) * T.refill
    <3>4. m \in Nat /\ one \in Nat /\ two \in Nat /\ one <= two /\ left + m <= T.capacity + one
      BY <2>1, <3>1, <3>3
    <3> HIDE DEF m, one, two, left
    <3>5. m <= T.capacity + two
      BY <1>2, <1>4, <3>4
    <3> QED BY <3>5 DEF m, two
  <2>3. CASE ~(t1 <= now /\ now <= t2)
    <3>1. M(t1, t2) <= N(t1, t2) /\ N(t1, t2) \in Nat /\ M(t1, t2) \in Nat
      <4> HIDE DEF M, N
      <4> QED BY <1>5, <2>3
    <3>2. M(t1, t2) * Cost <= N(t1, t2) * Cost
      <4> HIDE DEF M, N
      <4> QED BY <1>2, <3>1, Products
    <3>3. N(t1, t2) * Cost <= T.capacity + (t2 - t1) * T.refill
      BY <1>8 DEF BucketKeeps
    <3>4. (t2 - t1) * T.refill \in Nat
      BY <1>2, <1>8, Products
    <3> DEFINE m == M(t1, t2) * Cost
               n == N(t1, t2) * Cost
               two == (t2 - t1) * T.refill
    <3>5. m \in Nat /\ n \in Nat /\ two \in Nat /\ m <= n /\ n <= T.capacity + two
      BY <2>1, <3>2, <3>3, <3>4
    <3> HIDE DEF m, n, two
    <3>6. m <= T.capacity + two
      BY <1>2, <3>5
    <3> QED BY <3>6 DEF m, two
  <2> QED BY <2>2, <2>3
<1>9. ASSUME NEW t1 \in Nat, NEW t2 \in Nat, now < t1 PROVE after[t1][t2] = {}
  <2>1. after[t1][t2] \subseteq spenders[t1][t2]
    BY <1>9
  <2>2. b.last < t1
    BY <1>2, <1>9
  <2> QED BY <2>1, <2>2 DEF BucketKeeps
<1> HIDE DEF left
<1> QED BY <1>1, <1>4, <1>7, <1>8, <1>9 DEF BucketKeeps

\* A full bucket, of which nobody spent.
LEMMA FullKeeps ==
  ASSUME NEW T \in Template, NEW now \in Nat, NEW spenders \in Stretches,
         \A t1, t2 \in Nat : spenders[t1][t2] = {}
  PROVE  BucketKeeps(Full(T, now), T, spenders) /\ Full(T, now).last = now
<1>1. Full(T, now).tokens = T.capacity /\ Full(T, now).last = now
  BY DEF Full
<1>2. T.capacity \in Nat /\ T.refill \in Nat /\ Cost \in Nat
  BY GatewayAssumption DEF Template
<1>3. ASSUME NEW t1 \in Nat, NEW t2 \in Nat
      PROVE  Cardinality(spenders[t1][t2]) * Cost = 0
  <2>1. Cardinality(spenders[t1][t2]) = 0
    BY FS_EmptySet
  <2> QED BY <1>2, <2>1
<1>4. \A t1, t2 \in Nat : t1 <= t2 => (t2 - t1) * T.refill \in Nat
  BY <1>2, Products
<1>5. ASSUME NEW t1 \in Nat, NEW t2 \in Nat, t1 <= t2
      PROVE  T.capacity <= T.capacity + (t2 - t1) * T.refill
  <2> DEFINE gained == (t2 - t1) * T.refill
  <2>1. gained \in Nat
    BY <1>4, <1>5
  <2> HIDE DEF gained
  <2>2. T.capacity <= T.capacity + gained
    BY <1>2, <2>1
  <2> QED BY <2>2 DEF gained
<1> DEFINE b == Full(T, now)
<1>6. b.tokens = T.capacity /\ b.last = now
  BY <1>1
<1> HIDE DEF b
<1>7. \A t1, t2 \in Nat : t1 <= b.last =>
          b.tokens + Cardinality(spenders[t1][t2]) * Cost <= T.capacity + (b.last - t1) * T.refill
  <2> SUFFICES ASSUME NEW t1 \in Nat, NEW t2 \in Nat, t1 <= now
               PROVE  T.capacity + 0 <= T.capacity + (now - t1) * T.refill
    BY <1>3, <1>6
  <2> QED BY <1>2, <1>5
<1>8. \A t1, t2 \in Nat : t1 <= t2 =>
          Cardinality(spenders[t1][t2]) * Cost <= T.capacity + (t2 - t1) * T.refill
  <2> SUFFICES ASSUME NEW t1 \in Nat, NEW t2 \in Nat, t1 <= t2
               PROVE  0 <= T.capacity + (t2 - t1) * T.refill
    BY <1>3
  <2> DEFINE gained == (t2 - t1) * T.refill
  <2>1. gained \in Nat
    BY <1>4
  <2> HIDE DEF gained
  <2>2. 0 <= T.capacity + gained
    BY <1>2, <2>1
  <2> QED BY <2>2 DEF gained
<1>9. BucketKeeps(b, T, spenders)
  BY <1>2, <1>6, <1>7, <1>8 DEF BucketKeeps
<1> QED BY <1>6, <1>9 DEF b

\* It keeps to it if some of the spenders are forgotten.
LEMMA FewerKeep ==
  ASSUME NEW b, NEW T \in Template, NEW spenders \in Stretches, BucketKeeps(b, T, spenders),
         NEW fewer \in Stretches, \A t1, t2 \in Nat : fewer[t1][t2] \subseteq spenders[t1][t2]
  PROVE  BucketKeeps(b, T, fewer)
<1>1. T.capacity \in Nat /\ T.refill \in Nat /\ Cost \in Nat /\ b.tokens \in Nat /\ b.last \in Nat
  BY GatewayAssumption DEF Template, BucketKeeps
<1>2. ASSUME NEW t1 \in Nat, NEW t2 \in Nat
      PROVE  /\ Cardinality(fewer[t1][t2]) * Cost <= Cardinality(spenders[t1][t2]) * Cost
             /\ Cardinality(fewer[t1][t2]) * Cost \in Nat
             /\ Cardinality(spenders[t1][t2]) * Cost \in Nat
  <2>1. spenders[t1][t2] \in SUBSET Calls /\ fewer[t1][t2] \in SUBSET spenders[t1][t2]
    BY DEF Stretches
  <2>2. /\ Cardinality(fewer[t1][t2]) \in Nat /\ Cardinality(spenders[t1][t2]) \in Nat
        /\ Cardinality(fewer[t1][t2]) <= Cardinality(spenders[t1][t2])
    BY <2>1, Sizes
  <2> QED BY <1>1, <2>2, Products
<1>3. ASSUME NEW t1 \in Nat, NEW t2 \in Nat, t1 <= t2
      PROVE  Cardinality(fewer[t1][t2]) * Cost <= T.capacity + (t2 - t1) * T.refill
  <2> DEFINE m == Cardinality(fewer[t1][t2]) * Cost
             n == Cardinality(spenders[t1][t2]) * Cost
             gained == (t2 - t1) * T.refill
  <2>1. m \in Nat /\ n \in Nat /\ m <= n
    BY <1>2
  <2>2. n <= T.capacity + gained
    BY <1>3 DEF BucketKeeps
  <2>3. gained \in Nat
    BY <1>1, <1>3, Products
  <2> HIDE DEF m, n, gained
  <2>4. m <= T.capacity + gained
    BY <1>1, <2>1, <2>2, <2>3
  <2> QED BY <2>4 DEF m, gained
<1>4. ASSUME NEW t1 \in Nat, NEW t2 \in Nat, t1 <= b.last
      PROVE  b.tokens + Cardinality(fewer[t1][t2]) * Cost <= T.capacity + (b.last - t1) * T.refill
  <2> DEFINE m == Cardinality(fewer[t1][t2]) * Cost
             n == Cardinality(spenders[t1][t2]) * Cost
             gained == (b.last - t1) * T.refill
  <2>1. m \in Nat /\ n \in Nat /\ m <= n
    BY <1>2
  <2>2. b.tokens + n <= T.capacity + gained
    BY <1>4 DEF BucketKeeps
  <2>3. gained \in Nat
    BY <1>1, <1>4, Products
  <2> HIDE DEF m, n, gained
  <2>4. b.tokens + m <= T.capacity + gained
    BY <1>1, <2>1, <2>2, <2>3
  <2> QED BY <2>4 DEF m, gained
<1>5. \A t1, t2 \in Nat : b.last < t1 => fewer[t1][t2] = {}
  BY DEF BucketKeeps
<1> QED BY <1>1, <1>3, <1>4, <1>5 DEF BucketKeeps

-----------------------------------------------------------------------------
(***************************************************************************)
(* The limiter in place, and one that a reload has still to put in place.  *)
(***************************************************************************)
LetBy(t1, t2) == {c \in Calls : \E spent \in calls[c].spent :
                                  spent.limiter = limiter.before /\ spent.at \in t1..t2}
OfBucket(key) == {c \in Calls : \E spent \in calls[c].spent : spent.bucket = key}

Windows == [t1 \in Nat |-> [t2 \in Nat |-> LetBy(t1, t2)]]
WindowsOf(key) == [t1 \in Nat |-> [t2 \in Nat |-> LetBy(t1, t2) \cap OfBucket(key)]]

LimiterType(l) ==
    /\ DOMAIN l = {"settings", "buckets", "global"}
    /\ \A templates \in {l.settings.each, l.settings.global} :
         /\ templates \subseteq Template
         /\ \A t, u \in templates : t = u

\* The buckets of a limiter keep to their templates; who spent at it since it was
\* put in place has a bucket there.
BucketsKeep(l) ==
    /\ LimiterType(l)
    /\ \A T \in l.settings.global :
         \E b : l.global = {b} /\ BucketKeeps(b, T, Windows) /\ b.last <= clock
    /\ \A T \in l.settings.each :
         /\ \A key \in DOMAIN l.buckets :
              BucketKeeps(l.buckets[key], T, WindowsOf(key)) /\ l.buckets[key].last <= clock
         /\ \A c \in Calls : \A spent \in calls[c].spent :
              spent.limiter = limiter.before => spent.bucket \in DOMAIN l.buckets

\* A limiter that was never asked for a token.
Fresh(l) ==
    /\ LimiterType(l) /\ DOMAIN l.buckets = {}
    /\ \A T \in l.settings.global : \E now \in Nat : now <= clock /\ l.global = {Full(T, now)}

RateInv ==
    /\ clock \in Nat /\ limiter.before \in Nat /\ DOMAIN limiter = {"on", "before"}
    /\ \A c \in Calls : \A spent \in calls[c].spent :
         /\ spent.limiter \in Nat /\ spent.limiter <= limiter.before
         /\ \A other \in calls[c].spent : other = spent
    /\ \A l \in limiter.on : BucketsKeep(l)
    /\ \A on \in owed : \A l \in on : Fresh(l)

LEMMA WindowsType == Windows \in Stretches /\ \A key : WindowsOf(key) \in Stretches
  BY DEF Windows, WindowsOf, LetBy, Stretches

LEMMA RateInvMeans == RateInv => RateHolds
<1> SUFFICES ASSUME RateInv, NEW l \in limiter.on, NEW t2 \in 0..clock, NEW t1 \in 0..t2
             PROVE  /\ \A T \in l.settings.global :
                         Cardinality(LetBy(t1, t2)) * Cost <= T.capacity + (t2 - t1) * T.refill
                    /\ \A T \in l.settings.each : \A key \in DOMAIN l.buckets :
                         Cardinality(LetBy(t1, t2) \cap OfBucket(key)) * Cost
                           <= T.capacity + (t2 - t1) * T.refill
  BY DEF RateHolds, LetBy, OfBucket
<1>1. t1 \in Nat /\ t2 \in Nat /\ t1 <= t2 /\ BucketsKeep(l)
  BY DEF RateInv
<1>2. ASSUME NEW T \in l.settings.global
      PROVE  Cardinality(LetBy(t1, t2)) * Cost <= T.capacity + (t2 - t1) * T.refill
  <2>1. PICK b : BucketKeeps(b, T, Windows)
    BY <1>1 DEF BucketsKeep
  <2>2. Windows[t1][t2] = LetBy(t1, t2)
    BY <1>1 DEF Windows
  <2>3. Cardinality(Windows[t1][t2]) * Cost <= T.capacity + (t2 - t1) * T.refill
    BY <1>1, <2>1 DEF BucketKeeps
  <2> QED BY <2>2, <2>3
<1>3. ASSUME NEW T \in l.settings.each, NEW key \in DOMAIN l.buckets
      PROVE  Cardinality(LetBy(t1, t2) \cap OfBucket(key)) * Cost
               <= T.capacity + (t2 - t1) * T.refill
  <2>1. BucketKeeps(l.buckets[key], T, WindowsOf(key))
    BY <1>1 DEF BucketsKeep
  <2>2. WindowsOf(key)[t1][t2] = LetBy(t1, t2) \cap OfBucket(key)
    BY <1>1 DEF WindowsOf
  <2>3. Cardinality(WindowsOf(key)[t1][t2]) * Cost <= T.capacity + (t2 - t1) * T.refill
    BY <1>1, <2>1 DEF BucketKeeps
  <2> QED BY <2>2, <2>3
<1> QED BY <1>2, <1>3

\* A limiter nobody asked for a token since it was made, and nobody spent at.
Unspent == \A c \in Calls : \A spent \in calls[c].spent : spent.limiter # limiter.before

LEMMA FreshKeeps ==
  ASSUME NEW l, Fresh(l), Unspent
  PROVE  BucketsKeep(l)
<1>1. \A t1, t2 \in Nat : LetBy(t1, t2) = {}
  BY DEF LetBy, Unspent
<1>2. \A t1, t2 \in Nat : Windows[t1][t2] = {}
  BY <1>1 DEF Windows
<1>3. ASSUME NEW T \in l.settings.global
      PROVE  \E b : l.global = {b} /\ BucketKeeps(b, T, Windows) /\ b.last <= clock
  <2>1. PICK now \in Nat : now <= clock /\ l.global = {Full(T, now)}
    BY <1>3 DEF Fresh
  <2>2. T \in Template
    BY <1>3 DEF Fresh, LimiterType
  <2>3. BucketKeeps(Full(T, now), T, Windows) /\ Full(T, now).last = now
    BY <1>2, <2>2, WindowsType, FullKeeps
  <2> QED BY <2>1, <2>3
<1> QED BY <1>3 DEF BucketsKeep, Fresh, Unspent

LEMMA FreshKeepsNext ==
  ASSUME NEW l
  PROVE  (Fresh(l) /\ Unspent => BucketsKeep(l))'
<1>1. Fresh(l) /\ Unspent => BucketsKeep(l)
  BY FreshKeeps
<1> QED BY <1>1, PTL

\* Time goes on, and some of those who spent are forgotten.
LEMMA QuietKeeps ==
  ASSUME RateInv, UNCHANGED <<limiter, owed>>, clock' \in Nat, clock <= clock',
         \A c \in Calls : calls'[c].spent \subseteq calls[c].spent
  PROVE  RateInv'
<1>1. \A t1, t2 \in Nat : LetBy(t1, t2)' \subseteq LetBy(t1, t2)
  BY DEF LetBy
<1>2. \A key : OfBucket(key)' \subseteq OfBucket(key)
  BY DEF OfBucket
<1>3. \A t1, t2 \in Nat : Windows'[t1][t2] \subseteq Windows[t1][t2]
  BY <1>1 DEF Windows
<1>4. \A key : \A t1, t2 \in Nat : WindowsOf(key)'[t1][t2] \subseteq WindowsOf(key)[t1][t2]
  <2>1. ASSUME NEW key, NEW t1 \in Nat, NEW t2 \in Nat
        PROVE  WindowsOf(key)'[t1][t2] \subseteq WindowsOf(key)[t1][t2]
    <3>1. WindowsOf(key)[t1][t2] = LetBy(t1, t2) \cap OfBucket(key)
      BY DEF WindowsOf
    <3>2. WindowsOf(key)'[t1][t2] = LetBy(t1, t2)' \cap OfBucket(key)'
      BY DEF WindowsOf
    <3> QED BY <1>1, <1>2, <3>1, <3>2
  <2> QED BY <2>1
<1>5. Windows' \in Stretches /\ \A key : WindowsOf(key)' \in Stretches
  BY DEF Windows, WindowsOf, LetBy, Stretches
<1>6. ASSUME NEW l \in limiter.on PROVE BucketsKeep(l)'
  <2>1. BucketsKeep(l)
    BY DEF RateInv
  <2>2. ASSUME NEW T \in l.settings.global
        PROVE  \E b : l.global = {b} /\ BucketKeeps(b, T, Windows') /\ b.last <= clock'
    <3>1. PICK b : l.global = {b} /\ BucketKeeps(b, T, Windows) /\ b.last <= clock
      BY <2>1, <2>2 DEF BucketsKeep
    <3>2. T \in Template /\ b.last \in Nat /\ clock \in Nat
      BY <2>1, <2>2, <3>1 DEF BucketsKeep, LimiterType, BucketKeeps, RateInv
    <3>3. BucketKeeps(b, T, Windows')
      BY <1>3, <1>5, <3>1, <3>2, WindowsType, FewerKeep
    <3> QED BY <3>1, <3>2, <3>3
  <2>3. ASSUME NEW T \in l.settings.each, NEW key \in DOMAIN l.buckets
        PROVE  BucketKeeps(l.buckets[key], T, WindowsOf(key)') /\ l.buckets[key].last <= clock'
    <3> DEFINE b == l.buckets[key]
    <3>1. BucketKeeps(b, T, WindowsOf(key)) /\ b.last <= clock
      BY <2>1, <2>3 DEF BucketsKeep
    <3>2. T \in Template /\ b.last \in Nat /\ clock \in Nat
      BY <2>1, <2>3, <3>1 DEF BucketsKeep, LimiterType, BucketKeeps, RateInv
    <3> HIDE DEF b
    <3>3. BucketKeeps(b, T, WindowsOf(key)')
      BY <1>4, <1>5, <3>1, <3>2, WindowsType, FewerKeep
    <3>4. b.last <= clock'
      BY <3>1, <3>2
    <3> QED BY <3>3, <3>4 DEF b
  <2>4. ASSUME NEW T \in l.settings.each, NEW c \in Calls, NEW spent \in calls'[c].spent,
               spent.limiter = limiter'.before
        PROVE  spent.bucket \in DOMAIN l.buckets
    BY <2>1, <2>4 DEF BucketsKeep
  <2> QED BY <2>1, <2>2, <2>3, <2>4 DEF BucketsKeep
<1>7. ASSUME NEW on \in owed, NEW l \in on PROVE Fresh(l)'
  <2>1. Fresh(l) /\ clock \in Nat
    BY DEF RateInv
  <2>2. \A now \in Nat : now <= clock => now <= clock'
    BY <2>1
  <2> QED BY <2>1, <2>2 DEF Fresh
<1> QED BY <1>6, <1>7 DEF RateInv

\* What a limiter does, s, when it is asked for a key's token.
SpendsAs(l, key, now, s) ==
    /\ LimiterType(s.limiter) /\ s.limiter.settings = l.settings
    /\ \A T \in l.settings.global : \A b : l.global = {b} =>
         /\ s.limiter.global = {TryAcquire(b, T, now).bucket}
         /\ s.shed = "none" => TryAcquire(b, T, now).had
    /\ \A T \in l.settings.each :
         LET tried == TryAcquire(BucketOf(l, T, key, now), T, now)
         IN \/ s.shed # "none" /\ s.limiter.buckets = l.buckets
            \/ /\ s.shed = "none" => tried.had
               /\ s.limiter.buckets = [k \in DOMAIN l.buckets \cup {key} |->
                                         IF k = key THEN tried.bucket ELSE l.buckets[k]]

LEMMA SpendShape ==
  ASSUME NEW l, LimiterType(l), NEW key, NEW now
  PROVE  SpendsAs(l, key, now, Spend(l, key, now))
<1> DEFINE globally == {TryAcquire(bucket, T, now) : bucket \in l.global, T \in l.settings.global}
           spared == \A tried \in globally : tried.had
           each == {TryAcquire(BucketOf(l, T, key, now), T, now) : T \in l.settings.each}
           allowed == \A tried \in each : tried.had
           charged == [l EXCEPT !.global = {tried.bucket : tried \in globally}]
           spending == [charged EXCEPT !.buckets =
                          [k \in DOMAIN l.buckets \cup {key} |->
                             IF k = key THEN (CHOOSE tried \in each : TRUE).bucket
                             ELSE l.buckets[k]]]
           s == Spend(l, key, now)
<1>1. s = IF ~spared THEN [shed |-> "global", limiter |-> charged]
          ELSE [shed |-> IF allowed THEN "none" ELSE "each",
                limiter |-> IF each = {} THEN charged ELSE spending]
  BY DEF Spend
<1>2. /\ DOMAIN charged = DOMAIN l /\ charged.settings = l.settings
      /\ charged.global = {tried.bucket : tried \in globally} /\ charged.buckets = l.buckets
  BY DEF LimiterType
<1>3. /\ DOMAIN spending = DOMAIN l /\ spending.settings = l.settings
      /\ spending.global = {tried.bucket : tried \in globally}
      /\ spending.buckets = [k \in DOMAIN l.buckets \cup {key} |->
                               IF k = key THEN (CHOOSE tried \in each : TRUE).bucket
                               ELSE l.buckets[k]]
  BY <1>2 DEF LimiterType
<1> HIDE DEF charged, spending, spared, allowed
<1>4. /\ s.limiter \in {charged, spending}
      /\ s.shed = "none" => spared /\ allowed
      /\ s.limiter = charged => s.shed # "none" \/ each = {} \/ charged = spending
  BY <1>1
<1> HIDE DEF s
<1>5. LimiterType(s.limiter) /\ s.limiter.settings = l.settings
  BY <1>2, <1>3, <1>4 DEF LimiterType
<1>6. ASSUME NEW T \in l.settings.global, NEW b, l.global = {b}
      PROVE  /\ s.limiter.global = {TryAcquire(b, T, now).bucket}
             /\ s.shed = "none" => TryAcquire(b, T, now).had
  <2>1. globally = {TryAcquire(b, T, now)}
    BY <1>6 DEF LimiterType
  <2> HIDE DEF globally
  <2> QED BY <1>2, <1>3, <1>4, <2>1 DEF spared
<1>7. ASSUME NEW T \in l.settings.each
      PROVE  LET tried == TryAcquire(BucketOf(l, T, key, now), T, now)
             IN \/ s.shed # "none" /\ s.limiter.buckets = l.buckets
                \/ /\ s.shed = "none" => tried.had
                   /\ s.limiter.buckets = [k \in DOMAIN l.buckets \cup {key} |->
                                             IF k = key THEN tried.bucket ELSE l.buckets[k]]
  <2> DEFINE mine == TryAcquire(BucketOf(l, T, key, now), T, now)
  <2> SUFFICES \/ s.shed # "none" /\ s.limiter.buckets = l.buckets
               \/ /\ s.shed = "none" => mine.had
                  /\ s.limiter.buckets = [k \in DOMAIN l.buckets \cup {key} |->
                                            IF k = key THEN mine.bucket ELSE l.buckets[k]]
    OBVIOUS
  <2>1. each = {mine}
    BY <1>7 DEF LimiterType
  <2> HIDE DEF mine, each
  <2>2. (CHOOSE t \in each : TRUE) = mine
    BY <2>1
  <2>3. CASE s.limiter = charged /\ s.shed # "none"
    BY <1>2, <2>3
  <2>4. CASE s.limiter = spending
    <3>1. s.shed = "none" => mine.had
      BY <1>4, <2>1 DEF allowed
    <3>2. s.limiter.buckets = [k \in DOMAIN l.buckets \cup {key} |->
                                 IF k = key THEN mine.bucket ELSE l.buckets[k]]
      BY <1>3, <2>2, <2>4
    <3> QED BY <3>1, <3>2
  <2>5. s.limiter = spending \/ (s.limiter = charged /\ s.shed # "none")
    BY <1>4, <2>1
  <2> QED BY <2>3, <2>4, <2>5
<1> QED BY <1>5, <1>6, <1>7 DEF s, SpendsAs

\* A bucket's windows after a request that may have spent one of its tokens.
LEMMA WindowsAfter ==
  ASSUME NEW key, NEW c \in Calls, clock \in Nat, UNCHANGED clock, limiter'.before = limiter.before,
         \A d \in Calls \ {c} : calls'[d].spent = calls[d].spent,
         \/ calls'[c].spent = calls[c].spent
         \/ calls'[c].spent = {[bucket |-> key, at |-> clock, limiter |-> limiter.before]}
  PROVE  /\ calls'[c].spent = calls[c].spent =>
              UNCHANGED Windows /\ \A k : WindowsOf(k)' = WindowsOf(k)
         /\ \A k : k # key => \A t1, t2 \in Nat : WindowsOf(k)'[t1][t2] \subseteq WindowsOf(k)[t1][t2]
         /\ \A t1, t2 \in Nat :
              /\ Windows'[t1][t2] \subseteq IF t1 <= clock /\ clock <= t2
                                            THEN Windows[t1][t2] \cup {c} ELSE Windows[t1][t2]
              /\ WindowsOf(key)'[t1][t2] \subseteq
                    IF t1 <= clock /\ clock <= t2
                    THEN WindowsOf(key)[t1][t2] \cup {c} ELSE WindowsOf(key)[t1][t2]
<1> DEFINE spent == [bucket |-> key, at |-> clock, limiter |-> limiter.before]
<1>0. spent.bucket = key /\ spent.at = clock
  OBVIOUS
<1>1. ASSUME calls'[c].spent = calls[c].spent
      PROVE  UNCHANGED Windows /\ \A k : WindowsOf(k)' = WindowsOf(k)
  <2>1. \A d \in Calls : calls'[d].spent = calls[d].spent
    BY <1>1
  <2>2. \A t1, t2 \in Nat : LetBy(t1, t2)' = LetBy(t1, t2)
    BY <2>1 DEF LetBy
  <2>3. \A k : OfBucket(k)' = OfBucket(k)
    BY <2>1 DEF OfBucket
  <2> QED BY <2>2, <2>3 DEF Windows, WindowsOf
<1>2. ASSUME NEW k, k # key PROVE OfBucket(k)' \subseteq OfBucket(k)
  BY <1>0, <1>2 DEF OfBucket
<1>3. ASSUME NEW d \in Calls \ {c}
      PROVE  /\ \A t1, t2 \in Nat : d \in LetBy(t1, t2)' <=> d \in LetBy(t1, t2)
             /\ \A k : d \in OfBucket(k)' <=> d \in OfBucket(k)
  BY DEF LetBy, OfBucket
<1>4. ASSUME NEW k, k # key, NEW t1 \in Nat, NEW t2 \in Nat
      PROVE  LetBy(t1, t2)' \cap OfBucket(k)' \subseteq LetBy(t1, t2) \cap OfBucket(k)
  <2>1. CASE calls'[c].spent = calls[c].spent
    <3>1. \A d \in Calls : calls'[d].spent = calls[d].spent
      BY <2>1
    <3> QED BY <3>1 DEF LetBy, OfBucket
  <2>2. CASE calls'[c].spent = {spent}
    <3>1. c \notin OfBucket(k)'
      BY <1>0, <1>4, <2>2 DEF OfBucket
    <3>2. OfBucket(k)' \subseteq Calls
      BY DEF OfBucket
    <3> QED BY <1>3, <3>1, <3>2
  <2> QED BY <2>1, <2>2
<1>5. ASSUME NEW t1 \in Nat, NEW t2 \in Nat
      PROVE  /\ LetBy(t1, t2)' \subseteq IF t1 <= clock /\ clock <= t2
                                         THEN LetBy(t1, t2) \cup {c} ELSE LetBy(t1, t2)
             /\ LetBy(t1, t2)' \cap OfBucket(key)' \subseteq
                   IF t1 <= clock /\ clock <= t2
                   THEN (LetBy(t1, t2) \cap OfBucket(key)) \cup {c}
                   ELSE LetBy(t1, t2) \cap OfBucket(key)
  <2>1. CASE calls'[c].spent = calls[c].spent
    <3>1. \A d \in Calls : calls'[d].spent = calls[d].spent
      BY <2>1
    <3>2. LetBy(t1, t2)' = LetBy(t1, t2) /\ OfBucket(key)' = OfBucket(key)
      BY <3>1 DEF LetBy, OfBucket
    <3> QED BY <3>2
  <2>2. CASE calls'[c].spent = {spent}
    <3>1. ~(t1 <= clock /\ clock <= t2) => c \notin LetBy(t1, t2)'
      BY <1>0, <2>2 DEF LetBy
    <3>2. LetBy(t1, t2)' \subseteq Calls
      BY DEF LetBy
    <3> QED BY <1>3, <3>1, <3>2
  <2> QED BY <2>1, <2>2
<1>6. ASSUME NEW t1 \in Nat, NEW t2 \in Nat
      PROVE  /\ Windows[t1][t2] = LetBy(t1, t2) /\ Windows'[t1][t2] = LetBy(t1, t2)'
             /\ \A k : /\ WindowsOf(k)[t1][t2] = LetBy(t1, t2) \cap OfBucket(k)
                       /\ WindowsOf(k)'[t1][t2] = LetBy(t1, t2)' \cap OfBucket(k)'
  BY DEF Windows, WindowsOf
<1>7. ASSUME NEW k, k # key, NEW t1 \in Nat, NEW t2 \in Nat
      PROVE  WindowsOf(k)'[t1][t2] \subseteq WindowsOf(k)[t1][t2]
  BY <1>4, <1>6, <1>7
<1>8. ASSUME NEW t1 \in Nat, NEW t2 \in Nat
      PROVE  /\ Windows'[t1][t2] \subseteq IF t1 <= clock /\ clock <= t2
                                           THEN Windows[t1][t2] \cup {c} ELSE Windows[t1][t2]
             /\ WindowsOf(key)'[t1][t2] \subseteq
                   IF t1 <= clock /\ clock <= t2
                   THEN WindowsOf(key)[t1][t2] \cup {c} ELSE WindowsOf(key)[t1][t2]
  BY <1>5, <1>6
<1> HIDE DEF spent
<1> QED BY <1>1, <1>7, <1>8

\* A limiter's buckets keep to their templates when a request is judged by it.
LEMMA SpendingKeeps ==
  ASSUME RateInv, NEW l, BucketsKeep(l), NEW key, NEW c \in Calls,
         NEW s, s = Spend(l, key, clock), UNCHANGED clock, limiter'.before = limiter.before,
         \A d \in Calls \ {c} : calls'[d].spent = calls[d].spent,
         \/ calls'[c].spent = calls[c].spent
         \/ /\ calls'[c].spent = {[bucket |-> key, at |-> clock, limiter |-> limiter.before]}
            /\ s.shed = "none"
  PROVE  BucketsKeep(s.limiter)'
<1> DEFINE m == s.limiter
<1>1. LimiterType(l) /\ clock \in Nat
  BY DEF RateInv, BucketsKeep
<1>2. /\ LimiterType(m) /\ m.settings = l.settings
      /\ \A T \in l.settings.global : \A b : l.global = {b} =>
           /\ m.global = {TryAcquire(b, T, clock).bucket}
           /\ s.shed = "none" => TryAcquire(b, T, clock).had
      /\ \A T \in l.settings.each :
           LET tried == TryAcquire(BucketOf(l, T, key, clock), T, clock)
           IN \/ s.shed # "none" /\ m.buckets = l.buckets
              \/ /\ s.shed = "none" => tried.had
                 /\ m.buckets = [k \in DOMAIN l.buckets \cup {key} |->
                                   IF k = key THEN tried.bucket ELSE l.buckets[k]]
  <2>1. SpendsAs(l, key, clock, s)
    BY <1>1, SpendShape
  <2> QED BY <2>1 DEF SpendsAs
<1> HIDE DEF m
<1>3. /\ calls'[c].spent = calls[c].spent =>
              UNCHANGED Windows /\ \A k : WindowsOf(k)' = WindowsOf(k)
      /\ \A k : k # key => \A t1, t2 \in Nat : WindowsOf(k)'[t1][t2] \subseteq WindowsOf(k)[t1][t2]
      /\ \A t1, t2 \in Nat :
           /\ Windows'[t1][t2] \subseteq IF t1 <= clock /\ clock <= t2
                                         THEN Windows[t1][t2] \cup {c} ELSE Windows[t1][t2]
           /\ WindowsOf(key)'[t1][t2] \subseteq
                 IF t1 <= clock /\ clock <= t2
                 THEN WindowsOf(key)[t1][t2] \cup {c} ELSE WindowsOf(key)[t1][t2]
  BY <1>1, WindowsAfter
<1>4. Windows' \in Stretches /\ \A k : WindowsOf(k)' \in Stretches
  BY DEF Windows, WindowsOf, LetBy, Stretches
<1>5. s.shed = "none" \/ calls'[c].spent = calls[c].spent
  OBVIOUS
<1>6. ASSUME NEW T \in m.settings.global
      PROVE  \E b : m.global = {b} /\ BucketKeeps(b, T, Windows') /\ b.last <= clock
  <2>1. T \in l.settings.global /\ T \in Template
    BY <1>2, <1>6 DEF LimiterType
  <2>2. PICK b : l.global = {b} /\ BucketKeeps(b, T, Windows) /\ b.last <= clock
    BY <2>1 DEF BucketsKeep
  <2> DEFINE had == TryAcquire(b, T, clock).had
             after == TryAcquire(b, T, clock).bucket
  <2>3. m.global = {after} /\ (s.shed = "none" => had)
    BY <1>2, <2>1, <2>2
  <2>4. ASSUME NEW t1 \in Nat, NEW t2 \in Nat
        PROVE  Windows'[t1][t2] \subseteq IF had /\ t1 <= clock /\ clock <= t2
                                          THEN Windows[t1][t2] \cup {c} ELSE Windows[t1][t2]
    <3> HIDE DEF had
    <3>1. CASE had
      BY <1>3, <3>1
    <3>2. CASE ~had
      BY <1>3, <1>5, <2>3, <3>2
    <3> QED BY <3>1, <3>2
  <2>5. BucketKeeps(after, T, Windows') /\ after.last = clock
    BY <1>1, <1>4, <2>1, <2>2, <2>4, WindowsType, AcquireKeeps
  <2> HIDE DEF after
  <2> QED BY <1>1, <2>3, <2>5
<1>7. ASSUME NEW T \in m.settings.each, NEW k \in DOMAIN m.buckets
      PROVE  BucketKeeps(m.buckets[k], T, WindowsOf(k)') /\ m.buckets[k].last <= clock
  <2>1. T \in l.settings.each /\ T \in Template
    BY <1>2, <1>7 DEF LimiterType
  <2> DEFINE b == BucketOf(l, T, key, clock)
             had == TryAcquire(b, T, clock).had
             after == TryAcquire(b, T, clock).bucket
  <2>2. \/ s.shed # "none" /\ m.buckets = l.buckets
        \/ /\ s.shed = "none" => had
           /\ m.buckets = [i \in DOMAIN l.buckets \cup {key} |->
                             IF i = key THEN after ELSE l.buckets[i]]
    BY <1>2, <2>1
  <2>3. \A i \in DOMAIN l.buckets : BucketKeeps(l.buckets[i], T, WindowsOf(i))
                                    /\ l.buckets[i].last <= clock
    BY <2>1 DEF BucketsKeep
  <2>4. BucketKeeps(b, T, WindowsOf(key)) /\ b.last <= clock
    <3>1. CASE key \in DOMAIN l.buckets
      BY <2>3, <3>1 DEF BucketOf
    <3>2. CASE key \notin DOMAIN l.buckets
      <4>1. b = Full(T, clock)
        BY <3>2 DEF BucketOf
      <4>2. \A t1, t2 \in Nat : WindowsOf(key)[t1][t2] = {}
        <5>1. ASSUME NEW t1 \in Nat, NEW t2 \in Nat, NEW d \in LetBy(t1, t2) \cap OfBucket(key)
              PROVE  FALSE
          <6>1. d \in Calls /\ \A spent \in calls[d].spent :
                  spent.limiter = limiter.before => spent.bucket \in DOMAIN l.buckets
            BY <2>1, <5>1 DEF BucketsKeep, LetBy
          <6>2. PICK spent \in calls[d].spent : spent.limiter = limiter.before
            BY <5>1 DEF LetBy
          <6>3. PICK other \in calls[d].spent : other.bucket = key
            BY <5>1 DEF OfBucket
          <6> QED BY <3>2, <6>1, <6>2, <6>3 DEF RateInv
        <5> QED BY <5>1 DEF WindowsOf
      <4> HIDE DEF b
      <4>3. BucketKeeps(Full(T, clock), T, WindowsOf(key)) /\ Full(T, clock).last = clock
        <5>1. WindowsOf(key) \in Stretches
          BY WindowsType
        <5> DEFINE windows == WindowsOf(key)
        <5> HIDE DEF windows
        <5>2. windows \in Stretches /\ \A t1, t2 \in Nat : windows[t1][t2] = {}
          BY <4>2, <5>1 DEF windows
        <5>3. BucketKeeps(Full(T, clock), T, windows) /\ Full(T, clock).last = clock
          BY <1>1, <2>1, <5>2, FullKeeps
        <5> QED BY <5>3 DEF windows
      <4> QED BY <1>1, <4>1, <4>3
    <3> QED BY <3>1, <3>2
  <2> HIDE DEF b
  <2>5. ASSUME had \/ calls'[c].spent = calls[c].spent
        PROVE  BucketKeeps(after, T, WindowsOf(key)') /\ after.last = clock
    <3>1. ASSUME NEW t1 \in Nat, NEW t2 \in Nat
          PROVE  WindowsOf(key)'[t1][t2] \subseteq
                    IF had /\ t1 <= clock /\ clock <= t2
                    THEN WindowsOf(key)[t1][t2] \cup {c} ELSE WindowsOf(key)[t1][t2]
      <4> HIDE DEF had
      <4>1. CASE had
        BY <1>3, <4>1
      <4>2. CASE ~had
        BY <1>3, <2>5, <4>2
      <4> QED BY <4>1, <4>2
    <3> QED BY <1>1, <1>4, <2>1, <2>4, <3>1, WindowsType, AcquireKeeps
  <2>6. CASE s.shed # "none" /\ m.buckets = l.buckets
    BY <1>3, <1>5, <1>7, <2>3, <2>6
  <2>7. CASE /\ s.shed = "none" => had
             /\ m.buckets = [i \in DOMAIN l.buckets \cup {key} |->
                               IF i = key THEN after ELSE l.buckets[i]]
    <3>1. BucketKeeps(after, T, WindowsOf(key)') /\ after.last = clock
      BY <1>5, <2>5, <2>7
    <3> HIDE DEF after
    <3>2. CASE k = key
      BY <1>1, <2>7, <3>1, <3>2
    <3>3. CASE k # key
      <4> DEFINE kept == l.buckets[k]
      <4>1. k \in DOMAIN l.buckets /\ m.buckets[k] = kept
        BY <1>7, <2>7, <3>3
      <4>2. BucketKeeps(kept, T, WindowsOf(k)) /\ kept.last <= clock
        BY <2>3, <4>1
      <4> HIDE DEF kept
      <4>3. BucketKeeps(kept, T, WindowsOf(k)')
        BY <1>3, <1>4, <2>1, <3>3, <4>2, WindowsType, FewerKeep
      <4> QED BY <4>1, <4>2, <4>3
    <3> QED BY <3>2, <3>3
  <2> QED BY <2>2, <2>6, <2>7
<1>8. ASSUME NEW T \in m.settings.each, NEW d \in Calls, NEW spent \in calls'[d].spent,
             spent.limiter = limiter.before
      PROVE  spent.bucket \in DOMAIN m.buckets
  <2>1. T \in l.settings.each
    BY <1>2, <1>8
  <2>2. /\ DOMAIN l.buckets \subseteq DOMAIN m.buckets
        /\ s.shed = "none" => key \in DOMAIN m.buckets
    BY <1>2, <2>1
  <2>3. CASE spent \in calls[d].spent
    BY <1>8, <2>1, <2>2, <2>3 DEF BucketsKeep
  <2>4. CASE spent \notin calls[d].spent
    <3>1. d = c /\ s.shed = "none"
          /\ spent \in {[bucket |-> key, at |-> clock, limiter |-> limiter.before]}
      BY <1>8, <2>4
    <3> QED BY <2>2, <3>1
  <2> QED BY <2>3, <2>4
<1>9. BucketsKeep(m)'
  BY <1>2, <1>6, <1>7, <1>8 DEF BucketsKeep
<1> QED BY <1>9 DEF m

\* A request is let by every limiter in place, and spends, or spends nothing.
LEMMA DispatchSpends ==
  ASSUME CallsInv, NEW c \in Calls, Dispatch(c)
  PROVE  LET key == Bucket(calls[c])
         IN \E r : /\ Becomes(c, r)
                   /\ \/ r.spent = calls[c].spent
                      \/ /\ r.spent = {[bucket |-> key, at |-> clock, limiter |-> limiter.before]}
                         /\ \A l \in limiter.on : Spend(l, key, clock).shed = "none"
<1> DEFINE call == calls[c]
           tried == {Spend(l, Bucket(call), clock) : l \in limiter.on}
           shed == \E t \in tried : t.shed # "none"
           down == call.gov.slots[call.server].conn = {}
           spent == [bucket |-> Bucket(call), at |-> clock, limiter |-> limiter.before]
           late == [call EXCEPT !.stage = "recording", !.decision = "rate-limited"]
           lost == [call EXCEPT !.stage = "recording", !.decision = "upstream-down", !.spent = {spent}]
           asks == [call EXCEPT !.stage = "asked", !.spent = {spent},
                                !.sent = {[server |-> call.server, target |-> call.target,
                                           args |-> call.args]}]
<1>0. Fields \subseteq DOMAIN calls[c]
  BY DEF CallsInv, GoodCall
<1>1. Becomes(c, CASE shed -> late [] ~shed /\ down -> lost [] ~shed /\ ~down -> asks)
  BY DEF Dispatch
<1>2. late.spent = call.spent
  BY <1>0 DEF Fields
<1>3. lost.spent = {spent} /\ asks.spent = {spent}
  BY <1>0 DEF Fields
<1>4. ~shed => \A l \in limiter.on : Spend(l, Bucket(call), clock).shed = "none"
  OBVIOUS
<1> HIDE DEF late, lost, asks, shed, down
<1>5. CASE shed
  BY <1>1, <1>2, <1>5
<1>6. CASE ~shed /\ down
  BY <1>1, <1>3, <1>4, <1>6
<1>7. CASE ~shed /\ ~down
  BY <1>1, <1>3, <1>4, <1>7
<1> QED BY <1>5, <1>6, <1>7

LEMMA DispatchRates ==
  ASSUME CallsInv, RateInv, NEW c \in Calls, Dispatch(c)
  PROVE  RateInv'
<1> DEFINE key == Bucket(calls[c])
<1>1. PICK r : /\ Becomes(c, r)
               /\ \/ r.spent = calls[c].spent
                  \/ /\ r.spent = {[bucket |-> key, at |-> clock, limiter |-> limiter.before]}
                     /\ \A l \in limiter.on : Spend(l, key, clock).shed = "none"
  BY DispatchSpends, SMTT(30)
<1>2. /\ limiter' = [limiter EXCEPT !.on = {t.limiter : t \in {Spend(l, key, clock) : l \in limiter.on}}]
      /\ UNCHANGED <<owed, clock>>
  BY DEF Dispatch
<1> HIDE DEF key
<1>3. /\ DOMAIN limiter' = {"on", "before"} /\ limiter'.before = limiter.before
      /\ \A m \in limiter'.on : \E l \in limiter.on : m = Spend(l, key, clock).limiter
  BY <1>2 DEF RateInv
<1>4. \A d \in Calls : calls'[d] = IF d = c THEN r ELSE calls[d]
  BY <1>1 DEF Becomes, CallsInv
<1>5. ASSUME NEW m \in limiter'.on PROVE BucketsKeep(m)'
  <2>1. PICK l \in limiter.on : m = Spend(l, key, clock).limiter
    BY <1>3, <1>5
  <2>2. BucketsKeep(l)
    BY DEF RateInv
  <2>3. \A d \in Calls \ {c} : calls'[d].spent = calls[d].spent
    BY <1>4
  <2> DEFINE s == Spend(l, key, clock)
  <2>4. \/ calls'[c].spent = calls[c].spent
        \/ /\ calls'[c].spent = {[bucket |-> key, at |-> clock, limiter |-> limiter.before]}
           /\ s.shed = "none"
    BY <1>1, <1>4
  <2>5. s = Spend(l, key, clock) /\ m = s.limiter
    BY <2>1
  <2> HIDE DEF s
  <2>6. ASSUME NEW t, t = s PROVE BucketsKeep(t.limiter)'
    BY <1>2, <1>3, <2>2, <2>3, <2>4, <2>5, <2>6, SpendingKeeps
  <2> QED BY <2>5, <2>6
<1>6. ASSUME NEW d \in Calls, NEW spent \in calls'[d].spent
      PROVE  /\ spent.limiter \in Nat /\ spent.limiter <= limiter'.before
             /\ \A other \in calls'[d].spent : other = spent
  <2>1. CASE calls'[d].spent = calls[d].spent
    BY <1>3, <1>6, <2>1 DEF RateInv
  <2>2. CASE calls'[d].spent # calls[d].spent
    <3>1. calls'[d].spent = {[bucket |-> key, at |-> clock, limiter |-> limiter.before]}
      BY <1>1, <1>4, <2>2
    <3>2. spent.limiter = limiter.before /\ limiter.before \in Nat
      BY <1>6, <3>1 DEF RateInv
    <3> QED BY <1>3, <1>6, <3>1, <3>2
  <2> QED BY <2>1, <2>2
<1>7. ASSUME NEW on \in owed', NEW l \in on PROVE Fresh(l)'
  BY <1>2, <1>7 DEF RateInv, Fresh
<1> QED BY <1>2, <1>3, <1>5, <1>6, <1>7 DEF RateInv

\* Of the steps that end in a request's hands, only one spends.
LEMMA CallStepRates ==
  ASSUME CallsInv, RateInv, NEW c \in Calls, CallStep(c)
  PROVE  RateInv'
<1>1. CASE Dispatch(c)
  BY <1>1, DispatchRates
<1>2. CASE Record(c)
  <2> DEFINE r == [Idle EXCEPT !.stage = "done", !.spent = calls[c].spent,
                               !.sent = calls[c].sent, !.decision = calls[c].decision]
  <2>1. r.spent = calls[c].spent
    BY DEF Idle
  <2>2. Becomes(c, r) /\ UNCHANGED <<limiter, owed, clock>>
    BY <1>2 DEF Record, shared
  <2> HIDE DEF r
  <2>3. \A d \in Calls : calls'[d].spent \subseteq calls[d].spent
    BY <2>1, <2>2 DEF Becomes, CallsInv
  <2> QED BY <2>2, <2>3, QuietKeeps DEF RateInv
<1>3. CASE ~Record(c) /\ ~Dispatch(c)
  <2>1. PICK r : Goes(c, r)
    BY <1>3, Progress
  <2>2. \A d \in Calls : calls'[d].spent \subseteq calls[d].spent
    BY <2>1 DEF Goes, Becomes, CallsInv
  <2> QED BY <2>1, <2>2, QuietKeeps DEF Goes, RateInv
<1> QED BY <1>1, <1>2, <1>3

\* The limiter a configuration asks for.
LEMMA NewIsFresh ==
  ASSUME NEW p \in Configs, NEW now \in Nat, NEW l \in NewLimiter(p.rates, now)
  PROVE  /\ LimiterType(l) /\ DOMAIN l.buckets = {}
         /\ \A T \in l.settings.global : l.global = {Full(T, now)}
<1>1. l = [settings |-> p.rates, buckets |-> [key \in {} |-> 0],
           global |-> {Full(T, now) : T \in p.rates.global}]
  BY DEF NewLimiter
<1>2. /\ DOMAIN l = {"settings", "buckets", "global"} /\ l.settings = p.rates
      /\ DOMAIN l.buckets = {} /\ l.global = {Full(T, now) : T \in p.rates.global}
  BY <1>1
<1>3. \A templates \in {p.rates.each, p.rates.global} :
         templates \subseteq Template /\ \A t, u \in templates : t = u
  BY RatesAssumption DEF Template
<1>4. ASSUME NEW T \in p.rates.global PROVE {Full(t, now) : t \in p.rates.global} = {Full(T, now)}
  BY <1>3
<1> QED BY <1>2, <1>3, <1>4 DEF LimiterType

LEMMA NextRates ==
  ASSUME CallsInv, RateInv, [Next]_vars
  PROVE  RateInv'
<1>1. ASSUME UNCHANGED <<calls, limiter, owed>>, clock' \in Nat, clock <= clock' PROVE RateInv'
  BY <1>1, QuietKeeps
<1>2. clock \in Nat /\ clock + 1 \in Nat /\ clock <= clock + 1 /\ clock <= clock
  BY DEF RateInv
<1>3. ASSUME NEW c \in Calls, CallStep(c) PROVE RateInv'
  BY <1>3, CallStepRates
<1>4. ASSUME NEW s \in DOMAIN Verdicts, Opened(s) PROVE RateInv'
  BY <1>1, <1>2, <1>4 DEF Opened
<1>5. CASE Tick \/ UNCHANGED vars
  BY <1>1, <1>2, <1>5 DEF Tick, vars, shared
<1>6. CASE Reload
  <2>1. PICK p \in Configs : owed' = IF p.rates = governance.cfg.rates THEN {}
                                     ELSE {NewLimiter(p.rates, clock)}
    BY <1>6 DEF Reload
  <2>2. UNCHANGED <<limiter, calls, clock>>
    BY <1>6 DEF Reload
  <2>3. ASSUME NEW on \in owed', NEW l \in on PROVE Fresh(l)'
    <3>1. l \in NewLimiter(p.rates, clock)
      BY <2>1, <2>3
    <3>2. /\ LimiterType(l) /\ DOMAIN l.buckets = {}
          /\ \A T \in l.settings.global : l.global = {Full(T, clock)}
      BY <1>2, <3>1, NewIsFresh
    <3> QED BY <1>2, <2>2, <3>2 DEF Fresh
  <2>4. \A l \in limiter.on : BucketsKeep(l)'
    <3>1. UNCHANGED Windows /\ \A key : WindowsOf(key)' = WindowsOf(key)
      BY <2>2 DEF Windows, WindowsOf, LetBy, OfBucket
    <3> QED BY <2>2, <3>1 DEF RateInv, BucketsKeep
  <2> QED BY <2>2, <2>3, <2>4 DEF RateInv
<1>7. CASE StoreLimiter
  <2>1. PICK on \in owed : limiter' = [on |-> on, before |-> limiter.before + 1]
    BY <1>7 DEF StoreLimiter
  <2>2. owed' = {} /\ UNCHANGED <<calls, clock>>
    BY <1>7 DEF StoreLimiter
  <2>3. /\ limiter'.on = on /\ limiter'.before = limiter.before + 1
        /\ DOMAIN limiter' = {"on", "before"} /\ limiter.before \in Nat
    BY <2>1 DEF RateInv
  <2>4. ASSUME NEW c \in Calls, NEW spent \in calls'[c].spent
        PROVE  /\ spent.limiter \in Nat /\ spent.limiter <= limiter'.before
               /\ spent.limiter # limiter'.before
               /\ \A other \in calls'[c].spent : other = spent
    BY <2>2, <2>3, <2>4 DEF RateInv
  <2>5. ASSUME NEW l \in limiter'.on PROVE BucketsKeep(l)'
    <3>1. Fresh(l)'
      BY <2>2, <2>3, <2>5 DEF RateInv, Fresh
    <3> QED BY <2>4, <3>1, FreshKeepsNext DEF Unspent
  <2> QED BY <2>2, <2>3, <2>4, <2>5 DEF RateInv
<1> QED BY <1>3, <1>4, <1>5, <1>6, <1>7 DEF Next

LEMMA InitRates == Init => RateInv
<1> SUFFICES ASSUME Init PROVE RateInv
  OBVIOUS
<1>1. PICK p \in Configs : limiter = [on |-> NewLimiter(p.rates, 0), before |-> 0]
  BY DEF Init
<1>2. clock = 0 /\ owed = {} /\ calls = [c \in Calls |-> Idle]
  BY DEF Init
<1>3. limiter.on = NewLimiter(p.rates, 0) /\ limiter.before = 0 /\ DOMAIN limiter = {"on", "before"}
  BY <1>1
<1>4. \A c \in Calls : calls[c].spent = {}
  BY <1>2 DEF Idle
<1>5. ASSUME NEW l \in limiter.on PROVE BucketsKeep(l)
  <2>1. Fresh(l)
    BY <1>2, <1>3, <1>5, NewIsFresh DEF Fresh
  <2> QED BY <1>4, <2>1, FreshKeeps DEF Unspent
<1> QED BY <1>2, <1>3, <1>4, <1>5 DEF RateInv

\* In no stretch of time does a limiter let by more requests than its bucket of
\* them holds full and gains meanwhile: of any one tool or method of a server, and
\* of all of them, while it is in place, whatever is reloaded meanwhile and though
\* the server was down (Limiter::check under its lock, Bucket::try_acquire).
THEOREM RatesAreKept == Spec => []RateHolds
<1>1. Init => RateInv
  BY InitRates
<1>2. CallsInv /\ RateInv /\ [Next]_vars => RateInv'
  BY NextRates
<1>3. RateInv => RateHolds
  BY RateInvMeans
<1> QED BY <1>1, <1>2, <1>3, CallsInvHolds, PTL DEF Spec

=============================================================================
