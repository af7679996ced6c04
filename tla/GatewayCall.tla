----------------------------- MODULE GatewayCall ------------------------------
(***************************************************************************)
(* A request's way through the gateway (mcpdef/src/gateway.rs and          *)
(* gateway/*.rs), from the HTTP listener that takes it to the audit record *)
(* of what became of it, beside reloads, upstreams that open and verdicts  *)
(* on their tools that change, other requests, and clients that leave.     *)
(*                                                                         *)
(* A request is judged against one version of the governance, the one it   *)
(* loads when it is handed to the gateway, and keeps it to its end.  The   *)
(* rate limiter and the memory of which server showed what are shared, and *)
(* read as they are.  Each step below is what runs between two awaits, or  *)
(* under one lock.  The ledger itself is AuditLedger, a connection         *)
(* UpstreamMux, and the decisions GatewayPolicy.                           *)
(***************************************************************************)
EXTENDS GatewayPolicy, SequencesExt

CONSTANTS
    Calls, Tools,
    Requests,    \* what each of the calls may ask
    Answers,     \* what an upstream may answer: [content, interim, links]
    Configs,     \* the configurations the gateway may be given
    Starts,      \* how its servers may stand when it starts
    Verdicts,    \* how a connection of each server may be judged: an opened slot
    Holdings,    \* what each server lists of resources, prompts and templates
    Normal,      \* the normal form of each URI a client or a server writes
    UriRefused, Unnamed, Nothing,
    MaxInflight, \* HttpConfig::max_inflight
    Elsewhere,   \* how many permits requests not modelled may hold throughout
    RoutesKept, RouteTTL,
    Cost,        \* the units in a token of the rate limiter
    MaxChanges,  \* how often the governance may change
    MaxEvents    \* how many ticks, clients that leave and failed appends there may be

ASSUME GatewayAssumption ==
    /\ IsFiniteSet(Calls)
    /\ {MaxInflight, RoutesKept, RouteTTL, Cost} \subseteq Nat \ {0}
    /\ {MaxChanges, MaxEvents} \subseteq Nat
    /\ Elsewhere \subseteq 0..MaxInflight

\* Servers are known and list known tools, and a server's tools are listed by
\* names of their own: the same prefix, or none, goes before each.
ASSUME ServersAssumption ==
    /\ \A p \in Configs : p.order \in Seq(DOMAIN Verdicts)
    /\ \A slots \in Starts : \A s \in DOMAIN slots : ToolsOf(slots[s]) \subseteq Tools
    /\ \A s \in DOMAIN Verdicts : \A slot \in Verdicts[s] : ToolsOf(slot) \subseteq Tools
    /\ \A p \in Configs : \A s \in Range(p.order) : \A t, u \in Tools :
          ListedName(p, s, t) = ListedName(p, s, u) => t = u

\* What a prompt's get and a completion may be about.
ASSUME RequestsAssumption ==
    \A c \in Calls : \A req \in Requests[c] :
       /\ req.method = "prompts/get" => req.kind = "prompt"
       /\ req.method = "completion/complete" => req.kind \in {"prompt", "template"}

\* An answer that is not an error is a result, which inspect finds clean or not,
\* before and after a transform.  A rule's name is not the word for no denial.
ASSUME RulesAssumption ==
    /\ \A answer \in Answers : answer.content \in Contents \cup {"error"}
    /\ \A p \in Configs :
          /\ p.rules \in Seq(Range(p.rules))
          /\ \A rule \in Range(p.rules) :
                /\ rule.name # Allow
                /\ \A edit \in rule.results : edit \in [Contents -> Contents \cup {CannotApply}]

\* Of each sort of bucket a limiter has at most one, of tokens it can count.
ASSUME RatesAssumption ==
    \A p \in Configs : \A templates \in {p.rates.each, p.rates.global} :
       /\ templates \subseteq [capacity : Nat, refill : Nat]
       /\ \A t, u \in templates : t = u

VARIABLES
    governance, \* the version in force: [cfg, slots, routes]
    changes,    \* how often it changed
    owed,       \* the limiter a reload has still to put in place, if any
    limiter,    \* Inner::rate_limiter, and how many there were before it
    memory,     \* Routes: which server showed a name of each kind
    inflight,   \* the permits taken
    elsewhere,  \* of them, by requests not modelled
    calls,      \* each request
    records,    \* what the ledger has of each request
    losses,     \* how many appends failed
    leavings,   \* how many clients left
    clock

shared == <<governance, changes, owed, limiter, memory, elsewhere>>
vars == <<shared, inflight, calls, records, losses, leavings, clock>>

-----------------------------------------------------------------------------
(***************************************************************************)
(* The token buckets of crates/mcpdef-ratelimit.  Tokens are counted in    *)
(* units, Cost of them to a token, and a bucket of the template            *)
(* [capacity, refill] gains refill units in a unit of time.  Of the        *)
(* limiter's optional parts, each is a set of at most one element.         *)
(***************************************************************************)
Full(template, now) == [tokens |-> template.capacity, last |-> now]

\* Mutant: an idle bucket fills past its capacity.
FilledOver(bucket, template, now) ==
  bucket.tokens + (IF now > bucket.last THEN now - bucket.last ELSE 0) * template.refill

Filled(bucket, template, now) ==
  LET elapsed == IF now > bucket.last THEN now - bucket.last ELSE 0
      filled == bucket.tokens + elapsed * template.refill
  IN IF filled > template.capacity THEN template.capacity ELSE filled

\* Whether a token was there to spend, and the bucket after.
TryAcquire(bucket, template, now) ==
  LET filled == Filled(bucket, template, now)
      had == filled >= Cost
  IN [had |-> had,
      bucket |-> [tokens |-> IF had THEN filled - Cost ELSE filled,
                  last |-> now]]

\* The lim of the settings [each, global] as of now, if either is set.
NewLimiter(settings, now) ==
  IF settings.each = {} /\ settings.global = {} THEN {}
  ELSE {[settings |-> settings,
         buckets |-> [key \in {} |-> 0],
         global |-> {Full(template, now) : template \in settings.global}]}

\* The lim's bucket of a key, made full when first asked for.
BucketOf(lim, template, key, now) ==
  IF key \in DOMAIN lim.buckets THEN lim.buckets[key]
  ELSE Full(template, now)

\* Spend a token of the global bucket, then one of the key's: which bucket
\* shed the request, "none" when neither did, and the lim after.
Spend(lim, key, now) ==
  LET globally == {TryAcquire(bucket, template, now) :
                     bucket \in lim.global, template \in lim.settings.global}
      spared == \A tried \in globally : tried.had
      each == {TryAcquire(BucketOf(lim, template, key, now), template, now) :
                 template \in lim.settings.each}
      allowed == \A tried \in each : tried.had
      charged == [lim EXCEPT !.global = {tried.bucket : tried \in globally}]
  IN IF ~spared THEN [shed |-> "global", limiter |-> charged]
     ELSE [shed |-> IF allowed THEN "none" ELSE "each",
           limiter |->
             IF each = {} THEN charged
             ELSE [charged EXCEPT !.buckets =
                     [k \in DOMAIN lim.buckets \cup {key} |->
                        IF k = key THEN (CHOOSE tried \in each : TRUE).bucket
                        ELSE lim.buckets[k]]]]

-----------------------------------------------------------------------------
Unopened == [conn |-> {}, drifted |-> {}, poisoned |-> {}, refused |-> {}]

Govern(p, slots) == [cfg |-> p, slots |-> slots, routes |-> Reroute(p, slots)]

Forgetful == [servers |-> [name \in {} |-> 0], order |-> <<>>]

\* A request not yet made.
Idle == [stage |-> "new", req |-> Nothing, here |-> TRUE, gov |-> Nothing,
         server |-> Nothing, target |-> Nothing, args |-> Nothing,
         spent |-> {}, sent |-> {},
         decision |-> Allow, note |-> Nothing, got |-> Nothing]

\* The gateway starts with some of its upstreams open, and some down.
Init ==
    /\ \E p \in Configs :
          /\ \E slots \in Starts : DOMAIN slots = Range(p.order) /\ governance = Govern(p, slots)
          /\ limiter = [on |-> NewLimiter(p.rates, 0), before |-> 0]
    /\ changes = 0
    /\ owed = {}
    /\ memory = [sort \in {"resource", "link", "prompt", "template"} |-> Forgetful]
    /\ elsewhere \in Elsewhere
    /\ inflight = elsewhere
    /\ calls = [c \in Calls |-> Idle]
    /\ records = [c \in Calls |-> <<>>]
    /\ losses = 0
    /\ leavings = 0
    /\ clock = 0

At(c, stage) == calls[c].stage = stage
Becomes(c, call) == calls' = [calls EXCEPT ![c] = call]

Eventful == clock + losses + leavings < MaxEvents

\* In the gateway's hands.
Running(c) == calls[c].stage \in {"arrived", "passed", "asked", "recording"}

-----------------------------------------------------------------------------
(***************************************************************************)
(* The listener: handle_post.                                              *)
(***************************************************************************)

\* A permit at once, or none: "Over the cap -> 503".
Enter(c) ==
    /\ At(c, "new")
    /\ \E req \in Requests[c] :
          IF inflight < MaxInflight
          THEN /\ inflight' = inflight + 1
               /\ Becomes(c, [Idle EXCEPT !.stage = "entered", !.req = req])
          ELSE /\ Becomes(c, [Idle EXCEPT !.stage = "gone"])
               /\ UNCHANGED inflight
    /\ UNCHANGED <<shared, records, losses, leavings, clock>>

\* The certificate or the token does not check out, or the message does not
\* read; or the client leaves meanwhile, and the handler is dropped.
Refuse(c) ==
    /\ At(c, "entered")
    /\ inflight' = inflight - 1
    /\ Becomes(c, [Idle EXCEPT !.stage = "gone"])
    /\ UNCHANGED <<shared, records, losses, leavings, clock>>

\* Mutant: the client leaves and its permit comes back, though the call goes on.
LeaveWithPermit(c) ==
    /\ Running(c) /\ calls[c].here
    /\ Eventful
    /\ leavings' = leavings + 1
    /\ inflight' = inflight - 1
    /\ Becomes(c, [calls[c] EXCEPT !.here = FALSE])
    /\ UNCHANGED <<shared, records, losses, clock>>

\* Mutant: a client that leaves takes its call with it.
LeaveCancelling(c) ==
    /\ Running(c) /\ calls[c].here
    /\ Eventful
    /\ leavings' = leavings + 1
    /\ inflight' = inflight - 1
    /\ Becomes(c, [calls[c] EXCEPT !.here = FALSE, !.stage = "done"])
    /\ UNCHANGED <<shared, records, losses, clock>>

\* RunToEnd: once the call is handed over, it goes on without its client.
Leave(c) ==
    /\ Running(c) /\ calls[c].here
    /\ Eventful
    /\ leavings' = leavings + 1
    /\ Becomes(c, [calls[c] EXCEPT !.here = FALSE])
    /\ UNCHANGED <<shared, inflight, records, losses, clock>>

\* handle_from: the governance as it stands, for the whole of the call.
Arrive(c) ==
    /\ At(c, "entered")
    /\ Becomes(c, [calls[c] EXCEPT !.stage = "arrived", !.gov = governance])
    /\ UNCHANGED <<shared, inflight, records, losses, leavings, clock>>

-----------------------------------------------------------------------------
(***************************************************************************)
(* Which server a request goes to, and the gates it meets there.           *)
(***************************************************************************)

\* Remembered::server.
Shown(sort, name) ==
    IF /\ name \in DOMAIN memory[sort].servers
       /\ clock - memory[sort].servers[name].seen < RouteTTL
    THEN <<memory[sort].servers[name].server>> ELSE <<>>

\* The server that showed the target lately, where that may still show it,
\* else the first that may.
Routed(p, target) ==
    LET remembered == IF target.kind = "resource"
                      THEN Shown("resource", target.name) \o Shown("link", target.name)
                      ELSE Shown(target.kind, target.name)
    IN SelectSeq(remembered \o p.order,
                 LAMBDA s : s \in Range(p.order) /\ Shows(p, s, target))

Context(c, server, target, args) ==
    [agent |-> Agent(calls[c].req.caller, Unnamed),
     server |-> server, target |-> target, args |-> args]

\* Mutant: the rules judge the arguments as the client wrote them.
JudgeToolUnedited(c, route) ==
    LET p == calls[c].gov.cfg
        slot == calls[c].gov.slots[route.server]
        target == [kind |-> "tool", name |-> route.tool]
        ctx == Context(c, route.server, target, calls[c].req.args)
        edited == TransformArgs(p.rules, ctx)
    IN [calls[c] EXCEPT
          !.server = route.server, !.target = target, !.args = edited.value,
          !.decision = FirstDenial(
             <<DecideTool(p, route.server, route.tool), edited.refused, Evaluate(p.rules, ctx),
               DecideRbac(p, calls[c].req.caller, route.server, target),
               Unless(route.tool \notin slot.drifted \cup slot.poisoned \cup slot.refused,
                      "rug-pull")>>)]

\* What the gates before the limiter make of a call to a tool of a server:
\* the rules see the arguments as the transforms leave them.
JudgeTool(c, route) ==
    LET p == calls[c].gov.cfg
        slot == calls[c].gov.slots[route.server]
        target == [kind |-> "tool", name |-> route.tool]
        edited == TransformArgs(p.rules, Context(c, route.server, target, calls[c].req.args))
    IN [calls[c] EXCEPT
          !.server = route.server, !.target = target, !.args = edited.value,
          !.decision = FirstDenial(
             <<DecideTool(p, route.server, route.tool),
               edited.refused,
               Evaluate(p.rules, Context(c, route.server, target, edited.value)),
               DecideRbac(p, calls[c].req.caller, route.server, target),
               Unless(route.tool \notin slot.drifted, "rug-pull"),
               Unless(route.tool \notin slot.poisoned, "injection"),
               Unless(route.tool \notin slot.refused, "x-mcp-header")>>)]

\* And of a read, of a prompt's get or of a completion.
JudgeTarget(c, server, target, args) ==
    LET p == calls[c].gov.cfg
    IN [calls[c] EXCEPT
          !.server = server, !.target = target, !.args = args,
          !.decision = FirstDenial(
             <<DecideTarget(p, server, target),
               Evaluate(p.rules, Context(c, server, target, args)),
               DecideRbac(p, calls[c].req.caller, server, target)>>)]

Denied(c, target, rule) == [calls[c] EXCEPT !.target = target, !.decision = rule]

\* On to the limiter, or to the record of the denial.
GoesOn(c, call) ==
    /\ Becomes(c, [call EXCEPT !.stage = IF call.decision = Allow THEN "passed"
                                         ELSE "recording"])
    /\ UNCHANGED <<shared, inflight, records, losses, leavings, clock>>

\* tools/call: by the name's route, or the claim of a server not yet open.
CallTool(c) ==
    /\ At(c, "arrived") /\ calls[c].req.method = "tools/call"
    /\ LET g == calls[c].gov
           name == calls[c].req.name
           routes == IF name \in DOMAIN g.routes THEN {g.routes[name]}
                     ELSE Claimant(g.cfg, g.slots, Tools, name)
       IN IF routes = {}
          THEN GoesOn(c, Denied(c, [kind |-> "tool", name |-> name], "unknown-tool"))
          ELSE \E route \in routes : GoesOn(c, JudgeTool(c, route))

\* A target no server may show is denied as its kind.
AskFor(c, target, args) ==
    LET ways == Routed(calls[c].gov.cfg, target)
    IN GoesOn(c, IF ways = <<>> THEN Denied(c, target, NotAllowed[target.kind])
                 ELSE JudgeTarget(c, Head(ways), target, args))

\* resources/read: of the URI in normal form, if it has one.  A read has no
\* arguments.
Read(c) ==
    /\ At(c, "arrived") /\ calls[c].req.method = "resources/read"
    /\ LET uri == Normal[calls[c].req.name]
           target == [kind |-> "resource", name |-> uri]
       IN IF uri = UriRefused THEN GoesOn(c, Denied(c, target, "uri-refused"))
          ELSE AskFor(c, target, Nothing)

Named(c) == [kind |-> calls[c].req.kind, name |-> calls[c].req.name]

\* prompts/get: the rules see its arguments.
GetPrompt(c) ==
    /\ At(c, "arrived") /\ calls[c].req.method = "prompts/get"
    /\ AskFor(c, Named(c), calls[c].req.args)

\* completion/complete, of a prompt's arguments or a template's: the rules see
\* those resolved so far.
Complete(c) ==
    /\ At(c, "arrived") /\ calls[c].req.method = "completion/complete"
    /\ AskFor(c, Named(c), calls[c].req.args)

\* A method the gateway does not serve, subscriptions among them.
RefuseMethod(c) ==
    /\ At(c, "arrived") /\ calls[c].req.method = "other"
    /\ GoesOn(c, Denied(c, Nothing, "method-not-found"))

\* What the gateway answers itself and does not record: tools/list, ping,
\* initialize, server/discover, params that do not read, a notification.
AnswerAlone(c) ==
    /\ At(c, "arrived") /\ calls[c].req.method = "own"
    /\ inflight' = inflight - 1
    /\ Becomes(c, [Idle EXCEPT !.stage = "gone"])
    /\ UNCHANGED <<shared, records, losses, leavings, clock>>

-----------------------------------------------------------------------------
(***************************************************************************)
(* The limiter, and the upstream.                                          *)
(***************************************************************************)

\* A tool has a bucket of its own, a server one for each other method.
Bucket(call) ==
    [server |-> call.server, method |-> call.req.method,
     tool |-> IF call.target.kind = "tool" THEN call.target.name ELSE Nothing]

\* The limiter now in place, under its lock, after every other gate.
Dispatch(c) ==
    /\ At(c, "passed")
    /\ LET call == calls[c]
           tried == {Spend(l, Bucket(call), clock) : l \in limiter.on}
           shed == \E t \in tried : t.shed # "none"
           down == call.gov.slots[call.server].conn = {}
           spent == [bucket |-> Bucket(call), at |-> clock, limiter |-> limiter.before]
       IN /\ limiter' = [limiter EXCEPT !.on = {t.limiter : t \in tried}]
          /\ Becomes(c,
               CASE shed -> [call EXCEPT !.stage = "recording", !.decision = "rate-limited"]
                 [] ~shed /\ down ->
                      [call EXCEPT !.stage = "recording", !.decision = "upstream-down",
                                   !.spent = {spent}]
                 [] ~shed /\ ~down ->
                      [call EXCEPT !.stage = "asked", !.spent = {spent},
                                   !.sent = {[server |-> call.server, target |-> call.target,
                                              args |-> call.args]}])
    /\ UNCHANGED <<governance, changes, owed, memory, elsewhere, inflight, records, losses, leavings, clock>>

\* Slot::failure: the connection is down, or the call fails; a timeout and
\* credentials that are refused are failures with rules of their own.
Fails(c) ==
    /\ At(c, "asked") /\ calls[c].req.method # "list"
    /\ \E rule \in {"upstream-down", "upstream-error"} :
          Becomes(c, [calls[c] EXCEPT !.stage = "recording", !.decision = rule])
    /\ UNCHANGED <<shared, inflight, records, losses, leavings, clock>>

\* Remembered::remember: a name known already keeps its place in the order.
Remember(known, entry) ==
    IF entry.name \in DOMAIN known.servers
    THEN [known EXCEPT !.servers[entry.name] = [server |-> entry.server, seen |-> clock]]
    ELSE LET kept == IF Len(known.order) < RoutesKept THEN known.order ELSE Tail(known.order)
             order == Append(kept, entry.name)
         IN [order |-> order,
             servers |-> [name \in Range(order) |->
                            IF name = entry.name THEN [server |-> entry.server, seen |-> clock]
                            ELSE known.servers[name]]]

\* remember_links: a tool's result says which resources its server has.
LinksOf(call, answer) ==
    LET shows == \/ call.gov.cfg.resources[call.server].uris # {}
                 \/ call.gov.cfg.resources[call.server].templates # {}
        uris == SelectSeq(answer.links, LAMBDA uri : Normal[uri] # UriRefused)
    IN IF shows THEN [i \in DOMAIN uris |-> [name |-> Normal[uris[i]], server |-> call.server]]
       ELSE <<>>

\* Mutant: an interim result is not inspected.
InspectedWhenFinal(call, answer) ==
    LET edited == IF ~answer.interim /\ answer.content # "error"
                     /\ call.target.kind \in {"tool", "resource"}
                  THEN TransformResult(call.gov.cfg.rules,
                         [agent |-> Agent(call.req.caller, Unnamed), server |-> call.server,
                          target |-> call.target, args |-> call.args], answer.content)
                  ELSE [value |-> answer.content, refused |-> Allow]
        inspected == InspectResult(IF answer.interim THEN "off" ELSE call.gov.cfg.inspect,
                                   edited.value, ~answer.interim)
        decision == FirstDenial(<<edited.refused, inspected.decision>>)
    IN [call EXCEPT !.stage = "recording", !.decision = decision,
                    !.got = IF decision = Allow THEN inspected.content ELSE Nothing]

\* What the result transforms make of an answer: of a final result only, and
\* as the call was sent.
Edited(call, answer) ==
    IF answer.interim \/ answer.content = "error"
    THEN [value |-> answer.content, refused |-> Allow]
    ELSE TransformResult(call.gov.cfg.rules,
           [agent |-> Agent(call.req.caller, Unnamed), server |-> call.server,
            target |-> call.target, args |-> call.args], answer.content)

\* The answer edited, then inspected, interim or not; an interim one is relayed
\* to a client that can answer it, and refused another.
Settled(call, edited, final) ==
    LET inspected == InspectResult(call.gov.cfg.inspect, edited.value, final)
        decision == FirstDenial(<<edited.refused, inspected.decision,
                                  Unless(final \/ call.req.answers, "input-required")>>)
    IN [call EXCEPT
          !.stage = "recording", !.decision = decision,
          !.note = CASE decision # Allow -> Nothing
                     [] decision = Allow /\ ~final -> "input-required"
                     [] decision = Allow /\ final /\ inspected.redacted -> "secret-redacted"
                     [] decision = Allow /\ final /\ ~inspected.redacted -> Nothing,
          !.got = IF decision = Allow THEN inspected.content ELSE Nothing]

\* A read's contents go the way a tool's result goes.
InspectedContents(call, answer) == Settled(call, Edited(call, answer), ~answer.interim)

Unedited(answer) == [value |-> answer.content, refused |-> Allow]

\* No transform edits a prompt, which may be interim as well.
InspectedPrompt(call, answer) == Settled(call, Unedited(answer), ~answer.interim)

\* Nor a completion, which is final whatever it says.
InspectedCompletion(call, answer) == Settled(call, Unedited(answer), TRUE)

\* What becomes of an upstream's answer.
Inspected(call, answer) ==
    CASE call.req.method = "completion/complete" -> InspectedCompletion(call, answer)
      [] call.req.method = "prompts/get" -> InspectedPrompt(call, answer)
      [] OTHER -> InspectedContents(call, answer)

Answered(c) ==
    /\ At(c, "asked") /\ calls[c].req.method # "list"
    /\ \E answer \in Answers :
          LET call == Inspected(calls[c], answer)
              links == IF /\ call.decision = Allow /\ ~answer.interim
                          /\ call.target.kind = "tool"
                       THEN LinksOf(call, answer) ELSE <<>>
          IN /\ Becomes(c, call)
             /\ memory' = [memory EXCEPT !.link = FoldLeft(Remember, @, links)]
    /\ UNCHANGED <<governance, changes, owed, limiter, elsewhere, inflight, records, losses, leavings, clock>>

\* audit_with, awaited before the answer goes out.  A failed append is logged.
Record(c) ==
    /\ At(c, "recording")
    /\ LET call == calls[c]
           record == [server |-> call.server, target |-> call.target,
                      decision |-> call.decision, note |-> call.note]
       IN \/ /\ records' = [records EXCEPT ![c] = Append(@, record)]
             /\ UNCHANGED losses
          \/ /\ Eventful
             /\ losses' = losses + 1
             /\ UNCHANGED records
    /\ inflight' = inflight - 1
    /\ Becomes(c, [Idle EXCEPT !.stage = "done", !.spent = calls[c].spent,
                               !.sent = calls[c].sent, !.decision = calls[c].decision])
    /\ UNCHANGED <<shared, leavings, clock>>

-----------------------------------------------------------------------------
(***************************************************************************)
(* The lists gathered from every server that may show something.           *)
(***************************************************************************)

AskLists(c) ==
    /\ At(c, "arrived") /\ calls[c].req.method = "list"
    /\ Becomes(c, [calls[c] EXCEPT !.stage = "asked"])
    /\ UNCHANGED <<shared, inflight, records, losses, leavings, clock>>

\* How the gateway knows an entry of a list: a URI by its normal form.
KnownAs(sort, name) == IF sort = "resource" THEN Normal[name] ELSE name

\* What the i-th server adds, of which it was heard n entries.
Adds(g, sort, i, n) ==
    LET server == g.cfg.order[i]
        heard == IF g.slots[server].conn = {} THEN <<>> ELSE SubSeq(Holdings[server][sort], 1, n)
        names == [k \in DOMAIN heard |-> [name |-> KnownAs(sort, heard[k]), server |-> server]]
    IN SelectSeq(names, LAMBDA entry :
         entry.name # UriRefused /\ Shows(g.cfg, server, [kind |-> sort, name |-> entry.name]))

\* In the order of the configuration, each name from the first that shows it.
Page(g, sort, heard) ==
    FoldLeft(LAMBDA page, entry :
               IF \E i \in DOMAIN page : page[i].name = entry.name THEN page
               ELSE Append(page, entry),
             <<>>,
             FlattenSeq([i \in DOMAIN g.cfg.order |-> Adds(g, sort, i, heard[g.cfg.order[i]])]))

\* Every server has answered, or failed after some of its pages; what they
\* showed is remembered, and the list is answered, not recorded.
Gather(c) ==
    /\ At(c, "asked") /\ calls[c].req.method = "list"
    /\ LET g == calls[c].gov
           sort == calls[c].req.kind
           servers == Range(g.cfg.order)
           lengths == UNION {0..Len(Holdings[s][sort]) : s \in servers}
       IN \E heard \in [servers -> lengths] :
            /\ \A s \in servers : heard[s] <= Len(Holdings[s][sort])
            /\ memory' = [memory EXCEPT ![sort] = FoldLeft(Remember, @, Page(g, sort, heard))]
    /\ inflight' = inflight - 1
    /\ Becomes(c, [Idle EXCEPT !.stage = "gone"])
    /\ UNCHANGED <<governance, changes, owed, limiter, elsewhere, records, losses, leavings, clock>>

-----------------------------------------------------------------------------
(***************************************************************************)
(* What changes beside the requests.                                       *)
(***************************************************************************)

Changes(to) ==
    /\ changes' = changes + 1
    /\ governance' = to

\* reconfigure: the whole governance at once, a server kept with its verdicts
\* or judged again, one added open or down.  The limiter follows.
Reload ==
    /\ owed = {} /\ changes < MaxChanges
    /\ \E p \in Configs :
          /\ \E slots \in [Range(p.order) ->
                             {Unopened} \cup UNION {Verdicts[s] : s \in Range(p.order)}] :
                /\ \A s \in Range(p.order) :
                      slots[s] \in Verdicts[s] \cup
                        IF s \in DOMAIN governance.slots THEN {governance.slots[s]}
                        ELSE {Unopened}
                /\ Changes(Govern(p, slots))
          /\ owed' = IF p.rates = governance.cfg.rates THEN {}
                     ELSE {NewLimiter(p.rates, clock)}
    /\ UNCHANGED <<limiter, memory, elsewhere, inflight, calls, records, losses, leavings, clock>>

StoreLimiter ==
    /\ \E on \in owed : limiter' = [on |-> on, before |-> limiter.before + 1]
    /\ owed' = {}
    /\ UNCHANGED <<governance, changes, memory, elsewhere, inflight, calls, records, losses, leavings, clock>>

\* Mutant: a connection goes in without the names being routed again.
OpenedUnrouted(s) ==
    /\ s \in DOMAIN governance.slots /\ changes < MaxChanges
    /\ \E slot \in Verdicts[s] \ {governance.slots[s]} :
          Changes([governance EXCEPT !.slots[s] = slot])
    /\ UNCHANGED <<owed, limiter, memory, elsewhere, inflight, calls, records, losses, leavings, clock>>

\* install, or a verdict on a server's tools that changed: a keeper, or a
\* listing, at work.
Opened(s) ==
    /\ s \in DOMAIN governance.slots /\ changes < MaxChanges
    /\ \E slot \in Verdicts[s] \ {governance.slots[s]} :
          Changes(Govern(governance.cfg, [governance.slots EXCEPT ![s] = slot]))
    /\ UNCHANGED <<owed, limiter, memory, elsewhere, inflight, calls, records, losses, leavings, clock>>

Tick ==
    /\ Eventful
    /\ clock' = clock + 1
    /\ UNCHANGED <<shared, inflight, calls, records, losses, leavings>>

-----------------------------------------------------------------------------
CallStep(c) ==
    \/ Enter(c) \/ Refuse(c) \/ Leave(c) \/ Arrive(c)
    \/ CallTool(c) \/ Read(c) \/ GetPrompt(c) \/ Complete(c) \/ RefuseMethod(c)
    \/ AnswerAlone(c) \/ AskLists(c)
    \/ Dispatch(c) \/ Fails(c) \/ Answered(c) \/ Gather(c) \/ Record(c)

Next ==
    \/ \E c \in Calls : CallStep(c)
    \/ \E s \in DOMAIN Verdicts : Opened(s)
    \/ Reload \/ StoreLimiter \/ Tick

Spec == Init /\ [][Next]_vars

-----------------------------------------------------------------------------
(***************************************************************************)
(* What the gateway promises.                                              *)
(***************************************************************************)

Stages == {"new", "entered", "arrived", "passed", "asked", "recording", "done", "gone"}

\* The shape of the state: a request in the gateway's hands has its version of
\* the governance, and what was sent has a server of that version.
TypeOK ==
    /\ governance.cfg \in Configs
    /\ DOMAIN governance.slots = Range(governance.cfg.order)
    /\ \A name \in DOMAIN governance.routes :
          governance.routes[name].server \in DOMAIN governance.slots
    /\ changes \in 0..MaxChanges /\ clock + losses + leavings \in 0..MaxEvents
    /\ limiter.before \in 0..MaxChanges
    /\ inflight \in elsewhere..MaxInflight
    /\ \A c \in Calls :
          /\ calls[c].stage \in Stages
          /\ Running(c) => calls[c].gov.cfg \in Configs
          /\ Running(c) => \A sent \in calls[c].sent : sent.server \in DOMAIN calls[c].gov.slots

\* Whether one version of the governance permits a request as it is sent: an
\* allowlist entry and no deny entry, the active profile, no deny rule that no
\* allow rule precedes, a role's grant, and a definition without suspicion.
Permits(g, caller, sent) ==
    LET p == g.cfg
        ctx == [agent |-> Agent(caller, Unnamed), server |-> sent.server,
                target |-> sent.target, args |-> sent.args]
        Takes(list) == /\ \A globs \in list.allow : \E glob \in globs : sent.target.name \in glob
                       /\ \A glob \in list.deny : sent.target.name \notin glob
        slot == g.slots[sent.server]
    IN /\ sent.server \in DOMAIN p.servers
       /\ \A i \in DOMAIN p.rules :
             p.rules[i].effect = "deny" /\ RuleMatches(p.rules[i], ctx) =>
               \E j \in 1..(i - 1) : p.rules[j].effect = "allow" /\ RuleMatches(p.rules[j], ctx)
       /\ \A rbac \in p.rbac : \A subjects \in Grants(rbac, caller) :
             \E role \in subjects : role \in DOMAIN rbac.roles
                /\ Granted(rbac, {role}, sent.server, sent.target)
       /\ slot.conn # {}
       /\ IF sent.target.kind = "tool"
          THEN /\ Takes(p.servers[sent.server])
               /\ \A profile \in p.active : Takes(profile)
               /\ sent.target.name \notin slot.drifted \cup slot.poisoned \cup slot.refused
          ELSE Shows(p, sent.server, sent.target)

\* What reaches a server was permitted, with the arguments it was sent with, by
\* the one version of everything that was in force when the request came:
\* never by the policy of one version and the verdicts of another, and never
\* with arguments a transform changed after the rules had judged them
\* (handle_from: "each judged against the governance as it stood when the call
\* arrived"; handle_tools_call: "The admission rules below judge what they
\* made, and it is what the upstream gets").
SentWasAllowed ==
    \A c \in Calls : Running(c) =>
        \A sent \in calls[c].sent : Permits(calls[c].gov, calls[c].req.caller, sent)

\* The first server, in the order of the configuration, that lists a tool by
\* the name which its allowlist takes.
Owner(g, name) ==
    LET owners == {i \in DOMAIN g.cfg.order :
                     \E tool \in ToolsOf(g.slots[g.cfg.order[i]]) :
                        /\ ListedName(g.cfg, g.cfg.order[i], tool) = name
                        /\ DecideTool(g.cfg, g.cfg.order[i], tool) = Allow}
    IN {g.cfg.order[i] : i \in {i \in owners : \A j \in owners : i <= j}}

\* A tool that is found suspect keeps its name: a call by that name is never
\* handed to the next server that has one like it (Governance::offers: "it is
\* hidden and refused, never handed to another server").
NameKeepsItsServer ==
    \A c \in Calls : Running(c) =>
        \A sent \in calls[c].sent : sent.target.kind = "tool" =>
            sent.server \in Owner(calls[c].gov, calls[c].req.name)

\* What tools/list shows is what a call would reach: of each name the tool of
\* its owner, unless the definition is suspect, and nothing else, whatever
\* opened, changed or was reloaded since (reroute: "the one tools/list shows").
ShownIsServed ==
    LET shown == Listed(governance.cfg, governance.slots, governance.routes)
    IN /\ \A entry \in shown : Owner(governance, entry.name) = {entry.server}
       /\ \A name \in ListedNames(governance.cfg, governance.slots) :
            \A owner \in Owner(governance, name) :
              LET slot == governance.slots[owner]
                  tools == {tool \in ToolsOf(slot) :
                              ListedName(governance.cfg, owner, tool) = name}
              IN {entry.tool : entry \in {entry \in shown : entry.name = name}}
                   = tools \ (slot.drifted \cup slot.poisoned \cup slot.refused)

\* Denials that are decided after the request was sent.
AfterSending ==
    {"upstream-down", "upstream-error", "input-required", "secret-exfil", "injection"}
      \cup {rule.name : rule \in {rule \in UNION {Range(p.rules) : p \in Configs} :
                                   rule.results # {}}}

\* A request handed to the gateway ends in one record, even if its client left,
\* unless the append failed; the record says where it was sent, and only what
\* was sent, and answered, is recorded as allowed (RunToEnd: of a dropped call
\* the "audit record would then never be written").
RecordTellsTheTruth ==
    LET ended == {c \in Calls : calls[c].stage = "done"}
    IN /\ Cardinality({c \in ended : records[c] = <<>>}) = losses
       /\ \A c \in Calls : records[c] # <<>> => c \in ended /\ Len(records[c]) = 1
       /\ \A c \in ended : \A i \in DOMAIN records[c] :
            LET record == records[c][i]
            IN /\ record.decision = Allow => calls[c].sent # {}
               /\ \A sent \in calls[c].sent :
                    /\ record.server = sent.server /\ record.target = sent.target
                    /\ record.decision \in AfterSending \cup {Allow}

\* While inspect enforces or redacts, nothing it finds reaches a client: not in
\* a final result, not in an interim one, not after a transform has edited it.
NothingFlaggedPasses ==
    \A c \in Calls : Running(c) /\ calls[c].got # Nothing
                        /\ calls[c].gov.cfg.inspect \in {"enforce", "redact"} =>
        calls[c].got \in Unflagged

\* A permit is taken for as long as its call goes on, whether or not the client
\* waits, and no longer (handle_post: "The call holds it until it ends, even if
\* the client leaves first").
PermitsAreHeld ==
    inflight = elsewhere + Cardinality({c \in Calls : calls[c].stage = "entered" \/ Running(c)})

\* Of one limiter, no bucket let by more requests in any stretch of time than
\* it holds full and gains in that time, the requests for a server that was
\* down included.
RateHolds ==
    LET LetBy(t1, t2) == {c \in Calls : \E spent \in calls[c].spent :
                                          spent.limiter = limiter.before /\ spent.at \in t1..t2}
        Of(bucket) == {c \in Calls : \E spent \in calls[c].spent : spent.bucket = bucket}
        Within(spenders, template, t1, t2) ==
            Cardinality(spenders) * Cost <= template.capacity + (t2 - t1) * template.refill
    IN \A l \in limiter.on : \A t2 \in 0..clock : \A t1 \in 0..t2 :
         /\ \A template \in l.settings.global : Within(LetBy(t1, t2), template, t1, t2)
         /\ \A template \in l.settings.each : \A bucket \in DOMAIN l.buckets :
              Within(LetBy(t1, t2) \cap Of(bucket), template, t1, t2)

=============================================================================
