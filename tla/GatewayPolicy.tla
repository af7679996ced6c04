--------------------------- MODULE GatewayPolicy ---------------------------
(***************************************************************************)
(* What the gateway judges a request by: the allowlists, the roles, the    *)
(* policy rules and their transforms (crates/mcpdef-policy), and which     *)
(* server a listed tool belongs to (Governance in gateway.rs).             *)
(*                                                                         *)
(* A glob is the set of the names it matches, and an entry that is a name  *)
(* itself is the glob of that name alone.  An optional value is a set of   *)
(* at most one element.  A decision is Allow or the rule that denies.  A   *)
(* tool's name is a sequence of the parts that "__" joins, so that putting *)
(* a prefix before it is concatenation, and two names may come out alike.  *)
(***************************************************************************)
EXTENDS Naturals, Sequences, FiniteSets

Allow == "allow"

\* The first denial among the decisions of some gates, in their order.
FirstDenial(decisions) ==
  LET denials == {i \in DOMAIN decisions : decisions[i] # Allow}
  IN IF denials = {} THEN Allow
     ELSE decisions[CHOOSE i \in denials : \A j \in denials : i <= j]

Unless(holds, rule) == IF holds THEN Allow ELSE rule

Matches(globs, name) == \E glob \in globs : name \in glob

\* An absent list of patterns matches anything, and an empty one nothing.
GlobAny(pats, name) == \A globs \in pats : Matches(globs, name)

-----------------------------------------------------------------------------
(* The allowlists of a configuration p                                     *)

\* A deny pattern wins over the allowlist.
DenyReason(sp, tool) ==
  FirstDenial(<<Unless(~Matches(sp.deny, tool), "deny-glob"),
                Unless(GlobAny(sp.allow, tool), "not-on-allowlist")>>)

DecideTool(p, server, tool) ==
  IF server \notin DOMAIN p.servers THEN "unknown-server"
  ELSE FirstDenial(
         <<DenyReason(p.servers[server], tool),
           Unless(\A profile \in p.active : DenyReason(profile, tool) = Allow,
                  "not-in-active-profile")>>)

\* Whether the server's allowlist names the tool itself, not by a pattern.
ListsTool(p, server, tool) ==
  /\ server \in DOMAIN p.servers
  /\ \E allow \in p.servers[server].allow : {tool} \in allow

\* Whether the server's lists take a resource, a prompt or a template.
Shows(p, server, target) ==
  Matches(CASE target.kind = "resource" -> p.resources[server].uris
            [] target.kind = "template" -> p.resources[server].templates
            [] target.kind = "prompt"   -> p.prompts[server],
          target.name)

NotAllowed == [resource |-> "resource-not-allowed",
               template |-> "template-not-allowed",
               prompt   |-> "prompt-not-allowed"]

DecideTarget(p, server, target) ==
  IF server \notin DOMAIN p.servers THEN "unknown-server"
  ELSE Unless(Shows(p, server, target), NotAllowed[target.kind])

-----------------------------------------------------------------------------
(* Who asks, and their roles                                               *)

\* A caller has a token, with a subject and roles, or a certificate's
\* identity, or both, or neither.  The token is who it is when there is one.
Agent(caller, unnamed) ==
  CASE caller.token # {} -> (CHOOSE token \in caller.token : TRUE).subject
    [] caller.token = {} /\ caller.cert # {} -> CHOOSE id \in caller.cert : TRUE
    [] caller.token = {} /\ caller.cert = {} -> unnamed

CertificateRoles(rbac, id) ==
  UNION {m.roles : m \in {m \in rbac.certs : id \in m.glob}}

\* The subjects the roles' gate judges: none at all for a caller no
\* credential names, whom the gate lets by.
Grants(rbac, caller) ==
  IF caller.token # {} THEN {token.roles : token \in caller.token}
  ELSE {CertificateRoles(rbac, id) : id \in caller.cert}

\* Whether a role grants the target on the server.  A template names no one
\* URI, so a grant of any resource on the server is enough.
Granted(rbac, subjects, server, target) ==
  \E role \in subjects \cap DOMAIN rbac.roles :
    IF target.kind = "template"
    THEN \E grant \in rbac.roles[role]["resource"] : server \in grant.servers
    ELSE \E grant \in rbac.roles[role][target.kind] :
           server \in grant.servers /\ target.name \in grant.names

DecideRbac(p, caller, server, target) ==
  Unless(\A rbac \in p.rbac : \A subjects \in Grants(rbac, caller) :
           Granted(rbac, subjects, server, target),
         "rbac")

-----------------------------------------------------------------------------
(* The policy rules                                                        *)

\* A rule that names what it is about matches that kind of request only.
RuleMatches(rule, ctx) ==
  /\ \A kind \in DOMAIN rule.about :
       IF kind = ctx.target.kind
       THEN GlobAny(rule.about[kind], ctx.target.name)
       ELSE rule.about[kind] = {}
  /\ GlobAny(rule.agents, ctx.agent)
  /\ GlobAny(rule.servers, ctx.server)
  /\ \A predicate \in rule.args : ctx.args \in predicate

\* The first rule that matches decides, and a transform decides nothing.
Evaluate(rules, ctx) ==
  LET hits == {i \in DOMAIN rules : /\ rules[i].effect # "transform"
                                    /\ RuleMatches(rules[i], ctx)}
      first == CHOOSE i \in hits : \A j \in hits : i <= j
  IN IF hits = {} THEN Allow
     ELSE Unless(rules[first].effect = "allow", rules[first].name)

\* What an edit comes to where it cannot apply.
CannotApply == "cannot apply"

\* One pass of the transform rules that have edits of one sort ("edits", of
\* the arguments, or "results") over a value: each that matches edits what
\* those before it left, and is judged by the arguments as those left them.
\* One that cannot apply denies and ends the pass, unless it skips, which
\* leaves the value as it found it.
Pass(rules, sort, ctx, value) ==
  LET Judged(left) == IF sort = "edits" THEN [ctx EXCEPT !.args = left] ELSE ctx
      Edited(rule, done) ==
        LET to == (CHOOSE edit \in rule[sort] : TRUE)[done.value]
        IN CASE to # CannotApply ->
                  [done EXCEPT !.value = to]
             [] to = CannotApply /\ rule.skips -> done
             [] to = CannotApply /\ ~rule.skips ->
                  [done EXCEPT !.refused = rule.name]
      pass[i \in 0..Len(rules)] ==
        IF i = 0
        THEN [value |-> value, refused |-> Allow]
        ELSE LET done == pass[i - 1]
                 rule == rules[i]
             IN IF /\ done.refused = Allow
                   /\ rule.effect = "transform"
                   /\ rule[sort] # {}
                   /\ RuleMatches(rule, Judged(done.value))
                THEN Edited(rule, done)
                ELSE done
  IN pass[Len(rules)]

\* The pass over a tool call's arguments.
TransformArgs(rules, ctx) == Pass(rules, "edits", ctx, ctx.args)

\* The pass over a result, judged by the request as the upstream got it.
TransformResult(rules, ctx, content) ==
  Pass(rules, "results", ctx, content)

-----------------------------------------------------------------------------
(* What inspect makes of a result: its decision, and what is left of it    *)

RuleOf == [secret |-> "secret-exfil", stuck |-> "secret-exfil",
           injection |-> "injection"]

\* What is clean, or not a result at all.
Unflagged == {"clean", "error"}

\* What a result may be: clean, or with something that is found in it.
Contents == {"clean"} \cup DOMAIN RuleOf

\* Only a final result is redacted.  A "stuck" secret cannot be.
InspectResult(mode, content, complete) ==
  LET passed == [decision |-> Allow, content |-> content, redacted |-> FALSE]
  IN IF content \in Unflagged \/ mode \in {"off", "warn"} THEN passed
     ELSE IF mode = "redact" /\ complete /\ content = "secret"
     THEN [passed EXCEPT !.content = "clean", !.redacted = TRUE]
     ELSE [passed EXCEPT !.decision = RuleOf[content]]

-----------------------------------------------------------------------------
(* Where a listed tool's calls go.  A slot has the server's connection, if *)
(* one ever opened, with the tools it lists, and the tools found suspect.  *)

ListedName(p, server, tool) ==
  IF p.prefixes = {} THEN tool
  ELSE (CHOOSE prefix \in p.prefixes : TRUE)[server] \o tool

ToolsOf(slot) == UNION {conn.tools : conn \in slot.conn}

\* The tools of the i-th server that are listed under the name, and of them
\* the ones its allowlist takes: a suspect tool is still offered, so that it
\* keeps its name.
Listing(p, slots, i, name) ==
  {tool \in ToolsOf(slots[p.order[i]]) : ListedName(p, p.order[i], tool) = name}

\* Mutant: a suspect tool is not offered.
OfferingTrusted(p, slots, i, name) ==
  {tool \in Listing(p, slots, i, name) : /\ DecideTool(p, p.order[i], tool) = Allow
                                         /\ tool \notin slots[p.order[i]].drifted}

Offering(p, slots, i, name) ==
  {tool \in Listing(p, slots, i, name) : DecideTool(p, p.order[i], tool) = Allow}

\* The first server, in the order of the configuration, with some of the
\* tools that are its, and the tool.
FirstWith(p, tools) ==
  LET having == {i \in DOMAIN p.order : tools[i] # {}}
      first == CHOOSE i \in having : \A j \in having : i <= j
  IN IF having = {} THEN {}
     ELSE {[server |-> p.order[first], tool |-> CHOOSE tool \in tools[first] : TRUE]}

ListedNames(p, slots) ==
  UNION {{ListedName(p, p.order[i], tool) : tool \in ToolsOf(slots[p.order[i]])} :
           i \in DOMAIN p.order}

\* A name goes to the first server that offers it, or, when none does, to
\* the first that lists it.
Reroute(p, slots) ==
  [name \in ListedNames(p, slots) |->
     LET offered == FirstWith(p, [i \in DOMAIN p.order |-> Offering(p, slots, i, name)])
         listed == FirstWith(p, [i \in DOMAIN p.order |-> Listing(p, slots, i, name)])
     IN CHOOSE route \in IF offered # {} THEN offered ELSE listed : TRUE]

\* The first server that never opened whose allowlist names the tool.
Claimant(p, slots, tools, name) ==
  FirstWith(p, [i \in DOMAIN p.order |->
    {tool \in tools : /\ slots[p.order[i]].conn = {}
                      /\ ListedName(p, p.order[i], tool) = name
                      /\ ListsTool(p, p.order[i], tool)}])

\* What tools/list shows: each name once, from the server its calls go to,
\* unless the tool is suspect or its annotations are refused.
Listed(p, slots, routes) ==
  {entry \in UNION {{[server |-> p.order[i], tool |-> tool,
                      name |-> ListedName(p, p.order[i], tool)] :
                       tool \in ToolsOf(slots[p.order[i]])} : i \in DOMAIN p.order} :
     LET slot == slots[entry.server]
     IN /\ DecideTool(p, entry.server, entry.tool) = Allow
        /\ entry.tool \notin slot.drifted \cup slot.poisoned \cup slot.refused
        /\ entry.name \in DOMAIN routes
        /\ routes[entry.name].server = entry.server}
=============================================================================
