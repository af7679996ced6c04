---------------------------- MODULE MCGatewayCall -----------------------------
(***************************************************************************)
(* Two servers, a and b, that both have a tool x, and that show one        *)
(* resource both; two configurations that order them differently, one of   *)
(* them with prefixes and without rules.                                   *)
(***************************************************************************)
EXTENDS GatewayCall, TLC

CONSTANTS c1, c2

x == <<"x">>
y == <<"y">>
MCTools == {x, y}

Names(kind) == CASE kind = "tool" -> MCTools
                 [] kind = "resource" -> {"uri", "other"}
                 [] kind = "prompt" -> {"p"}

\* A rule that edits the arguments into what the next one denies on b, and one
\* that edits the results of reads.
Anything == [tool |-> {}, resource |-> {}, prompt |-> {}]
MCRules == <<
  [name |-> "expand", effect |-> "transform", about |-> [Anything EXCEPT !.tool = {{MCTools}}],
   agents |-> {}, servers |-> {}, args |-> {}, skips |-> FALSE, results |-> {},
   edits |-> {[args \in {"short", "plain", "odd"} |->
                CASE args = "short" -> "prod" [] args = "plain" -> "plain"
                  [] args = "odd" -> CannotApply]}],
  [name |-> "trusted", effect |-> "allow", about |-> Anything, agents |-> {{{"ann"}}},
   servers |-> {}, args |-> {{"prod"}}, skips |-> FALSE, results |-> {}, edits |-> {}],
  [name |-> "no-prod", effect |-> "deny", about |-> Anything, agents |-> {},
   servers |-> {{{"b"}}}, args |-> {{"prod"}}, skips |-> FALSE, results |-> {}, edits |-> {}],
  [name |-> "strip", effect |-> "transform", about |-> [Anything EXCEPT !.resource = {{{"uri"}}}],
   agents |-> {}, servers |-> {}, args |-> {}, skips |-> FALSE, edits |-> {},
   results |-> {[content \in {"clean", "secret", "stuck", "injection"} |->
                   CASE content = "injection" -> "clean"
                     [] content = "stuck" -> CannotApply
                     [] content \notin {"injection", "stuck"} -> content]}]>>

MCRbac == [roles |-> [reader |-> [tool |-> {[servers |-> {"a", "b"}, names |-> {x}]},
                                  resource |-> {[servers |-> {"a"}, names |-> {"uri"}]},
                                  prompt |-> {}]],
           certs |-> {[glob |-> {"ann-cert"}, roles |-> {"reader"}]}]

Open(allow, deny) == [allow |-> {allow}, deny |-> deny]
Plain ==
  [order |-> <<"a", "b">>, prefixes |-> {}, active |-> {},
   servers |-> [s \in {"a", "b"} |-> IF s = "a" THEN Open({{x}}, {}) ELSE Open({{x}, {y}}, {})],
   resources |-> [s \in {"a", "b"} |-> [uris |-> {{"uri", "other"}},
                                        templates |-> IF s = "b" THEN {{"t"}} ELSE {}]],
   prompts |-> [s \in {"a", "b"} |-> {{"p"}}],
   rules |-> MCRules, rbac |-> {}, inspect |-> "redact",
   rates |-> [each |-> {[capacity |-> 2, refill |-> 2]}, global |-> {}]]
Strict ==
  [Plain EXCEPT !.order = <<"b", "a">>, !.prefixes = {[s \in {"a", "b"} |-> <<s>>]},
     !.active = {Open({MCTools}, {{y}})},
     !.resources["b"].uris = {{"other"}}, !.prompts["b"] = {},
     !.rules = <<>>, !.rbac = {MCRbac}, !.inspect = "enforce",
     !.rates = [each |-> {}, global |-> {[capacity |-> 2, refill |-> 2]}]]
MCConfigs == {Plain, Strict}

Slot(tools, drifted) ==
  [conn |-> {[tools |-> tools]}, drifted |-> drifted, poisoned |-> {}, refused |-> {}]
MCVerdicts == [s \in {"a", "b"} |->
  IF s = "a" THEN {Slot({x}, {}), Slot({x}, {x})} ELSE {Slot({x, y}, {})}]

MCStarts ==
  {[s \in {"a", "b"} |-> Unopened],
   [s \in {"a", "b"} |-> Slot(IF s = "a" THEN {x} ELSE {x, y}, {})]}

MCHoldings == [s \in {"a", "b"} |->
  IF s = "a" THEN [resource |-> <<"URI", "other">>, prompt |-> <<"p">>, template |-> <<>>]
  ELSE [resource |-> <<"uri", "bad">>, prompt |-> <<"p">>, template |-> <<"t">>]]
MCNormal == [uri |-> "uri", URI |-> "uri", other |-> "other", bad |-> UriRefused]

NoOne == [token |-> {}, cert |-> {}]
Ann == [token |-> {[subject |-> "ann", roles |-> {}]}, cert |-> {"ann-cert"}]
Cert == [token |-> {}, cert |-> {"ann-cert"}]

Ask(method, kind, name, caller, args, answers) ==
  [method |-> method, kind |-> kind, name |-> name, caller |-> caller, args |-> args,
   answers |-> answers]
\* Two calls share a tool's bucket.
MCRequests ==
  (c1 :> {Ask("tools/call", "tool", x, NoOne, "short", FALSE),
          Ask("tools/call", "tool", x, NoOne, "odd", FALSE),
          Ask("tools/call", "tool", <<"a", "x">>, Cert, "plain", TRUE)})
  @@ (c2 :> {Ask("tools/call", "tool", x, Cert, "plain", TRUE),
             Ask("tools/call", "tool", y, Ann, "short", TRUE),
             Ask("resources/read", "resource", "URI", NoOne, Nothing, TRUE),
             Ask("resources/read", "resource", "bad", NoOne, Nothing, FALSE),
             Ask("prompts/get", "prompt", "p", NoOne, "prod", FALSE),
             Ask("completion/complete", "template", "t", Ann, "plain", FALSE),
             Ask("list", "resource", Nothing, NoOne, Nothing, FALSE),
             Ask("own", "own", Nothing, NoOne, Nothing, FALSE),
             Ask("other", "other", Nothing, NoOne, Nothing, FALSE)})

Says(content, interim, links) == [content |-> content, interim |-> interim, links |-> links]
MCAnswers ==
  {Says("clean", FALSE, <<"URI", "other">>),
   Says("secret", FALSE, <<>>), Says("stuck", FALSE, <<>>), Says("injection", FALSE, <<>>),
   Says("clean", TRUE, <<>>), Says("secret", TRUE, <<>>)}
=============================================================================
