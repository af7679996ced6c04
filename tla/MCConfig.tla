-------------------------------- MODULE MCConfig --------------------------------
(***************************************************************************)
(* What a configuration that is not refused comes to, on small ones: each  *)
(* is a kind of MCTexts, judged by the modules of what it configures.      *)
(***************************************************************************)
EXTENDS ConfigRules

Token == INSTANCE BearerToken WITH Leeway <- 1, U64Most <- 5
Mcp == INSTANCE FrontDoor WITH IdMost <- 7, DomainMost <- 3, Bits <- 3, MostCertificates <- 2
Console == INSTANCE ConsoleDoor

Optional(values) == {{}} \cup {{value} : value \in values}

-----------------------------------------------------------------------------
\* The two listeners, and what a caller needs at each.
Clients(mode) == [mode |-> mode, ca |-> {}, crl |-> {}, identity |-> {}, domains |-> {}, reads |-> TRUE]
Asking(mode) == [Clients(mode) EXCEPT !.ca = {"ca"}, !.identity = {"cn"}]
SomeClients == {Clients("off"), Asking("optional"), Asking("required"), Clients("required")}
Tls(mode, clients) ==
    [mode |-> mode, cert |-> {}, key |-> {}, hostnames |-> {}, reads |-> TRUE, clients |-> clients]
SomeTls == {Tls(mode, clients) : mode \in {"off", "self-signed"}, clients \in SomeClients}

Public == [scheme |-> "https", local |-> FALSE, more |-> {}]
Oidc(audience) ==
    [issuer |-> Public, clientId |-> "client", clientAuth |-> {}, scopes |-> {}, apiAudience |-> audience]
Audiences == {"mcp", "second", "client", "admin"}
Admins ==
    [enabled : {TRUE}, local : BOOLEAN, publicUrl : Optional({Public, [Public EXCEPT !.scheme = "http"]}), hosts : {{}},
     tls : Optional({Tls("off", Asking("required")), Tls("self-signed", Asking("required"))}),
     oidc : {{}} \cup {{Oidc(audience)} : audience \in Optional(Audiences)}, breakGlass : Optional({"digest"}),
     allowUnauthenticated : BOOLEAN]
MethodLists == {<<>>, <<"bearer">>, <<"key">>, <<"mtls">>, <<"mtls", "key">>, <<"bearer", "key">>,
                <<"bearer", "mtls">>, <<"bearer", "mtls", "key">>, <<"key", "key">>}
Auths ==
    [enabled : BOOLEAN, methods : Optional(MethodLists), require : Optional({"any", "all"}),
     issuer : Optional({"provider", "mcpdef"}), resource : {{"mcp"}}, jwks : Optional({"blank", "keys"}),
     jwksUri : {{}}, discovery : BOOLEAN, audiences : {{}, {"second"}}]
Off == CHOOSE auth \in Auths : ~auth.enabled /\ auth.methods = {} /\ auth.require = {} /\ auth.audiences = {"second"}
Behind == Optional({[cidrs |-> {"proxy"}], [cidrs |-> {}]})
Fronts == [tls : SomeTls, proxy : Behind, local : BOOLEAN]

\* What validate says of a gateway with these.
Gateway(front, auth, admin) ==
    [tls |-> front.tls, proxy |-> front.proxy, local |-> front.local, auth |-> auth, admin |-> admin]
Valid(gateway) ==
    /\ ListenerTlsProblems(gateway.tls, Set(gateway.proxy)) = {}
    /\ \A tls \in gateway.admin.tls : ListenerTlsProblems(tls, FALSE) = {}
    /\ \A proxy \in gateway.proxy : ProxyProblems(proxy, gateway.tls.clients) = {}
    /\ AuthMethodProblems(gateway.auth, gateway.tls.clients) = {} /\ BearerProblems(gateway.auth) = {}
    /\ AdminProblems(gateway) = {}

\* The guard of the admin listener, which asks for certificates over TLS only.
ConsoleOf(gateway) ==
    LET tls == AdminTls(gateway)  admin == gateway.admin IN
    [scheme |-> IF tls.mode = "off" THEN "http" ELSE "https", hosts |-> {}, listen |-> "127.0.0.1", publicUrl |-> {},
     certificates |-> IF tls.mode = "off" THEN "off" ELSE tls.clients.mode,
     oidc |-> Set(admin.oidc), breakGlass |-> Set(admin.breakGlass), local |-> admin.local,
     apiAudience |-> \E oidc \in admin.oidc : Set(oidc.apiAudience),
     certMap |-> [id \in {"cert"} |-> {"console:viewer"}]]
ConsoleRequests(gateway) ==
    [host : {[name |-> "localhost", dot |-> FALSE, port |-> 0]}, changes : {FALSE}, site : {{}}, origin : {{}},
     body : {"json"}, session : {[open |-> FALSE], [open |-> TRUE, who |-> "user", roles |-> {"console:viewer"}]},
     token : [kind : {"none", "break-glass"}],
     identity : {"no one"} \cup
                {"cert" : tls \in {t \in {AdminTls(gateway)} : t.mode # "off" /\ t.clients.mode # "off"}}]
Served(gateway, request) ==
    Console!Gate(Console!Viewer, Console!Envelope(ConsoleOf(gateway), request)).status = 200

\* A token of the provider's, for these audiences, and whether a listener takes it.
TokenFor(audiences) ==
    [form |-> "jwt", alg |-> "RS256", kid |-> "rsa", signedBy |-> "rsa",
     claims |-> [c \in {<<"exp">>, <<"iss">>, <<"aud">>, <<"sub">>} |->
                    CASE c = <<"exp">> -> Token!Num(4)
                      [] c = <<"aud">> -> Token!List([i \in DOMAIN audiences |-> Token!Str(<<audiences[i]>>)])
                      [] OTHER -> Token!Str(<<"a">>)]]
Opens(resource, audiences, token) ==
    Token!VerifyClaims([resource |-> <<resource>>, audiences |-> {<<a>> : a \in audiences}, issuer |-> <<"a">>,
                        keys |-> [k \in {"rsa"} |-> "RSA"],
                        model |-> [subject |-> <<"sub">>, roles |-> {}, map |-> {}]], token, 3).refused = "no"

\* An admin listener that runs signs someone in, and gives no role to a caller of
\* another machine's with no credential, unless it is told to; no token that the MCP
\* listener takes, and no ID token, is one that the admin API takes.
AdminListens(gateway) ==
    Valid(gateway) =>
        LET admin == gateway.admin
            bare(r) == r.token.kind = "none" /\ r.identity = "no one" /\ ~r.session.open
        IN /\ \E r \in ConsoleRequests(gateway) : Served(gateway, r)
           /\ ~admin.local /\ ~admin.allowUnauthenticated =>
                 \A r \in ConsoleRequests(gateway) : bare(r) => ~Served(gateway, r)
           /\ \A oidc \in admin.oidc : \A audience \in oidc.apiAudience :
                 /\ ~Opens(audience, {}, TokenFor(<<oidc.clientId>>))
                 /\ \A a, b \in {"mcp"} \cup gateway.auth.audiences :
                       Opens("mcp", gateway.auth.audiences, TokenFor(<<a, b>>)) =>
                          ~Opens(audience, {}, TokenFor(<<a, b>>))

McpListener(gateway) ==
    [clients |-> IF gateway.tls.clients.mode = "off" THEN Mcp!Unasked
                 ELSE [mode |-> gateway.tls.clients.mode, identity |-> "CN", domains |-> {}],
     proxy |-> {"proxy" : p \in gateway.proxy}, origins |-> {}]
Certificate == Mcp!Some([admitted |-> TRUE, subject |-> <<"x">>, names |-> <<>>])
McpRequests(gateway) ==
    LET handshake == {Mcp!None} \cup {Certificate : tls \in {gateway.tls} \cap {t \in {gateway.tls} : t.mode # "off"}} IN
    [peer : [addr : {"proxy", "elsewhere"}, presented : handshake], forwarded : {Mcp!None, Certificate},
     token : {Mcp!NoToken} \cup [kind : {"jwt", "key"}, who : {"p"}], origin : {[kind |-> "none", name |-> "-"]},
     permit : {TRUE}, reads : {200}]
Answered(gateway, request) ==
    Mcp!HandlePost(McpListener(gateway), AuthOf(gateway.auth), request).status = 200

\* What of the methods a request has: a certificate it presents or its proxy does.
HasOf(gateway, r) ==
    {CASE r.token.kind = "jwt" -> "bearer" [] r.token.kind = "key" -> "key" [] OTHER -> "none"}
    \cup {"mtls" : c \in {Certificate} \cap {IF r.peer.addr \in McpListener(gateway).proxy THEN r.forwarded
                                             ELSE r.peer.presented}}

\* An MCP listener with auth serves whom its methods name: some caller, none without
\* a credential of one of them, and of every one where it requires all.  One that
\* other machines reach in the clear serves the callers of auth or of its proxy's
\* certificates alone, or is warned of.
McpListens(gateway) ==
    Valid(gateway) =>
        LET auth == gateway.auth
            methods == {m \in Range(MethodsOf(auth)) : auth.enabled}
            served == {r \in McpRequests(gateway) : Answered(gateway, r)}
        IN /\ served # {}
           /\ \A r \in served :
                 /\ auth.enabled => HasOf(gateway, r) \cap methods # {}
                 /\ auth.enabled /\ auth.require = {"all"} => methods \subseteq HasOf(gateway, r)
                 /\ (gateway.tls.mode = "off" /\ ~gateway.local /\ ListenerWarnings(gateway) = {}) =>
                       HasOf(gateway, r) # {"none"}

-----------------------------------------------------------------------------
\* Rules, and the requests one is about: no read has arguments.
Patterns == {{}, {{}}, {{"p"}}, {{"p", "bad"}}}
Abouts ==
    {[d \in Dimensions |-> IF d = one THEN a ELSE IF d = two THEN b ELSE {}] :
        one, two \in Dimensions, a, b \in Patterns}
ArgEdits ==
    [path : BOOLEAN, ops : {{"set"}, {"set", "remove"}}, min : {{}}, max : {{}}]
    \cup [path : {TRUE}, ops : {{"clamp"}}, min : Optional({1, NaN}), max : Optional({0, 2})]
ResultEdits ==
    [ops : {{"redact"}}, what : {"secrets", "other"}, path : {"good"}, bytes : {1}]
    \cup [ops : {{"mask"}, {"remove"}, {}}, what : {"secrets"}, path : {"good", "bad", "any"}, bytes : {1}]
    \cup [ops : {{"truncate"}}, what : {"secrets"}, path : {"good"}, bytes : {0, 1}]
Predicates == [path : {"a"}, ops : {{}, {"equals"}, {"exists"}, {"glob", "exists"}}]
Rules ==
    [name : {"r"}, effect : {"allow", "deny", "transform", "dny"}, setArgs : {{}}, result : {{}},
     onError : Optional({"skip", "other"}), about : Abouts, args : Optional(Predicates)]
    \cup [name : {"r", "blank"}, effect : {"transform", "deny"}, setArgs : Optional(ArgEdits), result : Optional(ResultEdits),
          onError : {{}, {"deny"}}, args : {{}},
          about : {[d \in Dimensions |-> IF d = "tools" THEN {{"p"}} ELSE {}]}]

\* The engine's rule of a configured one, for one name "n" and one set of arguments.
EngineRule(rule) ==
    LET made == RuleOf(rule)
        compiled(globs) == {{{"n"} : p \in pats \cap {"p"}} : pats \in globs}
        about == [tool |-> made.about["tools"], resource |-> made.about["uris"], prompt |-> made.about["prompts"]]
    IN [about |-> [k \in DOMAIN about |-> compiled(about[k])], agents |-> compiled(made.about["agents"]),
        servers |-> compiled(made.about["servers"]), args |-> {{"arguments"} : a \in made.args}]
Contexts == [target : [kind : {"tool", "resource", "prompt"}, name : {"n"}], agent : {"n"}, server : {"n"}, args : {"arguments"}]
Judged(context) == IF context.target.kind = "resource" THEN [context EXCEPT !.args = "none"] ELSE context

\* A rule that is not refused is one that some request is judged by, and the engine
\* has all of it: its effect, its edits and its predicates.
RuleHolds(rule) ==
    RuleProblems(rule) = {} =>
        LET made == RuleOf(rule) IN
        /\ \E context \in Contexts : Policy!RuleMatches(EngineRule(rule), Judged(context))
        /\ made.effect = rule.effect /\ made.edits = rule.setArgs /\ made.results = rule.result
        /\ Cardinality(made.args) = Cardinality(rule.args)
        /\ \A predicate \in rule.args : \E a \in made.args : a.op = predicate.ops

\* A limit that is not refused lets a call through, and one more after it.
Scopes == [perSec : Optional({NaN, -1, 0, 1, 10, 20}), burst : Optional({NaN, 0, 5, 10})]
RateHolds(scope) ==
    RateProblems(scope) = {} =>
        \A bucket \in RateSettings(scope) : bucket.refill > 0 /\ bucket.capacity >= Tenths

-----------------------------------------------------------------------------
\* Servers: two, with the same profile or others, each kind of list and of name.
Web(local) == [scheme |-> "http", local |-> local, more |-> {}]
NoTls == [roots |-> {}, ca |-> {}, cert |-> {}, key |-> {}, connectTo |-> {}, skip |-> {}, pins |-> {}]
Plain(id) ==
    [id |-> id, transport |-> "sse", url |-> {Public}, command |-> FALSE, wasm |-> FALSE, maxInflight |-> {},
     tools |-> {{{<<"t">>}}}, deny |-> {}, profile |-> {}, resources |-> {}, prompts |-> {}, prefix |-> {},
     auth |-> {}, tls |-> {}]
Servers ==
    {[more EXCEPT !.id = id, !.tools = tools, !.prefix = prefix] :
        id \in {"a", "b"}, tools \in Optional({{{<<"t">>}}, {{<<"t">>, <<"b", "t">>}}, {{<<"b", "t">>}, {<<"t">>}}}),
        prefix \in Optional({<<"a">>, <<"a", "b">>}),
        more \in {Plain("a"), [Plain("a") EXCEPT !.deny = {{<<"t">>}}]}
                 \cup {[Plain("a") EXCEPT !.profile = {p}] : p \in {"p", "q"}}}
    \cup {[Plain("b") EXCEPT !.resources = resources, !.prompts = prompts] :
             resources \in Optional({{{"x", "y"}}, {{"y", "z"}, {"v"}}}), prompts \in Optional({{{"x"}}, {{"x", "z"}}})}
    \cup {[Plain("b") EXCEPT !.url = {url}, !.auth = auth] :
             url \in {Public, Web(TRUE), Web(FALSE)},
             auth \in Optional({[kind |-> "bearer", given |-> [f \in {"token"} |-> "elsewhere"]]})}
    \cup {[Plain("a") EXCEPT !.resources = {{{"y"}, {"w"}}}, !.prompts = {{{"x"}, {"y"}}}, !.tools = {{}}]}
Profiles == [n \in {"p"} |-> [tools |-> {{{<<"t">>, <<"b", "t">>}}}, deny |-> {{<<"b", "t">>}}]]
Settingses == [prefixed : {{TRUE}, {FALSE}}, profile : Optional({"p"}), strict : BOOLEAN]
ConfigOf(servers, settings) ==
    [servers |-> servers, roles |-> {}, profiles |-> Profiles, profile |-> settings.profile, prefixed |-> settings.prefixed,
     strict |-> settings.strict, tls |-> NoTls]
ToolNames == {<<"t">>, <<"b", "t">>}

\* What a configuration that passes a strict check exposes is each from one server: a
\* URI, a prompt, and a tool, as it is listed, that its server's allowlist names
\* outright; and a credential is sent in the clear to this machine alone.  Whether it
\* is strict or not, nothing that its server, its profile or the gateway's denies is
\* exposed, nor what its server's own allowlist leaves out.
ServersHold(servers, settings) ==
    LET config == ConfigOf(servers, settings)
        policy == ToPolicy(config)
        ids    == Ids(config)
        S(id)  == ServerOf(config, id)
        Exposes(id, tool) == Policy!DecideTool(policy, id, tool) = Policy!Allow
        Names(id, tool)   == \E globs \in policy.servers[id].allow : {tool} \in globs
        strictly == Check(config, FALSE).errors = {} /\ settings.strict
    IN ServersProblems(config) = {} =>
        /\ \A id \in ids : \A tool \in ToolNames : Exposes(id, tool) =>
              /\ \A tools \in S(id).tools : tool \in UNION tools
              /\ \A glob \in S(id).deny \cup UNION {Profiles[p].deny : p \in S(id).profile \cup settings.profile} :
                    tool \notin glob
        /\ strictly =>
              /\ \A s \in Range(servers) : Set(s.auth) => \A url \in s.url : url.scheme = "https" \/ url.local
              /\ \A a, b \in ids : a # b =>
                    /\ UNION policy.resources[a].uris \cap UNION policy.resources[b].uris = {}
                    /\ UNION policy.prompts[a] \cap UNION policy.prompts[b] = {}
                    /\ \A x, y \in ToolNames :
                          (Exposes(a, x) /\ Names(a, x) /\ Exposes(b, y) /\ Names(b, y)) =>
                              Policy!ListedName(policy, a, x) # Policy!ListedName(policy, b, y)

\* What a server's connections trust, and show, over TLS: one table's certificate and
\* key, and neither every certificate nor one key but by its own table's word.
Profile(pins, skips) ==
    [roots : Optional({"system"}), ca : Optional({{"ca"}}), cert : Optional({"own", "missing"}), key : Optional({"own"}),
     connectTo : {{}}, skip : skips, pins : pins]
Owns == Profile(Optional({{}, {"pin"}}), Optional(BOOLEAN))
Unders == {[t EXCEPT !.cert = {"gateway" : c \in t.cert}, !.key = {"gateway" : k \in t.key}] :
              t \in Profile(Optional({{"pin"}}), Optional({TRUE}))}
TlsHolds(own, under) ==
    LET server == [Plain("a") EXCEPT !.tls = own]
        config == [ConfigOf(<<server>>, CHOOSE s \in Settingses : TRUE) EXCEPT !.tls = under]
        made   == UpstreamTls(config, server)
        whole(tls) == Set(tls.cert) /\ Set(tls.key)
    IN TlsProblems(config) = {} =>
        /\ \A identity \in made.identity : identity.cert = identity.key
        /\ Set(made.identity) <=> whole(under) \/ \E tls \in own : whole(tls)
        /\ (\E tls \in own : whole(tls)) => \A identity \in made.identity : identity.cert = "own"
        /\ ~(made.skip /\ made.pins # {})
        /\ made.skip => \E tls \in own : tls.skip = {TRUE}
        /\ (\E tls \in own : Set(tls.pins)) => made.pins # {}

\* The resource of a URL, its pieces as the URL's readers part them, is that URL with
\* no user info, no query and no fragment.
Users == {<<>>} \cup {user \o <<"@">> : user \in {<<>>, <<"u">>, <<"u", ":", "p">>, <<"u", "@", "u">>, <<"@">>}}
UrlParts ==
    [user : Users, path : {<<>>, <<"/">>, <<"/", "@", "p">>, <<"\\", "@">>, <<"/", "://", "p">>},
     query : {<<>>, <<"?", "q", "@">>, <<"?", "/">>}, fragment : {<<>>, <<"#", "f">>, <<"#", "?", "@">>}]
ResourceHolds(url) ==
    ResourceOf(<<"https", "://">> \o url.user \o <<"host">> \o url.path \o url.query \o url.fragment)
        = <<"https", "://", "host">> \o url.path

\* A grant is of the server its text names before the first colon: no URI is one, and
\* one of a name alone is of any server.
GrantHolds(text) ==
    LET grant == ResourceGrant(text)  name == NameGrant(text) IN
    /\ grant # NoGrant => /\ grant[1] # <<>> /\ ":" \notin Range(grant[1])
                          /\ grant[1] \o <<":">> \o grant[2] = text
                          /\ ~IsPrefix(<<"/", "/">>, grant[2])
    /\ ":" \in Range(text) /\ text[1] # ":" /\ ~(\E i \in 1 .. Len(text) - 2 : SubSeq(text, i, i + 2) = <<":", "/", "/">>) =>
          grant # NoGrant
    /\ ":" \notin Range(text) => grant = NoGrant /\ name = <<<<"*">>, text>>

-----------------------------------------------------------------------------
QuietAdmin == CHOOSE admin \in Admins : admin.local /\ admin.oidc = {} /\ admin.publicUrl = {} /\ admin.tls = {}

\* The console's sign-in merged into files that set some of it, or read the tokens of
\* the MCP listener's callers by it.
Site(slash) == [scheme |-> "https", local |-> FALSE, more |-> {}, slash |-> slash]
Elsewhere == [Site(FALSE) EXCEPT !.local = TRUE]
OwnRole == [claim |-> <<"groups">>, value |-> "mcpdef-admins", roles |-> {"mine"}]
SsoFiles ==
    [gateway : {Gateway(front, auth, [admin EXCEPT !.local = local, !.publicUrl = url, !.oidc = oidc]) :
                   front \in {CHOOSE f \in Fronts : f.tls.mode = "off" /\ f.proxy = {}}, auth \in {Off, [Off EXCEPT !.enabled = TRUE]},
                   admin \in {QuietAdmin}, local \in BOOLEAN, url \in Optional({Site(FALSE)}),
                   oidc \in Optional({Oidc({})})},
     identity : [subject : Optional({<<"sub">>, <<"oid">>, <<"preferred_username">>, <<"">>}),
                 roles : Optional({{}, {<<"roles">>}, {<<"resource_access", "client", "roles">>}}),
                 roleMap : {{}, {OwnRole}, Groups}, certMap : {{}}]]
Providers == {"keycloak", "entra", "okta", "google", "generic"}
SsoInits ==
    [provider : Providers, clientId : {"client"}, issuer : Optional({Public, [Public EXCEPT !.scheme = "http"]}),
     publicUrl : Optional({Site(TRUE), Elsewhere})]

\* The claims of someone of a console role, once a provider is set up as `sso init`
\* says: a domain of Google's is of viewers.
Named(claim) == (<<claim>> :> Token!Str(<<"p">>))
Holding(claim, value) == (<<claim>> :> Token!List(<<Token!Str(value)>>))
Inside(name, value) == Token!Obj(<<name>> :> value)
PersonOf(provider, role) ==
    LET rank == CHOOSE i \in 1 .. 3 : <<"console:viewer", "console:operator", "console:admin">>[i] = role
        group == Holding("groups", <<"mcpdef-viewers", "mcpdef-operators", "mcpdef-admins">>[rank])
    IN CASE provider = "keycloak" ->
                {Named("preferred_username")
                    @@ (<<"resource_access">> :> Inside("client", Inside("roles", Token!List(<<Token!Str(role)>>))))}
         [] provider = "entra" ->
                {Named("oid") @@ Holding("roles", <<"MCPdef.Viewer", "MCPdef.Operator", "MCPdef.Admin">>[rank])}
         [] provider = "google" ->
                {Named("email") @@ (<<"hd">> :> Token!Str("example.com")) : r \in {role} \cap {"console:viewer"}}
         [] provider = "generic" -> {Named("sub") @@ group, Named("sub") @@ Holding("roles", role)}
         [] OTHER -> {Named("preferred_username") @@ group}
\* Callers of the MCP listener, each claim of which says something else.
Callers ==
    {[c \in {<<name>> : name \in {"sub", "oid", "preferred_username", "email"}} |-> Token!Str(c)] @@ more :
        more \in {<<>>, Holding("roles", "reader"), Holding("groups", "mcpdef-admins"), <<"hd">> :> Token!Str("example.com")}}

\* What is merged leaves all the file sets as it is, is the provider it was asked for
\* and never in another's place, names whoever the provider is set up for, with their
\* role, and names no caller of the MCP listener otherwise nor takes or gives them a
\* role but the console's.
SsoHolds(file, init) ==
    \A after \in MergedSso(file, init) :
        LET model == ModelOf(after.identity)  was == ModelOf(file.identity) IN
        /\ file.identity.subject \subseteq after.identity.subject
        /\ file.identity.roles \subseteq after.identity.roles /\ file.identity.roleMap \subseteq after.identity.roleMap
        /\ file.gateway.admin.publicUrl \subseteq after.gateway.admin.publicUrl
        /\ \A url \in after.gateway.admin.publicUrl, given \in init.publicUrl : SameUrl(url, given)
        /\ file.gateway.admin.oidc = {} /\ MergedSso(after, init) = {}
        /\ \E oidc \in after.gateway.admin.oidc : {oidc.issuer} = init.issuer /\ oidc.clientId = init.clientId
        /\ Valid(file.gateway) => Valid(after.gateway)
        /\ \A role \in ConsoleRoles : \A person \in PersonOf(init.provider, role) :
              /\ role \in Token!RolesOf(model, person)
              /\ init.provider # "generic" => Token!Subject(model, person) # Token!NoSubject
        /\ file.gateway.auth.enabled => \A caller \in Callers :
              /\ Token!Subject(model, caller) = Token!Subject(was, caller)
              /\ Token!RolesOf(was, caller) \subseteq Token!RolesOf(model, caller)
              /\ Token!RolesOf(model, caller) \ Token!RolesOf(was, caller) \subseteq ConsoleRoles

-----------------------------------------------------------------------------
\* A gateway that clients reach without a proxy, and each way to ask for an entry.
Reached ==
    {[front |-> front, auth |-> auth] :
        front \in {f \in Fronts : f.proxy = {} /\ f.local}, auth \in {a \in Auths : a.issuer = {"provider"} /\ a.jwks = {"keys"}}}
Openings == {g \in Reached : Valid(Gateway(g.front, g.auth, QuietAdmin))}
Apps == {"claude-code", "claude-desktop", "cursor", "vscode", "codex", "generic"}
Asks == [name : {"mcpdef"}, tokenEnv : Optional({<<"TOKEN">>}), tokenFile : Optional({<<"token">>}), cert : Optional({"cert"}), key : Optional({"key"})]

\* Whether the gateway serves what a client sends, of a token it has in its entry or by
\* signing in, whichever kind that token is of.
Reaches(gateway, sent, hasToken) ==
    /\ sent.https <=> gateway.tls.mode # "off"
    /\ sent.way = "bridge" /\ gateway.tls.mode = "self-signed" => Set(sent.ca)
    /\ \E token \in IF hasToken THEN [kind : {"jwt", "key"}, who : {"p"}] ELSE {Mcp!NoToken} :
          Answered(gateway, [peer |-> [addr |-> "elsewhere", presented |-> IF sent.https /\ Set(sent.pair) THEN Certificate ELSE Mcp!None],
                             forwarded |-> Mcp!None, token |-> token, origin |-> [kind |-> "none", name |-> "-"],
                             permit |-> TRUE, reads |-> 200])

\* The entry a client gets for a gateway is one that gateway serves: always when a
\* token, a certificate and its key were given; and where a client sends its token
\* itself, whenever nothing was warned of, unless the methods of auth need more than
\* a token or take none that it has.
EntryServes(gateway, app, ask) ==
    LET made == EntryFor(app, TargetOf(gateway), ask)
        all  == Set(ask.cert) /\ Set(ask.key) /\ Set(ask.tokenFile)
        auth == gateway.auth
    IN /\ all => made # {}
       /\ \A entry \in made : \A sent \in entry.server \cup entry.command :
             /\ all => Reaches(gateway, sent, TRUE)
             /\ /\ ~entry.warned /\ sent.way = "http"
                /\ auth.enabled => /\ Takes(auth, "bearer") \/ (Takes(auth, "key") /\ Set(sent.token))
                                   /\ auth.require # {"all"} \/ ~Takes(auth, "mtls")
                => Reaches(gateway, sent, Set(sent.token) \/ entry.signsIn)

\* Clients' own files, with servers and inputs of theirs or an older entry's.
Entries ==
    UNION {EntryFor(app, [https |-> TRUE, ca |-> {"self-signed"}, signIn |-> TRUE, certificate |-> FALSE], ask) :
              app \in Apps, ask \in {a \in Asks : a.tokenFile = {} /\ a.cert = a.key}}
FileInputs == [id : Optional({InputId("mcpdef"), InputId("own")}), secret : BOOLEAN]
ClientFiles ==
    {[EmptyDoc EXCEPT !.is = is] : is \in {"absent", "blank", "other"}}
    \cup [is : {"document"},
          servers : {NoServers, [NoServers EXCEPT !.is = "other"]}
                    \cup {[is |-> "map", at |-> [n \in names |-> [way |-> "own"]]] : names \in SUBSET {"mcpdef", "own"}},
          inputs : {NoInputs, [NoInputs EXCEPT !.is = "other"]}
                   \cup [is : {"list"}, list : UNION {[1 .. n -> FileInputs] : n \in 0 .. 2}]]

\* What is written holds the entry and the input it refers to, once, and all else that
\* was there in its order; a second time nothing is, and what was there before the
\* first is aside still; and whatever fails, it is in one of the two files.
EntryIsMerged(entry, file) ==
    LET Written(of, fails) == WriteEntry(entry, of, fails)
        disk   == [file |-> file, backup |-> EmptyDoc]
        done   == Written(disk, "none")
        own    == {input.id : input \in Range(entry.inputs)}
        OthersOf(f) == SelectSeq(f.inputs.list, LAMBDA input : input.id \notin own)
    IN /\ done.said = "refused" => done.file = file
       /\ done.said # "refused" =>
             /\ Written(done, "none") = [done EXCEPT !.said = "unchanged"]
             /\ (entry.toml /\ file.servers.is = "other") \/ {done.file.servers.at[entry.name]} = entry.server
             /\ \A name \in DOMAIN file.servers.at \ {entry.name} : done.file.servers.at[name] = file.servers.at[name]
             /\ OthersOf(done.file) = OthersOf(file)
             /\ \A id \in own : SelectSeq(done.file.inputs.list, LAMBDA input : input.id = id) = entry.inputs
             /\ ~entry.toml => \A server \in entry.server : server.token \in {{}, {<<"TOKEN">>}} \cup own
       /\ done.said = "updated" => done.backup = file
       /\ file.is # "absent" =>
             \A fails \in {"none", "backup", "file"} : LET left == Written(disk, fails) IN file \in {left.file, left.backup}

-----------------------------------------------------------------------------
Pieces ==
    [admin   |-> <<[front : Fronts, auth : {Off}], 1, Admins, 1>>,
     auth    |-> <<Fronts, 1, Auths, 1>>,
     rule    |-> <<Rules, 1, {}, 0>>,
     rate    |-> <<Scopes, 1, {}, 0>>,
     servers |-> <<Servers, 2, Settingses, 1>>,
     tls     |-> <<Owns, 1, Unders, 1>>,
     sso      |-> <<SsoFiles, 1, SsoInits, 1>>,
     client  |-> <<Openings, 1, Apps \X Asks, 1>>,
     entry   |-> <<Entries, 1, ClientFiles, 1>>,
     resource |-> <<UrlParts, 1, {}, 0>>,
     grant   |-> <<{"s", ":", "/", "*"}, 5, {}, 0>>]

\* A configuration that is not refused does what it says.
ConfigsHold(kind, left, right) ==
    LET both == left # <<>> /\ right # <<>> IN
    /\ kind = "admin" /\ both => AdminListens(Gateway(left[1].front, left[1].auth, right[1]))
    /\ kind = "auth" /\ both => McpListens(Gateway(left[1], right[1], QuietAdmin))
    /\ kind = "rule" /\ left # <<>> => RuleHolds(left[1])
    /\ kind = "rate" /\ left # <<>> => RateHolds(left[1])
    /\ kind = "servers" /\ Len(left) = 2 /\ right # <<>> => ServersHold(left, right[1])
    /\ kind = "sso" /\ both => SsoHolds(left[1], right[1])
    /\ kind = "tls" /\ both => TlsHolds({left[1]}, right[1])
    /\ kind = "client" /\ both => EntryServes(Gateway(left[1].front, left[1].auth, QuietAdmin), right[1][1], right[1][2])
    /\ kind = "entry" /\ both => EntryIsMerged(left[1], right[1])
    /\ kind = "resource" /\ left # <<>> => ResourceHolds(left[1])
    /\ kind = "grant" /\ left # <<>> => GrantHolds(left)
================================================================================
