------------------------------ MODULE ConfigRules ------------------------------
(***************************************************************************)
(* What a configuration is refused for, and what the gateway makes of one  *)
(* that is not (config.rs validate and what it calls, and the assembly of  *)
(* main.rs), what `sso init` merges into one, and what `connect` gives a   *)
(* client of one; and what it says of its upstream servers: the connection *)
(* each gets, and the allowlists and roles the gateway judges by.  A table *)
(* is a record, a key that may be unset a set of at most one value, and    *)
(* the problems of a table are the names of the checks it fails.  Whether  *)
(* a file reads as it should is given.                                     *)
(***************************************************************************)
EXTENDS Integers, Sequences, FiniteSets, SequencesExt

Policy == INSTANCE GatewayPolicy

Found(checks) == {problem \in DOMAIN checks : checks[problem]}
Set(key) == key # {}
TheOne(key) == CHOOSE value \in key : TRUE
Or(key, otherwise) == IF key = {} THEN otherwise ELSE TheOne(key)

-----------------------------------------------------------------------------
(***************************************************************************)
(* The listeners' TLS, and the proxy in front of one.                      *)
(***************************************************************************)

ClientAuthProblems(t, tlsOn, proxied) ==
    IF t.mode = "off" THEN Found([unused |-> Set(t.ca) \/ Set(t.crl) \/ Set(t.identity) \/ Set(t.domains)])
    ELSE Found([tls     |-> ~tlsOn /\ ~proxied,
                ca      |-> ~Set(t.ca),
                files   |-> Set(t.ca) /\ ~t.reads,
                names   |-> ~Set(t.identity),
                domains |-> IF t.identity = {"spiffe"} THEN ~Set(t.domains) \/ "bad" \in t.domains
                            ELSE Set(t.identity) /\ Set(t.domains)])

ListenerTlsProblems(t, proxied) ==
    Found([unused    |-> t.mode # "files" /\ (Set(t.cert) \/ Set(t.key)),
           hostnames |-> Set(t.hostnames) /\ t.mode # "self-signed",
           hostname  |-> t.mode = "self-signed" /\ "bad" \in t.hostnames,
           pair      |-> t.mode = "files" /\ ~(Set(t.cert) /\ Set(t.key)),
           files     |-> t.mode = "files" /\ Set(t.cert) /\ Set(t.key) /\ ~t.reads])
    \cup ClientAuthProblems(t.clients, t.mode # "off", proxied)

ProxyProblems(proxy, clients) ==
    Found([cidrs |-> ~Set(proxy.cidrs), cidr |-> "bad" \in proxy.cidrs, clients |-> clients.mode = "off"])

\* exposed_in_the_clear and trusts_every_address: the warnings of the MCP listener.
Proxied(gateway) == Set(gateway.proxy) /\ gateway.tls.clients.mode = "required"
ListenerWarnings(gateway) ==
    Found([exposed |-> ~(gateway.tls.mode # "off" \/ Proxied(gateway) \/ gateway.auth.enabled \/ gateway.local),
           everyone |-> \E proxy \in gateway.proxy : "every" \in proxy.cidrs])

-----------------------------------------------------------------------------
(***************************************************************************)
(* [gateway.auth], and what of it the listener asks for.  A text that may  *)
(* be blank is "blank" or a name.                                          *)
(***************************************************************************)

Blank(key) == key \subseteq {"blank"}
MethodsOf(auth) == Or(auth.methods, <<"bearer">>)
Takes(auth, method) == method \in Range(MethodsOf(auth))

\* A request carries one bearer token: it is no key as well.
AuthMethodProblems(auth, clients) ==
    IF ~auth.enabled THEN Found([off |-> Set(auth.methods) \/ Set(auth.require)])
    ELSE Found([none  |-> MethodsOf(auth) = <<>>,
                twice |-> ~IsInjective(MethodsOf(auth)),
                mtls  |-> Takes(auth, "mtls") /\ clients.mode = "off",
                both  |-> auth.require = {"all"} /\ Takes(auth, "bearer") /\ Takes(auth, "key"),
                issuer |-> auth.issuer = {"mcpdef"}])

BearerProblems(auth) ==
    IF ~(auth.enabled /\ Takes(auth, "bearer")) THEN {}
    ELSE Found([issuer   |-> Blank(auth.issuer),
                resource |-> Blank(auth.resource),
                keys     |-> Blank(auth.jwks) /\ Blank(auth.jwksUri) /\ ~auth.discovery,
                twice    |-> auth.discovery /\ ~(Blank(auth.jwks) /\ Blank(auth.jwksUri)),
                audience |-> "blank" \in auth.audiences])

\* build_verifier: what each request to the MCP listener is asked for.
AuthOf(auth) ==
    LET certificate == auth.enabled /\ (Takes(auth, "mtls") \/ ~(Takes(auth, "bearer") \/ Takes(auth, "key"))) IN
    [bearer |-> auth.enabled /\ Takes(auth, "bearer"), keys |-> auth.enabled /\ Takes(auth, "key"),
     certificate |-> certificate, all |-> certificate /\ Takes(auth, "mtls") /\ auth.require = {"all"}]

-----------------------------------------------------------------------------
(***************************************************************************)
(* [gateway.admin].  A URL is its scheme, whether its host is this         *)
(* machine, and what besides an origin it has.                             *)
(***************************************************************************)

WebOrLocal(url) == url.scheme = "https" \/ (url.scheme = "http" /\ url.local)
IssuerBad(url) == ~WebOrLocal(url) \/ url.more \cap {"credentials", "query"} # {}
PublicUrlBad(url) == ~WebOrLocal(url) \/ url.more # {}

AdminTls(gateway) == Or(gateway.admin.tls, gateway.tls)

\* Mutant: what the proxy's clients are asked for is taken for the admin listener's.
AdminRequiresAny(gateway) == AdminTls(gateway).clients.mode = "required"

AdminRequiresCertificates(gateway) ==
    AdminTls(gateway).mode # "off" /\ AdminTls(gateway).clients.mode = "required"

AdminSignsIn(gateway) ==
    AdminRequiresCertificates(gateway) \/ Set(gateway.admin.oidc) \/ Set(gateway.admin.breakGlass)

AdminProblems(gateway) ==
    LET admin == gateway.admin IN
    Found([publicUrl |-> \E url \in admin.publicUrl : PublicUrlBad(url),
           hosts     |-> "bad" \in admin.hosts,
           open      |-> admin.enabled /\ ~admin.local /\ ~AdminSignsIn(gateway) /\ ~admin.allowUnauthenticated,
           digest    |-> admin.breakGlass = {"bad"}])
    \cup UNION {
        Found([origin   |-> ~Set(admin.publicUrl),
               provider |-> IssuerBad(oidc.issuer),
               client   |-> oidc.clientId = "blank",
               how      |-> oidc.clientAuth = {"bad"},
               scopes   |-> "bad" \in UNION oidc.scopes,
               audience |-> \E audience \in oidc.apiAudience :
                               \/ audience = "blank" \/ {audience} = gateway.auth.resource
                               \/ audience = oidc.clientId \/ audience \in gateway.auth.audiences]) :
        oidc \in admin.oidc}

-----------------------------------------------------------------------------
(***************************************************************************)
(* Who holds which role, and what a role's grants of resources say.        *)
(***************************************************************************)

ConsoleRoles == {"console:viewer", "console:operator", "console:admin"}
Misnamed(roles) == roles \cap {"blank", "console:other"} # {} \/ roles = {}

\* A claim is a path, the names between its dots.
ClaimBad(claim) == "" \in Range(claim)
IdentityProblems(identity) ==
    Found([claim |-> \E claim \in identity.subject \cup UNION identity.roles \cup {m.claim : m \in identity.roleMap} :
                        ClaimBad(claim),
           value |-> \E m \in identity.roleMap : m.value = "blank",
           certificate |-> \E m \in identity.certMap : m.identity = "blank",
           roles |-> \E m \in identity.roleMap \cup identity.certMap : Misnamed(m.roles)])

\* What each key of a sequence of them fails.
KeyProblems(keys) ==
    Found([name   |-> \E i \in DOMAIN keys : keys[i].name = "bad",
           twice  |-> \E i, j \in DOMAIN keys : i < j /\ keys[i].name = keys[j].name /\ keys[i].name # "bad",
           digest |-> \E i \in DOMAIN keys : ~keys[i].digest,
           roles  |-> \E i \in DOMAIN keys : keys[i].roles = {}])

\* cert_roles_undefined and keys_unread.
RoleWarnings(identity, keys, defined, auth) ==
    LET mapped == UNION {m.roles : m \in identity.roleMap \cup identity.certMap} \ (ConsoleRoles \cup {"console:other"})
        held   == UNION {keys[i].roles : i \in DOMAIN keys}
    IN Found([undefined |-> ~((mapped \cup held) \ {"blank"} \subseteq defined),
              unread    |-> keys # <<>> /\ ~(auth.enabled /\ Takes(auth, "key"))])

\* resource_grant, of a text: a server and a pattern apart at its first colon.
Colons(text) == {i \in DOMAIN text : text[i] = ":"}
NoGrant == <<>>
ResourceGrant(text) ==
    LET at == CHOOSE i \in Colons(text) : \A j \in Colons(text) : i <= j
        uri == SubSeq(text, at + 1, Len(text))
    IN IF Colons(text) = {} \/ at = 1 \/ IsPrefix(<<"/", "/">>, uri) THEN NoGrant
       ELSE <<SubSeq(text, 1, at - 1), uri>>

-----------------------------------------------------------------------------
(***************************************************************************)
(* `mcpdef sso init --write` (sso.rs): the console's sign-in by a provider *)
(* merged into a file, of which `file` is what matters to it.  The roles   *)
(* of a provider's groups or app roles are its entries of [identity]       *)
(* role_map.                                                               *)
(***************************************************************************)

\* IdentityConfig::model.
ModelOf(identity) ==
    [subject |-> Or(identity.subject, <<"sub">>), roles |-> Or(identity.roles, {<<"roles">>}), map |-> identity.roleMap]

\* groups, and the same of Entra's app roles.
Mapped(claim, values) ==
    {[claim |-> <<claim>>, value |-> values[i],
      roles |-> {<<"console:viewer", "console:operator", "console:admin">>[i]}] : i \in DOMAIN values}
Groups == Mapped("groups", <<"mcpdef-viewers", "mcpdef-operators", "mcpdef-admins">>)

\* Init::identity.
IdentityOf(provider, clientId) ==
    LET named(subject, roles, map) == [subject |-> subject, roles |-> {roles}, roleMap |-> map] IN
    CASE provider = "keycloak" -> named({<<"preferred_username">>}, {<<"resource_access", clientId, "roles">>}, {})
      [] provider = "entra" ->
             named({<<"oid">>}, {}, Mapped("roles", <<"MCPdef.Viewer", "MCPdef.Operator", "MCPdef.Admin">>))
      [] provider = "google" -> named({<<"email">>}, {}, Mapped("hd", <<"example.com">>))
      [] provider = "generic" -> named({}, {<<"roles">>}, Groups)
      [] OTHER -> named({<<"preferred_username">>}, {}, Groups)    \* okta, authentik, saml-broker

\* A URL's slash at its end apart from it.
SameUrl(a, b) == \A field \in DOMAIN a \ {"slash"} : a[field] = b[field]

\* Init::config, in the file's tables: what the file sets stays.
Merging(file, init) ==
    LET wanted == IdentityOf(init.provider, init.clientId)
        kept(set, given) == IF Set(set) THEN set ELSE given
    IN [file EXCEPT
          !.gateway.admin.publicUrl = kept(@, init.publicUrl),
          !.gateway.admin.oidc = {[issuer |-> issuer, clientId |-> init.clientId, clientAuth |-> {},
                                   scopes |-> {{"profile"}}, apiAudience |-> {}] : issuer \in init.issuer},
          !.identity.subject = kept(@, wanted.subject),
          !.identity.roles = kept(@, wanted.roles),
          !.identity.roleMap = @ \cup wanted.roleMap]

SsoProblems(file) == AdminProblems(file.gateway) \cup IdentityProblems(file.identity)

\* merged: {} when refused, the file left as it is.
MergedSso(file, init) ==
    LET wanted == IdentityOf(init.provider, init.clientId)
        after  == Merging(file, init)
        was    == ModelOf(file.identity)
        now    == ModelOf(after.identity)
        disagree(set, given) == Set(set) /\ Set(given) /\ set # given
        refused ==
            \/ ~Set(init.issuer)
            \/ Set(file.gateway.admin.oidc)
            \/ \E set \in file.gateway.admin.publicUrl, given \in init.publicUrl : ~SameUrl(set, given)
            \/ ~Set(file.gateway.admin.publicUrl) /\ ~Set(init.publicUrl)
            \/ disagree(file.identity.subject, wanted.subject)
            \/ disagree(file.identity.roles, wanted.roles)
            \/ SsoProblems(after) \ SsoProblems(file) # {}
            \/ file.gateway.auth.enabled /\ <<was.subject, was.roles>> # <<now.subject, now.roles>>
    IN IF refused THEN {} ELSE {after}

-----------------------------------------------------------------------------
(***************************************************************************)
(* [gateway.rate_limit], in tenths: a rate or burst may be no number.      *)
(***************************************************************************)

NaN == -100
Tenths == 10

\* A burst that is unset is the rate, which is then to be one too.
RateProblems(scope) ==
    Found([rate  |-> \E rate \in scope.perSec : rate <= 0,
           burst |-> \E burst \in scope.burst : burst < Tenths,
           small |-> ~Set(scope.burst) /\ \E rate \in scope.perSec : rate # NaN /\ rate < Tenths])

\* rate_limit_settings: what a bucket gains in a second, and the most it holds.
RateSettings(scope) == {[refill |-> rate, capacity |-> Or(scope.burst, rate)] : rate \in scope.perSec}

-----------------------------------------------------------------------------
(***************************************************************************)
(* [[policy]].  A rule is about tools, uris and prompts, each a list or    *)
(* unset; its edits and predicates are the operators each names.           *)
(***************************************************************************)

IsOne(ops) == Cardinality(ops) = 1

\* to_arg_edit, to_result_edit, clamp's to_op: whether an entry is an edit.
IsArgEdit(edit) ==
    /\ edit.path /\ IsOne(edit.ops)
    /\ "clamp" \in edit.ops =>
          /\ Set(edit.min) \/ Set(edit.max)
          /\ NaN \notin edit.min \cup edit.max
          /\ \A min \in edit.min, max \in edit.max : min <= max
IsResultEdit(edit) ==
    /\ IsOne(edit.ops)
    /\ edit.ops = {"redact"} => edit.what = "secrets"
    /\ edit.ops = {"mask"} => edit.path # "bad"
    /\ edit.ops = {"remove"} => edit.path \notin {"bad", "any"}
    /\ edit.ops = {"truncate"} => edit.bytes > 0

\* to_arg_match: the first operator named, in this order.
ArgOps == <<"equals", "glob", "contains", "exists">>
ArgMatchOf(ops) ==
    LET named == {i \in DOMAIN ArgOps : ArgOps[i] \in ops}
    IN IF named = {} THEN {} ELSE {ArgOps[CHOOSE i \in named : \A j \in named : i <= j]}

Kinds == {"tools", "uris", "prompts"}
Dimensions == Kinds \cup {"agents", "servers"}
IsTransform(rule) == rule.effect = "transform"

\* What is wrong with a rule: one about reads has no arguments to match.
RuleProblems(rule) ==
    Found([name    |-> rule.name = "blank",
           effect  |-> rule.effect \notin {"allow", "deny", "transform"},
           nothing |-> IsTransform(rule) /\ ~Set(rule.setArgs) /\ ~Set(rule.result),
           reads   |-> IsTransform(rule) /\ Set(rule.about["uris"]) /\ Set(rule.setArgs),
           prompts |-> IsTransform(rule) /\ Set(rule.about["prompts"]),
           onError |-> IsTransform(rule) /\ ~(rule.onError \subseteq {"deny", "skip"}),
           keys    |-> ~IsTransform(rule) /\ (Set(rule.setArgs) \/ Set(rule.onError) \/ Set(rule.result)),
           edits   |-> \/ \E edit \in rule.setArgs : ~IsArgEdit(edit)
                       \/ \E edit \in rule.result : ~IsResultEdit(edit),
           empty   |-> \E d \in Dimensions : rule.about[d] = {{}},
           kinds   |-> \E a, b \in Kinds : a # b /\ Set(rule.about[a]) /\ Set(rule.about[b]),
           pattern |-> "bad" \in UNION rule.about["uris"],
           args    |-> \E predicate \in rule.args : ~IsOne(predicate.ops),
           arguments |-> Set(rule.about["uris"]) /\ Set(rule.args)])

\* policy_rules: what the engine is given of a rule, its entries that are none left out.
RuleOf(rule) ==
    [name    |-> rule.name,
     effect  |-> IF IsTransform(rule) THEN "transform" ELSE IF rule.effect = "deny" THEN "deny" ELSE "allow",
     edits   |-> IF IsTransform(rule) THEN {edit \in rule.setArgs : IsArgEdit(edit)} ELSE {},
     results |-> IF IsTransform(rule) THEN {edit \in rule.result : IsResultEdit(edit)} ELSE {},
     skips   |-> rule.onError = {"skip"},
     about   |-> rule.about,
     args    |-> {[path |-> predicate.path, op |-> ArgMatchOf(predicate.ops)] :
                     predicate \in {p \in rule.args : ArgMatchOf(p.ops) # {}}}]
-----------------------------------------------------------------------------
(***************************************************************************)
(* `connect`: the entry a client gets for a gateway, and the client's own  *)
(* file with that entry merged in.  A client runs a bridge, with what its  *)
(* command line names, or sends its token itself; a file is absent, blank, *)
(* a document, or text that is none, and a part of a document of another   *)
(* type than it should be is "other".                                      *)
(***************************************************************************)

TargetOf(gateway) ==
    [https |-> gateway.tls.mode # "off", ca |-> {gateway.tls.mode} \cap {"self-signed"},
     signIn |-> gateway.auth.enabled, certificate |-> gateway.tls.clients.mode = "required"]

Bridged(client, ask) == client = "claude-desktop" \/ Set(ask.cert)

BridgeArgs(target, ask) ==
    [way |-> "bridge", https |-> target.https, ca |-> target.ca, token |-> ask.tokenFile,
     pair |-> {<<cert, key>> : cert \in ask.cert, key \in ask.key}]

InputId(name) == <<name, "token">>

\* entry: {} when refused.  A generic client's is shown, and has no server to write.
EntryFor(client, target, ask) ==
    LET bridged == Bridged(client, ask)
        asksFor == {name \in {ask.name} : client = "vscode" /\ ~bridged /\ Set(ask.tokenEnv)}
        http == [way |-> "http", https |-> target.https, ca |-> {}, pair |-> {},
                 token |-> IF Set(asksFor) THEN {InputId(ask.name)} ELSE ask.tokenEnv]
        server == IF bridged THEN BridgeArgs(target, ask) ELSE http
        refused == \/ Set(ask.cert) # Set(ask.key)
                   \/ bridged /\ Set(ask.tokenEnv) /\ ~Set(ask.tokenFile)
                   \/ ~bridged /\ Set(ask.tokenFile) /\ ~Set(ask.tokenEnv)
        made == [name    |-> ask.name,
                 toml    |-> client = "codex",
                 server  |-> IF client = "generic" THEN {} ELSE {server},
                 inputs  |-> IF Set(asksFor) THEN <<[id |-> {InputId(ask.name)}, secret |-> TRUE]>> ELSE <<>>,
                 command |-> IF client = "generic" THEN {BridgeArgs(target, ask)} ELSE {},
                 signsIn |-> ~bridged /\ target.signIn /\ ~Set(ask.tokenEnv),
                 warned  |-> IF bridged THEN target.signIn /\ ~Set(ask.tokenFile) /\ ~Set(ask.cert)
                             ELSE target.certificate]
    IN IF refused THEN {} ELSE {made}

NoServers == [is |-> "none", at |-> <<>>]
NoInputs == [is |-> "none", list |-> <<>>]
EmptyDoc == [is |-> "document", servers |-> NoServers, inputs |-> NoInputs]
DocOf(file) == IF file.is \in {"absent", "blank"} THEN EmptyDoc ELSE file

WithServer(doc, entry) == [doc EXCEPT !.servers = [is |-> "map", at |-> (entry.name :> TheOne(entry.server)) @@ @.at]]

\* The input an entry refers to goes last, in place of those of its id.
WithInputs(doc, inputs) ==
    LET Put(list, input) == Append(SelectSeq(list, LAMBDA i : i.id # input.id), input)
    IN [doc EXCEPT !.inputs = [is |-> "list", list |-> FoldLeft(Put, @.list, inputs)]]

\* {} when refused.
MergeJson(entry, file) ==
    LET doc == DocOf(file) IN
    IF doc.is # "document" \/ doc.servers.is = "other" THEN {}
    ELSE IF entry.inputs = <<>> THEN {WithServer(doc, entry)}
    ELSE IF doc.inputs.is = "other" THEN {} ELSE {WithInputs(WithServer(doc, entry), entry.inputs)}

\* put_toml leaves a document whose servers are of another type as it is.
MergeToml(entry, file) ==
    LET doc == DocOf(file) IN
    IF doc.is # "document" THEN {}
    ELSE IF doc.servers.is = "other" THEN {doc} ELSE {WithServer(doc, entry)}

\* write: what it says, and the two files after it.  A write that fails may leave half.
Half == [EmptyDoc EXCEPT !.is = "half"]
WriteEntry(entry, disk, fails) ==
    LET merged == IF ~Set(entry.server) THEN {}
                  ELSE IF entry.toml THEN MergeToml(entry, disk.file) ELSE MergeJson(entry, disk.file)
        new == disk.file.is = "absent"
        backup == IF new THEN disk.backup ELSE disk.file
        Wrote(said, file, aside) == [said |-> said, file |-> file, backup |-> aside]
    IN IF merged = {} THEN Wrote("refused", disk.file, disk.backup)
       ELSE IF merged = {disk.file} THEN Wrote("unchanged", disk.file, disk.backup)
       ELSE IF ~new /\ fails = "backup" THEN Wrote("failed", disk.file, Half)
       ELSE IF fails = "file" THEN Wrote("failed", Half, backup)
       ELSE Wrote(IF new THEN "created" ELSE "updated", TheOne(merged), backup)

-----------------------------------------------------------------------------
(***************************************************************************)
(* How a server is reached.                                                *)
(***************************************************************************)

Transports == {"stdio", "streamable-http", "sse", "wasm", "wasm-component"}
IsHttp(server) == server.transport \in {"streamable-http", "sse"}
IsHttps(server) == IsHttp(server) /\ \E url \in server.url : url.scheme = "https"

\* cleartext_host: whether what is sent to the URL can be read on the way.
InTheClear(urls) == \E url \in urls : url.scheme = "http" /\ ~url.local

-----------------------------------------------------------------------------
(***************************************************************************)
(* [server.auth]: the fields given, by their values.                       *)
(***************************************************************************)

Needs == [bearer |-> {"token"}, header |-> {"name", "value"}, basic |-> {"username", "password"},
          oauth2 |-> {"token_url", "client_id", "client_secret"}]
TakesAlso(kind) == IF kind = "oauth2" THEN {"client_auth", "scopes", "resource"} ELSE {}

\* grant: what is wrong with an oauth2 table that has its fields.
GrantProblems(given) ==
    Found([tokenUrl |-> LET url == given["token_url"] IN
                        url.scheme \notin {"https", "http"} \/ url.more \cap {"credentials", "fragment"} # {},
           clientId |-> given["client_id"] = "",
           clientAuth |-> "client_auth" \in DOMAIN given
                          /\ given["client_auth"] \notin {"client_secret_basic", "client_secret_post"},
           scopes   |-> "scopes" \in DOMAIN given /\ "bad" \in given["scopes"],
           resource |-> "resource" \in DOMAIN given /\ given["resource"] \in {<<"relative">>, <<"u", "#", "f">>}])

\* from_table and credential: the secret of a kind may be read elsewhere, and is a
\* secret reference; what else it gives is a text.
CredentialProblems(auth) ==
    LET given == auth.given IN
    Found([kind   |-> auth.kind \notin DOMAIN Needs,
           places |-> \E field \in DOMAIN given \ {"token", "value", "password", "client_secret"} :
                         given[field] = "elsewhere"])
    \cup IF auth.kind \notin DOMAIN Needs THEN {}
         ELSE IF Needs[auth.kind] \ DOMAIN given # {} THEN {"needs"}
         ELSE IF DOMAIN given \ (Needs[auth.kind] \cup TakesAlso(auth.kind)) # {} THEN {"not for"}
         ELSE CASE auth.kind = "header" -> Found([name |-> given["name"] \in {"bad", "reserved"}])
                [] auth.kind = "basic"  -> Found([username |-> given["username"] = "bad"])
                [] auth.kind = "oauth2" -> GrantProblems(given)
                [] OTHER -> {}

\* The part of a text before the first character that is one of at, and the rest.
SplitAt(text, at) ==
    LET ends == {i \in DOMAIN text : text[i] \in at} \cup {Len(text) + 1}
        end  == CHOOSE i \in ends : \A j \in ends : i <= j
    IN <<SubSeq(text, 1, end - 1), SubSeq(text, end, Len(text))>>

\* resource_of: a URL less its user info, its query and its fragment.
ResourceOf(url) ==
    LET whole == SplitAt(url, {"?", "#"})[1]
        parts == SplitAt(whole, {"://"})
        rest  == SplitAt(Tail(parts[2]), {"/", "\\"})
        host  == SplitAt(Reverse(rest[1]), {"@"})[1]
    IN IF parts[2] = <<>> THEN whole ELSE parts[1] \o <<"://">> \o Reverse(host) \o rest[2]

\* credentials: the resource an oauth2 token is asked for, if any.
TokenResource(given, url) ==
    IF "resource" \notin DOMAIN given THEN {ResourceOf(text) : text \in url} ELSE {given["resource"]} \ {<<>>}

-----------------------------------------------------------------------------
(***************************************************************************)
(* TLS profiles: [server.tls] over [gateway.upstream_tls].                 *)
(***************************************************************************)

OrElse(own, under) == IF Set(own) THEN own ELSE under

\* over: the client's certificate and its key are of one table.
Over(tls, under) ==
    LET identity == IF Set(tls.cert) \/ Set(tls.key) THEN tls ELSE under IN
    [roots |-> OrElse(tls.roots, under.roots), ca |-> OrElse(tls.ca, under.ca),
     cert |-> identity.cert, key |-> identity.key,
     connectTo |-> tls.connectTo, skip |-> tls.skip, pins |-> tls.pins]

\* settings: half an identity is none.
Settings(tls) ==
    [roots |-> Or(tls.roots, "bundled"), ca |-> UNION tls.ca,
     identity |-> {[cert |-> cert, key |-> key] : cert \in tls.cert, key \in tls.key},
     skip |-> tls.skip = {TRUE}, pins |-> UNION tls.pins]

UpstreamTls(config, server) ==
    IF Set(server.tls) THEN Settings(Over(TheOne(server.tls), config.tls)) ELSE Settings(config.tls)

\* What a table fails by itself: the files it names are read.
TableProblems(tls) ==
    Found([pair |-> Set(tls.cert) # Set(tls.key), files |-> "missing" \in tls.cert \cup tls.key \cup UNION tls.ca])

TlsProblems(config) ==
    TableProblems(config.tls)
    \cup Found([ofOne |-> Set(config.tls.connectTo) \/ Set(config.tls.skip) \/ Set(config.tls.pins)])
    \cup UNION {
        LET tls == TheOne(server.tls) IN
        IF ~IsHttps(server) THEN {"not https"}
        ELSE TableProblems(tls)
             \cup Found([nothing   |-> tls.pins = {{}},
                         both      |-> Set(tls.pins) /\ tls.skip = {TRUE},
                         chain     |-> Set(tls.pins) /\ (Set(tls.roots) \/ Set(tls.ca)),
                         connectTo |-> tls.connectTo \notin {{}, {"allowed"}}]) :
        server \in {s \in Range(config.servers) : Set(s.tls)}}

-----------------------------------------------------------------------------
(***************************************************************************)
(* The allowlists.  A server's tools are a set of globs or unset.          *)
(***************************************************************************)

\* resolve_server: a server's own tools replace its profile's, and denies add up.
ResolveServer(config, server) ==
    LET profiles == {config.profiles[p] : p \in server.profile \cap DOMAIN config.profiles}
    IN [allow |-> OrElse(server.tools, UNION {p.tools : p \in profiles}),
        deny  |-> server.deny \cup UNION {p.deny : p \in profiles}]

ActiveProfile(config) ==
    {[allow |-> config.profiles[p].tools, deny |-> config.profiles[p].deny] :
        p \in config.profile \cap DOMAIN config.profiles}

Ids(config) == {config.servers[i].id : i \in DOMAIN config.servers}
ServerOf(config, id) == CHOOSE server \in Range(config.servers) : server.id = id

\* to_policy and tool_prefixes.
ToPolicy(config) ==
    [servers   |-> [id \in Ids(config) |-> ResolveServer(config, ServerOf(config, id))],
     active    |-> ActiveProfile(config),
     resources |-> [id \in Ids(config) |->
                       [uris |-> UNION ServerOf(config, id).resources, templates |-> {}]],
     prompts   |-> [id \in Ids(config) |-> UNION ServerOf(config, id).prompts],
     prefixes  |-> {[id \in Ids(config) |-> Or(ServerOf(config, id).prefix, <<id>>)] : on \in config.prefixed \cap {TRUE}}]

\* resource_overlaps, prompt_overlaps: the pairs of servers whose lists overlap.
Overlaps(lists) ==
    {pair \in SUBSET DOMAIN lists :
        \E a, b \in pair : a # b /\ pair = {a, b} /\ \E x \in lists[a], y \in lists[b] : x \cap y # {}}

\* What a server offers by its name: each tool an allowlist gives outright and the
\* policy exposes, by the name it is listed with.
Offered(config, id) ==
    LET policy == ToPolicy(config)
        named  == {tool \in UNION UNION policy.servers[id].allow :
                      {tool} \in UNION policy.servers[id].allow /\ Policy!DecideTool(policy, id, tool) = Policy!Allow}
    IN {Policy!ListedName(policy, id, tool) : tool \in named}

\* tool_collisions: the listed names that more than one server offers.
Collisions(config) ==
    {name \in UNION {Offered(config, id) : id \in Ids(config)} :
        Cardinality({id \in Ids(config) : name \in Offered(config, id)}) > 1}

-----------------------------------------------------------------------------
(***************************************************************************)
(* The roles' grants, texts that name a server before a colon.             *)
(***************************************************************************)

\* name_grant: without a colon, on any server.
NameGrant(text) ==
    IF Colons(text) = {} THEN <<<<"*">>, text>>
    ELSE LET at == CHOOSE i \in Colons(text) : \A j \in Colons(text) : i <= j
         IN <<SubSeq(text, 1, at - 1), SubSeq(text, at + 1, Len(text))>>

\* rbac: what is no grant of a resource grants nothing.
RbacOf(role) ==
    [tool     |-> {NameGrant(text) : text \in role.grants},
     prompt   |-> {NameGrant(text) : text \in role.promptGrants},
     resource |-> {ResourceGrant(text) : text \in role.resourceGrants} \ {NoGrant}]

\* grants_to_no_server.
GrantsToNoServer(config) ==
    {grant \in UNION {RbacOf(role).resource : role \in config.roles} :
        grant[1] # <<"*">> /\ \A id \in Ids(config) : grant[1] # <<id>>}

RoleProblems(role) ==
    Found([name |-> role.name = "blank", grant |-> \E text \in role.resourceGrants : ResourceGrant(text) = NoGrant])

-----------------------------------------------------------------------------
(***************************************************************************)
(* The whole of it.                                                        *)
(***************************************************************************)

\* A server of an unknown transport is asked nothing more.
ServerProblems(config, server) ==
    IF server.transport \notin Transports THEN {"transport"}
    ELSE Found([reached |-> CASE server.transport = "stdio" -> ~server.command
                              [] IsHttp(server) -> ~Set(server.url)
                              [] OTHER -> ~server.wasm,
                profile |-> ~(server.profile \subseteq DOMAIN config.profiles),
                inflight |-> server.maxInflight = {0},
                auth    |-> \E auth \in server.auth : ~IsHttp(server) \/ CredentialProblems(auth) # {}])

ServersProblems(config) ==
    UNION {ServerProblems(config, server) : server \in Range(config.servers)}
    \cup UNION {RoleProblems(role) : role \in config.roles}
    \cup TlsProblems(config)
    \cup Found([none    |-> config.servers = <<>>,
                twice   |-> \E i, j \in DOMAIN config.servers : i < j /\ config.servers[i].id = config.servers[j].id,
                profile |-> ~(config.profile \subseteq DOMAIN config.profiles)])

ServersWarnings(config) ==
    LET servers == Range(config.servers)  policy == ToPolicy(config) IN
    Found([skip      |-> \E s \in servers : \E tls \in s.tls : tls.skip = {TRUE},
           clear     |-> \E s \in servers : Set(s.auth) /\ InTheClear(s.url),
           secret    |-> \E s \in servers : \E auth \in s.auth :
                            "token_url" \in DOMAIN auth.given /\ InTheClear({auth.given["token_url"]}),
           resources |-> Overlaps([id \in Ids(config) |-> policy.resources[id].uris]) # {},
           prompts   |-> Overlaps(policy.prompts) # {},
           tools     |-> Collisions(config) # {},
           prefix    |-> TRUE \notin config.prefixed /\ \E s \in servers : Set(s.prefix),
           grants    |-> GrantsToNoServer(config) # {}])

\* check: a strict check lets nothing through that it would warn of.
Check(config, strict) ==
    LET warnings == ServersWarnings(config)
        fatal    == IF strict \/ config.strict THEN warnings ELSE {}
    IN [errors |-> ServersProblems(config) \cup {<<"strict", w>> : w \in fatal}, warnings |-> warnings \ fatal]
================================================================================
