------------------------------- MODULE ConsoleDoor -------------------------------
(***************************************************************************)
(* What every request to the admin listener passes through (admin/guard.rs *)
(* envelope, gate): the host it names, the origin of one that changes      *)
(* something, who it is from, and what that caller's role reaches.  A name *)
(* stands for it in any case; a host is a name, a dot after it or not, and *)
(* a port, an origin that with a scheme.  Which session a cookie opens is  *)
(* in ConsoleSessions, what a token is worth in BearerToken.               *)
(***************************************************************************)
EXTENDS Integers, Sequences, FiniteSets

-----------------------------------------------------------------------------
(***************************************************************************)
(* Hosts and origins.                                                      *)
(***************************************************************************)

NoPort == 0
DefaultPort(scheme) == IF scheme = "https" THEN 443 ELSE 80
Unspecified == "0.0.0.0"
Addresses == {"127.0.0.1", Unspecified}

\* listen_host: the name listen has, unless it binds every interface.
ListenHost(listen) == IF listen = Unspecified THEN {} ELSE {listen}

\* Guard::of: the names the config lists, listen's, and public_url's.
Hosts(admin) == admin.hosts \cup ListenHost(admin.listen) \cup {url.name : url \in admin.publicUrl}

\* Guard::host_allowed, which looks at neither the port nor the dot.
HostAllowed(admin, host) == host.name \in {"localhost"} \cup Addresses \cup Hosts(admin)

\* origin_of: as a browser writes it, without its scheme's own port.
OriginOf(url) == [url EXCEPT !.port = IF url.port = DefaultPort(url.scheme) THEN NoPort ELSE url.port]

\* The origin a Host gives under a scheme, its port as it is written.
OriginAt(scheme, host, port) == [scheme |-> scheme, name |-> host.name, dot |-> host.dot, port |-> port]

OwnOrigins(admin, scheme, host) ==
    {OriginOf(url) : url \in admin.publicUrl}
    \cup {OriginAt(scheme, host, host.port)}
    \cup (IF host.port = DefaultPort(scheme) THEN {OriginAt(scheme, host, NoPort)} ELSE {})

\* same_origin.  No origin at all is no browser's; one that does not read is none.
SameOrigin(admin, request) ==
    IF request.site # {} THEN request.site \subseteq {"same-origin", "none"}
    ELSE \A url \in request.origin :
            url.scheme # "null" /\ OriginOf(url) \in OwnOrigins(admin, admin.scheme, request.host)

-----------------------------------------------------------------------------
(***************************************************************************)
(* A caller: how the ledger names it, and its highest role.                *)
(***************************************************************************)

Viewer == 1
Operator == 2
Admin == 3
NoRole == 0

\* ConsoleRole::parse and highest.
RoleOf(name) == CASE name = "console:viewer" -> Viewer [] name = "console:operator" -> Operator
                  [] name = "console:admin" -> Admin [] OTHER -> NoRole
Highest(names) == LET held == {RoleOf(name) : name \in names} \cup {NoRole} IN CHOOSE r \in held : \A s \in held : s <= r

Caller(by, who, role) == [by |-> by, who |-> who, role |-> role, open |-> FALSE, signIn |-> FALSE]
SignedOut == [Caller("anonymous", "no one", NoRole) EXCEPT !.signIn = TRUE]

\* admin_signs_in: whether anything signs callers in.
SignsIn(admin) == admin.certificates = "required" \/ admin.oidc \/ admin.breakGlass

Nobody == "no one"

\* Guard::caller, by the identity a certificate gives, or by none.
CallerOf(admin, identity) ==
    IF ~SignsIn(admin)
    THEN [Caller(IF identity # Nobody THEN "cert" ELSE IF admin.local THEN "local" ELSE "anonymous",
                 identity, Admin) EXCEPT !.open = TRUE]
    ELSE IF identity # Nobody THEN Caller("cert", identity, Highest(admin.certMap[identity]))
    ELSE Caller("unknown", Nobody, NoRole)

\* The scopes of a token for the admin API, and the role each gives.
ScopeRoles(scopes) == {"console:viewer" : s \in scopes \cap {"mcpdef:admin:read"}}
                      \cup {"console:operator" : s \in scopes \cap {"mcpdef:admin:write"}}

\* SignIn::api_caller, of what the provider's keys make of the token.
ApiCaller(token) == Caller("token", token.who, Highest(token.roles \cup ScopeRoles(token.scopes)))

-----------------------------------------------------------------------------
(***************************************************************************)
(* envelope and gate: a status of 200 stands for the route being run.      *)
(***************************************************************************)

NoCaller == Caller("refused", Nobody, NoRole)
Answer(status, caller) == [status |-> status, caller |-> caller]

TakesApiTokens(admin) == admin.oidc /\ admin.apiAudience
TakesTokens(admin) == admin.breakGlass \/ TakesApiTokens(admin)

Bearer(admin, token) ==
    IF token.kind = "break-glass" /\ admin.breakGlass THEN Answer(200, Caller("break-glass", Nobody, Admin))
    ELSE IF ~TakesApiTokens(admin) THEN Answer(401, NoCaller)
    ELSE IF token.kind = "unavailable" THEN Answer(503, NoCaller)
    ELSE IF token.kind # "issued" THEN Answer(401, NoCaller)
    ELSE Answer(200, ApiCaller(token))

\* By a certificate, or where the console signs people in by a session.
CallerBy(admin, request) ==
    IF request.identity = Nobody /\ admin.oidc
    THEN IF request.session.open THEN Caller("user", request.session.who, Highest(request.session.roles)) ELSE SignedOut
    ELSE CallerOf(admin, request.identity)

Envelope(admin, request) ==
    IF ~HostAllowed(admin, request.host) THEN Answer(421, NoCaller)
    ELSE IF request.changes /\ ~SameOrigin(admin, request) THEN Answer(403, NoCaller)
    ELSE IF request.changes /\ request.body = "form" THEN Answer(415, NoCaller)
    ELSE IF request.identity = "refused" THEN Answer(403, NoCaller)
    ELSE IF request.token.kind # "none" /\ TakesTokens(admin) THEN Bearer(admin, request.token)
    ELSE Answer(200, CallerBy(admin, request))

\* gate, for a route that needs a role.
Gate(need, answer) ==
    IF answer.status # 200 \/ answer.caller.role >= need THEN answer
    ELSE Answer(IF answer.caller.signIn THEN 401 ELSE 403, answer.caller)
================================================================================
