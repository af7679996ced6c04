-------------------------------- MODULE MCDoors --------------------------------
(***************************************************************************)
(* Who a request is from, at both listeners, on small inputs: each is a    *)
(* kind of MCTexts, with its pieces and what is to hold of them.           *)
(***************************************************************************)
EXTENDS Integers, Sequences, FiniteSets, SequencesExt

Now == 3

Token == INSTANCE BearerToken WITH Leeway <- 1, U64Most <- 5
Mcp == INSTANCE FrontDoor WITH IdMost <- 7, DomainMost <- 3, Bits <- 3, MostCertificates <- 2
Console == INSTANCE ConsoleDoor

-----------------------------------------------------------------------------
\* Tokens: every claim a verifier looks at, in and out of order.
Time(values) == {Token!Nothing, [kind |-> "null"], Token!Str(<<"a">>)} \cup {Token!Num(n) : n \in values}
Ours == Token!Str(<<"ours">>)
Other == Token!Str(<<"other">>)
SomeAudiences ==
    {Ours, Other, Token!Nothing, Token!List(<<Ours, Other>>), Token!List(<<Other>>),
     Token!List(<<Ours, Token!Num(1)>>), Token!List(<<>>)}
OfClaims(exp, nbf, iss, aud, sub) ==
    [c \in {<<"exp">>, <<"nbf">>, <<"iss">>, <<"aud">>, <<"sub">>} |->
        CASE c = <<"exp">> -> exp [] c = <<"nbf">> -> nbf [] c = <<"iss">> -> iss [] c = <<"aud">> -> aud
          [] OTHER -> sub]
Signed(claims) == [form |-> "jwt", alg |-> "RS256", kid |-> "rsa", signedBy |-> "rsa", claims |-> claims]

Subjects == {Token!Str(<<"a">>), Token!Str(<<>>), Token!Nothing, Token!Num(1)}
ClaimSets ==
    {OfClaims(exp, nbf, iss, aud, sub) :
        exp \in Time({1, 2, 5, 6}), nbf \in Time({4, 5, 6}), iss \in {Ours, Other, Token!Nothing},
        aud \in SomeAudiences, sub \in Subjects}
Plain == OfClaims(Token!Num(5), Token!Nothing, Ours, Ours, Token!Str(<<"a">>))
With(more) == [c \in DOMAIN Plain \cup DOMAIN more |-> IF c \in DOMAIN more THEN more[c] ELSE Plain[c]]
IdClaims ==
    {With([c \in {<<"aud">>, <<"nonce">>, <<"azp">>, <<"iat">>} |->
              CASE c = <<"nonce">> -> nonce [] c = <<"azp">> -> azp [] c = <<"iat">> -> iat [] OTHER -> aud]) :
        nonce \in {Token!Str(<<"n">>), Other, Token!Nothing}, azp \in {Ours, Other, Token!Nothing, Token!Num(1)},
        iat \in {Token!Nothing, Token!Num(4), Token!Num(5)}, aud \in SomeAudiences}
Headers ==
    [form : {"jwt", "empty", "garbled"}, alg : {"RS256", "ES256", "HS256", "none"},
     kid : {"rsa", "ec", "unheld", Token!NoKid}, signedBy : {"rsa", "ec", "unheld"}, claims : {Plain}]
Mapped == {With([c \in {<<"realm">>} |-> v]) :
              v \in {Token!Str(<<"r">>), Token!Nothing, Token!Str(<<>>),
                     Token!Obj([s \in {<<"who">>} |-> Token!Str(<<"w">>)]),
                     Token!Obj([s \in {<<"who">>} |-> Token!Str(<<>>)]), Token!List(<<Token!Str(<<"r">>)>>)}}
Tokens == {Signed(claims) : claims \in ClaimSets \cup IdClaims \cup Mapped} \cup Headers
Verifiers ==
    [resource : {<<"ours">>}, audiences : {{}, {<<"other">>}}, issuer : {<<"ours">>},
     keys : {[k \in {"rsa", "ec"} |-> IF k = "rsa" THEN "RSA" ELSE "EC"]},
     model : {[subject |-> <<"sub">>, roles |-> {<<"realm">>}, map |-> {}],
              [subject |-> <<"realm", "who">>, roles |-> {},
               map |-> {[claim |-> <<"realm">>, value |-> <<"r">>, roles |-> {<<"m">>}]}]}]

IsTime(value, from, to) == value.kind = "number" /\ value.n \in from .. to

\* A token is taken only when a key of the provider's that it names signed it as a
\* key of that family can, this provider issued it, to this audience, and the time is
\* in its bounds whatever types they have; one of those that says who it is about is
\* taken, and a mapped subject is never empty.  An ID token answers the sign-in that
\* asked for it, is for this client, and is not from later than now.
TokensHold(token, verifier) ==
    LET verdict == Token!VerifyClaims(verifier, token, Now)
        id == Token!VerifyIdToken(verifier, token, <<"n">>, Now)
        C(name) == Token!Standard(token, name)
        Auds == Token!Strings(C("aud"))
        Sound == /\ token.form = "jwt" /\ token.signedBy = token.kid /\ token.kid \in DOMAIN verifier.keys
                 /\ \/ verifier.keys[token.kid] = "RSA" /\ token.alg = "RS256"
                    \/ verifier.keys[token.kid] = "EC" /\ token.alg = "ES256"
                 /\ C("iss") = Ours /\ Auds \cap ({<<"ours">>} \cup verifier.audiences) # {}
                 /\ IsTime(C("exp"), 2, 5)
                 /\ C("nbf").kind = "nothing" \/ IsTime(C("nbf"), 0, 4)
    IN /\ verdict.refused = "no" =>
             Sound /\ C("sub").kind = "string" /\ (verifier.model.subject # <<"sub">> => verdict.subject # <<>>)
       /\ (/\ Sound /\ C("sub") = Token!Str(<<"a">>) /\ verifier.model.subject = <<"sub">>
           /\ Token!AreStrings(C("aud")) /\ C("azp").kind # "number") => verdict.refused = "no"
       /\ id.refused = "no" =>
             /\ verdict.refused = "no" /\ C("nonce") = Token!Str(<<"n">>) /\ IsTime(C("iat"), 0, 4)
             /\ C("azp") = Ours \/ (C("azp").kind # "string" /\ Cardinality(Auds) = 1)

-----------------------------------------------------------------------------
\* A prefix takes the addresses that begin as it does, the empty one every address,
\* and no prefix is taken that has bits past its length.
CidrHolds(addr, prefix) ==
    LET top(n) == n \div (2 ^ (3 - prefix))  cidr == [addr |-> addr, prefix |-> prefix] IN
    /\ prefix > 3 => ~Mcp!ParseCidr(addr, prefix)
    /\ prefix <= 3 =>
          /\ Mcp!ParseCidr(addr, prefix) <=> addr = top(addr) * (2 ^ (3 - prefix))
          /\ Mcp!ParseCidr(addr, prefix) => \A ip \in 0 .. 7 : Mcp!InCidr(cidr, ip) <=> top(ip) = top(addr)

\* As Envoy writes a value, quoted where another character would end it.
Quote == "\""
Escaped(value) == FlattenSeq([i \in DOMAIN value |-> IF value[i] = Quote THEN <<"\\", Quote>> ELSE <<value[i]>>])
AsWritten(value) ==
    IF Range(value) \cap {",", ";", "=", Quote, " "} = {} THEN value ELSE <<Quote>> \o Escaped(value) \o <<Quote>>
Between(texts, by) == FlattenSeq([i \in DOMAIN texts |-> IF i = 1 THEN texts[i] ELSE <<by>> \o texts[i]])
WrittenPairs(pairs) == Between([i \in DOMAIN pairs |-> pairs[i][1] \o <<"=">> \o AsWritten(pairs[i][2])], ";")
XfccValues == UNION {[1 .. n -> {"c", ",", ";", "=", Quote, " "}] : n \in 0 .. 2}
XfccPairs == {Mcp!CertKey, <<"K">>} \X XfccValues

\* What Envoy writes is read back pair by pair, and two elements are never one.
XfccReadsBack(pairs, more) ==
    pairs # <<>> =>
        LET elements == <<pairs>> \o [i \in DOMAIN more |-> <<more[i]>>]
            texts    == [i \in DOMAIN elements |-> WrittenPairs(elements[i])]
        IN Mcp!XfccElements(Between(texts, ",")) = elements

CertTexts == {<<>>, <<"%", "c">>, <<"%", "k">>, <<"%", "c", "%", "d">>, <<"%", "d">>, <<"%", "C">>, <<"c">>}
CertPairs == {Mcp!CertKey, Mcp!ChainKey, <<"K">>} \X CertTexts

\* No certificate is read of a header that has two of it, none, or anything besides
\* certificates; of another it is the first there, and the chain after it has it not
\* again; no more are taken than the most there may be.
XfccGives(pairs, cert, chain, read) ==
    /\ read = Mcp!NotForwarded <=> pairs = <<>>
    /\ read \notin {Mcp!Bad, Mcp!NotForwarded} =>
          /\ Len(cert) <= 1 /\ Len(chain) <= 1 /\ cert \o chain # <<>>
          /\ \A p \in Range(cert \o chain) : p[2] \in {<<"%", "c">>, <<"%", "d">>, <<"%", "c", "%", "d">>}
          /\ \A i \in 2 .. Len(read[2]) : read[2][i] # read[2][1]
          /\ read[2][1] = (cert \o chain)[1][2][2] /\ Len(read[2]) <= 2
    /\ (Len(pairs) = 1 /\ pairs[1] \in {Mcp!CertKey} \X {<<"%", "c">>, <<"%", "d">>}) =>
          read = Mcp!Chain(<<pairs[1][2][2]>>)
Keyed(pairs, key) == SelectSeq(pairs, LAMBDA p : p[1] = key)
XfccHolds(pairs) ==
    XfccGives(pairs, Keyed(pairs, Mcp!CertKey), Keyed(pairs, Mcp!ChainKey),
              Mcp!Forwarded(Mcp!Xfcc(<<WrittenPairs(pairs)>>)))

ClientCertTexts == {<<":", "c", ":">>, <<" ", ":", "d", ":", " ">>, <<>>, <<" ">>, <<":", "c">>, <<"c", "bytes">>}
ChainTexts == ClientCertTexts \cup {<<":", "c", ":", ",", " ", ":", "d", ":">>, <<":", "c", ":", ",">>}

\* A certificate header that reads is one certificate and a chain, in order; only a
\* request with neither has none.
ClientCertHolds(certs, chains) ==
    LET read == Mcp!ClientCert(certs, chains)
        blank(texts) == \A i \in DOMAIN texts : Range(texts[i]) \subseteq {" "}
        ders(texts) == SelectSeq(FlattenSeq(texts), LAMBDA c : c \in {"c", "d"})
    IN /\ read = Mcp!NotForwarded => certs = <<>> /\ blank(chains)
       /\ certs = <<>> /\ chains = <<>> => read = Mcp!NotForwarded
       /\ read \notin {Mcp!Bad, Mcp!NotForwarded} =>
             /\ Len(certs) = 1 /\ certs[1] \in {<<":", "c", ":">>, <<" ", ":", "d", ":", " ">>}
             /\ read[2] = ders(certs \o chains)
       /\ certs = << <<":", "c", ":">> >> /\ chains \in {<<>>, << <<":", "c", ":", ",", " ", ":", "d", ":">> >>} =>
             read = Mcp!Chain(ders(certs \o chains))

-----------------------------------------------------------------------------
\* SPIFFE IDs, and certificates with them among other names.
Domains == {<<"a">>, <<"a", ".">>, <<>>, <<"A">>, <<"a", "b", "a", "b">>}
Segments == {<<"a">>, <<"A", ".">>, <<".">>, <<".", ".">>, <<>>, <<"+">>}
SpiffeUris ==
    [scheme : {"spiffe"}, domain : Domains, path : UNION {[1 .. n -> Segments] : n \in 0 .. 2}]
    \cup [scheme : {"https"}, domain : Domains, path : {<<>>, <<<<"a">>>>}]
Names == ({"URI"} \X SpiffeUris) \cup {<<"DNS", <<"a">>>>}

\* A certificate gives a SPIFFE ID only when it is its one URI, an ID that says the
\* same thing to everyone who reads it, in a trust domain that is allowed.
SpiffeHolds(names) ==
    LET id   == Mcp!SpiffeId([names |-> names], {<<"a">>, <<"A">>})
        uris == SelectSeq(names, LAMBDA n : n[1] = "URI")
        dots == {<<>>, <<".">>, <<".", ".">>}
    IN /\ id[1] = "some" =>
             /\ uris = << <<"URI", id[2]>> >> /\ id[2].scheme = "spiffe" /\ id[2].domain = <<"a">>
             /\ Range(id[2].path) \cap (dots \cup {<<"+">>}) = {}
       /\ uris = << <<"URI", [scheme |-> "spiffe", domain |-> <<"a">>, path |-> << <<"a">> >>]>> >> => id[1] = "some"

Cert(admitted, subject) == [admitted |-> admitted, subject |-> subject, names |-> <<>>]
Presented == {Mcp!None, Mcp!Some(Cert(TRUE, <<"x">>)), Mcp!Some(Cert(FALSE, <<"x">>)), Mcp!Some(Cert(TRUE, <<"ctl">>))}
McpRequests ==
    [peer : [addr : {"proxy", "elsewhere"}, presented : Presented],
     forwarded : Presented \cup {Mcp!Refusal("certificate")},
     token : {Mcp!NoToken} \cup [kind : {"jwt", "key"}, who : {"no one", "p"}],
     origin : [kind : {"none", "loopback"}, name : {"-"}] \cup [kind : {"other"}, name : {"listed", "unlisted"}],
     permit : BOOLEAN, reads : {200, 400}]
Listeners ==
    [listener : [clients : {Mcp!Unasked} \cup [mode : {"optional", "required"}, identity : {"CN"}, domains : {{}}],
                 proxy : {{}, {"proxy"}}, origins : {{"listed"}}],
     auth : [bearer : BOOLEAN, keys : BOOLEAN, certificate : BOOLEAN, all : BOOLEAN]]

\* Only the proxy says who else presented a certificate, and it says it of every
\* request it sends; whoever is served is someone, by a credential of each kind that
\* is needed, and a credential that does not check out is never passed over for
\* another.  One who has them all, at an origin that is allowed, is served.
McpHolds(request, door) ==
    LET listener == door.listener  auth == door.auth
        answer(r) == Mcp!HandlePost(listener, auth, r)
        mine == answer(request)
        shown == IF request.peer.addr \in listener.proxy THEN request.forwarded ELSE request.peer.presented
        certified == listener.clients.mode # "off" /\ shown = Mcp!Some(Cert(TRUE, <<"x">>))
        taken == /\ request.token.who # "no one"
                 /\ (request.token.kind = "jwt" /\ auth.bearer) \/ (request.token.kind = "key" /\ auth.keys)
        tokens == auth.bearer \/ auth.keys
        needed == auth.bearer \/ auth.keys \/ auth.certificate
    IN /\ IF request.peer.addr \in listener.proxy
          THEN \A p \in Presented : answer([request EXCEPT !.peer.presented = p]) = mine
          ELSE \A f \in Presented \cup {Mcp!Refusal("certificate")} : answer([request EXCEPT !.forwarded = f]) = mine
       /\ mine.status = 200 =>
             /\ request.permit /\ request.reads = 200
             /\ request.origin.kind = "other" => request.origin.name = "listed"
             /\ listener.clients.mode = "required" => certified
             /\ mine.as.certificate[1] = "some" <=> certified
             /\ mine.as.principal[1] = "some" <=> taken
             /\ tokens /\ request.token.kind # "none" => taken
             /\ listener.clients.mode # "off" => certified \/ shown = Mcp!None
             /\ needed => taken \/ (auth.certificate /\ certified)
             /\ auth.all => (tokens => taken) /\ (auth.certificate => certified)
       /\ (request.permit /\ request.reads = 200 /\ request.origin.kind = "none" /\ certified /\ taken) =>
             mine.status = 200

-----------------------------------------------------------------------------
\* A page, the URL it sends to, and the request a browser makes of the two: a newer
\* one says whether they are of one origin, an older one only where the page is from.
SiteOf(name) == IF name \in {"gate", "side"} THEN "site" ELSE name
Origins == [scheme : {"http", "https"}, name : {"localhost", "gate", "side", "far"}, dot : BOOLEAN, port : {0, 8443}]
SiteBetween(page, url) ==
    IF page = url THEN "same-origin"
    ELSE IF page.scheme = url.scheme /\ SiteOf(page.name) = SiteOf(url.name) THEN "same-site" ELSE "cross-site"
Sends(page, url, newer) ==
    [host |-> [name |-> url.name, dot |-> url.dot, port |-> url.port], changes |-> TRUE,
     site |-> IF newer THEN {SiteBetween(page, url)} ELSE {}, origin |-> {page}, body |-> "json",
     identity |-> "no one", token |-> [kind |-> "none"], session |-> [open |-> FALSE]]
Admins ==
    [scheme : {"http", "https"}, hosts : {{}, {"gate"}}, listen : {"127.0.0.1", "0.0.0.0", "side"},
     publicUrl : {{}, {[scheme |-> "https", name |-> "gate", dot |-> FALSE, port |-> 443]}},
     certificates : {"optional"}, oidc : {FALSE}, breakGlass : {FALSE}, local : {TRUE}]

\* A change a browser's page asks for is made only when the page is the console's
\* own, at the name its URL has or at public_url; the console's own pages, at every
\* name it answers to, are never refused.
PagesHold(page, to) ==
    \A newer \in BOOLEAN :
        LET answer == Console!Envelope(to.admin, Sends(page, to.url, newer))
            known  == {"localhost", "127.0.0.1", "0.0.0.0", to.admin.listen} \cup to.admin.hosts
                      \cup {url.name : url \in to.admin.publicUrl}
            seen   == [to.url EXCEPT !.scheme = to.admin.scheme]
            public == {[url EXCEPT !.port = 0] : url \in to.admin.publicUrl}
        IN /\ answer.status = 200 => page = to.url \/ (~newer /\ page \in {seen} \cup public)
           /\ to.url.name \notin known => answer.status = 421
           /\ (/\ page = to.url /\ to.url.name \in known
               /\ newer \/ to.admin.scheme = to.url.scheme \/ to.url \in public) => answer.status = 200

ConsoleAdmins ==
    [scheme : {"https"}, hosts : {{}}, listen : {"127.0.0.1"}, publicUrl : {{}},
     certificates : {"off", "optional", "required"}, oidc : BOOLEAN, breakGlass : BOOLEAN, apiAudience : BOOLEAN,
     local : BOOLEAN,
     certMap : {[id \in {"cert"} |-> names] :
                   names \in {{}, {"console:viewer", "other"}, {"console:viewer", "console:admin"}}}]
Scopes == {"mcpdef:admin:read", "mcpdef:admin:write"}
ConsoleRequests ==
    [host : {[name |-> "localhost", dot |-> FALSE, port |-> 0]}, changes : BOOLEAN, site : {{}}, origin : {{}},
     body : {"form", "json"}, identity : {"no one", "refused", "cert"},
     session : {[open |-> FALSE]} \cup [open : {TRUE}, who : {"user"}, roles : {{}, {"console:operator"}}],
     token : [kind : {"none", "break-glass", "unavailable", "unknown"}]
             \cup [kind : {"issued"}, who : {"t"}, roles : {{}, {"console:admin"}}, scopes : SUBSET Scopes]]

\* A route is run for a caller whose role reaches it, and a role is one that a
\* credential of this very request gives: a token taken names the caller, whatever
\* session or certificate comes with it, and one that is not is not passed over for
\* them; without a credential there is a role only where nothing signs callers in.
RolesHold(request, admin) ==
    LET envelope == Console!Envelope(admin, request)
        answer(need) == Console!Gate(need, envelope)
        caller  == envelope.caller
        open    == admin.certificates # "required" /\ ~admin.oidc /\ ~admin.breakGlass
        provider == admin.oidc /\ admin.apiAudience
        byToken == request.token.kind # "none" /\ (admin.breakGlass \/ provider)
        refused == request.identity = "refused" \/ (request.changes /\ request.body = "form")
        GivenByToken ==
            CASE request.token.kind = "break-glass" -> {Console!Admin : g \in {admin.breakGlass} \ {FALSE}}
              [] request.token.kind = "issued" /\ provider ->
                    {Console!Admin : r \in request.token.roles}
                    \cup {IF s = "mcpdef:admin:read" THEN Console!Viewer ELSE Console!Operator : s \in request.token.scopes}
              [] OTHER -> {}
        given ==
            CASE byToken -> GivenByToken
              [] open -> {Console!Admin}
              [] request.identity = "cert" -> {Console!RoleOf(name) : name \in admin.certMap["cert"]}
              [] admin.oidc /\ request.session.open -> {Console!Operator : r \in request.session.roles}
              [] OTHER -> {}
    IN \A need \in {Console!Viewer, Console!Operator, Console!Admin} :
          /\ answer(need).status = 200 <=> ~refused /\ \E role \in given : role >= need
          /\ answer(need).status = 200 =>
                /\ byToken <=> caller.by \in {"token", "break-glass"}
                /\ caller.by = "token" => caller.who = "t"

-----------------------------------------------------------------------------
Pieces ==
    [token   |-> <<Tokens, 1, Verifiers, 1>>,
     cidr    |-> <<0 .. 7, 1, 0 .. 4, 1>>,
     xfcc    |-> <<XfccPairs, 2, {p \in {<<"K">>} \X XfccValues : Len(p[2]) = 1}, 1>>,
     forwarded  |-> <<CertPairs, 3, {}, 0>>,
     clientCert |-> <<ClientCertTexts, 2, ChainTexts, 2>>,
     spiffe  |-> <<Names, 2, {}, 0>>,
     mcp     |-> <<McpRequests, 1, Listeners, 1>>,
     page    |-> <<Origins, 1, [url : Origins, admin : Admins], 1>>,
     console |-> <<ConsoleRequests, 1, ConsoleAdmins, 1>>]

\* Who a request to the MCP listener is from, by its token or its certificate.
CallersHold(kind, left, right) ==
    LET both == left # <<>> /\ right # <<>> IN
    /\ kind = "token" /\ both => TokensHold(left[1], right[1])
    /\ kind = "cidr" /\ both => CidrHolds(left[1], right[1])
    /\ kind = "xfcc" => XfccReadsBack(left, right)
    /\ kind = "forwarded" => XfccHolds(left)
    /\ kind = "clientCert" => ClientCertHolds(left, right)
    /\ kind = "spiffe" => SpiffeHolds(left)
    /\ kind = "mcp" /\ both => McpHolds(left[1], right[1])

\* Who a request to the admin listener is from, and what it reaches.
ConsoleHolds(kind, left, right) ==
    /\ kind = "page" /\ left # <<>> /\ right # <<>> => PagesHold(left[1], right[1])
    /\ kind = "console" /\ left # <<>> /\ right # <<>> => RolesHold(left[1], right[1])
================================================================================
