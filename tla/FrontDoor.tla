-------------------------------- MODULE FrontDoor --------------------------------
(***************************************************************************)
(* Who a request to the MCP listener is from, and whether it is served     *)
(* (listener.rs handle_post, certified, authenticated; client_auth.rs      *)
(* ClientCerts::identity), and the certificate a trusted proxy forwards    *)
(* (tls/forwarded.rs): which addresses are the proxy's, and how the        *)
(* headers of RFC 9440 and of Envoy are read.  What a token is worth, and  *)
(* a client's own certificate, is in BearerToken and ClientCertificates,   *)
(* and the wire they are on in WireHeaders.                                *)
(***************************************************************************)
EXTENDS Integers, Sequences, FiniteSets, SequencesExt

CONSTANTS IdMost,          \* SPIFFE_ID_MAX, in pieces of a SPIFFE ID
          DomainMost,      \* TRUST_DOMAIN_MAX, in characters
          Bits,            \* of an address; addresses are of one family
          MostCertificates \* MOST_CERTIFICATES

None == <<"none">>
Refusal(why) == <<"refused", why>>
IsRefusal(verdict) == verdict[1] = "refused"
Some(what) == <<"some", what>>

-----------------------------------------------------------------------------
(***************************************************************************)
(* The identity a certificate gives.  Its names are <<kind, text>> in      *)
(* order; a URI is its scheme, its domain and its path's segments, a text  *)
(* a sequence of characters, A an upper-case one, + one no ID may have.    *)
(***************************************************************************)

DomainChars == {"a", "b", ".", "-"}
SegmentChars == DomainChars \cup {"A"}

\* trust_domain_problem
GoodDomain(domain) == domain # <<>> /\ Len(domain) <= DomainMost /\ Range(domain) \subseteq DomainChars

GoodSegments(path) ==
    \A i \in DOMAIN path : path[i] \notin {<<>>, <<".">>, <<".", ".">>} /\ Range(path[i]) \subseteq SegmentChars

LengthOf(uri) == Len(uri.domain) + FoldLeft(LAMBDA n, segment : n + 1 + Len(segment), 0, uri.path)

\* spiffe_trust_domain
IsSpiffe(uri) == LengthOf(uri) <= IdMost /\ uri.scheme = "spiffe" /\ GoodDomain(uri.domain) /\ GoodSegments(uri.path)

Named(cert, kind) == SelectSeq(cert.names, LAMBDA name : name[1] = kind)

\* spiffe_id: the one URI name, in an allowed trust domain.
SpiffeId(cert, domains) ==
    LET uris == Named(cert, "URI") IN
    IF Len(uris) = 1 /\ IsSpiffe(uris[1][2]) /\ uris[1][2].domain \in domains THEN Some(uris[1][2])
    ELSE Refusal("identity")

Controls == {"ctl"}

\* ClientCerts::identity, as its clients table says to read it.
Identity(clients, cert) ==
    LET first(kind) == IF Named(cert, kind) = <<>> THEN <<>> ELSE Named(cert, kind)[1][2]
        text == IF clients.identity = "CN" THEN cert.subject ELSE first(clients.identity)
    IN IF clients.identity = "URI" THEN SpiffeId(cert, clients.domains)
       ELSE IF text = <<>> \/ Range(text) \cap Controls # {} THEN Refusal("identity") ELSE Some(text)

-----------------------------------------------------------------------------
(***************************************************************************)
(* certified.  A listener's clients is what it asks of a certificate, its  *)
(* proxy the addresses it trusts; a peer has its address and what it       *)
(* presented at the handshake, and forwarded is what the headers read as.  *)
(***************************************************************************)

Unasked == [mode |-> "off"]

\* Mutant: what a trusted proxy does not forward is looked for at its handshake.
PresentedEither(listener, peer, forwarded) ==
    IF peer.addr \notin listener.proxy THEN peer.presented
    ELSE IF forwarded = None THEN peer.presented ELSE forwarded

Presented(listener, peer, forwarded) ==
    IF peer.addr \in listener.proxy THEN forwarded ELSE peer.presented

Certified(listener, peer, forwarded) ==
    LET presented == Presented(listener, peer, forwarded) IN
    IF listener.clients.mode = "off" THEN None
    ELSE IF IsRefusal(presented) THEN presented
    ELSE IF presented = None THEN (IF listener.clients.mode = "required" THEN Refusal("certificate") ELSE None)
    ELSE IF ~presented[2].admitted THEN Refusal("certificate")
    ELSE Identity(listener.clients, presented[2])

-----------------------------------------------------------------------------
(***************************************************************************)
(* authenticated.  auth says whether it takes tokens, keys and             *)
(* certificates, and whether it needs all; a credential is none, or a      *)
(* bearer's kind and who it checks out as.                                 *)
(***************************************************************************)

Open == [bearer |-> FALSE, keys |-> FALSE, certificate |-> FALSE, all |-> FALSE]
NoToken == [kind |-> "none", who |-> "no one"]

TakesTokens(auth) == auth.bearer \/ auth.keys

Authenticated(auth, token, certified) ==
    LET principal == IF /\ token.who # "no one"
                        /\ (token.kind = "key" /\ auth.keys) \/ (token.kind = "jwt" /\ auth.bearer)
                     THEN Some(token.who) ELSE None
        tokenMissing == TakesTokens(auth) /\ principal = None
        certificateMissing == auth.certificate /\ ~certified
        refused == IF auth.all THEN tokenMissing \/ certificateMissing
                   ELSE principal = None /\ ~(auth.certificate /\ certified)
    IN IF TakesTokens(auth) /\ token.kind # "none" /\ principal = None THEN Refusal("token")
       ELSE IF ~refused THEN principal
       ELSE IF tokenMissing THEN Refusal("token") ELSE Refusal("certificate")

\* AuthState::refusal: a challenge where a token may answer it.
StatusOf(auth, missing) == IF missing = "token" /\ TakesTokens(auth) THEN 401 ELSE 403

-----------------------------------------------------------------------------
\* origin_allowed: one that does not read is none.
OriginAllowed(origin, allowed) ==
    \/ origin.kind \in {"none", "unreadable", "loopback"}
    \/ origin.kind = "other" /\ origin.name \in allowed

Answer(status, as) == [status |-> status, as |-> as]

\* handle_post, to the point where the gateway is handed the message: reads is
\* the status that its parse, wire_check and check_param_headers make of it.
HandlePost(listener, auth, request) ==
    LET identity  == Certified(listener, request.peer, request.forwarded)
        principal == Authenticated(auth, request.token, identity[1] = "some")
    IN IF ~OriginAllowed(request.origin, listener.origins) THEN Answer(403, None)
       ELSE IF ~request.permit THEN Answer(503, None)
       ELSE IF IsRefusal(identity) THEN Answer(403, None)
       ELSE IF auth # Open /\ IsRefusal(principal) THEN Answer(StatusOf(auth, principal[2]), None)
       ELSE IF request.reads # 200 THEN Answer(request.reads, None)
       ELSE Answer(200, [principal |-> IF auth = Open THEN None ELSE principal, certificate |-> identity])

-----------------------------------------------------------------------------
(***************************************************************************)
(* Cidr.                                                                   *)
(***************************************************************************)

\* checked_shr: shifting by the whole width leaves nothing.
Shifted(n, by) == IF by >= Bits THEN 0 ELSE n \div (2 ^ by)

\* The bits two addresses differ in.
Xor(a, b) ==
    LET bit(n, i) == (n \div (2 ^ i)) % 2
        sum[i \in 0 .. Bits] == IF i = 0 THEN 0
                                ELSE sum[i - 1] + (IF bit(a, i - 1) # bit(b, i - 1) THEN 2 ^ (i - 1) ELSE 0)
    IN sum[Bits]

\* Its address with the bits past its prefix cleared: the mask is shifted left,
\* within the width.
Network(addr, prefix) == IF prefix = 0 THEN 0 ELSE addr - (addr % (2 ^ (Bits - prefix)))

\* Cidr::parse, of an address and the prefix length after it.
ParseCidr(addr, prefix) == prefix \in 0 .. Bits /\ Network(addr, prefix) = addr

InCidr(cidr, ip) == Shifted(Xor(cidr.addr, ip), Bits - cidr.prefix) = 0

Trusts(cidrs, ip) == \E cidr \in cidrs : InCidr(cidr, ip)

-----------------------------------------------------------------------------
(***************************************************************************)
(* Texts, and what of them does not read.  A text is a sequence of         *)
(* characters: C, H and K are the keys Cert, Chain and another, c and d    *)
(* certificates in base64, and %c, %d and %k the same in PEM, and a        *)
(* private key in it, escaped as a URL is.                                 *)
(***************************************************************************)

Bad == <<>>
NotForwarded == <<"none">>
Chain(certs) == <<"chain", certs>>

Ows == {" "}
TrimStart(text) ==
    LET at == {i \in DOMAIN text : text[i] \notin Ows}
    IN IF at = {} THEN <<>> ELSE SubSeq(text, CHOOSE i \in at : \A j \in at : i <= j, Len(text))
TrimEnd(text) == Reverse(TrimStart(Reverse(text)))
Trim(text) == TrimEnd(TrimStart(text))

\* The first of these characters in a text, or one past its end.
Find(text, chars) ==
    LET at == {i \in DOMAIN text : text[i] \in chars}
    IN IF at = {} THEN Len(text) + 1 ELSE CHOOSE i \in at : \A j \in at : i <= j

From(text, i) == SubSeq(text, i, Len(text))

Joined(texts) == FlattenSeq([i \in DOMAIN texts |-> IF i = 1 THEN texts[i] ELSE <<",">> \o texts[i]])

\* texts: a header's values, each visible ASCII, or none is read.
Readable(values) == \A i \in DOMAIN values : \A j \in DOMAIN values[i] : values[i][j] # "bytes"

-----------------------------------------------------------------------------
(***************************************************************************)
(* RFC 9440.                                                               *)
(***************************************************************************)

\* byte_sequence: base64 between colons, which here is one certificate, or not one.
ByteSequence(text) ==
    LET t == Trim(text) IN
    IF Len(t) = 3 /\ t[1] = ":" /\ t[3] = ":" /\ t[2] \in {"c", "d"} THEN t[2] ELSE "bad"

\* The pieces of a text between some of its characters.
SplitAt(text, char) ==
    LET pieces[i \in 1 .. Len(text) + 1] ==
            LET rest == From(text, i)  at == Find(rest, {char}) IN
            IF at > Len(rest) THEN <<rest>> ELSE <<SubSeq(rest, 1, at - 1)>> \o pieces[i + at]
    IN pieces[1]

ClientCert(certs, chains) ==
    LET chain   == Joined(chains)
        members == IF Trim(chain) = <<>> THEN <<>> ELSE SplitAt(chain, ",")
        ders    == [i \in 1 .. Len(members) + 1 |->
                       ByteSequence(IF i = 1 THEN certs[1] ELSE members[i - 1])]
    IN IF ~Readable(certs) \/ ~Readable(chains) THEN Bad
       ELSE IF certs = <<>> THEN (IF Trim(chain) = <<>> THEN NotForwarded ELSE Bad)
       ELSE IF Len(certs) > 1 \/ "bad" \in Range(ders) THEN Bad
       ELSE Chain(ders)

-----------------------------------------------------------------------------
(***************************************************************************)
(* Envoy's x-forwarded-client-cert.                                        *)
(***************************************************************************)

\* unquoted: a quoted value from after its opening quote, and what follows it.
Unquoted(quoted) ==
    LET read[i \in 1 .. Len(quoted) + 1] ==
            IF i > Len(quoted) THEN Bad
            ELSE IF quoted[i] = "\"" THEN <<<<>>, From(quoted, i + 1)>>
            ELSE LET at == IF quoted[i] = "\\" THEN i + 1 ELSE i  rest == read[at + 1] IN
                 IF at > Len(quoted) \/ rest = Bad THEN Bad ELSE <<<<quoted[at]>> \o rest[1], rest[2]>>
    IN IF quoted = <<>> THEN Bad ELSE read[1]

\* The value a pair has, from after its `=`, and what follows it.
ValueAt(after) ==
    LET end == Find(after, {";", ","})  value == TrimEnd(SubSeq(after, 1, end - 1)) IN
    IF after # <<>> /\ after[1] = "\"" THEN Unquoted(Tail(after))
    ELSE IF "\"" \in Range(value) THEN Bad ELSE <<value, From(after, end)>>

KeyChars == {"C", "H", "K", "c", "d", "k"}

\* A pair, from its key on, and what follows it.
PairAt(text) ==
    LET eq == Find(text, {"="})  key == Trim(SubSeq(text, 1, eq - 1))
        value == ValueAt(TrimStart(From(text, eq + 1)))
    IN IF eq > Len(text) \/ key = <<>> \/ ~(Range(key) \subseteq KeyChars) \/ value = Bad THEN Bad
       ELSE <<<<key, value[1]>>, TrimStart(value[2])>>

\* xfcc_elements: elements apart by commas, pairs by semicolons. The elements from the
\* pair in the last n characters on, the first from that pair on.
XfccElements(text) ==
    LET read[n \in 0 .. Len(text)] ==
            LET pair  == PairAt(From(text, Len(text) - n + 1))
                after == pair[2]
                next  == IF after[1] = ";" THEN read[Len(after) - 1] ELSE read[Len(TrimStart(Tail(after)))]
            IN IF pair = Bad THEN Bad
               ELSE IF after = <<>> THEN <<<<pair[1]>>>>
               ELSE IF after[1] \notin {";", ","} \/ next = Bad THEN Bad
               ELSE IF after[1] = "," THEN <<<<pair[1]>>>> \o next
               ELSE <<<<pair[1]>> \o next[1]>> \o Tail(next)
    IN read[Len(TrimStart(text))]

\* percent_decoded: the text an escape's two digits write, or none of it.
PercentDecoded(text) ==
    LET read[i \in 1 .. Len(text) + 1] ==
            IF i > Len(text) THEN <<>>
            ELSE IF text[i] # "%" THEN <<"text">> \o read[i + 1]
            ELSE IF i = Len(text) \/ text[i + 1] \notin {"c", "d", "k"} THEN <<"not hex">>
            ELSE <<text[i + 1]>> \o read[i + 2]
    IN read[1]

\* pem_certificates: one certificate or more, and no other section.
Pem(text) ==
    LET decoded == PercentDecoded(text)  certs == SelectSeq(decoded, LAMBDA c : c # "text") IN
    IF certs = <<>> \/ ~(Range(certs) \subseteq {"c", "d"}) THEN Bad ELSE certs

CertKey == <<"C">>
ChainKey == <<"H">>

\* The values of a key in an element: none, one, or twice, which does not read.
Once(element, key) ==
    LET values == SelectSeq(element, LAMBDA pair : pair[1] = key) IN
    IF values = <<>> THEN NotForwarded ELSE IF Len(values) > 1 THEN Bad ELSE Pem(values[1][2])

Led(leaf, chain) ==
    Chain(<<leaf>> \o (IF chain = NotForwarded THEN <<>> ELSE SelectSeq(chain, LAMBDA c : c # leaf)))
ChainOf(cert, chain) ==
    IF cert = Bad \/ chain = Bad \/ Len(cert) > 1 THEN Bad
    ELSE IF cert = NotForwarded /\ chain = NotForwarded THEN Bad
    ELSE Led(IF cert # NotForwarded THEN cert[1] ELSE chain[1], chain)
FromElements(elements) ==
    IF elements = Bad \/ Len(elements) # 1 THEN Bad
    ELSE ChainOf(Once(elements[1], CertKey), Once(elements[1], ChainKey))
Xfcc(values) ==
    IF ~Readable(values) THEN Bad
    ELSE IF Trim(Joined(values)) = <<>> THEN NotForwarded
    ELSE FromElements(XfccElements(Joined(values)))

\* TrustedProxy::certificate.
Forwarded(read) == IF read \notin {Bad, NotForwarded} /\ Len(read[2]) > MostCertificates THEN Bad ELSE read

=================================================================================
