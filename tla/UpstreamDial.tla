------------------------------ MODULE UpstreamDial ------------------------------
(***************************************************************************)
(* What a connection to an upstream is made with: the addresses it may go  *)
(* to (mcpdef-transport/src/egress.rs), the server it takes for the        *)
(* upstream and the certificate it presents (tls.rs, pin.rs), and the      *)
(* client that is built of both (http.rs).                                 *)
(*                                                                         *)
(* An IPv4 address is a sequence of four bytes and an IPv6 one of eight    *)
(* words of 16 bits.  A value that may be absent is a set of at most one.  *)
(***************************************************************************)
EXTENDS Integers, Sequences, FiniteSets, FiniteSetsExt, SequencesExt

CONSTANTS
    Bundled, System,   \* the roots in the binary, and in the host's store
    MAX_BYTES          \* the most of an answer that is read

TheOne(option) == CHOOSE value \in option : TRUE
NotOk == [ok |-> FALSE]

-----------------------------------------------------------------------------
(***************************************************************************)
(* The egress guard.                                                       *)
(***************************************************************************)

\* The first class whose test holds.
FirstOf(classes) == classes[Min({i \in DOMAIN classes : classes[i][2]})][1]

\* classify_v4.
ClassifyV4(o) ==
    FirstOf(<<
        <<"unspecified", o = <<0, 0, 0, 0>> >>,
        <<"loopback", o[1] = 127>>,
        <<"linkLocal", (o[1] = 169 /\ o[2] = 254) \/ o = <<255, 255, 255, 255>> >>,
        <<"private", \/ o[1] = 10 \/ (o[1] = 172 /\ o[2] \in 16 .. 31) \/ (o[1] = 192 /\ o[2] = 168)
                     \/ (o[1] = 100 /\ o[2] \in 64 .. 127)>>,
        <<"special", \/ o[1] = 0 \/ (o[1] = 192 /\ o[2] = 0 /\ o[3] \in {0, 2}) \/ (o[1] = 198 /\ o[2] \in {18, 19})
                     \/ (o[1] = 198 /\ o[2] = 51 /\ o[3] = 100) \/ (o[1] = 203 /\ o[2] = 0 /\ o[3] = 113)
                     \/ o[1] >= 224>>,
        <<"public", TRUE>> >>)

\* classify_v6: an address mapped from IPv4 is that one.
ClassifyV6(s) ==
    IF SubSeq(s, 1, 6) = <<0, 0, 0, 0, 0, 65535>>
    THEN ClassifyV4(<<s[7] \div 256, s[7] % 256, s[8] \div 256, s[8] % 256>>)
    ELSE FirstOf(<<
        <<"unspecified", s = <<0, 0, 0, 0, 0, 0, 0, 0>> >>,
        <<"loopback", s = <<0, 0, 0, 0, 0, 0, 0, 1>> >>,
        <<"linkLocal", s[1] \in 65152 .. 65215>>,
        <<"private", s[1] \in 64512 .. 65023>>,
        <<"special", \/ s[1] >= 65280 \/ (s[1] = 8193 /\ s[2] = 3512) \/ (s[1] = 16383 /\ s[2] < 4096)
                     \/ (s[1] = 8193 /\ s[2] = 2 /\ s[3] = 0) \/ s[1] = 24320
                     \/ (s[1] = 256 /\ s[2] = 0 /\ s[3] = 0) \/ (s[1] = 100 /\ s[2] = 65435 /\ s[3] = 1)>>,
        <<"public", TRUE>> >>)

Classify(ip) == IF Len(ip) = 4 THEN ClassifyV4(ip) ELSE ClassifyV6(ip)

\* check_ip: refused, or whether the address is public.
CheckIp(ip, policy) ==
    LET class == Classify(ip) IN
    IF class = "public" THEN "public"
    ELSE IF class \in {"loopback", "private"} /\ policy.allowPrivate THEN "inside" ELSE "refused"

\* target: a URL that reads is a scheme, and a host that is a name or an address.
Target(url) == url.reads /\ url.scheme \in {"http", "https"} /\ url.host # {}
Host(url) == TheOne(url.host)
IsDomain(url) == Host(url).name # ""

InClear(url, ips, policy) ==
    url.scheme = "http" /\ policy.httpsForPublic /\ \E ip \in ips : CheckIp(ip, policy) = "public"

\* Mutant: one good address is enough.
ValidateAny(url, policy, resolved) ==
    LET ips == IF IsDomain(url) THEN resolved ELSE {Host(url).ip} IN
    IF Target(url) /\ (\E ip \in ips : CheckIp(ip, policy) # "refused") /\ ~InClear(url, ips, policy)
    THEN [ok |-> TRUE, host |-> Host(url), addrs |-> ips] ELSE NotOk

\* validate, where the host's name resolves to `resolved`, or to nothing.
Validate(url, policy, resolved) ==
    LET ips == IF IsDomain(url) THEN resolved ELSE {Host(url).ip} IN
    IF Target(url) /\ ips # {} /\ (\A ip \in ips : CheckIp(ip, policy) # "refused") /\ ~InClear(url, ips, policy)
    THEN [ok |-> TRUE, host |-> Host(url), addrs |-> ips] ELSE NotOk

\* validate_at.
ValidateAt(url, ip, policy) ==
    IF Target(url) /\ IsDomain(url) /\ CheckIp(ip, policy) # "refused" /\ ~InClear(url, {ip}, policy)
    THEN [ok |-> TRUE, host |-> Host(url), addrs |-> {ip}] ELSE NotOk

-----------------------------------------------------------------------------
(***************************************************************************)
(* TLS settings and the profile they load to.  A file is whether it can be *)
(* read and what of it there is: a PEM header, an encrypted key, sections  *)
(* in order, all well formed or not.  A section is its kind, what it holds *)
(* and whether that is as it should be: a root, a CRL that parses.         *)
(***************************************************************************)

\* parse_pem: the sections, whose labels are known; {} when it is refused.
ParsePem(file) == IF file.begins /\ ~file.encrypted /\ file.wellFormed THEN {file.sections} ELSE {}
ReadPem(file) == IF file.reads THEN ParsePem(file) ELSE {}

\* ca_ders and crl_ders: only such sections, each good, and at least one.
Ders(file, kind) ==
    {sections \in ReadPem(file) :
        sections # <<>> /\ \A i \in DOMAIN sections : sections[i].kind = kind /\ sections[i].good}
AllDers(files, kind) ==
    IF \E i \in DOMAIN files : Ders(files[i], kind) = {} THEN {}
    ELSE {UNION {{s.holds : s \in Range(TheOne(Ders(files[i], kind)))} : i \in DOMAIN files}}

\* read_client_trust.
ClientTrust(ca, crl) ==
    IF AllDers(ca, "certificate") = {} \/ AllDers(crl, "crl") = {} THEN {}
    ELSE {[roots |-> TheOne(AllDers(ca, "certificate")), crls |-> TheOne(AllDers(crl, "crl"))]}

KeyKinds == {"pkcs8", "pkcs1", "sec1"}
Only(sections, kinds) == SelectSeq(sections, LAMBDA s : s.kind \in kinds)

\* read_certified: the certificates of one file, whatever else is in it, and the one
\* key of another source, which has to be of the first of them.
Certified(files) ==
    LET chains == {Only(sections, {"certificate"}) : sections \in ReadPem(files.cert)}
        keys   == {Only(sections, KeyKinds) : sections \in ReadPem(files.key)}
    IN {[chain |-> both[1], key |-> both[2][1].holds] :
           both \in {pair \in chains \X keys :
               pair[1] # <<>> /\ Len(pair[2]) = 1 /\ pair[2][1].good /\ pair[2][1].holds = pair[1][1].key}}

\* Of settings: what they name reads as it should. `check`, for `read`.
IdentityReads(settings) == \A files \in settings.identity : Certified(files) # {}
PinsRead(settings) == \A i \in DOMAIN settings.pins : settings.pins[i] # "bad"
Check(settings) ==
    PinsRead(settings) /\ ClientTrust(settings.ca, settings.crl) # {} /\ IdentityReads(settings)

\* TlsSettings::verification, and TlsProfile's.
SettingsVerification(settings) ==
    IF settings.pins # <<>> THEN "pin" ELSE IF settings.skip THEN "disabled" ELSE "ca"
ProfileVerification(profile) ==
    IF profile.pins # {} THEN "pin" ELSE IF ~profile.verify THEN "disabled" ELSE "ca"

\* load. A pinned profile reads neither roots nor CRLs.
Load(settings) ==
    LET identity == {TheOne(Certified(files)) : files \in settings.identity}
        profile(roots, crls, pins) ==
            [ok |-> TRUE, roots |-> roots, crls |-> crls, pins |-> pins, min |-> settings.min,
             verify |-> ~settings.skip, identity |-> identity]
        trust == TheOne(ClientTrust(settings.ca, settings.crl))
    IN IF ~PinsRead(settings) \/ ~IdentityReads(settings) THEN NotOk
       ELSE IF settings.pins # <<>>
            THEN IF settings.skip THEN NotOk ELSE profile({}, {}, Range(settings.pins))
       ELSE IF ~Check(settings) \/ (settings.roots # "bundled" /\ System = {}) THEN NotOk
       ELSE profile(trust.roots \cup (IF settings.roots # "system" THEN Bundled ELSE {})
                               \cup (IF settings.roots # "bundled" THEN System ELSE {}), trust.crls, {})

\* What a server is taken by, as reqwest and rustls are set up: by pinned_config and
\* PinVerifier, or by with_tls_settings. A server is the root its chain leads to,
\* whether its name and dates are right, the CRLs that cover its chain and those that
\* name it, its key, the newest version it speaks, and whether it holds the key.
Accepts(profile, server) ==
    /\ server.signs /\ server.version >= profile.min
    /\ CASE ProfileVerification(profile) = "pin"      -> server.key \in profile.pins
         [] ProfileVerification(profile) = "disabled" -> TRUE
         [] OTHER -> /\ server.root \in profile.roots /\ server.named
                     /\ profile.crls # {} =>
                           profile.crls \cap server.covered # {} /\ profile.crls \cap server.revoked = {}

-----------------------------------------------------------------------------
(***************************************************************************)
(* The client: HttpClient's, whose pins are names with their addresses.    *)
(***************************************************************************)
NewClient(url, policy, connectTo) == [origin |-> url, policy |-> policy, connectTo |-> connectTo, pins |-> {}]

\* same_host.
SameHost(a, b) == a.reads /\ b.reads /\ a.host # {} /\ a.host = b.host

\* guard_and_pin: what it makes of the client, which stays as it was when refused.
Guarded(client, valid) ==
    [ok |-> valid.ok,
     client |-> IF ~valid.ok \/ valid.host.name = "" \/ (\E pin \in client.pins : pin[1] = valid.host) THEN client
                ELSE [client EXCEPT !.pins = @ \cup {<<valid.host, valid.addrs>>}]]
GuardAndPin(client, url, resolved) ==
    Guarded(client, IF client.connectTo # {} /\ SameHost(url, client.origin)
                    THEN ValidateAt(url, TheOne(client.connectTo), client.policy)
                    ELSE Validate(url, client.policy, resolved))

\* Where the client connects for a URL: build_client's resolve_to_addrs, and without
\* one the name is resolved again.
Dialled(client, url, resolved) ==
    IF ~IsDomain(url) THEN {Host(url).ip}
    ELSE IF \E pin \in client.pins : pin[1] = Host(url)
         THEN (CHOOSE pin \in client.pins : pin[1] = Host(url))[2] ELSE resolved

\* fetch: the answer's body, in its chunks, up to the cap; fetch_text takes no other
\* status than a success.
Fetched(url, policy, resolved, chunks) ==
    LET upTo[i \in 0 .. Len(chunks)] == IF i = 0 THEN 0 ELSE upTo[i - 1] + chunks[i] IN
    Validate(url, policy, resolved).ok /\ upTo[Len(chunks)] <= MAX_BYTES

\* presented_certificate: the first of the addresses, in order, whose server presents
\* a certificate and signs with its key, whatever comes of the handshake then; one that
\* hangs uses up the time for all.  An address is what its server does.
Presented(addresses) ==
    LET signed == {i \in DOMAIN addresses : addresses[i] \in {"signs", "signs and fails"}} IN
    IF signed = {} \/ \E i \in 1 .. Min(signed) : addresses[i] = "hangs" THEN 0 ELSE Min(signed)
================================================================================
