---------------------------- MODULE MCFrontsProofs ----------------------------
(***************************************************************************)
(* Proofs about ClientCertificates, ConsoleSessions and                    *)
(* ListenerCertificate, as MCFronts runs them: for any browsers, certifi-  *)
(* cates, connections and names, any times and lifetimes, and any bounds   *)
(* on what happens.  And about ConsoleDoor and FrontDoor, which say whom   *)
(* the two listeners serve: of any settings and any request.               *)
(***************************************************************************)
EXTENDS MCFronts, FiniteSetTheorems, TLAPS

-----------------------------------------------------------------------------
(***************************************************************************)
(* Clients' certificates.                                                  *)
(***************************************************************************)

\* Commands come one at a time: only then is no revocation lost (RevokedIsKept).
OneCommand == \A j, k \in Commands : j = k

Crls == [ca : Nat, revoked : SUBSET Certs]
Checks == [ca : Nat, crl : Crls, generation : Nat, covers : SUBSET Certs]
CommandStates ==
    [op : {"none", "issue", "revoke", "new-ca"}, cert : Certs \cup {NoCert}, ca : Nat,
     read : SUBSET Certs, at : {"none", "ca", "read", "list", "crl"}]
Connections ==
    [state : {"none", "handshake", "open", "request"}, cert : Certs \cup {NoCert},
     by : Checks, checked : Nat, began : Nat]

ClientType ==
    /\ age \in Nat
    /\ disk \in [ca : Nat, revoked : SUBSET Certs, crl : Crls]
    /\ command \in [Commands -> CommandStates]
    /\ \A k \in Commands : command[k].op \in {"issue", "revoke"} => command[k].cert \in Certs
    /\ issuedAs \in [Certs -> [ca : Nat, until : Nat]]
    /\ check \in Checks /\ building \in Checks /\ generation \in Nat
    /\ proxied \in BOOLEAN
    /\ conn \in [Conns -> Connections]
    /\ revokedBy \in SUBSET Certs
    /\ admitted \in [cert : Certs \cup {NoCert}, began : Nat, covers : SUBSET Certs]

\* What a command has on disk of the list it read.
HasWritten(k) ==
    LET m == command[k] IN
    /\ m.at = "read" => disk.revoked \subseteq m.read
    /\ m.at \in {"list", "crl"} => disk.revoked = m.read
    /\ m.at = "crl" => disk.crl.revoked = m.read
    /\ m.op = "revoke" /\ m.at \in {"read", "list", "crl"} => m.cert \in m.read

RevokedInv ==
    /\ revokedBy \subseteq disk.revoked /\ revokedBy \subseteq disk.crl.revoked
    /\ \A k \in Commands : HasWritten(k)

\* The checks that may still judge a certificate.
InUse ==
    {check} \cup {t \in {building} : t.generation # 0}
      \cup {conn[n].by : n \in {m \in Conns : conn[m].state \in {"handshake", "request"}}}

\* A check's generation is its own, and refuses what it covers.
ChecksInv ==
    /\ building.covers \subseteq revokedBy
    /\ \A t \in InUse : t.covers \subseteq t.crl.revoked /\ t.generation \in 1 .. generation
    /\ \A t, u \in InUse : t.generation = u.generation => t = u

\* What a connection counts as checked, the check of that generation did not cover.
CheckedInv ==
    \A n \in Conns :
      LET r == conn[n] IN
      /\ r.state = "none" => r = NoConn
      /\ r.state = "open" /\ ~proxied => r.cert \in Certs
      /\ r.state = "request" => r.cert \in Certs
      /\ r.state \in {"open", "request"} =>
           /\ r.checked <= generation
           /\ \A t \in InUse : t.generation = r.checked => r.cert \notin t.covers

AdmittedInv ==
    /\ \A c \in Certs : issuedAs[c].until <= age + Lasts[c]
    /\ RevokedStayOut

ClientInv == ClientType /\ RevokedInv /\ ChecksInv /\ CheckedInv /\ AdmittedInv

-----------------------------------------------------------------------------
(***************************************************************************)
(* Sign-ins and sessions.                                                  *)
(***************************************************************************)
Cookies == [key : Nat, sid : Nat, exp : Nat, seen : Nat]

SessionType ==
    /\ now \in Nat
    /\ signedOut \subseteq [sid : Nat, exp : Nat]
    /\ finished \subseteq [state : Nat, until : Nat, nth : Nat]
    /\ jar \in [Browsers -> [login : [key : Nat, of : Nat], session : Cookies]]
    /\ inflight \subseteq [kind : {"callback", "use", "logout"}, by : Browsers, of : Nat,
                           began : Nat, cookie : Cookies]
    /\ logins \in Seq([by : Browsers, iat : Nat])
    /\ began \in Seq(Nat) /\ finishes \in Seq(Nat)
    /\ ended \subseteq Nat
    /\ lastUse \in [Browsers -> Nat] /\ retired \in [1 .. MaxKey -> Nat]

\* A key seals until the next, which goes before it.
KeysInv ==
    \/ \E k \in 1 .. MaxKey : keys = <<k>>
    \/ \E k \in 2 .. MaxKey : keys = <<k, k - 1>>

\* The sessions' cookies a browser has, or is being sent.
Carried(b) ==
    {c \in {jar[b].session} \cup {r.cookie : r \in {q \in inflight : q.by = b}} : c # NoSession}
Around == UNION {Carried(b) : b \in Browsers}

\* Sign-ins and sessions are of the browsers that began them.
OwnInv ==
    /\ \A i \in DOMAIN began : began[i] \in DOMAIN logins
    /\ \A b \in Browsers :
         /\ jar[b].login # NoLogin =>
               jar[b].login.of \in DOMAIN logins /\ logins[jar[b].login.of].by = b
         /\ \A c \in Carried(b) : c.sid \in DOMAIN began /\ logins[began[c.sid]].by = b
    /\ \A r \in inflight :
         /\ r.kind = "callback" => r.of \in DOMAIN logins /\ logins[r.of].by = r.by
         /\ r.kind # "use" => r.cookie = NoSession

\* A session has one end, whichever cookie says it.
EndsInv ==
    /\ \A c, d \in Around : c.sid = d.sid => c.exp = d.exp
    /\ \A c \in Around : \A e \in signedOut : c.sid = e.sid => c.exp = e.exp
    /\ ended \subseteq DOMAIN began /\ \A e \in signedOut : e.sid \in DOMAIN began
    /\ \A c \in Around : c.sid \in ended => c.exp <= now \/ \E e \in signedOut : e.sid = c.sid

\* A key is let go once the last session it sealed has ended.
SealsInv ==
    /\ \A c \in Around :
         /\ c.key \in 1 .. keys[1] /\ c.exp <= now + Absolute
         /\ c.key # keys[1] => c.exp <= retired[c.key] + Absolute
    /\ \A k \in 1 .. keys[1] : k \in KeysHeld \/ Ended(k)

\* How late a cookie may be in saying when its session was used.
Slack == IF RenewAfter > MaxDelay THEN RenewAfter ELSE MaxDelay

UsesInv ==
    /\ \A b \in Browsers :
         /\ lastUse[b] <= now
         /\ jar[b].session # NoSession => lastUse[b] <= jar[b].session.seen + Slack
    /\ \A r \in inflight :
         /\ r.began <= now /\ now <= r.began + MaxDelay
         /\ r.cookie # NoSession => r.cookie.seen = r.began
         /\ r.kind = "use" /\ r.cookie = NoSession /\ jar[r.by].session # NoSession =>
               r.began <= jar[r.by].session.seen + Slack

\* A sign-in that finished is remembered, or too old to finish again, or has as many
\* after it as are kept.
Late(l) == now >= logins[l].iat + LoginFor
FinishedInv ==
    /\ \A i \in DOMAIN finishes :
         /\ finishes[i] \in DOMAIN logins
         /\ \/ \E f \in finished : f.nth = i
            \/ Late(finishes[i])
            \/ Len(finishes) - i >= FinishedKept
    /\ \A f \in finished :
         /\ f.nth \in DOMAIN finishes /\ f.state = finishes[f.nth]
         /\ f.until = logins[f.state].iat + LoginFor
    /\ FinishesOnce

SessionInv ==
    SessionType /\ KeysInv /\ OwnInv /\ EndsInv /\ SealsInv /\ UsesInv /\ FinishedInv

-----------------------------------------------------------------------------
(***************************************************************************)
(* The listeners' certificate.                                             *)
(***************************************************************************)
Names == SUBSET UNION NameSets
Leaves == [key : Nat, names : Names, until : Nat, ca : Nat, caUntil : Nat]
Files == [cert : Leaves, key : Nat]
Pairs == {"ca", "leaf"}
Halfway == {"aside", "certificate"}
Writing == {"staged"} \cup Halfway
Jobs == [by : {"none", "start", "reload", "tick", "init", "new-ca"},
         at : {"none", "load", "look", "built"} \cup Writing,
         wanted : Names, ca : Leaves,
         what : {"none"} \cup Pairs, cert : Leaves, aside : Leaves, crossed : BOOLEAN]

LeafType ==
    /\ day \in Nat /\ ticked \in BOOLEAN
    /\ ca \in Files /\ leaf \in Files /\ jobs \in [Processes -> Jobs]
    /\ running \in BOOLEAN /\ served \in Leaves /\ renewAt \in Int
    /\ failures \in Nat /\ spoilt \in SUBSET Pairs

\* What a process is at, and what it may be at then; what is to be served is not near its end.
JobHolds(p, w) ==
    /\ w.what \in Pairs <=> w.at \in Writing
    /\ w.by \in (IF p = "gateway" THEN {"none", "start", "reload", "tick"}
                 ELSE {"none", "init", "new-ca"})
    /\ w.by = "start" => ~running
    /\ w.what = "ca" => w.by \in {"start", "init", "new-ca"}
    /\ w.at = "look" => w.ca.key # 0
    /\ w.what = "leaf" \/ w.at = "built" =>
         /\ w.cert.ca # 0
         /\ w.cert.until > day + RenewBefore \/ w.cert.until >= w.cert.caUntil
JobsInv == \A p \in Processes : JobHolds(p, jobs[p])

\* Who writes a pair is alone at it, and finds there what it put there, or knows it is not.
WriteHolds(p, what) ==
    IF jobs[p].crossed THEN what \in spoilt
    ELSE /\ \A q \in Processes \ {p} : ~MidWrite(q, what)
         /\ On(what).cert = (IF jobs[p].at = "aside" THEN NoLeaf ELSE jobs[p].cert)
WritesInv == \A p \in Processes, what \in Pairs : MidWrite(p, what) => WriteHolds(p, what)

\* The certificate a write that fails would leave.
There(what) ==
    IF MidWrite("gateway", what) THEN jobs["gateway"].aside
    ELSE IF MidWrite("command", what) THEN jobs["command"].aside ELSE On(what).cert
PairsInv == \A what \in Pairs : what \notin spoilt => There(what).key = On(what).key

\* The certificates of CAs, and those of listeners, that are anywhere: a CA is known by its
\* key, and a certificate of its is for names it vouches for, and knows its end.
CasOf(w) == {w.ca} \cup IF w.what = "ca" THEN {w.cert, w.aside} ELSE {}
LeavesOf(w) == IF w.what = "ca" THEN {} ELSE {w.cert, w.aside}
CaCerts == {NoLeaf, ca.cert} \cup UNION {CasOf(jobs[p]) : p \in Processes}
LeafCerts == {NoLeaf, leaf.cert, served} \cup UNION {LeavesOf(jobs[p]) : p \in Processes}
Of(x, y) == x.ca = y.key => x = NoLeaf \/ (x.names \subseteq y.names /\ x.caUntil = y.until)
CertsInv ==
    /\ \A y \in CaCerts : y.ca = y.key
    /\ \A y, z \in CaCerts : y.key = z.key => y = z
    /\ \A x \in LeafCerts, y \in CaCerts : Of(x, y)

\* The key of a CA that is not in place yet is nobody else's.
NewInv ==
    \A p \in Processes : jobs[p].what = "ca" =>
      /\ jobs[p].cert.key \notin {0, ca.key}
      /\ \A x \in LeafCerts : x.ca # jobs[p].cert.key
      /\ \A q \in Processes : jobs[q].ca.key # jobs[p].cert.key
      /\ \A q \in Processes \ {p} : jobs[q].what = "ca" => jobs[q].cert.key # jobs[p].cert.key

ServedInv ==
    running =>
      /\ served.ca # 0 /\ renewAt = RenewAt(served)
      /\ served.until < served.caUntil => renewAt # Never

\* The gateway serves a certificate of the CA there: then a tick holds that CA, and since the
\* certificate was due, a write failed on each day but this, and on this one unless the watch
\* is yet to tick, or is at it.
ServedOfCa == running /\ "ca" \notin spoilt /\ served.ca = There("ca").key
AtTick(w) == w.by = "tick" /\ w.at = "look"
TickInv ==
    AtTick(jobs["gateway"]) =>
      /\ jobs["gateway"].wanted = served.names
      /\ ServedOfCa => jobs["gateway"].ca.key = served.ca
Used == IF ticked /\ jobs["gateway"].by # "tick" THEN 1 ELSE 0
DueInv ==
    /\ failures <= MaxFailures
    /\ ServedOfCa /\ Due /\ day < served.caUntil => day - renewAt + Used <= failures

LeafInv ==
    /\ LeafType /\ JobsInv /\ WritesInv /\ PairsInv /\ CertsInv /\ NewInv
    /\ ServedInv /\ TickInv /\ DueInv

FrontsInv == ClientInv /\ SessionInv /\ LeafInv
-----------------------------------------------------------------------------
(***************************************************************************)
(* Clients' certificates: every step keeps ClientInv.                      *)
(***************************************************************************)
LEMMA ClientConstants ==
  /\ NoCheck \in Checks /\ NoCommand \in CommandStates /\ NoConn \in Connections
  /\ NoCheck.generation = 0 /\ NoCheck.covers = {} /\ NoConn.state = "none"
  /\ NoCommand.at = "none" /\ NoCommand.op = "none"
  BY DEF NoCheck, NoCommand, NoConn, Checks, Crls, CommandStates, Connections, NoCert

LEMMA ClientsBegin ==
  ASSUME CertificatesInit
  PROVE  ClientInv
<1>a. /\ check.covers = {} /\ check.generation = 1 /\ check \in Checks
      /\ building = NoCheck /\ generation = 1 /\ revokedBy = {}
  BY DEF CertificatesInit, NoCheck, Checks, Crls
<1>1. ClientType
  <2>1. issuedAs \in [Certs -> [ca : Nat, until : Nat]]
    BY DEF CertificatesInit, NotIssued
  <2>2. proxied \in BOOLEAN
    BY CertificateAssumption DEF CertificatesInit
  <2> QED
    BY <1>a, <2>1, <2>2, ClientConstants DEF CertificatesInit, ClientType, Crls, NoCert
<1>2. RevokedInv
  BY <1>a, ClientConstants DEF CertificatesInit, RevokedInv, HasWritten
<1>3. InUse = {check}
  BY <1>a, ClientConstants DEF CertificatesInit, InUse
<1>4. ChecksInv
  BY <1>a, <1>3, ClientConstants DEF ChecksInv
<1>5. CheckedInv
  BY ClientConstants DEF CheckedInv, CertificatesInit
<1>6. AdmittedInv
  BY CertificateAssumption DEF AdmittedInv, CertificatesInit, RevokedStayOut, NotIssued, NoCert
<1> QED
  BY <1>1, <1>2, <1>4, <1>5, <1>6 DEF ClientInv

\* A command begins by what it reads of the CA, and puts nothing on a list.
LEMMA CommandsBegin ==
  ASSUME ClientType, NEW k \in Commands, CommandBegins(k)
  PROVE  \E m \in CommandStates :
           /\ command' = [command EXCEPT ![k] = m] /\ m.at = "ca"
           /\ m.op \in {"issue", "revoke"} => m.cert \in Certs
           /\ disk' \in [ca : Nat, revoked : SUBSET Certs, crl : Crls]
           /\ disk'.revoked = disk.revoked /\ disk'.crl = disk.crl
<1>1. ASSUME NEW c \in Certs, NEW op \in {"issue", "revoke"}, UNCHANGED disk,
             command' = [command EXCEPT ![k] =
               [NoCommand EXCEPT !.op = op, !.cert = c, !.ca = disk.ca, !.at = "ca"]]
      PROVE  \E m \in CommandStates :
               /\ command' = [command EXCEPT ![k] = m] /\ m.at = "ca"
               /\ m.op \in {"issue", "revoke"} => m.cert \in Certs
  <2> DEFINE m == [NoCommand EXCEPT !.op = op, !.cert = c, !.ca = disk.ca, !.at = "ca"]
  <2>1. m \in CommandStates /\ m.at = "ca" /\ m.cert = c
    BY ClientConstants DEF CommandStates, ClientType
  <2> QED
    BY <1>1, <2>1
<1>2. ASSUME command' = [command EXCEPT ![k] =
               [NoCommand EXCEPT !.op = "new-ca", !.ca = disk.ca + 1, !.at = "ca"]]
      PROVE  \E m \in CommandStates :
               /\ command' = [command EXCEPT ![k] = m] /\ m.at = "ca"
               /\ m.op \in {"issue", "revoke"} => m.cert \in Certs
  <2> DEFINE m == [NoCommand EXCEPT !.op = "new-ca", !.ca = disk.ca + 1, !.at = "ca"]
  <2>1. disk.ca + 1 \in Nat
    BY DEF ClientType
  <2>2. m \in CommandStates /\ m.at = "ca" /\ m.op = "new-ca"
    BY <2>1, ClientConstants DEF CommandStates
  <2> QED
    BY <1>2, <2>2
<1>3. /\ disk' \in [ca : Nat, revoked : SUBSET Certs, crl : Crls]
      /\ disk'.revoked = disk.revoked /\ disk'.crl = disk.crl
  <2>1. CASE UNCHANGED disk
    BY <2>1 DEF ClientType
  <2>2. CASE disk' = [disk EXCEPT !.ca = @ + 1]
    BY <2>2 DEF ClientType
  <2> QED
    BY <2>1, <2>2 DEF CommandBegins
<1>4. \E m \in CommandStates :
         /\ command' = [command EXCEPT ![k] = m] /\ m.at = "ca"
         /\ m.op \in {"issue", "revoke"} => m.cert \in Certs
  <2>1. CASE \E c \in Certs : issuedAs[c] = NotIssued /\ UNCHANGED disk
               /\ command' = [command EXCEPT ![k] =
                    [NoCommand EXCEPT !.op = "issue", !.cert = c, !.ca = disk.ca, !.at = "ca"]]
    BY <2>1, <1>1
  <2>2. CASE \E c \in Certs : issuedAs[c] # NotIssued /\ UNCHANGED disk
               /\ command' = [command EXCEPT ![k] =
                    [NoCommand EXCEPT !.op = "revoke", !.cert = c, !.ca = disk.ca, !.at = "ca"]]
    BY <2>2, <1>1
  <2>3. CASE command' = [command EXCEPT ![k] =
               [NoCommand EXCEPT !.op = "new-ca", !.ca = disk.ca + 1, !.at = "ca"]]
    BY <2>3, <1>2
  <2> QED
    BY <2>1, <2>2, <2>3 DEF CommandBegins
<1> QED
  BY <1>3, <1>4

LEMMA ClientTypeKept ==
  ASSUME ClientType, CertificatesNext
  PROVE  ClientType'
<1> USE ClientConstants
<1>1. CASE Ages
  BY <1>1 DEF Ages, ClientType
<1>2. ASSUME NEW k \in Commands, CommandBegins(k)
      PROVE  ClientType'
  <2>1. PICK m \in CommandStates :
           /\ command' = [command EXCEPT ![k] = m]
           /\ m.op \in {"issue", "revoke"} => m.cert \in Certs
           /\ disk' \in [ca : Nat, revoked : SUBSET Certs, crl : Crls]
    BY <1>2, CommandsBegin
  <2> QED
    BY <1>2, <2>1 DEF CommandBegins, ClientType
<1>3. ASSUME NEW k \in Commands, CommandReads(k)
      PROVE  ClientType'
  <2>1. /\ command'[k] \in CommandStates /\ command' = [command EXCEPT ![k] = command'[k]]
        /\ command'[k].op = command[k].op /\ command'[k].cert = command[k].cert
    <3>1. command[k] \in CommandStates /\ disk.revoked \in SUBSET Certs
      BY DEF ClientType
    <3>2. command[k].op = "revoke" => command[k].cert \in Certs
      BY DEF ClientType
    <3> QED
      BY <1>3, <3>1, <3>2 DEF CommandReads, ClientType, CommandStates
  <2> QED
    BY <1>3, <2>1 DEF CommandReads, ClientType
<1>4. ASSUME NEW k \in Commands, WriteList(k)
      PROVE  ClientType'
  BY <1>4 DEF WriteList, ClientType, CommandStates
<1>5. ASSUME NEW k \in Commands, WriteCrl(k)
      PROVE  ClientType'
  BY <1>5 DEF WriteCrl, ClientType, CommandStates, Crls
<1>6. ASSUME NEW k \in Commands, CommandEnds(k)
      PROVE  ClientType'
  <2> DEFINE m == command[k]
  <2>1. command' = [command EXCEPT ![k] = NoCommand]
    BY <1>6 DEF CommandEnds
  <2>2. m \in CommandStates /\ (m.op \in {"issue", "revoke"} => m.cert \in Certs)
    BY DEF ClientType
  <2>3. issuedAs' \in [Certs -> [ca : Nat, until : Nat]]
    <3>1. CASE m.op = "issue"
      <4>1. Lasts[m.cert] \in Nat /\ age + Lasts[m.cert] \in Nat /\ m.ca \in Nat
        BY <3>1, <2>2, CertificateAssumption DEF ClientType, CommandStates
      <4> QED
        BY <1>6, <3>1, <4>1, <2>2 DEF CommandEnds, ClientType
    <3> QED
      BY <1>6, <3>1 DEF CommandEnds, ClientType
  <2>4. revokedBy' \in SUBSET Certs
    BY <1>6, <2>2 DEF CommandEnds, ClientType
  <2> QED
    BY <1>6, <2>1, <2>3, <2>4 DEF CommandEnds, ClientType
<1>7. ASSUME NEW k \in Commands, CommandDies(k)
      PROVE  ClientType'
  BY <1>7 DEF CommandDies, ClientType
<1>8. CASE BuildReadsCa
  BY <1>8 DEF BuildReadsCa, ClientType, Checks, Crls, NoCheck
<1>9. CASE BuildReadsCrl
  <2>1. building' \in Checks /\ generation' \in Nat
    <3>1. building \in Checks /\ disk.crl \in Crls /\ generation' \in Nat
      BY <1>9 DEF BuildReadsCrl, ClientType
    <3>2. building' = [ca |-> building.ca, crl |-> disk.crl, generation |-> generation',
                       covers |-> building.covers]
      BY <1>9, <3>1 DEF BuildReadsCrl, Checks
    <3> QED
      BY <3>1, <3>2 DEF Checks
  <2> QED
    BY <1>9, <2>1 DEF BuildReadsCrl, ClientType
<1>10. CASE BuildEnds
  BY <1>10 DEF BuildEnds, ClientType
<1>11. CASE GatewayRestarts
  BY <1>11 DEF GatewayRestarts, ClientType, ReadNow, Checks
<1>12. ASSUME NEW n \in Conns, HandshakeBegins(n)
       PROVE  ClientType'
  BY <1>12 DEF HandshakeBegins, ClientType, Connections
<1>13. ASSUME NEW n \in Conns, HandshakeEnds(n)
       PROVE  ClientType'
  <2>1. PICK c \in Certs : conn' = [conn EXCEPT ![n] =
           [NoConn EXCEPT !.state = "open", !.cert = c, !.checked = conn[n].by.generation]]
    BY <1>13 DEF HandshakeEnds
  <2>2. [NoConn EXCEPT !.state = "open", !.cert = c, !.checked = conn[n].by.generation]
          \in Connections
    BY DEF ClientType, Connections, Checks
  <2> QED
    BY <1>13, <2>1, <2>2 DEF HandshakeEnds, ClientType
<1>14. ASSUME NEW n \in Conns, ProxyConnects(n)
       PROVE  ClientType'
  BY <1>14 DEF ProxyConnects, ClientType, Connections
<1>15. ASSUME NEW n \in Conns, RequestBegins(n)
       PROVE  ClientType'
  <2>1. CASE conn' = [conn EXCEPT ![n].state = "request", ![n].by = check, ![n].began = age]
    BY <1>15, <2>1 DEF RequestBegins, ClientType, Connections
  <2>2. ASSUME NEW c \in Certs,
               conn' = [conn EXCEPT ![n] = [state |-> "request", cert |-> c, by |-> check,
                                            checked |-> Unchecked, began |-> age]]
        PROVE  ClientType'
    BY <1>15, <2>2 DEF RequestBegins, ClientType, Connections, Unchecked
  <2> QED
    BY <1>15, <2>1, <2>2 DEF RequestBegins
<1>16. ASSUME NEW n \in Conns, RequestEnds(n)
       PROVE  ClientType'
  BY <1>16 DEF RequestEnds, ClientType, Connections, Checks
<1>17. ASSUME NEW n \in Conns, Disconnects(n)
       PROVE  ClientType'
  BY <1>17 DEF Disconnects, ClientType
<1> QED
  BY <1>1, <1>2, <1>3, <1>4, <1>5, <1>6, <1>7, <1>8, <1>9, <1>10, <1>11, <1>12, <1>13, <1>14,
     <1>15, <1>16, <1>17 DEF CertificatesNext

\* While one command runs at a time, what it read is the list there is: what it writes has
\* all that was revoked, and a revocation is said to be done when both files have it.
LEMMA RevokedKept ==
  ASSUME ClientType, RevokedInv, CertificatesNext, OneCommand
  PROVE  RevokedInv'
<1>1. CASE UNCHANGED <<disk, command, revokedBy>>
  BY <1>1 DEF RevokedInv, HasWritten
<1>2. ASSUME NEW k \in Commands, CommandBegins(k)
      PROVE  RevokedInv'
  <2>1. PICK m \in CommandStates :
           /\ command' = [command EXCEPT ![k] = m] /\ m.at = "ca"
           /\ disk'.revoked = disk.revoked /\ disk'.crl = disk.crl
    BY <1>2, CommandsBegin
  <2>2. ASSUME NEW j \in Commands PROVE HasWritten(j)'
    BY <2>1, <2>2 DEF ClientType, RevokedInv, HasWritten
  <2> QED
    BY <1>2, <2>1, <2>2 DEF CommandBegins, RevokedInv
<1>3. ASSUME NEW k \in Commands, CommandReads(k)
      PROVE  RevokedInv'
  <2>1. /\ command'[k].at = "read" /\ disk.revoked \subseteq command'[k].read
        /\ command'[k].op = "revoke" => command'[k].cert \in command'[k].read
        /\ \A j \in Commands : j = k
    BY <1>3 DEF CommandReads, ClientType, CommandStates, OneCommand
  <2>2. ASSUME NEW j \in Commands PROVE HasWritten(j)'
    BY <1>3, <2>1, <2>2 DEF CommandReads, HasWritten
  <2> QED
    BY <1>3, <2>2 DEF CommandReads, RevokedInv
<1>4. ASSUME NEW k \in Commands, WriteList(k)
      PROVE  RevokedInv'
  <2>1. /\ command'[k].at = "list" /\ command'[k].read = command[k].read
        /\ command'[k].op = command[k].op /\ command'[k].cert = command[k].cert
        /\ disk'.revoked = command[k].read /\ disk'.crl = disk.crl
        /\ \A j \in Commands : j = k
    BY <1>4 DEF WriteList, ClientType, CommandStates, OneCommand
  <2>2. HasWritten(k) /\ command[k].at = "read"
    BY <1>4 DEF WriteList, RevokedInv
  <2>3. ASSUME NEW j \in Commands PROVE HasWritten(j)'
    BY <2>1, <2>2, <2>3 DEF HasWritten
  <2> QED
    BY <1>4, <2>1, <2>2, <2>3 DEF WriteList, RevokedInv, HasWritten
<1>5. ASSUME NEW k \in Commands, WriteCrl(k)
      PROVE  RevokedInv'
  <2>1. /\ command'[k].at = "crl" /\ command'[k].read = command[k].read
        /\ command'[k].op = command[k].op /\ command'[k].cert = command[k].cert
        /\ disk'.revoked = disk.revoked /\ disk'.crl.revoked = command[k].read
        /\ \A j \in Commands : j = k
    BY <1>5 DEF WriteCrl, ClientType, CommandStates, Crls, OneCommand
  <2>2. HasWritten(k) /\ command[k].at = "list"
    BY <1>5 DEF WriteCrl, RevokedInv
  <2>3. ASSUME NEW j \in Commands PROVE HasWritten(j)'
    BY <2>1, <2>2, <2>3 DEF HasWritten
  <2> QED
    BY <1>5, <2>1, <2>2, <2>3 DEF WriteCrl, RevokedInv, HasWritten
<1>6. ASSUME NEW k \in Commands, CommandEnds(k)
      PROVE  RevokedInv'
  <2>1. command' = [command EXCEPT ![k] = NoCommand] /\ disk' = disk
    BY <1>6 DEF CommandEnds
  <2>2. HasWritten(k) /\ command[k].at = "crl"
    BY <1>6 DEF CommandEnds, RevokedInv
  <2>3. ASSUME NEW j \in Commands PROVE HasWritten(j)'
    BY <2>1, <2>3, ClientConstants DEF ClientType, RevokedInv, HasWritten
  <2>4. revokedBy' \subseteq revokedBy \cup {c \in {command[k].cert} : command[k].op = "revoke"}
    BY <1>6 DEF CommandEnds
  <2> QED
    BY <2>1, <2>2, <2>3, <2>4 DEF RevokedInv, HasWritten
<1>7. ASSUME NEW k \in Commands, CommandDies(k)
      PROVE  RevokedInv'
  <2>1. command' = [command EXCEPT ![k] = NoCommand] /\ disk' = disk /\ revokedBy' = revokedBy
    BY <1>7 DEF CommandDies
  <2>2. ASSUME NEW j \in Commands PROVE HasWritten(j)'
    BY <2>1, <2>2, ClientConstants DEF ClientType, RevokedInv, HasWritten
  <2> QED
    BY <2>1, <2>2 DEF RevokedInv
<1>8. CASE Ages \/ BuildReadsCa \/ BuildReadsCrl \/ BuildEnds \/ GatewayRestarts
  BY <1>1, <1>8 DEF Ages, BuildReadsCa, BuildReadsCrl, BuildEnds, GatewayRestarts
<1>9. ASSUME NEW n \in Conns,
             HandshakeBegins(n) \/ HandshakeEnds(n) \/ ProxyConnects(n)
               \/ RequestBegins(n) \/ RequestEnds(n) \/ Disconnects(n)
      PROVE  RevokedInv'
  BY <1>1, <1>9 DEF HandshakeBegins, HandshakeEnds, ProxyConnects, RequestBegins, RequestEnds,
                    Disconnects
<1> QED
  BY <1>2, <1>3, <1>4, <1>5, <1>6, <1>7, <1>8, <1>9 DEF CertificatesNext

\* No action takes anything from what was revoked, or makes a generation anew.
LEMMA OnlyMore ==
  ASSUME ClientType, CertificatesNext
  PROVE  /\ revokedBy \subseteq revokedBy' /\ generation <= generation' /\ proxied' = proxied
         /\ age <= age'
<1>1. ASSUME NEW k \in Commands,
             CommandBegins(k) \/ CommandReads(k) \/ WriteList(k) \/ WriteCrl(k)
               \/ CommandEnds(k) \/ CommandDies(k)
      PROVE  revokedBy \subseteq revokedBy' /\ generation' = generation /\ proxied' = proxied
             /\ age' = age
  BY <1>1 DEF CommandBegins, CommandReads, WriteList, WriteCrl, CommandEnds, CommandDies
<1>2. ASSUME NEW n \in Conns,
             HandshakeBegins(n) \/ HandshakeEnds(n) \/ ProxyConnects(n)
               \/ RequestBegins(n) \/ RequestEnds(n) \/ Disconnects(n)
      PROVE  revokedBy' = revokedBy /\ generation' = generation /\ proxied' = proxied /\ age' = age
  BY <1>2 DEF HandshakeBegins, HandshakeEnds, ProxyConnects, RequestBegins, RequestEnds,
              Disconnects
<1>3. CASE Ages \/ BuildReadsCa \/ BuildReadsCrl \/ BuildEnds \/ GatewayRestarts
  BY <1>3 DEF Ages, BuildReadsCa, BuildReadsCrl, BuildEnds, GatewayRestarts, ClientType
<1>4. generation \in Nat /\ age \in Nat
  BY DEF ClientType
<1> QED
  BY <1>1, <1>2, <1>3, <1>4 DEF CertificatesNext

\* Of the checks in use after a step, at most one is new, of a generation of its own.
LEMMA OneNewCheck ==
  ASSUME ClientType, RevokedInv, ChecksInv, CertificatesNext
  PROVE  \E s : \A t \in InUse' :
           \/ t \in InUse
           \/ /\ t = s /\ t.covers \subseteq t.crl.revoked
              /\ generation' = generation + 1 /\ t.generation = generation'
<1> DEFINE Judging(m) == conn[m].state \in {"handshake", "request"}
<1>1. CASE InUse' \subseteq InUse
  BY <1>1
<1>2. CASE UNCHANGED <<check, building, conn>>
  BY <1>1, <1>2 DEF InUse
<1>3. CASE BuildReadsCa
  <2>1. check' = check /\ conn' = conn /\ building'.generation = 0
    BY <1>3 DEF BuildReadsCa, NoCheck
  <2> QED
    BY <1>1, <2>1 DEF InUse
<1>4. CASE BuildReadsCrl
  <2>1. /\ building'.generation = generation' /\ building'.covers = building.covers
        /\ building'.crl = disk.crl
    BY <1>4 DEF BuildReadsCrl, ClientType, Checks
  <2>2. building'.covers \subseteq building'.crl.revoked
    BY <2>1 DEF ChecksInv, RevokedInv
  <2>3. InUse' \subseteq InUse \cup {building'}
    BY <1>4 DEF BuildReadsCrl, InUse
  <2>4. generation' = generation + 1
    BY <1>4 DEF BuildReadsCrl
  <2> QED
    BY <2>1, <2>2, <2>3, <2>4
<1>5. CASE BuildEnds
  <2>1. building'.generation = 0 /\ check' \in {building, check} /\ conn' = conn
        /\ building.generation # 0
    BY <1>5, ClientConstants DEF BuildEnds
  <2> QED
    BY <1>1, <2>1 DEF InUse
<1>6. CASE GatewayRestarts
  <2>1. /\ check'.generation = generation' /\ check'.covers = revokedBy
        /\ check'.crl = disk.crl /\ building'.generation = 0
        /\ generation' = generation + 1
    BY <1>6, ClientConstants DEF GatewayRestarts, ReadNow
  <2>2. \A m \in Conns : conn'[m].state = "none"
    BY <1>6, ClientConstants DEF GatewayRestarts
  <2>3. InUse' \subseteq {check'}
    BY <2>1, <2>2 DEF InUse
  <2>4. check'.covers \subseteq check'.crl.revoked
    BY <2>1 DEF RevokedInv
  <2> QED
    BY <2>1, <2>3, <2>4
<1>7. ASSUME NEW n \in Conns, UNCHANGED <<check, building>>,
             \A m \in Conns : m # n => conn'[m] = conn[m],
             conn'[n].state \in {"handshake", "request"} => conn'[n].by = check
      PROVE  InUse' \subseteq InUse
  BY <1>7 DEF InUse
<1>8. ASSUME NEW n \in Conns,
             HandshakeBegins(n) \/ HandshakeEnds(n) \/ ProxyConnects(n)
               \/ RequestBegins(n) \/ RequestEnds(n) \/ Disconnects(n)
      PROVE  InUse' \subseteq InUse
  <2>0. UNCHANGED <<check, building>>
    BY <1>8 DEF HandshakeBegins, HandshakeEnds, ProxyConnects, RequestBegins, RequestEnds,
                Disconnects
  <2>1. \A m \in Conns : m # n => conn'[m] = conn[m]
    BY <1>8 DEF HandshakeBegins, HandshakeEnds, ProxyConnects, RequestBegins, RequestEnds,
                Disconnects, ClientType
  <2>2. CASE HandshakeBegins(n)
    BY <2>0, <2>1, <2>2, <1>7 DEF HandshakeBegins, ClientType, Connections
  <2>3. CASE HandshakeEnds(n)
    <3>1. conn'[n].state = "open"
      BY <2>3, ClientConstants DEF HandshakeEnds, ClientType, Connections
    <3> QED
      BY <2>0, <2>1, <3>1, <1>7
  <2>4. CASE ProxyConnects(n)
    BY <2>0, <2>1, <2>4, <1>7 DEF ProxyConnects, ClientType, Connections
  <2>5. CASE RequestBegins(n)
    BY <2>0, <2>1, <2>5, <1>7 DEF RequestBegins, ClientType, Connections
  <2>6. CASE RequestEnds(n)
    <3>1. conn'[n].state = "open"
      BY <2>6, ClientConstants DEF RequestEnds, ClientType, Connections
    <3> QED
      BY <2>0, <2>1, <3>1, <1>7
  <2>7. CASE Disconnects(n)
    <3>1. conn'[n].state = "none"
      BY <2>7, ClientConstants DEF Disconnects, ClientType
    <3> QED
      BY <2>0, <2>1, <3>1, <1>7
  <2> QED
    BY <1>8, <2>2, <2>3, <2>4, <2>5, <2>6, <2>7
<1>9. ASSUME NEW k \in Commands,
             CommandBegins(k) \/ CommandReads(k) \/ WriteList(k) \/ WriteCrl(k)
               \/ CommandEnds(k) \/ CommandDies(k)
      PROVE  UNCHANGED <<check, building, conn>>
  BY <1>9 DEF CommandBegins, CommandReads, WriteList, WriteCrl, CommandEnds, CommandDies
<1>10. CASE Ages
  BY <1>2, <1>10 DEF Ages
<1> QED
  BY <1>1, <1>2, <1>3, <1>4, <1>5, <1>6, <1>8, <1>9, <1>10 DEF CertificatesNext

LEMMA ChecksKept ==
  ASSUME ClientType, RevokedInv, ChecksInv, CertificatesNext
  PROVE  ChecksInv'
<1>1. PICK s : \A t \in InUse' :
           \/ t \in InUse
           \/ /\ t = s /\ t.covers \subseteq t.crl.revoked
              /\ generation' = generation + 1 /\ t.generation = generation'
  BY OneNewCheck
<1>2. revokedBy \subseteq revokedBy' /\ generation <= generation' /\ generation \in Nat
      /\ generation' \in Nat
  BY OnlyMore, ClientTypeKept DEF ClientType
<1>3. \A t \in InUse' : t.covers \subseteq t.crl.revoked /\ t.generation \in 1 .. generation'
  BY <1>1, <1>2 DEF ChecksInv
<1>4. \A t, u \in InUse' : t.generation = u.generation => t = u
  BY <1>1, <1>2 DEF ChecksInv
<1>5. building'.covers \subseteq revokedBy'
  <2>1. CASE building' \in {building, NoCheck}
    BY <2>1, <1>2, ClientConstants DEF ChecksInv
  <2>2. CASE BuildReadsCa
    <3>1. building'.covers = revokedBy
      BY <2>2 DEF BuildReadsCa, NoCheck
    <3> QED
      BY <3>1, <1>2
  <2>3. CASE BuildReadsCrl
    <3>1. building'.covers = building.covers
      BY <2>3 DEF BuildReadsCrl, ClientType, Checks
    <3> QED
      BY <3>1, <1>2 DEF ChecksInv
  <2>4. CASE Ages \/ BuildEnds \/ GatewayRestarts
    BY <2>1, <2>4 DEF Ages, BuildEnds, GatewayRestarts
  <2>5. ASSUME NEW k \in Commands,
               CommandBegins(k) \/ CommandReads(k) \/ WriteList(k) \/ WriteCrl(k)
                 \/ CommandEnds(k) \/ CommandDies(k)
        PROVE  building' = building
    BY <2>5 DEF CommandBegins, CommandReads, WriteList, WriteCrl, CommandEnds, CommandDies
  <2>6. ASSUME NEW n \in Conns,
               HandshakeBegins(n) \/ HandshakeEnds(n) \/ ProxyConnects(n)
                 \/ RequestBegins(n) \/ RequestEnds(n) \/ Disconnects(n)
        PROVE  building' = building
    BY <2>6 DEF HandshakeBegins, HandshakeEnds, ProxyConnects, RequestBegins, RequestEnds,
                Disconnects
  <2> QED
    BY <2>1, <2>2, <2>3, <2>4, <2>5, <2>6 DEF CertificatesNext
<1> QED
  BY <1>3, <1>4, <1>5 DEF ChecksInv

\* What the check in use takes, it does not cover.
LEMMA VerifiedIsNotCovered ==
  ASSUME ChecksInv, NEW t \in InUse, NEW c, Verified(t, c)
  PROVE  \A u \in InUse : u.generation = t.generation => c \notin u.covers
  BY DEF Verified, ChecksInv

\* A connection that keeps what it counts as checked keeps it true.
LEMMA CheckedStays ==
  ASSUME ClientType, RevokedInv, ChecksInv, CertificatesNext, NEW c, NEW g \in Nat,
         g <= generation, \A t \in InUse : t.generation = g => c \notin t.covers
  PROVE  g <= generation' /\ \A t \in InUse' : t.generation = g => c \notin t.covers
<1>1. PICK s : \A t \in InUse' :
           \/ t \in InUse
           \/ /\ t = s /\ t.covers \subseteq t.crl.revoked
              /\ generation' = generation + 1 /\ t.generation = generation'
  BY OneNewCheck
<1>2. generation <= generation' /\ generation \in Nat /\ generation' \in Nat
  BY OnlyMore, ClientTypeKept DEF ClientType
<1> QED
  BY <1>1, <1>2

LEMMA CheckedKept ==
  ASSUME ClientType, RevokedInv, ChecksInv, CheckedInv, CertificatesNext
  PROVE  CheckedInv'
<1> DEFINE Counts(r) == /\ r.checked <= generation
                        /\ \A t \in InUse : t.generation = r.checked => r.cert \notin t.covers
           Good(r) == /\ r.state = "none" => r = NoConn
                      /\ r.state = "open" /\ ~proxied => r.cert \in Certs
                      /\ r.state = "request" => r.cert \in Certs
                      /\ r.state \in {"open", "request"} => Counts(r)
<1>0. /\ proxied' = proxied /\ ClientType' /\ ChecksInv'
      /\ \A m \in Conns : conn[m] \in Connections /\ Good(conn[m])
      /\ \A m \in Conns : conn'[m] \in Connections
  BY OnlyMore, ClientTypeKept, ChecksKept DEF ClientType, CheckedInv
<1>1. ASSUME NEW r \in Connections, Good(r)
      PROVE  Good(r)'
  <2>1. Counts(r) => Counts(r)'
    BY CheckedStays DEF Connections
  <2> QED
    BY <1>0, <1>1, <2>1
<1>2. SUFFICES ASSUME NEW n \in Conns, NEW r \in Connections, r = conn'[n]
               PROVE  Good(r)
  BY <1>0, <1>1 DEF CheckedInv
<1>3. CASE r = conn[n]
  BY <1>0, <1>3
<1>4. CASE r = NoConn
  BY <1>4, ClientConstants
<1>5. ASSUME r.checked = Unchecked, r.state = "request" => r.cert \in Certs,
             r.state = "open" => proxied, r.state # "none"
      PROVE  Good(r)
  <2>1. \A t \in InUse : t.generation # 0
    BY DEF ChecksInv, ClientType
  <2> QED
    BY <1>5, <2>1 DEF Unchecked, ClientType
<1>6. CASE UNCHANGED conn
  BY <1>2, <1>3, <1>6
<1>7. CASE Ages \/ BuildReadsCa \/ BuildReadsCrl \/ BuildEnds
  BY <1>6, <1>7 DEF Ages, BuildReadsCa, BuildReadsCrl, BuildEnds
<1>8. CASE GatewayRestarts
  BY <1>2, <1>4, <1>8 DEF GatewayRestarts
<1>9. ASSUME NEW k \in Commands,
             CommandBegins(k) \/ CommandReads(k) \/ WriteList(k) \/ WriteCrl(k)
               \/ CommandEnds(k) \/ CommandDies(k)
      PROVE  Good(r)
  BY <1>6, <1>9 DEF CommandBegins, CommandReads, WriteList, WriteCrl, CommandEnds, CommandDies
<1>10. ASSUME NEW m \in Conns, HandshakeBegins(m)
       PROVE  Good(r)
  <2>1. CASE m = n
    <3>1. r.state = "handshake"
      BY <1>2, <1>10, <2>1 DEF HandshakeBegins, ClientType, Connections
    <3> QED
      BY <3>1
  <2> QED
    BY <1>2, <1>3, <1>10, <2>1 DEF HandshakeBegins, ClientType
<1>11. ASSUME NEW m \in Conns, HandshakeEnds(m)
       PROVE  Good(r)
  <2>1. CASE m = n
    <3>1. PICK c \in Certs : /\ Verified(conn[n].by, c)
                             /\ r = [NoConn EXCEPT !.state = "open", !.cert = c,
                                                   !.checked = conn[n].by.generation]
      BY <1>2, <1>11, <2>1 DEF HandshakeEnds, ClientType
    <3>2. r.state = "open" /\ r.cert = c /\ r.checked = conn[n].by.generation
      BY <3>1, ClientConstants DEF Connections
    <3>3. conn[n].by \in InUse
      BY <1>11, <2>1 DEF HandshakeEnds, InUse
    <3>4. Counts(r)
      BY <3>1, <3>2, <3>3, VerifiedIsNotCovered DEF ChecksInv, ClientType
    <3> QED
      BY <3>2, <3>4
  <2> QED
    BY <1>2, <1>3, <1>11, <2>1 DEF HandshakeEnds, ClientType
<1>12. ASSUME NEW m \in Conns, ProxyConnects(m)
       PROVE  Good(r)
  <2>1. CASE m = n
    <3>1. conn[n].state = "none" /\ proxied
      BY <1>12, <2>1 DEF ProxyConnects
    <3>2. conn[n].checked = Unchecked
      BY <1>0, <3>1 DEF NoConn, Unchecked
    <3>3. r.state = "open" /\ r.checked = conn[n].checked
      BY <1>2, <1>12, <2>1 DEF ProxyConnects, ClientType, Connections
    <3> QED
      BY <1>5, <3>1, <3>2, <3>3
  <2> QED
    BY <1>2, <1>3, <1>12, <2>1 DEF ProxyConnects, ClientType
<1>13. ASSUME NEW m \in Conns, RequestBegins(m)
       PROVE  Good(r)
  <2>1. CASE m = n
    <3>1. conn[n].state = "open"
      BY <1>13, <2>1 DEF RequestBegins
    <3>2. CASE ~proxied
      <4>1. r.state = "request" /\ r.checked = conn[n].checked /\ r.cert = conn[n].cert
        BY <1>2, <1>13, <2>1, <3>2 DEF RequestBegins, ClientType, Connections
      <4> QED
        BY <1>0, <3>1, <3>2, <4>1
    <3>3. CASE proxied
      <4>1. r.state = "request" /\ r.checked = Unchecked /\ r.cert \in Certs
        BY <1>2, <1>13, <2>1, <3>3 DEF RequestBegins, ClientType
      <4> QED
        BY <1>5, <4>1
    <3> QED
      BY <3>2, <3>3
  <2> QED
    BY <1>2, <1>3, <1>13, <2>1 DEF RequestBegins, ClientType
<1>14. ASSUME NEW m \in Conns, RequestEnds(m)
       PROVE  Good(r)
  <2>1. CASE m = n
    <3> DEFINE q == conn[n]
    <3>1. q.state = "request" /\ q \in Connections /\ Good(q)
      BY <1>0, <1>14, <2>1 DEF RequestEnds
    <3>2. /\ r.state = "open" /\ r.cert = q.cert
          /\ r.checked = (IF Admits(q) THEN q.by.generation ELSE q.checked)
      BY <1>2, <1>14, <2>1, ClientConstants DEF RequestEnds, ClientType, Connections
    <3>3. q.by \in InUse
      BY <3>1 DEF InUse
    <3>4. Counts(q) /\ q.cert \in Certs
      BY <3>1
    <3>5. Counts(r)
      <4>1. CASE r.checked = q.checked
        BY <3>2, <3>4, <4>1
      <4>2. CASE Admits(q) /\ q.checked # q.by.generation
        <5>1. Verified(q.by, q.cert) /\ r.checked = q.by.generation
          BY <3>2, <4>2 DEF Admits
        <5> QED
          BY <3>2, <3>3, <5>1, VerifiedIsNotCovered DEF ChecksInv, ClientType
      <4> QED
        BY <3>2, <4>1, <4>2
    <3> QED
      BY <3>2, <3>4, <3>5
  <2> QED
    BY <1>2, <1>3, <1>14, <2>1 DEF RequestEnds, ClientType
<1>15. ASSUME NEW m \in Conns, Disconnects(m)
       PROVE  Good(r)
  <2>1. CASE m = n
    BY <1>2, <1>4, <1>15, <2>1 DEF Disconnects, ClientType
  <2> QED
    BY <1>2, <1>3, <1>15, <2>1 DEF Disconnects, ClientType
<1> QED
  BY <1>7, <1>8, <1>9, <1>10, <1>11, <1>12, <1>13, <1>14, <1>15 DEF CertificatesNext

LEMMA AdmittedKept ==
  ASSUME ClientType, ChecksInv, CheckedInv, AdmittedInv, CertificatesNext
  PROVE  AdmittedInv'
<1>0. \A c \in Certs : Lasts[c] \in Nat
  BY CertificateAssumption
<1>1. \A c \in Certs : /\ issuedAs'[c].until <= age' + Lasts[c]
                       /\ issuedAs[c].until <= issuedAs'[c].until
  <2>1. CASE issuedAs' = issuedAs
    BY <1>0, <2>1, OnlyMore, ClientTypeKept DEF AdmittedInv, ClientType
  <2>2. ASSUME NEW k \in Commands, CommandEnds(k), issuedAs' # issuedAs
        PROVE  \A c \in Certs : /\ issuedAs'[c].until <= age' + Lasts[c]
                                /\ issuedAs[c].until <= issuedAs'[c].until
    <3>1. /\ age' = age /\ command[k].cert \in Certs
          /\ issuedAs' = [issuedAs EXCEPT ![command[k].cert] =
                             [ca |-> command[k].ca, until |-> age + Lasts[command[k].cert]]]
      BY <2>2 DEF CommandEnds, ClientType
    <3> QED
      BY <1>0, <3>1 DEF AdmittedInv, ClientType
  <2>3. CASE Ages \/ BuildReadsCa \/ BuildReadsCrl \/ BuildEnds \/ GatewayRestarts
    BY <2>1, <2>3 DEF Ages, BuildReadsCa, BuildReadsCrl, BuildEnds, GatewayRestarts
  <2>4. ASSUME NEW k \in Commands,
               CommandBegins(k) \/ CommandReads(k) \/ WriteList(k) \/ WriteCrl(k) \/ CommandDies(k)
        PROVE  issuedAs' = issuedAs
    BY <2>4 DEF CommandBegins, CommandReads, WriteList, WriteCrl, CommandDies
  <2>5. ASSUME NEW n \in Conns,
               HandshakeBegins(n) \/ HandshakeEnds(n) \/ ProxyConnects(n)
                 \/ RequestBegins(n) \/ RequestEnds(n) \/ Disconnects(n)
        PROVE  issuedAs' = issuedAs
    BY <2>5 DEF HandshakeBegins, HandshakeEnds, ProxyConnects, RequestBegins, RequestEnds,
                Disconnects
  <2> QED
    BY <2>1, <2>2, <2>3, <2>4, <2>5 DEF CertificatesNext
<1>2. CASE admitted' = admitted
  <2>1. admitted.cert # NoCert => admitted.cert \in Certs
    BY DEF ClientType
  <2>2. \A c \in Certs : issuedAs[c].until \in Nat /\ issuedAs'[c].until \in Nat
    BY ClientTypeKept DEF ClientType
  <2>3. admitted.began \in Nat
    BY DEF ClientType
  <2>4. RevokedStayOut'
    BY <1>1, <1>2, <2>1, <2>2, <2>3 DEF AdmittedInv, RevokedStayOut
  <2> QED
    BY <1>1, <2>4 DEF AdmittedInv
<1>3. ASSUME NEW n \in Conns, RequestEnds(n), admitted' # admitted
      PROVE  AdmittedInv'
  <2> DEFINE r == conn[n]
  <2>1. /\ Admits(r) /\ r.state = "request" /\ issuedAs' = issuedAs
        /\ admitted' = [cert |-> r.cert, began |-> r.began, covers |-> r.by.covers]
    BY <1>3 DEF RequestEnds
  <2>2. r.by \in InUse
    BY <2>1 DEF InUse
  <2>3. r.cert \notin r.by.covers
    <3>1. CASE r.checked = r.by.generation
      BY <2>1, <2>2, <3>1 DEF CheckedInv
    <3>2. CASE Verified(r.by, r.cert)
      BY <2>2, <3>2, VerifiedIsNotCovered
    <3> QED
      BY <2>1, <3>1, <3>2 DEF Admits
  <2>4. RevokedStayOut'
    BY <2>1, <2>3 DEF RevokedStayOut, Admits
  <2> QED
    BY <1>1, <2>4 DEF AdmittedInv
<1>4. ASSUME NEW n \in Conns,
             HandshakeBegins(n) \/ HandshakeEnds(n) \/ ProxyConnects(n)
               \/ RequestBegins(n) \/ Disconnects(n)
      PROVE  admitted' = admitted
  BY <1>4 DEF HandshakeBegins, HandshakeEnds, ProxyConnects, RequestBegins, Disconnects
<1>5. ASSUME NEW k \in Commands,
             CommandBegins(k) \/ CommandReads(k) \/ WriteList(k) \/ WriteCrl(k)
               \/ CommandEnds(k) \/ CommandDies(k)
      PROVE  admitted' = admitted
  BY <1>5 DEF CommandBegins, CommandReads, WriteList, WriteCrl, CommandEnds, CommandDies
<1>6. CASE Ages \/ BuildReadsCa \/ BuildReadsCrl \/ BuildEnds \/ GatewayRestarts
  BY <1>2, <1>6 DEF Ages, BuildReadsCa, BuildReadsCrl, BuildEnds, GatewayRestarts
<1> QED
  BY <1>2, <1>3, <1>4, <1>5, <1>6 DEF CertificatesNext

LEMMA ClientsKept ==
  ASSUME ClientInv, CertificatesNext, OneCommand
  PROVE  ClientInv'
  BY ClientTypeKept, RevokedKept, ChecksKept, CheckedKept, AdmittedKept DEF ClientInv

-----------------------------------------------------------------------------
(***************************************************************************)
(* Sign-ins and sessions: every step keeps SessionInv.                     *)
(***************************************************************************)
LEMMA SessionConstants ==
  /\ NoSession \in Cookies /\ NoLogin \in [key : Nat, of : Nat]
  /\ NoSession.sid = 0 /\ NoSession.key = 0 /\ NoLogin.key = 0
  /\ Absolute \in Nat /\ IdleFor \in Nat /\ RenewAfter \in Nat /\ LoginFor \in Nat
  /\ FinishedKept \in Nat /\ FinishedKept > 0 /\ MaxDelay \in Nat /\ MaxKey \in Nat /\ MaxKey > 0
  /\ Slack \in Nat /\ RenewAfter <= Slack /\ MaxDelay <= Slack
  BY SessionAssumption DEF NoSession, NoLogin, Cookies, Slack

LEMMA KeysAre ==
  ASSUME KeysInv
  PROVE  /\ keys[1] \in 1 .. MaxKey /\ keys[1] \in KeysHeld /\ KeysHeld \subseteq 1 .. keys[1]
         /\ Len(keys) \in {1, 2} /\ (Len(keys) = 2 => keys[2] = keys[1] - 1)
         /\ DOMAIN keys = 1 .. Len(keys)
<1>1. ASSUME NEW k \in 1 .. MaxKey, keys = <<k>>
      PROVE  keys[1] = k /\ Len(keys) = 1 /\ DOMAIN keys = 1 .. 1
  BY <1>1
<1>2. ASSUME NEW k \in 2 .. MaxKey, keys = <<k, k - 1>>
      PROVE  keys[1] = k /\ keys[2] = k - 1 /\ Len(keys) = 2 /\ DOMAIN keys = 1 .. 2
  BY <1>2
<1> QED
  BY <1>1, <1>2, SessionConstants DEF KeysInv, KeysHeld

LEMMA SealedType ==
  ASSUME SessionType, KeysInv, NEW sid \in Nat, NEW exp \in Nat
  PROVE  /\ Sealed(sid, exp) \in Cookies /\ Sealed(sid, exp) # NoSession
         /\ Sealed(sid, exp).key = keys[1] /\ Sealed(sid, exp).sid = sid
         /\ Sealed(sid, exp).exp = exp /\ Sealed(sid, exp).seen = now
  BY KeysAre, SessionConstants DEF Sealed, Cookies, SessionType, NoSession

LEMMA RenewedType ==
  ASSUME SessionType, KeysInv, NEW c \in Cookies
  PROVE  Renewed(c) \in Cookies
  BY SealedType, SessionConstants DEF Renewed, Cookies

LEMMA SeqFacts ==
  ASSUME NEW S, NEW s \in Seq(S)
  PROVE  /\ Len(s) \in Nat /\ DOMAIN s = 1 .. Len(s)
         /\ \A i \in DOMAIN s : s[i] \in S
         /\ \A x \in S : /\ Append(s, x) \in Seq(S) /\ Len(Append(s, x)) = Len(s) + 1
                        /\ Append(s, x)[Len(s) + 1] = x
                        /\ \A i \in DOMAIN s : Append(s, x)[i] = s[i]
                        /\ DOMAIN Append(s, x) = 1 .. (Len(s) + 1)
<1>1. Len(s) \in Nat /\ DOMAIN s = 1 .. Len(s)
  OBVIOUS
<1>2. \A i \in DOMAIN s : s[i] \in S
  OBVIOUS
<1>3. ASSUME NEW x \in S
      PROVE  /\ Append(s, x) \in Seq(S) /\ Len(Append(s, x)) = Len(s) + 1
             /\ Append(s, x)[Len(s) + 1] = x
             /\ \A i \in DOMAIN s : Append(s, x)[i] = s[i]
             /\ DOMAIN Append(s, x) = 1 .. (Len(s) + 1)
  <2>1. Append(s, x) \in Seq(S) /\ Len(Append(s, x)) = Len(s) + 1
    OBVIOUS
  <2>2. Append(s, x)[Len(s) + 1] = x /\ \A i \in DOMAIN s : Append(s, x)[i] = s[i]
    BY <1>1
  <2> QED
    BY <2>1, <2>2
<1> QED
  BY <1>1, <1>2, <1>3

LEMMA LoginsType ==
  ASSUME SessionType
  PROVE  /\ Len(logins) \in Nat /\ DOMAIN logins = 1 .. Len(logins)
         /\ \A l \in DOMAIN logins : logins[l] \in [by : Browsers, iat : Nat]
         /\ Len(began) \in Nat /\ DOMAIN began = 1 .. Len(began)
         /\ Len(finishes) \in Nat /\ DOMAIN finishes = 1 .. Len(finishes)
<1>1. logins \in Seq([by : Browsers, iat : Nat]) /\ began \in Seq(Nat) /\ finishes \in Seq(Nat)
  BY DEF SessionType
<1> QED
  BY <1>1, SeqFacts

LEMMA InflightType ==
  ASSUME SessionType, NEW r \in inflight
  PROVE  /\ r.kind \in {"callback", "use", "logout"} /\ r.by \in Browsers /\ r.of \in Nat
         /\ r.began \in Nat /\ r.cookie \in Cookies
<1>1. r \in [kind : {"callback", "use", "logout"}, by : Browsers, of : Nat,
              began : Nat, cookie : Cookies]
  BY DEF SessionType
<1> QED
  BY <1>1

LEMMA SignInsAreSessions ==
  ASSUME SignInsMeet \/ OneBrowser
  PROVE  SessionNext
  BY DEF SignInsMeet, OneBrowser, SessionNext

LEMMA SessionTypeKept ==
  ASSUME SessionType, KeysInv, SessionNext
  PROVE  SessionType'
<1>1. CASE TimePasses
  <2>1. now \in Nat /\ now' = now + 1
    BY <1>1 DEF TimePasses, SessionType
  <2>2. now' \in Nat
    BY <2>1
  <2> QED
    BY <1>1, <2>2 DEF TimePasses, SessionType
<1>2. CASE Restart
  <2>1. retired' \in [1 .. MaxKey -> Nat]
    BY <1>2 DEF Restart, SessionType
  <2> QED
    BY <1>2, <2>1 DEF Restart, SessionType
<1>3. ASSUME NEW b \in Browsers, Login(b)
      PROVE  SessionType'
  <2>1. keys[1] \in Nat /\ Len(logins) + 1 \in Nat
    BY KeysAre DEF SessionType
  <2>2. jar' \in [Browsers -> [login : [key : Nat, of : Nat], session : Cookies]]
    BY <1>3, <2>1 DEF Login, SessionType
  <2>3. logins' \in Seq([by : Browsers, iat : Nat])
    BY <1>3 DEF Login, SessionType
  <2> QED
    BY <1>3, <2>2, <2>3 DEF Login, SessionType
<1>4. ASSUME NEW b \in Browsers, NEW c \in Cookies, NEW of \in Nat,
             NEW kind \in {"callback", "use", "logout"}, Begins(kind, b, of, c)
      PROVE  inflight' \subseteq [kind : {"callback", "use", "logout"}, by : Browsers, of : Nat,
                                  began : Nat, cookie : Cookies]
  BY <1>4 DEF Begins, SessionType
<1>5. ASSUME NEW b \in Browsers, UseBegins(b)
      PROVE  SessionType'
  <2>1. jar[b].session \in Cookies
    BY DEF SessionType
  <2>2. Begins("use", b, 0, Renewed(jar[b].session))
    BY <1>5 DEF UseBegins
  <2> QED
    BY <1>4, <1>5, <2>1, <2>2, RenewedType DEF UseBegins, SessionType
<1>6. ASSUME NEW b \in Browsers, LogoutBegins(b)
      PROVE  SessionType'
  <2>1. jar[b].session \in Cookies
    BY DEF SessionType
  <2>2. Begins("logout", b, 0, NoSession)
    BY <1>6 DEF LogoutBegins
  <2> QED
    <3>1. signedOut' \subseteq [sid : Nat, exp : Nat] /\ ended' \subseteq Nat
      <4> DEFINE c == jar[b].session
      <4>1. [sid |-> c.sid, exp |-> c.exp] \in [sid : Nat, exp : Nat] /\ c.sid \in Nat
        BY <2>1 DEF Cookies
      <4>2. /\ signedOut' \subseteq signedOut \cup {[sid |-> c.sid, exp |-> c.exp]}
            /\ ended' = ended \cup {c.sid}
        BY <1>6 DEF LogoutBegins
      <4> QED
        BY <4>1, <4>2 DEF SessionType
    <3> QED
      BY <1>4, <1>6, <2>2, <3>1, SessionConstants DEF LogoutBegins, SessionType
<1>7. ASSUME NEW b \in Browsers, NEW l \in DOMAIN logins, CallbackBegins(b, l)
      PROVE  SessionType'
  <2>1. l \in Nat /\ logins[l].iat \in Nat /\ Len(finishes) \in Nat
    BY LoginsType
  <2>2. Begins("callback", b, l, NoSession)
    BY <1>7 DEF CallbackBegins
  <2>3. finished' \subseteq [state : Nat, until : Nat, nth : Nat]
    <3>1. Remembered \subseteq finished /\ ButTheFirst \subseteq finished
      BY DEF Remembered, ButTheFirst
    <3>2. [state |-> l, until |-> logins[l].iat + LoginFor, nth |-> Len(finishes) + 1]
            \in [state : Nat, until : Nat, nth : Nat]
      BY <2>1, SessionConstants
    <3>3. finished' \subseteq finished \cup
            {[state |-> l, until |-> logins[l].iat + LoginFor, nth |-> Len(finishes) + 1]}
      BY <1>7, <3>1 DEF CallbackBegins, FirstFinish
    <3> QED
      BY <3>2, <3>3 DEF SessionType
  <2>4. finishes' \in Seq(Nat)
    BY <1>7, <2>1 DEF CallbackBegins, SessionType
  <2> QED
    BY <1>4, <1>7, <2>1, <2>2, <2>3, <2>4, SessionConstants DEF CallbackBegins, SessionType
<1>8. ASSUME NEW b \in Browsers, NEW l \in DOMAIN logins, CallbackRefused(b, l)
      PROVE  SessionType'
  <2>1. finished' \subseteq finished
    BY <1>8 DEF CallbackRefused, Remembered
  <2> QED
    BY <1>8, <2>1, SessionConstants DEF CallbackRefused, SessionType
<1>9. ASSUME NEW r \in inflight, CallbackEnds(r)
      PROVE  SessionType'
  <2>1. r.by \in Browsers /\ r.of \in Nat /\ Sealed(Len(began) + 1, now + Absolute) \in Cookies
    <3>1. Len(began) + 1 \in Nat /\ now + Absolute \in Nat
      BY LoginsType, SessionConstants DEF SessionType
    <3> QED
      BY <3>1, SealedType, InflightType
  <2>2. began' \in Seq(Nat) /\ lastUse' \in [Browsers -> Nat]
    <3>1. began \in Seq(Nat) /\ lastUse \in [Browsers -> Nat] /\ now \in Nat
      BY DEF SessionType
    <3>2. CASE began' = Append(began, r.of) /\ lastUse' = [lastUse EXCEPT ![r.by] = now]
      BY <2>1, <3>1, <3>2
    <3>3. CASE UNCHANGED <<began, lastUse>>
      BY <3>1, <3>3
    <3> QED
      BY <1>9, <3>2, <3>3 DEF CallbackEnds
  <2>3. jar' \in [Browsers -> [login : [key : Nat, of : Nat], session : Cookies]]
    <3> DEFINE s == Sealed(Len(began) + 1, now + Absolute)
    <3>1. s \in Cookies /\ jar \in [Browsers -> [login : [key : Nat, of : Nat], session : Cookies]]
      BY <2>1 DEF SessionType
    <3> HIDE DEF s
    <3>2. CASE jar' = [jar EXCEPT ![r.by] = [login |-> NoLogin, session |-> s]]
      BY <3>1, <3>2, <2>1, SessionConstants
    <3>3. CASE jar' = [jar EXCEPT ![r.by].login = NoLogin]
      BY <3>1, <3>3, <2>1, SessionConstants
    <3> QED
      BY <1>9, <3>2, <3>3 DEF CallbackEnds, s
  <2> QED
    BY <1>9, <2>2, <2>3 DEF CallbackEnds, SessionType
<1>10. ASSUME NEW r \in inflight, Answered(r)
       PROVE  SessionType'
  <2>1. r.by \in Browsers /\ r.cookie \in Cookies /\ r.began \in Nat
    BY InflightType
  <2>2. jar' \in [Browsers -> [login : [key : Nat, of : Nat], session : Cookies]]
    <3> DEFINE Jars == [Browsers -> [login : [key : Nat, of : Nat], session : Cookies]]
    <3>1. jar \in Jars
      BY DEF SessionType
    <3>2. ASSUME NEW c \in Cookies, jar' = [jar EXCEPT ![r.by].session = c]
          PROVE  jar' \in Jars
      BY <2>1, <3>1, <3>2
    <3>3. jar[r.by].session \in Cookies
      BY <2>1, <3>1
    <3> HIDE DEF Jars
    <3>4. \E c \in Cookies : jar' = [jar EXCEPT ![r.by].session = c]
      BY <1>10, <2>1, <3>3, SessionConstants DEF Answered
    <3> QED
      BY <3>2, <3>4 DEF Jars
  <2>3. lastUse' \in [Browsers -> Nat]
    BY <1>10, <2>1 DEF Answered, SessionType
  <2> QED
    BY <1>10, <2>2, <2>3 DEF Answered, SessionType
<1>11. ASSUME NEW r \in inflight, Lost(r)
       PROVE  SessionType'
  BY <1>11 DEF Lost, SessionType
<1> QED
  BY <1>1, <1>2, <1>3, <1>5, <1>6, <1>7, <1>8, <1>9, <1>10, <1>11 DEF SessionNext

LEMMA KeysKept ==
  ASSUME KeysInv, SessionNext
  PROVE  KeysInv'
<1>1. CASE UNCHANGED keys
  BY <1>1 DEF KeysInv
<1>2. CASE Restart
  <2>1. CASE keys[1] < MaxKey /\ keys' = <<keys[1] + 1, keys[1]>>
    <3>1. keys[1] + 1 \in 2 .. MaxKey /\ keys' = <<keys[1] + 1, (keys[1] + 1) - 1>>
      BY <2>1, KeysAre, SessionConstants
    <3> QED
      BY <3>1 DEF KeysInv
  <2>2. CASE keys' = <<keys[1]>>
    BY <2>2, KeysAre DEF KeysInv
  <2> QED
    BY <1>1, <1>2, <2>1, <2>2 DEF Restart
<1>3. CASE TimePasses
  BY <1>1, <1>3 DEF TimePasses
<1>4. ASSUME NEW b \in Browsers, Login(b) \/ UseBegins(b) \/ LogoutBegins(b)
      PROVE  keys' = keys
  BY <1>4 DEF Login, UseBegins, LogoutBegins
<1>5. ASSUME NEW b \in Browsers, NEW l \in DOMAIN logins, CallbackBegins(b, l) \/ CallbackRefused(b, l)
      PROVE  keys' = keys
  BY <1>5 DEF CallbackBegins, CallbackRefused
<1>6. ASSUME NEW r \in inflight, CallbackEnds(r) \/ Answered(r) \/ Lost(r)
      PROVE  keys' = keys
  BY <1>6 DEF CallbackEnds, Answered, Lost
<1> QED
  BY <1>1, <1>2, <1>3, <1>4, <1>5, <1>6 DEF SessionNext

LEMMA CarriedType ==
  ASSUME SessionType
  PROVE  /\ \A b \in Browsers : Carried(b) \subseteq Cookies /\ Carried(b) \subseteq Around
         /\ \A b \in Browsers : jar[b].session # NoSession => jar[b].session \in Carried(b)
         /\ \A r \in inflight : r.cookie # NoSession => r.by \in Browsers /\ r.cookie \in Carried(r.by)
         /\ Around \subseteq Cookies
<1>1. ASSUME NEW b \in Browsers
      PROVE  Carried(b) \subseteq Cookies /\ Carried(b) \subseteq Around
             /\ (jar[b].session # NoSession => jar[b].session \in Carried(b))
  <2>1. jar[b].session \in Cookies
    BY DEF SessionType
  <2>2. Carried(b) \subseteq Cookies
    BY <2>1, InflightType DEF Carried
  <2> QED
    BY <2>2 DEF Carried, Around
<1>2. ASSUME NEW r \in inflight, r.cookie # NoSession
      PROVE  r.by \in Browsers /\ r.cookie \in Carried(r.by)
  BY <1>2, InflightType DEF Carried
<1> QED
  BY <1>1, <1>2 DEF Around

\* A cookie that was not about before is a session's first, or one sealed again.
Fresh(b, c) ==
    /\ c = Sealed(Len(began) + 1, now + Absolute)
    /\ \E r \in inflight : r.kind = "callback" /\ r.by = b /\ began' = Append(began, r.of)
Again(b, c) ==
    /\ \E d \in Carried(b) : c = Sealed(d.sid, d.exp) /\ Opens(d) = "open"
    /\ began' = began

LEMMA NewCookies ==
  ASSUME SessionType, KeysInv, SessionNext, NEW b \in Browsers, NEW c \in Carried(b)'
  PROVE  \/ c \in Carried(b)
         \/ /\ Fresh(b, c) \/ Again(b, c)
            /\ UNCHANGED <<now, keys, retired, logins, signedOut, ended>>
<1>1. c # NoSession
      /\ (c = jar'[b].session \/ \E r \in inflight' : r.by = b /\ r.cookie = c)
  BY DEF Carried
<1>2. ASSUME c = jar[b].session \/ \E r \in inflight : r.by = b /\ r.cookie = c
      PROVE  c \in Carried(b)
  BY <1>1, <1>2 DEF Carried
<1>3. ASSUME inflight' \subseteq inflight, jar'[b].session = jar[b].session
      PROVE  c \in Carried(b)
  BY <1>1, <1>2, <1>3
<1>4. CASE TimePasses \/ Restart
  BY <1>3, <1>4 DEF TimePasses, Restart
<1>5. ASSUME NEW a \in Browsers, Login(a)
      PROVE  inflight' \subseteq inflight /\ jar'[b].session = jar[b].session
  BY <1>5 DEF Login, SessionType
<1>6. ASSUME NEW a \in Browsers, NEW l \in DOMAIN logins, CallbackRefused(a, l)
      PROVE  inflight' \subseteq inflight /\ jar'[b].session = jar[b].session
  BY <1>6 DEF CallbackRefused, SessionType
<1>7. ASSUME NEW kind, NEW a, NEW of, NEW d, Begins(kind, a, of, d), UNCHANGED jar,
             d # NoSession => a # b \/ c # d
      PROVE  c \in Carried(b)
  <2>1. \A r \in inflight' : r \in inflight \/ (r.by = a /\ r.cookie = d)
    BY <1>7 DEF Begins
  <2> QED
    BY <1>1, <1>2, <1>7, <2>1
<1>8. ASSUME NEW a \in Browsers, NEW l \in DOMAIN logins, CallbackBegins(a, l)
      PROVE  c \in Carried(b)
  BY <1>7, <1>8 DEF CallbackBegins
<1>9. ASSUME NEW a \in Browsers, LogoutBegins(a)
      PROVE  c \in Carried(b)
  BY <1>7, <1>9 DEF LogoutBegins
<1>10. ASSUME NEW a \in Browsers, UseBegins(a), c \notin Carried(b)
       PROVE  Again(b, c) /\ UNCHANGED <<now, keys, retired, logins, signedOut, ended>>
  <2> DEFINE d == jar[a].session
  <2>1. Begins("use", a, 0, Renewed(d)) /\ UNCHANGED jar
    BY <1>10 DEF UseBegins
  <2>2. a = b /\ c = Renewed(d)
    BY <1>7, <1>10, <2>1
  <2>3. c = Sealed(d.sid, d.exp)
    BY <1>1, <2>2 DEF Renewed
  <2>4. d \in Carried(b) /\ Opens(d) = "open"
    BY <1>10, <2>2, CarriedType DEF UseBegins
  <2>5. began' = began /\ UNCHANGED <<now, keys, retired, logins, signedOut, ended>>
    BY <1>10 DEF UseBegins
  <2> QED
    BY <2>3, <2>4, <2>5 DEF Again
<1>11. ASSUME NEW r \in inflight, CallbackEnds(r), c \notin Carried(b)
       PROVE  Fresh(b, c) /\ UNCHANGED <<now, keys, retired, logins, signedOut, ended>>
  <2> DEFINE s == Sealed(Len(began) + 1, now + Absolute)
  <2>1. inflight' \subseteq inflight /\ r.kind = "callback" /\ r.by \in Browsers
        /\ UNCHANGED <<now, keys, retired, logins, signedOut, ended>>
    BY <1>11, InflightType DEF CallbackEnds
  <2>2. jar'[b].session # jar[b].session
    BY <1>3, <1>11, <2>1
  <2>3. jar \in [Browsers -> [login : [key : Nat, of : Nat], session : Cookies]]
    BY DEF SessionType
  <2> HIDE DEF s
  <2>4. CASE jar' = [jar EXCEPT ![r.by] = [login |-> NoLogin, session |-> s]]
             /\ began' = Append(began, r.of)
    <3>1. b = r.by /\ jar'[b].session = s
      BY <2>1, <2>2, <2>3, <2>4
    <3>2. c = s
      BY <1>1, <1>2, <1>11, <2>1, <3>1
    <3> QED
      BY <2>1, <2>4, <3>1, <3>2 DEF Fresh, s
  <2>5. CASE jar' = [jar EXCEPT ![r.by].login = NoLogin]
    BY <2>1, <2>2, <2>3, <2>5
  <2> QED
    BY <1>11, <2>4, <2>5 DEF CallbackEnds, s
<1>12. ASSUME NEW r \in inflight, Answered(r)
       PROVE  c \in Carried(b)
  <2>1. inflight' \subseteq inflight /\ r.by \in Browsers
    BY <1>12, InflightType DEF Answered
  <2>2. \/ jar'[b].session \in {jar[b].session, NoSession}
        \/ b = r.by /\ jar'[b].session = r.cookie
    BY <1>12, <2>1 DEF Answered, SessionType
  <2> QED
    BY <1>1, <1>2, <2>1, <2>2
<1>13. ASSUME NEW r \in inflight, Lost(r)
       PROVE  c \in Carried(b)
  BY <1>3, <1>13 DEF Lost
<1> QED
  BY <1>3, <1>4, <1>5, <1>6, <1>8, <1>9, <1>10, <1>11, <1>12, <1>13 DEF SessionNext

\* What was begun stays as it was.
LEMMA OnlyAppended ==
  ASSUME SessionType, SessionNext
  PROVE  /\ now \in Nat /\ now' \in Nat /\ now <= now'
         /\ \A l \in DOMAIN logins : l \in DOMAIN logins' /\ logins'[l] = logins[l]
         /\ \A i \in DOMAIN began : i \in DOMAIN began' /\ began'[i] = began[i]
<1>0. /\ now \in Nat /\ logins \in Seq([by : Browsers, iat : Nat]) /\ began \in Seq(Nat)
      /\ \A l \in DOMAIN logins : l \in 1 .. Len(logins) /\ l \in Nat
      /\ Len(logins) \in Nat /\ Len(began) \in Nat
  <2>1. now \in Nat /\ logins \in Seq([by : Browsers, iat : Nat]) /\ began \in Seq(Nat)
    BY DEF SessionType
  <2> QED
    BY <2>1, LoginsType
<1>1. CASE TimePasses \/ Restart
  BY <1>0, <1>1 DEF TimePasses, Restart
<1>2. ASSUME NEW b \in Browsers, Login(b)
      PROVE  /\ now' = now /\ began' = began
             /\ \A l \in DOMAIN logins : l \in DOMAIN logins' /\ logins'[l] = logins[l]
  <2>1. logins' = Append(logins, [by |-> b, iat |-> now]) /\ now' = now /\ began' = began
        /\ [by |-> b, iat |-> now] \in [by : Browsers, iat : Nat]
    BY <1>0, <1>2 DEF Login
  <2> QED
    BY <1>0, <2>1, SeqFacts
<1>3. ASSUME NEW b \in Browsers, UseBegins(b) \/ LogoutBegins(b)
      PROVE  now' = now /\ began' = began /\ logins' = logins
  BY <1>3 DEF UseBegins, LogoutBegins
<1>4. ASSUME NEW b \in Browsers, NEW l \in DOMAIN logins, CallbackBegins(b, l) \/ CallbackRefused(b, l)
      PROVE  now' = now /\ began' = began /\ logins' = logins
  BY <1>4 DEF CallbackBegins, CallbackRefused
<1>5. ASSUME NEW r \in inflight, CallbackEnds(r)
      PROVE  /\ now' = now /\ logins' = logins
             /\ \A i \in DOMAIN began : i \in DOMAIN began' /\ began'[i] = began[i]
  <2>1. CASE began' = began
    BY <1>5, <2>1 DEF CallbackEnds
  <2>2. CASE began' = Append(began, r.of)
    <3>1. r.of \in Nat /\ Len(began) <= Len(began) + 1
      BY <1>0, InflightType
    <3> QED
      BY <1>0, <1>5, <2>2, <3>1, SeqFacts DEF CallbackEnds
  <2> QED
    BY <1>5, <2>1, <2>2 DEF CallbackEnds
<1>6. ASSUME NEW r \in inflight, Answered(r) \/ Lost(r)
      PROVE  now' = now /\ began' = began /\ logins' = logins
  BY <1>6 DEF Answered, Lost
<1> QED
  BY <1>0, <1>1, <1>2, <1>3, <1>4, <1>5, <1>6 DEF SessionNext

\* A request begun now.
NewRequest(r) ==
    /\ r.began = now /\ UNCHANGED <<now, jar, lastUse, logins>>
    /\ \/ /\ r.kind = "callback" /\ r.cookie = NoSession
          /\ r.of \in DOMAIN logins /\ AnswersItsLogin(r.by, r.of)
       \/ /\ r.kind = "use" /\ jar[r.by].session # NoSession
          /\ r.cookie = Renewed(jar[r.by].session)
       \/ r.kind = "logout" /\ r.cookie = NoSession

LEMMA NewRequests ==
  ASSUME SessionNext, NEW r \in inflight', r \notin inflight
  PROVE  NewRequest(r)
<1>1. ASSUME NEW kind, NEW b, NEW of, NEW c, Begins(kind, b, of, c)
      PROVE  r.began = now /\ r.kind = kind /\ r.by = b /\ r.of = of /\ r.cookie = c
  BY <1>1 DEF Begins
<1>2. ASSUME NEW b \in Browsers, NEW l \in DOMAIN logins, CallbackBegins(b, l)
      PROVE  NewRequest(r)
  <2>1. Begins("callback", b, l, NoSession) /\ AnswersItsLogin(b, l)
        /\ UNCHANGED <<now, jar, lastUse, logins>>
    BY <1>2 DEF CallbackBegins
  <2> QED
    BY <1>1, <2>1 DEF NewRequest
<1>3. ASSUME NEW b \in Browsers, UseBegins(b)
      PROVE  NewRequest(r)
  <2>1. Begins("use", b, 0, Renewed(jar[b].session)) /\ jar[b].session # NoSession
        /\ UNCHANGED <<now, jar, lastUse, logins>>
    BY <1>3 DEF UseBegins
  <2> QED
    BY <1>1, <2>1 DEF NewRequest
<1>4. ASSUME NEW b \in Browsers, LogoutBegins(b)
      PROVE  NewRequest(r)
  <2>1. Begins("logout", b, 0, NoSession) /\ UNCHANGED <<now, jar, lastUse, logins>>
    BY <1>4 DEF LogoutBegins
  <2> QED
    BY <1>1, <2>1 DEF NewRequest
<1>5. CASE inflight' \subseteq inflight
  BY <1>5
<1>6. CASE TimePasses \/ Restart
  BY <1>5, <1>6 DEF TimePasses, Restart
<1>7. ASSUME NEW b \in Browsers, Login(b)
      PROVE  inflight' = inflight
  BY <1>7 DEF Login
<1>8. ASSUME NEW b \in Browsers, NEW l \in DOMAIN logins, CallbackRefused(b, l)
      PROVE  inflight' = inflight
  BY <1>8 DEF CallbackRefused
<1>9. ASSUME NEW q \in inflight, CallbackEnds(q) \/ Answered(q) \/ Lost(q)
      PROVE  inflight' \subseteq inflight
  BY <1>9 DEF CallbackEnds, Answered, Lost
<1> QED
  BY <1>2, <1>3, <1>4, <1>5, <1>6, <1>7, <1>8, <1>9 DEF SessionNext

\* A login's cookie changes in its own browser only, for one just begun or for none.
LEMMA NewLogins ==
  ASSUME SessionType, SessionNext, NEW b \in Browsers
  PROVE  \/ jar'[b].login \in {jar[b].login, NoLogin}
         \/ /\ logins' = Append(logins, [by |-> b, iat |-> now])
            /\ jar'[b].login.of = Len(logins) + 1
<1>0. jar \in [Browsers -> [login : [key : Nat, of : Nat], session : Cookies]]
  BY DEF SessionType
<1>1. CASE jar' = jar
  BY <1>1
<1>2. CASE TimePasses \/ Restart
  BY <1>1, <1>2 DEF TimePasses, Restart
<1>3. ASSUME NEW a \in Browsers, Login(a)
      PROVE  \/ jar'[b].login = jar[b].login
             \/ /\ logins' = Append(logins, [by |-> b, iat |-> now])
                /\ jar'[b].login.of = Len(logins) + 1
  BY <1>0, <1>3 DEF Login
<1>4. ASSUME NEW a \in Browsers, UseBegins(a) \/ LogoutBegins(a)
      PROVE  jar' = jar
  BY <1>4 DEF UseBegins, LogoutBegins
<1>5. ASSUME NEW a \in Browsers, NEW l \in DOMAIN logins, CallbackBegins(a, l) \/ CallbackRefused(a, l)
      PROVE  jar'[b].login \in {jar[b].login, NoLogin}
  BY <1>0, <1>5 DEF CallbackBegins, CallbackRefused
<1>6. ASSUME NEW r \in inflight, CallbackEnds(r)
      PROVE  jar'[b].login \in {jar[b].login, NoLogin}
  <2> DEFINE s == Sealed(Len(began) + 1, now + Absolute)
  <2>1. \/ jar' = [jar EXCEPT ![r.by] = [login |-> NoLogin, session |-> s]]
        \/ jar' = [jar EXCEPT ![r.by].login = NoLogin]
    BY <1>6 DEF CallbackEnds
  <2>2. r.by \in Browsers
    BY InflightType
  <2> HIDE DEF s
  <2> QED
    BY <1>0, <2>1, <2>2
<1>7. ASSUME NEW r \in inflight, Answered(r)
      PROVE  jar'[b].login = jar[b].login
  <2>1. \E c : jar' = [jar EXCEPT ![r.by].session = c]
    BY <1>7 DEF Answered
  <2>2. r.by \in Browsers
    BY InflightType
  <2> QED
    BY <1>0, <2>1, <2>2
<1>8. ASSUME NEW r \in inflight, Lost(r)
      PROVE  jar' = jar
  BY <1>8 DEF Lost
<1> QED
  BY <1>1, <1>2, <1>3, <1>4, <1>5, <1>6, <1>7, <1>8 DEF SessionNext

LEMMA OwnKept ==
  ASSUME SessionType, KeysInv, OwnInv, SessionNext
  PROVE  OwnInv'
<1>0. /\ logins \in Seq([by : Browsers, iat : Nat]) /\ began \in Seq(Nat) /\ now \in Nat
      /\ SessionType'
  BY SessionTypeKept DEF SessionType
<1>1. \A i \in DOMAIN began' : began'[i] \in DOMAIN logins'
  <2>1. CASE began' = began
    BY <2>1, OnlyAppended DEF OwnInv
  <2>2. ASSUME NEW r \in inflight, CallbackEnds(r), began' = Append(began, r.of)
        PROVE  \A i \in DOMAIN began' : began'[i] \in DOMAIN logins'
    <3>1. r.of \in DOMAIN logins /\ r.of \in Nat
      BY <2>2, InflightType DEF CallbackEnds, OwnInv
    <3>2. DOMAIN began' = 1 .. Len(began) + 1 /\ began'[Len(began) + 1] = r.of
          /\ \A i \in DOMAIN began : began'[i] = began[i]
      BY <1>0, <2>2, <3>1, SeqFacts
    <3>3. \A i \in DOMAIN began' : i = Len(began) + 1 \/ i \in DOMAIN began
      BY <3>2, LoginsType
    <3> QED
      BY <3>1, <3>2, <3>3, OnlyAppended DEF OwnInv
  <2>3. CASE TimePasses \/ Restart
    BY <2>1, <2>3 DEF TimePasses, Restart
  <2>4. ASSUME NEW b \in Browsers, Login(b) \/ UseBegins(b) \/ LogoutBegins(b)
        PROVE  began' = began
    BY <2>4 DEF Login, UseBegins, LogoutBegins
  <2>5. ASSUME NEW b \in Browsers, NEW l \in DOMAIN logins, CallbackBegins(b, l) \/ CallbackRefused(b, l)
        PROVE  began' = began
    BY <2>5 DEF CallbackBegins, CallbackRefused
  <2>6. ASSUME NEW r \in inflight, Answered(r) \/ Lost(r)
        PROVE  began' = began
    BY <2>6 DEF Answered, Lost
  <2>7. ASSUME NEW r \in inflight, CallbackEnds(r)
        PROVE  began' = began \/ began' = Append(began, r.of)
    BY <2>7 DEF CallbackEnds
  <2> QED
    BY <2>1, <2>2, <2>3, <2>4, <2>5, <2>6, <2>7 DEF SessionNext
<1>2. ASSUME NEW b \in Browsers, jar'[b].login # NoLogin
      PROVE  jar'[b].login.of \in DOMAIN logins' /\ logins'[jar'[b].login.of].by = b
  <2>1. CASE jar'[b].login = jar[b].login
    BY <1>2, <2>1, OnlyAppended DEF OwnInv
  <2>2. CASE logins' = Append(logins, [by |-> b, iat |-> now])
             /\ jar'[b].login.of = Len(logins) + 1
    <3>1. [by |-> b, iat |-> now] \in [by : Browsers, iat : Nat]
      BY <1>0
    <3>2. DOMAIN logins' = 1 .. Len(logins) + 1
          /\ logins'[Len(logins) + 1] = [by |-> b, iat |-> now] /\ Len(logins) \in Nat
      BY <1>0, <2>2, <3>1, SeqFacts
    <3> QED
      BY <2>2, <3>2
  <2> QED
    BY <1>2, <2>1, <2>2, NewLogins
<1>3. ASSUME NEW b \in Browsers, NEW c \in Carried(b)'
      PROVE  c.sid \in DOMAIN began' /\ logins'[began'[c.sid]].by = b
  <2>1. ASSUME NEW d \in Carried(b), c.sid = d.sid
        PROVE  c.sid \in DOMAIN began' /\ logins'[began'[c.sid]].by = b
    BY <2>1, OnlyAppended DEF OwnInv
  <2>2. CASE Fresh(b, c)
    <3>1. PICK r \in inflight : r.kind = "callback" /\ r.by = b /\ began' = Append(began, r.of)
      BY <2>2 DEF Fresh
    <3>2. r.of \in DOMAIN logins /\ logins[r.of].by = b /\ r.of \in Nat
      BY <3>1, InflightType DEF OwnInv
    <3>3. Len(began) \in Nat /\ DOMAIN began' = 1 .. Len(began) + 1 /\ began'[Len(began) + 1] = r.of
      BY <1>0, <3>1, <3>2, SeqFacts
    <3>4. c.sid = Len(began) + 1
      BY <2>2, <3>3, SealedType, <1>0, SessionConstants DEF Fresh
    <3> QED
      BY <3>2, <3>3, <3>4, OnlyAppended
  <2>3. CASE Again(b, c)
    <3>1. PICK d \in Carried(b) : c = Sealed(d.sid, d.exp)
      BY <2>3 DEF Again
    <3>2. d \in Cookies
      BY CarriedType
    <3>3. c.sid = d.sid
      BY <3>1, <3>2, SealedType DEF Cookies
    <3> QED
      BY <2>1, <3>3
  <2> QED
    BY <2>1, <2>2, <2>3, NewCookies
<1>4. ASSUME NEW r \in inflight'
      PROVE  /\ r.kind = "callback" => r.of \in DOMAIN logins' /\ logins'[r.of].by = r.by
             /\ r.kind # "use" => r.cookie = NoSession
  <2>1. CASE r \in inflight
    BY <2>1, OnlyAppended DEF OwnInv
  <2>2. CASE NewRequest(r)
    <3>1. r.kind # "use" => r.cookie = NoSession
      BY <2>2 DEF NewRequest
    <3>2. CASE r.kind = "callback"
      <4>1. r.of \in DOMAIN logins /\ jar[r.by].login.key \in KeysHeld /\ jar[r.by].login.of = r.of
        BY <2>2, <3>2 DEF NewRequest, AnswersItsLogin
      <4>2. jar[r.by].login # NoLogin
        BY <4>1, KeysAre, SessionConstants
      <4>3. r.by \in Browsers
        BY <1>0, SessionTypeKept, InflightType DEF SessionType
      <4> QED
        BY <3>1, <4>1, <4>2, <4>3, OnlyAppended DEF OwnInv
    <3> QED
      BY <3>1, <3>2
  <2> QED
    BY <2>1, <2>2, NewRequests
<1> QED
  BY <1>1, <1>2, <1>3, <1>4 DEF OwnInv

\* What becomes of the keys, and of what is signed out.
LEMMA KeysMove ==
  ASSUME SessionNext
  PROVE  \/ UNCHANGED <<keys, retired>>
         \/ /\ now' = now /\ \A i \in 2 .. Len(keys) : Ended(keys[i])
            /\ \/ /\ keys[1] < MaxKey /\ keys' = <<keys[1] + 1, keys[1]>>
                  /\ retired' = [retired EXCEPT ![keys[1]] = now]
               \/ keys' = <<keys[1]>> /\ retired' = retired
<1>1. CASE TimePasses
  BY <1>1 DEF TimePasses
<1>2. CASE Restart
  BY <1>2 DEF Restart
<1>3. ASSUME NEW b \in Browsers, Login(b) \/ UseBegins(b) \/ LogoutBegins(b)
      PROVE  UNCHANGED <<keys, retired>>
  BY <1>3 DEF Login, UseBegins, LogoutBegins
<1>4. ASSUME NEW b \in Browsers, NEW l \in DOMAIN logins, CallbackBegins(b, l) \/ CallbackRefused(b, l)
      PROVE  UNCHANGED <<keys, retired>>
  BY <1>4 DEF CallbackBegins, CallbackRefused
<1>5. ASSUME NEW r \in inflight, CallbackEnds(r) \/ Answered(r) \/ Lost(r)
      PROVE  UNCHANGED <<keys, retired>>
  BY <1>5 DEF CallbackEnds, Answered, Lost
<1> QED
  BY <1>1, <1>2, <1>3, <1>4, <1>5 DEF SessionNext

LEMMA EndsMove ==
  ASSUME SessionType, SessionNext
  PROVE  \/ UNCHANGED <<signedOut, ended>>
         \/ signedOut' = {} /\ ended' = {}
         \/ \E d \in Around :
              /\ signedOut' = {e \in signedOut : e.exp > now} \cup {[sid |-> d.sid, exp |-> d.exp]}
              /\ ended' = ended \cup {d.sid}
<1>1. CASE TimePasses
  BY <1>1 DEF TimePasses
<1>2. CASE Restart
  BY <1>2 DEF Restart
<1>3. ASSUME NEW b \in Browsers, Login(b) \/ UseBegins(b)
      PROVE  UNCHANGED <<signedOut, ended>>
  BY <1>3 DEF Login, UseBegins
<1>4. ASSUME NEW b \in Browsers, LogoutBegins(b)
      PROVE  \E d \in Around :
              /\ signedOut' = {e \in signedOut : e.exp > now} \cup {[sid |-> d.sid, exp |-> d.exp]}
              /\ ended' = ended \cup {d.sid}
  <2>1. jar[b].session \in Around
    BY <1>4, CarriedType DEF LogoutBegins
  <2> QED
    BY <1>4, <2>1 DEF LogoutBegins
<1>5. ASSUME NEW b \in Browsers, NEW l \in DOMAIN logins, CallbackBegins(b, l) \/ CallbackRefused(b, l)
      PROVE  UNCHANGED <<signedOut, ended>>
  BY <1>5 DEF CallbackBegins, CallbackRefused
<1>6. ASSUME NEW r \in inflight, CallbackEnds(r) \/ Answered(r) \/ Lost(r)
      PROVE  UNCHANGED <<signedOut, ended>>
  BY <1>6 DEF CallbackEnds, Answered, Lost
<1> QED
  BY <1>1, <1>2, <1>3, <1>4, <1>5, <1>6 DEF SessionNext

\* A cookie is of a session that was about before, or of the next.
LEMMA Origin ==
  ASSUME SessionType, KeysInv, SessionNext, NEW c \in Around'
  PROVE  \/ \E d \in Around : d.sid = c.sid /\ d.exp = c.exp
         \/ c.sid = Len(began) + 1 /\ c.exp = now + Absolute
<1>1. PICK b \in Browsers : c \in Carried(b)'
  BY DEF Around
<1>2. CASE c \in Carried(b)
  BY <1>2, CarriedType
<1>3. CASE Fresh(b, c)
  <2>1. Len(began) + 1 \in Nat /\ now + Absolute \in Nat
    BY LoginsType, SessionConstants DEF SessionType
  <2> QED
    BY <1>3, <2>1, SealedType DEF Fresh
<1>4. CASE Again(b, c)
  <2>1. PICK d \in Carried(b) : c = Sealed(d.sid, d.exp)
    BY <1>4 DEF Again
  <2>2. d \in Around /\ d.sid \in Nat /\ d.exp \in Nat
    BY CarriedType DEF Cookies
  <2> QED
    BY <2>1, <2>2, SealedType
<1> QED
  BY <1>1, <1>2, <1>3, <1>4, NewCookies

LEMMA EndsKept ==
  ASSUME SessionType, KeysInv, OwnInv, EndsInv, SessionNext
  PROVE  EndsInv'
<1> DEFINE Old(c) == \E d \in Around : d.sid = c.sid /\ d.exp = c.exp
           New(c) == c.sid = Len(began) + 1 /\ c.exp = now + Absolute
<1>1. \A c \in Around' : Old(c) \/ New(c)
  BY Origin
<1>2. /\ Len(began) \in Nat /\ DOMAIN began = 1 .. Len(began) /\ DOMAIN began \subseteq DOMAIN began'
      /\ now \in Nat /\ now' \in Nat /\ now <= now'
  BY LoginsType, OnlyAppended
<1>3. \A d \in Around : d.sid \in DOMAIN began /\ d.sid \in Nat /\ d.exp \in Nat
  BY CarriedType DEF OwnInv, Around, Cookies
<1>4. \A e \in signedOut : e.sid \in DOMAIN began /\ e.exp \in Nat
  BY DEF EndsInv, SessionType
<1>5. \A e \in signedOut' : e \in signedOut \/ \E d \in Around : e.sid = d.sid /\ e.exp = d.exp
  BY EndsMove
<1>6. \A s \in ended' : s \in ended \/ \E d \in Around : s = d.sid
  BY EndsMove
<1>7. ASSUME NEW c \in Around', NEW d \in Around', c.sid = d.sid
      PROVE  c.exp = d.exp
  <2>1. ASSUME NEW x, NEW y, Old(x), New(y)
        PROVE  x.sid # y.sid
    BY <1>2, <1>3, <2>1
  <2>2. ~(Old(c) /\ New(d)) /\ ~(New(c) /\ Old(d))
    BY <1>7, <2>1
  <2> QED
    BY <1>1, <1>7, <2>2 DEF EndsInv
<1>8. ASSUME NEW c \in Around', NEW e \in signedOut', c.sid = e.sid
      PROVE  c.exp = e.exp
  <2>1. e.sid \in DOMAIN began
    BY <1>3, <1>4, <1>5
  <2>2. Old(c)
    BY <1>1, <1>2, <1>8, <2>1
  <2> QED
    BY <1>5, <1>8, <2>2 DEF EndsInv
<1>9. ended' \subseteq DOMAIN began' /\ \A e \in signedOut' : e.sid \in DOMAIN began'
  BY <1>2, <1>3, <1>4, <1>5, <1>6 DEF EndsInv
<1>10. ASSUME NEW c \in Around', c.sid \in ended'
       PROVE  c.exp <= now' \/ \E e \in signedOut' : e.sid = c.sid
  <2>1. Old(c)
    BY <1>1, <1>2, <1>3, <1>6, <1>10 DEF EndsInv
  <2>2. PICK d \in Around : d.sid = c.sid /\ d.exp = c.exp
    BY <2>1
  <2>3. d.exp \in Nat
    BY <1>3
  <2>4. CASE UNCHANGED <<signedOut, ended>>
    BY <1>2, <1>10, <2>2, <2>3, <2>4 DEF EndsInv
  <2>5. ASSUME NEW g \in Around,
               signedOut' = {e \in signedOut : e.exp > now} \cup {[sid |-> g.sid, exp |-> g.exp]},
               ended' = ended \cup {g.sid}
        PROVE  c.exp <= now' \/ \E e \in signedOut' : e.sid = c.sid
    <3>1. CASE c.sid = g.sid
      <4>1. [sid |-> g.sid, exp |-> g.exp] \in signedOut'
        BY <2>5
      <4> QED
        BY <3>1, <4>1
    <3>2. CASE c.sid \in ended
      <4>1. CASE d.exp <= now
        BY <1>2, <2>2, <2>3, <4>1
      <4>2. CASE ~(d.exp <= now)
        <5>1. PICK e \in signedOut : e.sid = d.sid
          BY <2>2, <3>2, <4>2 DEF EndsInv
        <5>2. e.exp = d.exp
          BY <5>1 DEF EndsInv
        <5>3. e \in signedOut'
          BY <1>2, <2>3, <2>5, <4>2, <5>2
        <5> QED
          BY <2>2, <5>1, <5>3
      <4> QED
        BY <4>1, <4>2
    <3> QED
      BY <1>10, <2>5, <3>1, <3>2
  <2> QED
    BY <1>10, <2>4, <2>5, EndsMove
<1> QED
  BY <1>7, <1>8, <1>9, <1>10 DEF EndsInv

LEMMA SealsKept ==
  ASSUME SessionType, KeysInv, SealsInv, SessionNext
  PROVE  SealsInv'
<1>1. /\ now \in Nat /\ now' \in Nat /\ now <= now' /\ Absolute \in Nat
      /\ retired \in [1 .. MaxKey -> Nat] /\ MaxKey \in Nat
  BY OnlyAppended, SessionConstants DEF SessionType
<1>2. /\ keys[1] \in 1 .. MaxKey /\ keys[1] \in KeysHeld /\ KeysHeld \subseteq 1 .. keys[1]
      /\ KeysInv' /\ keys'[1] \in KeysHeld'
  <2>1. KeysInv'
    BY KeysKept
  <2> QED
    BY <2>1, KeysAre DEF KeysInv, KeysHeld
<1>3. ASSUME NEW c \in Around'
      PROVE  \/ /\ c.key \in 1 .. keys[1] /\ c.exp \in Nat /\ c.exp <= now + Absolute
                /\ c.key # keys[1] => c.exp <= retired[c.key] + Absolute
             \/ /\ c.key = keys[1] /\ c.exp \in Nat /\ c.exp <= now + Absolute
                /\ UNCHANGED <<now, keys, retired>>
  <2>1. PICK b \in Browsers : c \in Carried(b)'
    BY DEF Around
  <2>2. CASE c \in Carried(b)
    BY <2>2, CarriedType DEF SealsInv, Cookies
  <2>3. CASE Fresh(b, c) /\ UNCHANGED <<now, keys, retired>>
    <3>1. Len(began) + 1 \in Nat /\ now + Absolute \in Nat
      BY <1>1, LoginsType
    <3> QED
      BY <1>1, <2>3, <3>1, SealedType DEF Fresh
  <2>4. CASE Again(b, c) /\ UNCHANGED <<now, keys, retired>>
    <3>1. PICK d \in Carried(b) : c = Sealed(d.sid, d.exp)
      BY <2>4 DEF Again
    <3>2. d \in Around /\ d.sid \in Nat /\ d.exp \in Nat
      BY CarriedType DEF Cookies
    <3> QED
      BY <2>4, <3>1, <3>2, SealedType DEF SealsInv
  <2> QED
    BY <2>1, <2>2, <2>3, <2>4, NewCookies
<1>4. CASE UNCHANGED <<keys, retired>>
  <2>1. ASSUME NEW c \in Around'
        PROVE  /\ c.key \in 1 .. keys'[1] /\ c.exp <= now' + Absolute
               /\ c.key # keys'[1] => c.exp <= retired'[c.key] + Absolute
    BY <1>1, <1>2, <1>3, <1>4, <2>1
  <2>2. ASSUME NEW k \in 1 .. keys'[1]
        PROVE  k \in KeysHeld' \/ Ended(k)'
    <3>1. CASE k \in KeysHeld
      BY <1>4, <3>1 DEF KeysHeld
    <3>2. CASE now >= retired[k] + Absolute
      <4>1. retired[k] \in Nat
        BY <1>1, <1>2, <1>4
      <4> QED
        BY <1>1, <1>4, <3>2, <4>1 DEF Ended
    <3> QED
      BY <1>4, <3>1, <3>2 DEF SealsInv, Ended
  <2> QED
    BY <2>1, <2>2 DEF SealsInv
<1>5. CASE /\ now' = now /\ \A i \in 2 .. Len(keys) : Ended(keys[i])
           /\ keys[1] < MaxKey /\ keys' = <<keys[1] + 1, keys[1]>>
           /\ retired' = [retired EXCEPT ![keys[1]] = now]
  <2>1. /\ keys'[1] = keys[1] + 1 /\ retired'[keys[1]] = now
        /\ \A k \in 1 .. keys[1] : k # keys[1] => retired'[k] = retired[k]
    BY <1>1, <1>2, <1>5
  <2>2. ASSUME NEW c \in Around'
        PROVE  /\ c.key \in 1 .. keys'[1] /\ c.exp <= now' + Absolute
               /\ c.key # keys'[1] => c.exp <= retired'[c.key] + Absolute
    BY <1>1, <1>2, <1>3, <1>5, <2>1, <2>2
  <2>3. ASSUME NEW k \in 1 .. keys'[1]
        PROVE  k \in KeysHeld' \/ Ended(k)'
    <3>1. CASE k \in {keys[1] + 1, keys[1]}
      <4>1. KeysHeld' = {keys[1] + 1, keys[1]}
        BY <1>5 DEF KeysHeld
      <4> QED
        BY <3>1, <4>1
    <3>2. CASE k \notin {keys[1] + 1, keys[1]}
      <4>1. k \in 1 .. keys[1] /\ k # keys[1]
        BY <1>2, <2>1, <3>2
      <4>2. Ended(k)
        <5>1. CASE k \in KeysHeld
          <6>1. \A i \in 1 .. Len(keys) : i = 1 \/ i \in 2 .. Len(keys)
            OBVIOUS
          <6> QED
            BY <1>5, <4>1, <5>1, <6>1, KeysAre DEF KeysHeld
        <5> QED
          BY <4>1, <5>1 DEF SealsInv
      <4> QED
        BY <1>5, <2>1, <4>1, <4>2 DEF Ended
    <3> QED
      BY <3>1, <3>2
  <2> QED
    BY <2>2, <2>3 DEF SealsInv
<1>6. CASE /\ now' = now /\ \A i \in 2 .. Len(keys) : Ended(keys[i])
           /\ keys' = <<keys[1]>> /\ retired' = retired
  <2>1. keys'[1] = keys[1] /\ KeysHeld' = {keys[1]}
    BY <1>6 DEF KeysHeld
  <2>2. ASSUME NEW c \in Around'
        PROVE  /\ c.key \in 1 .. keys'[1] /\ c.exp <= now' + Absolute
               /\ c.key # keys'[1] => c.exp <= retired'[c.key] + Absolute
    BY <1>1, <1>2, <1>3, <1>6, <2>1
  <2>3. ASSUME NEW k \in 1 .. keys'[1]
        PROVE  k \in KeysHeld' \/ Ended(k)'
    <3>1. CASE k = keys[1]
      BY <2>1, <3>1
    <3>2. CASE k # keys[1]
      <4>1. Ended(k)
        <5>1. CASE k \in KeysHeld
          <6>1. \A i \in 1 .. Len(keys) : i = 1 \/ i \in 2 .. Len(keys)
            OBVIOUS
          <6> QED
            BY <1>6, <3>2, <5>1, <6>1, KeysAre DEF KeysHeld
        <5> QED
          BY <2>1, <5>1 DEF SealsInv
      <4> QED
        BY <1>6, <4>1 DEF Ended
    <3> QED
      BY <3>1, <3>2
  <2> QED
    BY <2>2, <2>3 DEF SealsInv
<1> QED
  BY <1>4, <1>5, <1>6, KeysMove

\* Time passes on its own; a browser's session and its last use change together.
LEMMA NowMoves ==
  ASSUME SessionNext
  PROVE  now' = now \/ TimePasses
<1>1. Restart => now' = now
  BY DEF Restart
<1>2. ASSUME NEW b \in Browsers, Login(b) \/ UseBegins(b) \/ LogoutBegins(b)
      PROVE  now' = now
  BY <1>2 DEF Login, UseBegins, LogoutBegins
<1>3. ASSUME NEW b \in Browsers, NEW l \in DOMAIN logins, CallbackBegins(b, l) \/ CallbackRefused(b, l)
      PROVE  now' = now
  BY <1>3 DEF CallbackBegins, CallbackRefused
<1>4. ASSUME NEW r \in inflight, CallbackEnds(r) \/ Answered(r) \/ Lost(r)
      PROVE  now' = now
  BY <1>4 DEF CallbackEnds, Answered, Lost
<1> QED
  BY <1>1, <1>2, <1>3, <1>4 DEF SessionNext

SameUse(b) == jar'[b].session = jar[b].session /\ lastUse'[b] = lastUse[b]
AnsweredUse(b) ==
    \E r \in inflight :
      /\ r.by = b /\ r.kind = "use" /\ lastUse'[b] \in {r.began, lastUse[b]}
      /\ jar'[b].session = (IF r.cookie = NoSession THEN jar[b].session ELSE r.cookie)

LEMMA UsesMove ==
  ASSUME SessionType, KeysInv, SessionNext, NEW b \in Browsers
  PROVE  \/ SameUse(b)
         \/ jar'[b].session = NoSession /\ lastUse'[b] = lastUse[b]
         \/ jar'[b].session.seen = now /\ lastUse'[b] = now
         \/ AnsweredUse(b)
<1>0. /\ jar \in [Browsers -> [login : [key : Nat, of : Nat], session : Cookies]]
      /\ lastUse \in [Browsers -> Nat]
  BY DEF SessionType
<1>1. CASE UNCHANGED <<jar, lastUse>>
  BY <1>1 DEF SameUse
<1>2. CASE TimePasses \/ Restart
  BY <1>1, <1>2 DEF TimePasses, Restart
<1>3. ASSUME NEW a \in Browsers, Login(a)
      PROVE  SameUse(b)
  BY <1>0, <1>3 DEF Login, SameUse
<1>4. ASSUME NEW a \in Browsers, UseBegins(a) \/ LogoutBegins(a)
      PROVE  UNCHANGED <<jar, lastUse>>
  BY <1>4 DEF UseBegins, LogoutBegins
<1>5. ASSUME NEW a \in Browsers, NEW l \in DOMAIN logins, CallbackBegins(a, l) \/ CallbackRefused(a, l)
      PROVE  SameUse(b)
  <2>1. CASE CallbackBegins(a, l)
    BY <2>1 DEF CallbackBegins, SameUse
  <2>2. CASE CallbackRefused(a, l)
    <3>1. jar' = [jar EXCEPT ![a].login = NoLogin] /\ lastUse' = lastUse
      BY <2>2 DEF CallbackRefused
    <3> QED
      BY <1>0, <3>1 DEF SameUse
  <2> QED
    BY <1>5, <2>1, <2>2
<1>6. ASSUME NEW r \in inflight, CallbackEnds(r)
      PROVE  SameUse(b) \/ (jar'[b].session.seen = now /\ lastUse'[b] = now)
  <2> DEFINE s == Sealed(Len(began) + 1, now + Absolute)
  <2>1. \/ /\ jar' = [jar EXCEPT ![r.by] = [login |-> NoLogin, session |-> s]]
           /\ lastUse' = [lastUse EXCEPT ![r.by] = now]
        \/ jar' = [jar EXCEPT ![r.by].login = NoLogin] /\ lastUse' = lastUse
    BY <1>6 DEF CallbackEnds
  <2>2. r.by \in Browsers
    BY InflightType
  <2>3. s.seen = now
    <3>1. Len(began) + 1 \in Nat /\ now + Absolute \in Nat
      BY LoginsType, SessionConstants DEF SessionType
    <3> QED
      BY <3>1, SealedType
  <2> HIDE DEF s
  <2> QED
    BY <1>0, <2>1, <2>2, <2>3 DEF SameUse
<1>7. ASSUME NEW r \in inflight, Answered(r)
      PROVE  \/ SameUse(b) \/ AnsweredUse(b)
             \/ jar'[b].session = NoSession /\ lastUse'[b] = lastUse[b]
  <2>1. r.by \in Browsers
    BY InflightType
  <2>2. CASE r.kind = "logout" /\ jar' = [jar EXCEPT ![r.by].session = NoSession] /\ lastUse' = lastUse
    BY <1>0, <2>1, <2>2 DEF SameUse
  <2>3. CASE /\ r.kind = "use"
             /\ jar' = [jar EXCEPT ![r.by].session = IF r.cookie = NoSession THEN @ ELSE r.cookie]
             /\ lastUse' = [lastUse EXCEPT ![r.by] = IF r.began > @ THEN r.began ELSE @]
    <3>1. CASE b # r.by
      BY <1>0, <2>1, <2>3, <3>1 DEF SameUse
    <3>2. CASE b = r.by
      <4>1. lastUse'[b] \in {r.began, lastUse[b]}
        BY <1>0, <2>3, <3>2
      <4>2. jar'[b].session = (IF r.cookie = NoSession THEN jar[b].session ELSE r.cookie)
        BY <1>0, <2>3, <3>2
      <4> QED
        BY <2>3, <3>2, <4>1, <4>2 DEF AnsweredUse
    <3> QED
      BY <3>1, <3>2
  <2> QED
    BY <1>7, <2>2, <2>3 DEF Answered
<1>8. ASSUME NEW r \in inflight, Lost(r)
      PROVE  UNCHANGED <<jar, lastUse>>
  BY <1>8 DEF Lost
<1> QED
  BY <1>1, <1>2, <1>3, <1>4, <1>5, <1>6, <1>7, <1>8 DEF SessionNext

LEMMA UsesKept ==
  ASSUME SessionType, KeysInv, UsesInv, SessionNext
  PROVE  UsesInv'
<1>0. /\ now \in Nat /\ now' \in Nat /\ now <= now' /\ MaxDelay \in Nat /\ Slack \in Nat
      /\ MaxDelay <= Slack /\ RenewAfter <= Slack /\ RenewAfter \in Nat
      /\ lastUse \in [Browsers -> Nat]
  BY OnlyAppended, SessionConstants DEF SessionType
<1>1. \A b \in Browsers : jar[b].session \in Cookies
  BY DEF SessionType
<1>2. \A r \in inflight : /\ r.began \in Nat /\ r.began <= now /\ now <= r.began + MaxDelay
                          /\ r.by \in Browsers
  BY InflightType DEF UsesInv
<1>3. ASSUME NEW b \in Browsers
      PROVE  /\ lastUse'[b] <= now'
             /\ jar'[b].session # NoSession => lastUse'[b] <= jar'[b].session.seen + Slack
  <2>1. /\ lastUse[b] \in Nat /\ lastUse[b] <= now
        /\ jar[b].session # NoSession => lastUse[b] <= jar[b].session.seen + Slack
        /\ jar[b].session.seen \in Nat
    BY <1>0, <1>1 DEF UsesInv, Cookies
  <2>2. CASE SameUse(b)
    BY <1>0, <2>1, <2>2 DEF SameUse
  <2>3. CASE jar'[b].session = NoSession /\ lastUse'[b] = lastUse[b]
    BY <1>0, <2>1, <2>3
  <2>4. CASE jar'[b].session.seen = now /\ lastUse'[b] = now
    BY <1>0, <2>4
  <2>5. CASE AnsweredUse(b)
    <3>1. PICK r \in inflight :
            /\ r.by = b /\ r.kind = "use" /\ lastUse'[b] \in {r.began, lastUse[b]}
            /\ jar'[b].session = (IF r.cookie = NoSession THEN jar[b].session ELSE r.cookie)
      BY <2>5 DEF AnsweredUse
    <3>2. CASE r.cookie = NoSession
      <4>1. jar[b].session # NoSession => r.began <= jar[b].session.seen + Slack
        BY <3>1, <3>2 DEF UsesInv
      <4> QED
        BY <1>0, <1>2, <2>1, <3>1, <3>2, <4>1
    <3>3. CASE r.cookie # NoSession
      <4>1. r.cookie.seen = r.began
        BY <3>3 DEF UsesInv
      <4> QED
        BY <1>0, <1>2, <2>1, <3>1, <3>3, <4>1
    <3> QED
      BY <3>2, <3>3
  <2> QED
    BY <2>2, <2>3, <2>4, <2>5, UsesMove
<1>4. ASSUME NEW r \in inflight', r \notin inflight
      PROVE  /\ r.began <= now' /\ now' <= r.began + MaxDelay
             /\ r.cookie # NoSession => r.cookie.seen = r.began
             /\ r.kind = "use" /\ r.cookie = NoSession /\ jar'[r.by].session # NoSession =>
                  r.began <= jar'[r.by].session.seen + Slack
  <2>1. NewRequest(r) /\ SessionType'
    BY <1>4, NewRequests, SessionTypeKept
  <2>2. r.by \in Browsers
    BY <2>1, InflightType DEF SessionType
  <2>3. jar[r.by].session \in Cookies /\ jar[r.by].session.seen \in Nat
    BY <1>1, <2>2 DEF Cookies
  <2>4. r.began = now /\ now' = now /\ jar' = jar
    BY <2>1 DEF NewRequest
  <2>5. CASE r.kind # "use"
    BY <1>0, <2>1, <2>4, <2>5 DEF NewRequest
  <2>6. CASE r.kind = "use"
    <3>1. r.cookie = Renewed(jar[r.by].session)
      BY <2>1, <2>6 DEF NewRequest
    <3>2. /\ Sealed(jar[r.by].session.sid, jar[r.by].session.exp).seen = now
          /\ Sealed(jar[r.by].session.sid, jar[r.by].session.exp) # NoSession
      BY <2>3, SealedType DEF Cookies
    <3> QED
      BY <1>0, <2>3, <2>4, <3>1, <3>2 DEF Renewed
  <2> QED
    BY <2>5, <2>6
<1>5. ASSUME NEW r \in inflight
      PROVE  now' <= r.began + MaxDelay
  <2>1. CASE TimePasses
    BY <1>0, <1>2, <2>1 DEF TimePasses
  <2> QED
    BY <1>2, <2>1, NowMoves
<1>6. ASSUME NEW r \in inflight, r.kind = "use", r.cookie = NoSession, jar'[r.by].session # NoSession
      PROVE  r.began <= jar'[r.by].session.seen + Slack
  <2>1. r.by \in Browsers /\ jar[r.by].session.seen \in Nat
        /\ (jar[r.by].session # NoSession => r.began <= jar[r.by].session.seen + Slack)
    BY <1>1, <1>2, <1>6 DEF UsesInv, Cookies
  <2>2. CASE jar'[r.by].session = jar[r.by].session
    BY <1>6, <2>1, <2>2
  <2>3. CASE jar'[r.by].session.seen = now
    BY <1>0, <1>2, <2>3
  <2>4. CASE AnsweredUse(r.by)
    <3>1. PICK q \in inflight :
            jar'[r.by].session = (IF q.cookie = NoSession THEN jar[r.by].session ELSE q.cookie)
      BY <2>4 DEF AnsweredUse
    <3>2. CASE q.cookie = NoSession
      BY <2>2, <3>1, <3>2
    <3>3. CASE q.cookie # NoSession
      <4>1. jar'[r.by].session.seen = q.began
        BY <3>1, <3>3 DEF UsesInv
      <4> QED
        BY <1>0, <1>2, <4>1
    <3> QED
      BY <3>2, <3>3
  <2> QED
    BY <1>6, <2>1, <2>2, <2>3, <2>4, UsesMove DEF SameUse
<1>7. ASSUME NEW r \in inflight
      PROVE  r.began <= now' /\ (r.cookie # NoSession => r.cookie.seen = r.began)
  BY <1>0, <1>2 DEF UsesInv
<1> QED
  BY <1>3, <1>4, <1>5, <1>6, <1>7 DEF UsesInv

\* What becomes of the sign-ins that finished.
LEMMA FinishesMove ==
  ASSUME SessionNext
  PROVE  \/ finished' = {} /\ finishes' = <<>>
         \/ finished' \in {finished, Remembered} /\ finishes' = finishes
         \/ \E b \in Browsers, l \in DOMAIN logins : CallbackBegins(b, l)
<1>1. TimePasses => UNCHANGED <<finished, finishes>>
  BY DEF TimePasses
<1>2. Restart => finished' = {} /\ finishes' = <<>>
  BY DEF Restart
<1>3. ASSUME NEW b \in Browsers, Login(b) \/ UseBegins(b) \/ LogoutBegins(b)
      PROVE  UNCHANGED <<finished, finishes>>
  BY <1>3 DEF Login, UseBegins, LogoutBegins
<1>4. ASSUME NEW b \in Browsers, NEW l \in DOMAIN logins, CallbackRefused(b, l)
      PROVE  finished' \in {finished, Remembered} /\ finishes' = finishes
  BY <1>4 DEF CallbackRefused
<1>5. ASSUME NEW r \in inflight, CallbackEnds(r) \/ Answered(r) \/ Lost(r)
      PROVE  UNCHANGED <<finished, finishes>>
  BY <1>5 DEF CallbackEnds, Answered, Lost
<1> QED
  BY <1>1, <1>2, <1>3, <1>4, <1>5 DEF SessionNext

\* The sign-ins remembered are as many as their numbers.
LEMMA RememberedNumbers ==
  ASSUME SessionType, FinishedInv, NEW i \in DOMAIN finishes,
         \A f \in Remembered : f.nth >= i
  PROVE  IsFiniteSet(Remembered) /\ Cardinality(Remembered) <= Len(finishes) - i + 1
<1> DEFINE nths == [f \in Remembered |-> f.nth]
           Places == i .. Len(finishes)
<1>1. /\ Len(finishes) \in Nat /\ DOMAIN finishes = 1 .. Len(finishes) /\ i \in Nat
  BY LoginsType
<1>2. \A f \in Remembered : /\ f \in [state : Nat, until : Nat, nth : Nat]
                            /\ f.nth \in DOMAIN finishes /\ f.state = finishes[f.nth]
                            /\ f.until = logins[f.state].iat + LoginFor
  BY DEF Remembered, SessionType, FinishedInv
<1>3. \A f \in Remembered : f.nth \in Places
  BY <1>1, <1>2
<1>4. \A f, g \in Remembered : f.nth = g.nth => f = g
  BY <1>2
<1>5. nths \in [Remembered -> Places] /\ \A f, g \in Remembered : nths[f] = nths[g] => f = g
  BY <1>3, <1>4
<1>6. IsFiniteSet(Places) /\ Cardinality(Places) = Len(finishes) - i + 1
  BY <1>1, FS_Interval
<1> HIDE DEF nths, Places
<1>7. nths \in Injection(Remembered, Places)
  BY <1>5 DEF Injection, IsInjective
<1> QED
  BY <1>6, <1>7, FS_Injection

LEMMA FinishesKept ==
  ASSUME SessionType, FinishedInv, SessionNext
  PROVE  FinishedInv'
<1>0. /\ now \in Nat /\ now' \in Nat /\ now <= now' /\ LoginFor \in Nat
      /\ FinishedKept \in Nat /\ FinishedKept > 0
      /\ finishes \in Seq(Nat) /\ Len(finishes) \in Nat /\ DOMAIN finishes = 1 .. Len(finishes)
      /\ \A l \in DOMAIN logins : l \in DOMAIN logins' /\ logins'[l] = logins[l]
  BY OnlyAppended, LoginsType, SessionConstants DEF SessionType
<1>1. \A l \in DOMAIN logins : logins[l].iat \in Nat /\ l \in Nat
  BY LoginsType
<1>2. \A l \in DOMAIN logins : Late(l) => Late(l)'
  BY <1>0, <1>1 DEF Late
<1>3. ASSUME NEW f \in finished, f \notin Remembered
      PROVE  Late(f.state)
  <2>1. f \in [state : Nat, until : Nat, nth : Nat]
    BY DEF SessionType
  <2>2. f.until \in Nat /\ f.until = logins[f.state].iat + LoginFor
    BY <2>1 DEF FinishedInv
  <2>3. ~(f.until > now)
    BY <1>3 DEF Remembered
  <2> QED
    BY <1>0, <2>2, <2>3 DEF Late
<1>4. \A f \in finished : f.state \in DOMAIN logins
  BY DEF FinishedInv
<1>5. CASE finished' = {} /\ finishes' = <<>>
  BY <1>5 DEF FinishedInv, FinishesOnce
<1>6. CASE finished' \in {finished, Remembered} /\ finishes' = finishes
  <2>1. finished' \subseteq finished /\ Remembered \subseteq finished'
    BY <1>6 DEF Remembered
  <2>2. ASSUME NEW i \in DOMAIN finishes
        PROVE  /\ finishes[i] \in DOMAIN logins'
               /\ \/ \E f \in finished' : f.nth = i
                  \/ Late(finishes[i])'
                  \/ Len(finishes) - i >= FinishedKept
    <3>1. finishes[i] \in DOMAIN logins
      BY DEF FinishedInv
    <3>2. ASSUME NEW f \in finished, f.nth = i
          PROVE  f \in finished' \/ Late(finishes[i])
      BY <1>3, <2>1, <3>2 DEF FinishedInv
    <3> HIDE DEF Late
    <3>3. Late(finishes[i]) => Late(finishes[i])'
      BY <1>2, <1>6, <3>1
    <3> QED
      BY <1>0, <3>1, <3>2, <3>3 DEF FinishedInv
  <2>3. ASSUME NEW f \in finished'
        PROVE  /\ f.nth \in DOMAIN finishes /\ f.state = finishes[f.nth]
               /\ f.until = logins'[f.state].iat + LoginFor
    BY <1>0, <1>4, <2>1 DEF FinishedInv
  <2> QED
    BY <1>6, <2>2, <2>3 DEF FinishedInv, FinishesOnce
<1>7. ASSUME NEW b \in Browsers, NEW l \in DOMAIN logins, CallbackBegins(b, l)
      PROVE  FinishedInv'
  <2> DEFINE n == Len(finishes)
             last == [state |-> l, until |-> logins[l].iat + LoginFor, nth |-> n + 1]
             kept == IF Cardinality(Remembered) >= FinishedKept THEN ButTheFirst ELSE Remembered
  <2>1. /\ finished' = kept \cup {last} /\ finishes' = Append(finishes, l)
        /\ UNCHANGED <<now, logins>> /\ AnswersItsLogin(b, l)
        /\ \A f \in Remembered : f.state # l
    BY <1>7 DEF CallbackBegins, FirstFinish
  <2>2. ~Late(l)
    BY <1>0, <1>1, <2>1 DEF AnswersItsLogin, Late
  <2>3. /\ Len(finishes') = n + 1 /\ DOMAIN finishes' = 1 .. n + 1 /\ finishes'[n + 1] = l
        /\ \A i \in DOMAIN finishes : finishes'[i] = finishes[i]
    BY <1>0, <1>1, <2>1, SeqFacts
  <2>4. kept \subseteq finished
    BY DEF ButTheFirst, Remembered
  <2>5. ASSUME NEW f \in kept
        PROVE  /\ f.nth \in DOMAIN finishes' /\ f.state = finishes'[f.nth]
               /\ f.until = logins'[f.state].iat + LoginFor
    BY <1>0, <1>4, <2>3, <2>4 DEF FinishedInv
  <2>6. last.nth = n + 1 /\ last.state = l /\ last.until = logins[l].iat + LoginFor
    OBVIOUS
  <2> HIDE DEF last
  <2>7. \A f \in finished' : /\ f.nth \in DOMAIN finishes' /\ f.state = finishes'[f.nth]
                             /\ f.until = logins'[f.state].iat + LoginFor
    BY <1>0, <2>1, <2>3, <2>5, <2>6
  <2>8. ASSUME NEW i \in DOMAIN finishes
        PROVE  /\ finishes[i] \in DOMAIN logins
               /\ \/ \E f \in kept : f.nth = i
                  \/ Late(finishes[i])
                  \/ (n + 1) - i >= FinishedKept
    <3>0. finishes[i] \in DOMAIN logins /\ i \in Nat /\ n \in Nat
      BY <1>0 DEF FinishedInv
    <3>1. CASE n - i >= FinishedKept
      BY <1>0, <3>0, <3>1
    <3>2. ASSUME NEW f \in finished, f.nth = i
          PROVE  (\E g \in kept : g.nth = i) \/ Late(finishes[i]) \/ (n + 1) - i >= FinishedKept
      <4>1. CASE f \notin Remembered
        BY <1>3, <3>2, <4>1 DEF FinishedInv
      <4>2. CASE f \in kept
        BY <3>2, <4>2
      <4>3. CASE f \in Remembered /\ f \notin kept
        <5>1. Cardinality(Remembered) >= FinishedKept /\ f \notin ButTheFirst
          BY <4>3
        <5>2. \A g \in Remembered : ~(g.nth < i)
          BY <3>2, <4>3, <5>1 DEF ButTheFirst
        <5>3. \A g \in Remembered : g.nth \in Nat
          BY DEF Remembered, SessionType
        <5>4. \A g \in Remembered : g.nth >= i
          BY <3>0, <5>2, <5>3
        <5>5. IsFiniteSet(Remembered) /\ Cardinality(Remembered) <= n - i + 1
          BY <5>4, RememberedNumbers
        <5>6. Cardinality(Remembered) \in Nat
          BY <5>5, FS_CardinalityType
        <5>7. (n + 1) - i >= FinishedKept
          BY <1>0, <3>0, <5>1, <5>5, <5>6
        <5> QED
          BY <5>7
      <4> QED
        BY <4>1, <4>2, <4>3
    <3> QED
      BY <3>0, <3>1, <3>2 DEF FinishedInv
  <2>9. \A i \in DOMAIN finishes' : i = n + 1 \/ i \in DOMAIN finishes
    BY <1>0, <2>3
  <2>10. ASSUME NEW i \in DOMAIN finishes'
         PROVE  /\ finishes'[i] \in DOMAIN logins'
                /\ \/ \E f \in finished' : f.nth = i
                   \/ Late(finishes[i])'
                   \/ Len(finishes') - i >= FinishedKept
    <3>1. CASE i = n + 1
      BY <2>1, <2>3, <2>6, <3>1
    <3>2. CASE i \in DOMAIN finishes
      <4>1. finishes'[i] = finishes[i] /\ (Late(finishes[i]) => Late(finishes[i])')
        BY <1>2, <2>1, <2>3, <2>8, <3>2 DEF Late
      <4> HIDE DEF Late, kept
      <4> QED
        BY <2>1, <2>3, <2>8, <3>2, <4>1
    <3> QED
      BY <2>9, <3>1, <3>2
  <2>11. ASSUME NEW i \in DOMAIN finishes', NEW j \in DOMAIN finishes', i < j,
                finishes'[i] = finishes'[j]
         PROVE  j - i > FinishedKept
    <3>0. i \in Nat /\ j \in Nat /\ n \in Nat
      BY <1>0, <2>3
    <3>1. i \in DOMAIN finishes
      BY <1>0, <2>3, <2>11
    <3>2. CASE j \in DOMAIN finishes
      BY <2>3, <2>11, <3>1, <3>2 DEF FinishedInv, FinishesOnce
    <3>3. CASE j = n + 1
      <4>1. finishes[i] = l
        BY <2>3, <2>11, <3>1, <3>3
      <4>2. ~\E f \in finished : f.nth = i
        <5>1. ASSUME NEW f \in finished, f.nth = i
              PROVE  f \in Remembered /\ f.state = l
          <6>1. f.state = l
            BY <4>1, <5>1 DEF FinishedInv
          <6> QED
            BY <1>3, <2>2, <6>1
        <5> QED
          BY <2>1, <5>1
      <4>3. n - i >= FinishedKept
        BY <2>2, <3>1, <4>1, <4>2 DEF FinishedInv
      <4> QED
        BY <1>0, <3>0, <3>3, <4>3
    <3> QED
      BY <2>9, <3>2, <3>3
  <2> QED
    BY <2>7, <2>10, <2>11 DEF FinishedInv, FinishesOnce
<1> QED
  BY <1>5, <1>6, <1>7, FinishesMove

LEMMA SessionsBegin ==
  ASSUME SessionInit
  PROVE  SessionInv
<1> USE SessionConstants
<1>1. /\ now = 0 /\ keys = <<1>> /\ signedOut = {} /\ finished = {} /\ inflight = {}
      /\ jar = [b \in Browsers |-> [login |-> NoLogin, session |-> NoSession]]
      /\ logins = <<>> /\ began = <<>> /\ finishes = <<>> /\ ended = {}
      /\ lastUse = [b \in Browsers |-> 0] /\ retired = [k \in 1 .. MaxKey |-> 0]
  BY DEF SessionInit
<1>2. SessionType
  BY <1>1 DEF SessionType
<1>3. KeysInv /\ keys[1] = 1 /\ KeysHeld = {1}
  <2>1. 1 \in 1 .. MaxKey
    OBVIOUS
  <2> QED
    BY <1>1, <2>1 DEF KeysInv, KeysHeld
<1>4. \A b \in Browsers : jar[b].login = NoLogin /\ jar[b].session = NoSession
  BY <1>1
<1>5. Around = {} /\ \A b \in Browsers : Carried(b) = {}
  BY <1>1, <1>4 DEF Around, Carried
<1>6. DOMAIN began = {} /\ DOMAIN finishes = {}
  BY <1>1
<1>7. OwnInv
  BY <1>1, <1>4, <1>5, <1>6 DEF OwnInv
<1>8. EndsInv
  BY <1>1, <1>5, <1>6 DEF EndsInv
<1>9. SealsInv
  BY <1>3, <1>5 DEF SealsInv
<1>10. UsesInv
  BY <1>1, <1>4 DEF UsesInv
<1>11. FinishedInv
  BY <1>1, <1>6 DEF FinishedInv, FinishesOnce
<1> QED
  BY <1>2, <1>3, <1>7, <1>8, <1>9, <1>10, <1>11 DEF SessionInv

LEMMA SessionsKept ==
  ASSUME SessionInv, SessionNext
  PROVE  SessionInv'
<1> USE DEF SessionInv
<1>1. SessionType' /\ KeysInv'
  BY SessionTypeKept, KeysKept
<1>2. OwnInv' /\ EndsInv'
  BY OwnKept, EndsKept
<1>3. SealsInv' /\ UsesInv' /\ FinishedInv'
  BY SealsKept, UsesKept, FinishesKept
<1> QED
  BY <1>1, <1>2, <1>3

LEMMA SessionsStay ==
  ASSUME SessionInv, UNCHANGED sessionVars
  PROVE  SessionInv'
<1>1. /\ now' = now /\ keys' = keys /\ signedOut' = signedOut /\ finished' = finished
      /\ jar' = jar /\ inflight' = inflight /\ logins' = logins /\ began' = began
      /\ finishes' = finishes /\ ended' = ended /\ lastUse' = lastUse /\ retired' = retired
  BY DEF sessionVars
<1>2. \A c \in Browsers : Carried(c)' = Carried(c)
  BY <1>1 DEF Carried
<1>3. Around' = Around /\ KeysHeld' = KeysHeld
  BY <1>1, <1>2 DEF Around, KeysHeld
<1>4. SessionType' /\ KeysInv' /\ OwnInv'
  BY <1>1, <1>2 DEF SessionInv, SessionType, KeysInv, OwnInv
<1>5. EndsInv' /\ SealsInv'
  BY <1>1, <1>3 DEF SessionInv, EndsInv, SealsInv, Ended
<1>6. UsesInv' /\ FinishedInv'
  BY <1>1 DEF SessionInv, UsesInv, FinishedInv, FinishesOnce, Late
<1> QED
  BY <1>4, <1>5, <1>6 DEF SessionInv

LEMMA SessionsAreHeld ==
  ASSUME SessionInv
  PROVE  SessionsHold
<1>0. SessionType /\ KeysInv /\ OwnInv /\ EndsInv /\ SealsInv /\ UsesInv /\ FinishedInv
  BY DEF SessionInv
<1>1. \A b \in Browsers : jar[b].session # NoSession =>
        /\ jar[b].session \in Carried(b) /\ jar[b].session \in Around
        /\ jar[b].session \in Cookies
  BY <1>0, CarriedType
<1>2. SessionsAreTheBrowsers
  BY <1>0, <1>1, SessionConstants DEF SessionsAreTheBrowsers, OwnInv
<1>3. SignedOutStaysOut
  <2>1. 0 \notin ended
    BY <1>0, LoginsType DEF EndsInv
  <2> SUFFICES ASSUME NEW b \in Browsers, jar[b].session.sid \in ended
               PROVE  Opens(jar[b].session) # "open"
    BY DEF SignedOutStaysOut
  <2>2. jar[b].session \in Around /\ jar[b].session.exp \in Nat /\ now \in Nat
    BY <1>0, <1>1, <2>1, SessionConstants DEF Cookies, SessionType
  <2>3. \/ now >= jar[b].session.exp
        \/ \E e \in signedOut : e.sid = jar[b].session.sid
    BY <1>0, <2>2 DEF EndsInv
  <2> QED
    BY <2>3 DEF Opens
<1>4. UsedSessionsStay
  <2> SUFFICES ASSUME NEW b \in Browsers, jar[b].session # NoSession, now < jar[b].session.exp
               PROVE  /\ Opens(jar[b].session) # "forged"
                      /\ Opens(jar[b].session) = "idle" => now >= lastUse[b] + Least
    BY DEF UsedSessionsStay
  <2> DEFINE c == jar[b].session
  <2>1. /\ c \in Around /\ c.key \in Nat /\ c.exp \in Nat /\ c.seen \in Nat
        /\ now \in Nat /\ lastUse[b] \in Nat
    BY <1>0, <1>1 DEF Cookies, SessionType
  <2>2. c.key \in KeysHeld
    <3>1. CASE c.key = keys[1]
      BY <1>0, <3>1, KeysAre
    <3>2. CASE c.key # keys[1]
      <4>1. c.key \in 1 .. keys[1] /\ c.exp <= retired[c.key] + Absolute
        BY <1>0, <2>1, <3>2 DEF SealsInv
      <4>2. retired[c.key] \in Nat
        <5>1. c.key \in 1 .. MaxKey
          BY <1>0, <4>1, KeysAre, SessionConstants
        <5> QED
          BY <1>0, <5>1 DEF SessionType
      <4>3. ~Ended(c.key)
        BY <2>1, <4>1, <4>2, SessionConstants DEF Ended
      <4> QED
        BY <1>0, <4>1, <4>3 DEF SealsInv
    <3> QED
      BY <3>1, <3>2
  <2>3. lastUse[b] <= c.seen + Slack
    BY <1>0 DEF UsesInv
  <2>4. Least = IdleFor - Slack
    BY SessionConstants DEF Least, Slack
  <2>5. Opens(c) # "forged"
    BY <2>2 DEF Opens
  <2>6. Opens(c) = "idle" => now >= c.seen + IdleFor
    BY <2>1 DEF Opens
  <2>7. now >= c.seen + IdleFor => now >= lastUse[b] + Least
    BY <2>1, <2>3, <2>4, SessionConstants
  <2> QED
    BY <2>5, <2>6, <2>7
<1> QED
  BY <1>0, <1>2, <1>3, <1>4 DEF SessionsHold, FinishedInv

-----------------------------------------------------------------------------
(***************************************************************************)
(* The listeners' certificate: every step keeps LeafInv.                   *)
(***************************************************************************)
LEMMA LeafConstants ==
  /\ NoLeaf \in Leaves /\ NoFiles \in Files /\ NoJob \in Jobs
  /\ NoLeaf.key = 0 /\ NoLeaf.ca = 0 /\ NoFiles.cert = NoLeaf /\ NoFiles.key = 0
  /\ NoJob.what = "none" /\ NoJob.by = "none" /\ NoJob.at = "none" /\ NoJob.ca = NoLeaf
  /\ NoJob.cert = NoLeaf /\ NoJob.aside = NoLeaf /\ NoJob.wanted = {}
  /\ "gateway" \in Processes /\ "command" \in Processes
  /\ CaLifetime \in Nat /\ CaLifetime > 0 /\ LeafLifetime \in Nat
  /\ RenewBefore \in Nat /\ RenewBefore > 0 /\ RenewBefore < LeafLifetime
  /\ MaxFailures \in Nat /\ MaxFailures < RenewBefore
  BY LeafAssumption DEF NoLeaf, NoFiles, NoJob, Leaves, Files, Names, Jobs, Processes

LEMMA NoJobIs ==
  /\ NoJob \in Jobs /\ NoJob.what = "none" /\ NoJob.ca = NoLeaf
  /\ NoJob.cert = NoLeaf /\ NoJob.aside = NoLeaf
  BY LeafConstants

\* Of n keys around, one of the first n + 1 is not.
LEMMA NewKeyIsNew ==
  ASSUME NEW around, IsFiniteSet(around)
  PROVE  NewKey(around) \in Nat \ {0} /\ NewKey(around) \notin around
<1> DEFINE n == Cardinality(around)
<1>1. n \in Nat
  BY FS_CardinalityType
<1> HIDE DEF n
<1>2. \E k \in 1 .. (n + 1) : k \notin around
  <2> SUFFICES ASSUME 1 .. (n + 1) \subseteq around
               PROVE  FALSE
    OBVIOUS
  <2>1. Cardinality(1 .. (n + 1)) <= n
    BY FS_Subset DEF n
  <2>2. Cardinality(1 .. (n + 1)) = IF 1 > n + 1 THEN 0 ELSE n + 1 - 1 + 1
    BY <1>1, FS_Interval
  <2> QED
    BY <1>1, <2>1, <2>2
<1>3. NewKey(around) \in 1 .. (n + 1) /\ NewKey(around) \notin around
  BY <1>2 DEF NewKey, n
<1> QED
  BY <1>1, <1>3

LEMMA KeysAreFinite == IsFiniteSet(CaKeys) /\ IsFiniteSet(LeafKeys)
<1>1. ASSUME NEW a, NEW b, NEW c, NEW d, NEW e
      PROVE  IsFiniteSet({a, b, c, d, e})
  <2>1. IsFiniteSet({a}) /\ IsFiniteSet({b}) /\ IsFiniteSet({c}) /\ IsFiniteSet({d}) /\ IsFiniteSet({e})
    BY FS_Singleton
  <2>2. IsFiniteSet({a} \cup {b}) /\ IsFiniteSet({c} \cup {d})
    BY <2>1, FS_Union
  <2>3. IsFiniteSet(({a} \cup {b}) \cup ({c} \cup {d}))
    BY <2>2, FS_Union
  <2>4. IsFiniteSet((({a} \cup {b}) \cup ({c} \cup {d})) \cup {e})
    BY <2>1, <2>3, FS_Union
  <2>5. {a, b, c, d, e} = (({a} \cup {b}) \cup ({c} \cup {d})) \cup {e}
    OBVIOUS
  <2> QED
    BY <2>4, <2>5
<1> DEFINE g == jobs["gateway"]  k == jobs["command"]
<1>2. Held = {g.ca, g.cert, g.aside} \cup {k.ca, k.cert, k.aside}
  BY DEF Held, Processes
<1> HIDE DEF g, k
<1>3. CaKeys = {ca.key, ca.cert.ca, leaf.cert.ca, served.ca, g.ca.ca}
               \cup {g.cert.ca, g.aside.ca, k.ca.ca, k.cert.ca, k.aside.ca}
  BY <1>2 DEF CaKeys
<1>4. LeafKeys = {leaf.key, leaf.cert.key, g.ca.key, g.cert.key, g.aside.key}
                 \cup {k.ca.key, k.cert.key, k.aside.key, k.aside.key, k.aside.key}
  BY <1>2 DEF LeafKeys
<1>5. /\ IsFiniteSet({ca.key, ca.cert.ca, leaf.cert.ca, served.ca, g.ca.ca})
      /\ IsFiniteSet({g.cert.ca, g.aside.ca, k.ca.ca, k.cert.ca, k.aside.ca})
      /\ IsFiniteSet({leaf.key, leaf.cert.key, g.ca.key, g.cert.key, g.aside.key})
      /\ IsFiniteSet({k.ca.key, k.cert.key, k.aside.key, k.aside.key, k.aside.key})
  BY <1>1
<1> QED
  BY <1>3, <1>4, <1>5, FS_Union

LEMMA LeafTypes ==
  ASSUME LeafType, NEW p \in Processes
  PROVE  /\ ca.cert \in Leaves /\ ca.key \in Nat /\ leaf.cert \in Leaves /\ leaf.key \in Nat
         /\ jobs[p] \in Jobs /\ jobs[p].ca \in Leaves /\ jobs[p].cert \in Leaves
         /\ jobs[p].aside \in Leaves /\ jobs[p].wanted \in Names
  BY DEF LeafType, Files, Jobs

\* The keys of a CA, and of a certificate, made now.
LEMMA NewCaType ==
  ASSUME LeafType, NEW wanted \in Names
  PROVE  /\ NewCa(wanted) \in Leaves
         /\ NewCa(wanted).key = NewKey(CaKeys) /\ NewCa(wanted).ca = NewKey(CaKeys)
         /\ NewKey(CaKeys) \in Nat \ {0} /\ NewKey(CaKeys) \notin CaKeys
<1>1. day + CaLifetime \in Nat
  BY LeafConstants DEF LeafType
<1> QED
  BY <1>1, NewKeyIsNew, KeysAreFinite DEF NewCa, Leaves

LEMMA NewLeafType ==
  ASSUME LeafType, NEW j, j.ca \in Leaves, j.wanted \in Names
  PROVE  /\ NewLeaf(j) \in Leaves
         /\ NewLeaf(j).ca = j.ca.key /\ NewLeaf(j).caUntil = j.ca.until
         /\ NewLeaf(j).names = j.wanted
         /\ \/ NewLeaf(j).until > day + RenewBefore
            \/ NewLeaf(j).until >= NewLeaf(j).caUntil
<1>1. /\ day \in Nat /\ day + LeafLifetime \in Nat /\ day + LeafLifetime > day + RenewBefore
      /\ j.ca.key \in Nat /\ j.ca.until \in Nat
  BY LeafConstants DEF LeafType, Leaves
<1>2. Until(j.ca) \in Nat /\ (Until(j.ca) > day + RenewBefore \/ Until(j.ca) >= j.ca.until)
  BY <1>1 DEF Until
<1>3. NewKey(LeafKeys) \in Nat
  BY NewKeyIsNew, KeysAreFinite
<1> HIDE DEF Until
<1> QED
  BY <1>1, <1>2, <1>3 DEF NewLeaf, Leaves

\* What is anywhere stays what it was: certificates only go.
LEMMA CertsStay ==
  ASSUME CertsInv, ca'.cert \in CaCerts, leaf'.cert \in LeafCerts, served' \in LeafCerts,
         \A q \in Processes : CasOf(jobs'[q]) \subseteq CaCerts /\ LeavesOf(jobs'[q]) \subseteq LeafCerts
  PROVE  CertsInv' /\ CaCerts' \subseteq CaCerts /\ LeafCerts' \subseteq LeafCerts
<1>1. CaCerts' \subseteq CaCerts
  BY DEF CaCerts, CasOf
<1>2. LeafCerts' \subseteq LeafCerts
  BY DEF LeafCerts, LeavesOf
<1>3. /\ \A y \in CaCerts' : y.ca = y.key
      /\ \A y, z \in CaCerts' : y.key = z.key => y = z
      /\ \A x \in LeafCerts', y \in CaCerts' : Of(x, y)
  BY <1>1, <1>2 DEF CertsInv
<1> HIDE DEF CaCerts, LeafCerts
<1> QED
  BY <1>1, <1>2, <1>3 DEF CertsInv, Of

LEMMA KeysCover ==
  ASSUME NEW x \in CaCerts \cup LeafCerts
  PROVE  x = NoLeaf \/ x.ca \in CaKeys
<1>1. CASE x \in {NoLeaf, ca.cert, leaf.cert, served}
  BY <1>1 DEF CaKeys
<1>2. CASE \E p \in Processes : x \in CasOf(jobs[p]) \cup LeavesOf(jobs[p])
  <2>1. PICK p \in Processes : x \in CasOf(jobs[p]) \cup LeavesOf(jobs[p])
    BY <1>2
  <2>2. x \in {jobs[p].ca, jobs[p].cert, jobs[p].aside}
    BY <2>1 DEF CasOf, LeavesOf
  <2> QED
    BY <2>2 DEF CaKeys, Held
<1> QED
  BY <1>1, <1>2 DEF CaCerts, LeafCerts

\* One more CA, of a new key.
LEMMA NewCaStays ==
  ASSUME CertsInv, NEW c, c.ca = c.key, c.key # 0, c.key \notin CaKeys,
         ca'.cert \in CaCerts, leaf'.cert \in LeafCerts, served' \in LeafCerts,
         \A q \in Processes :
            CasOf(jobs'[q]) \subseteq CaCerts \cup {c} /\ LeavesOf(jobs'[q]) \subseteq LeafCerts
  PROVE  CertsInv' /\ LeafCerts' \subseteq LeafCerts
<1>1. CaCerts' \subseteq CaCerts \cup {c}
  BY DEF CaCerts, CasOf
<1>2. LeafCerts' \subseteq LeafCerts
  BY DEF LeafCerts, LeavesOf
<1>3. \A x \in CaCerts \cup LeafCerts : x.ca # c.key
  BY KeysCover, LeafConstants
<1>4. /\ \A y \in CaCerts' : y.ca = y.key
      /\ \A y, z \in CaCerts' : y.key = z.key => y = z
      /\ \A x \in LeafCerts', y \in CaCerts' : Of(x, y)
  BY <1>1, <1>2, <1>3 DEF CertsInv, Of
<1> HIDE DEF CaCerts, LeafCerts
<1> QED
  BY <1>2, <1>4 DEF CertsInv, Of

\* One more certificate of a CA that is anywhere.
LEMMA NewLeafStays ==
  ASSUME CertsInv, NEW c, \A y \in CaCerts : Of(c, y),
         ca'.cert \in CaCerts, leaf'.cert \in LeafCerts, served' \in LeafCerts,
         \A q \in Processes :
            CasOf(jobs'[q]) \subseteq CaCerts /\ LeavesOf(jobs'[q]) \subseteq LeafCerts \cup {c}
  PROVE  CertsInv' /\ LeafCerts' \subseteq LeafCerts \cup {c}
<1>1. CaCerts' \subseteq CaCerts
  BY DEF CaCerts, CasOf
<1>2. LeafCerts' \subseteq LeafCerts \cup {c}
  BY DEF LeafCerts, LeavesOf
<1>3. /\ \A y \in CaCerts' : y.ca = y.key
      /\ \A y, z \in CaCerts' : y.key = z.key => y = z
      /\ \A x \in LeafCerts', y \in CaCerts' : Of(x, y)
  BY <1>1, <1>2 DEF CertsInv
<1> HIDE DEF CaCerts, LeafCerts
<1> QED
  BY <1>2, <1>3 DEF CertsInv, Of

\* A CA in the making is still the only one of its key, whatever process p does but make one.
LEMMA NewStays ==
  ASSUME NewInv, NEW p \in Processes,
         \A q \in Processes \ {p} :
            /\ jobs'[q].ca = jobs[q].ca /\ jobs'[q].what = jobs[q].what
            /\ jobs'[q].cert = jobs[q].cert,
         \A x \in LeafCerts' : x \in LeafCerts \/ x.ca = jobs[p].ca.key,
         jobs'[p].what = "ca" => jobs[p].what = "ca" /\ jobs'[p].cert = jobs[p].cert,
         \/ ca'.key = ca.key
         \/ jobs[p].what = "ca" /\ ca'.key = jobs[p].cert.key /\ jobs'[p].what # "ca",
         \/ jobs'[p].ca.key \in {0, jobs[p].ca.key, ca.key}
         \/ jobs[p].what = "ca" /\ jobs'[p].ca.key = jobs[p].cert.key /\ jobs'[p].what # "ca"
  PROVE  NewInv'
<1> SUFFICES ASSUME NEW r \in Processes, jobs'[r].what = "ca"
             PROVE  /\ jobs'[r].cert.key \notin {0, ca'.key}
                    /\ \A x \in LeafCerts' : x.ca # jobs'[r].cert.key
                    /\ \A q \in Processes : jobs'[q].ca.key # jobs'[r].cert.key
                    /\ \A q \in Processes \ {r} :
                         jobs'[q].what = "ca" => jobs'[q].cert.key # jobs'[r].cert.key
  BY DEF NewInv
<1>1. jobs[r].what = "ca" /\ jobs'[r].cert = jobs[r].cert
  OBVIOUS
<1>2. /\ jobs[r].cert.key \notin {0, ca.key}
      /\ \A x \in LeafCerts : x.ca # jobs[r].cert.key
      /\ \A q \in Processes : jobs[q].ca.key # jobs[r].cert.key
      /\ \A q \in Processes \ {r} : jobs[q].what = "ca" => jobs[q].cert.key # jobs[r].cert.key
  BY <1>1 DEF NewInv
<1>3. jobs[p].what = "ca" /\ jobs'[p].what # "ca" => jobs[p].cert.key # jobs[r].cert.key
  BY <1>2
<1>4. jobs'[r].cert.key \notin {0, ca'.key}
  BY <1>1, <1>2, <1>3
<1>5. \A x \in LeafCerts' : x.ca # jobs'[r].cert.key
  BY <1>1, <1>2
<1>6. \A q \in Processes : jobs'[q].ca.key # jobs'[r].cert.key
  BY <1>1, <1>2, <1>3
<1>7. \A q \in Processes \ {r} : jobs'[q].what = "ca" => jobs'[q].cert.key # jobs'[r].cert.key
  BY <1>1, <1>2
<1> QED
  BY <1>4, <1>5, <1>6, <1>7

\* One a process makes now is: it has a new key.
LEMMA NewCaIsNew ==
  ASSUME LeafType, CertsInv, NewInv, NEW p \in Processes, NEW j \in Jobs, Goes(p, j),
         j.what = "ca", j.ca = NoLeaf, j.cert.key # 0, j.cert.key \notin CaKeys,
         ca' = ca, LeafCerts' \subseteq LeafCerts
  PROVE  NewInv'
<1> DEFINE k == j.cert.key
<1>1. jobs'[p] = j /\ \A q \in Processes \ {p} : jobs'[q] = jobs[q]
  BY DEF Goes, LeafType
<1>2. \A x \in CaCerts \cup LeafCerts : x.ca # k
  BY KeysCover, LeafConstants
<1>3. \A q \in Processes : jobs[q].ca.key # k
  <2> SUFFICES ASSUME NEW q \in Processes
               PROVE  jobs[q].ca.key # k
    OBVIOUS
  <2>1. jobs[q].ca \in CaCerts
    BY DEF CaCerts, CasOf
  <2> QED
    BY <1>2, <2>1 DEF CertsInv
<1>4. \A q \in Processes : jobs[q].what = "ca" => jobs[q].cert.key # k
  <2> SUFFICES ASSUME NEW q \in Processes, jobs[q].what = "ca"
               PROVE  jobs[q].cert.key # k
    OBVIOUS
  <2>1. jobs[q].cert \in CaCerts
    BY DEF CaCerts, CasOf
  <2> QED
    BY <1>2, <2>1 DEF CertsInv
<1>5. ca.key # k
  BY DEF CaKeys
<1> SUFFICES ASSUME NEW r \in Processes, jobs'[r].what = "ca"
             PROVE  /\ jobs'[r].cert.key \notin {0, ca'.key}
                    /\ \A x \in LeafCerts' : x.ca # jobs'[r].cert.key
                    /\ \A q \in Processes : jobs'[q].ca.key # jobs'[r].cert.key
                    /\ \A q \in Processes \ {r} :
                         jobs'[q].what = "ca" => jobs'[q].cert.key # jobs'[r].cert.key
  BY DEF NewInv
<1>6. CASE r = p
  BY <1>1, <1>2, <1>3, <1>4, <1>5, <1>6, LeafConstants
<1>7. CASE r # p
  <2>1. /\ jobs[r].what = "ca" /\ jobs'[r] = jobs[r]
        /\ jobs[r].cert.key \notin {0, ca.key}
        /\ \A x \in LeafCerts : x.ca # jobs[r].cert.key
        /\ \A q \in Processes : jobs[q].ca.key # jobs[r].cert.key
        /\ \A q \in Processes \ {r} : jobs[q].what = "ca" => jobs[q].cert.key # jobs[r].cert.key
    BY <1>1, <1>7 DEF NewInv
  <2> QED
    BY <1>1, <1>4, <1>7, <2>1, LeafConstants
<1> QED
  BY <1>6, <1>7

\* A process that is not in the middle of a write, before or after, disturbs none.
LEMMA MidsStay ==
  ASSUME LeafType, WritesInv, PairsInv, NEW p \in Processes, NEW j \in Jobs, Goes(p, j),
         jobs[p].at \notin Halfway, j.at \notin Halfway, UNCHANGED <<ca, leaf, spoilt>>
  PROVE  WritesInv' /\ PairsInv' /\ There("ca")' = There("ca")
<1>1. jobs'[p] = j /\ \A q \in Processes \ {p} : jobs'[q] = jobs[q]
  BY DEF Goes, LeafType
<1>2. \A q \in Processes, what \in Pairs :
        /\ MidWrite(q, what)' <=> MidWrite(q, what)
        /\ MidWrite(q, what) => jobs'[q] = jobs[q]
  BY <1>1 DEF MidWrite, Halfway
<1>3. \A what : On(what)' = On(what)
  BY DEF On
<1>4. \A what \in Pairs : There(what)' = There(what)
  BY <1>2, <1>3 DEF There, Processes
<1>5. \A q \in Processes, what \in Pairs : WriteHolds(q, what) /\ MidWrite(q, what) => WriteHolds(q, what)'
  BY <1>2, <1>3 DEF WriteHolds
<1> QED
  BY <1>2, <1>3, <1>4, <1>5 DEF WritesInv, PairsInv, Pairs

\* One that ends a write leaves a pair, if it was alone at it, or the pair is known to be spoilt.
LEMMA WriteEnds ==
  ASSUME LeafType, WritesInv, PairsInv, NEW p \in Processes, NEW j \in Jobs, Goes(p, j),
         NEW what \in Pairs, MidWrite(p, what), j.at \notin Halfway,
         \A o \in Pairs \ {what} : On(o)' = On(o) /\ (o \in spoilt' <=> o \in spoilt),
         jobs[p].crossed /\ what \in spoilt => what \in spoilt',
         \/ what \in spoilt'
         \/ ~jobs[p].crossed /\ On(what)'.cert.key = On(what)'.key
  PROVE  /\ WritesInv' /\ PairsInv'
         /\ "ca" # what => There("ca")' = There("ca")
         /\ ~jobs[p].crossed => There(what)' = On(what)'.cert
<1>1. jobs'[p] = j /\ \A q \in Processes \ {p} : jobs'[q] = jobs[q]
  BY DEF Goes, LeafType
<1>2. \A q \in Processes, o \in Pairs :
        /\ MidWrite(q, o)' <=> MidWrite(q, o) /\ q # p
        /\ MidWrite(q, o) /\ q # p => jobs'[q] = jobs[q]
  BY <1>1 DEF MidWrite, Halfway
<1>3. \A o \in Pairs \ {what} : ~MidWrite(p, o)
  BY DEF MidWrite
<1>4. \A o \in Pairs \ {what} : There(o)' = There(o)
  BY <1>1, <1>2, <1>3 DEF There, Processes
<1>5. ASSUME NEW q \in Processes, NEW o \in Pairs, MidWrite(q, o)'
      PROVE  WriteHolds(q, o)'
  <2>1. q # p /\ MidWrite(q, o) /\ WriteHolds(q, o) /\ jobs'[q] = jobs[q]
    BY <1>2, <1>5 DEF WritesInv
  <2>2. CASE o = what
    <3>1. jobs[q].crossed
      BY <2>1, <2>2 DEF WriteHolds
    <3>2. WriteHolds(p, what)
      BY DEF WritesInv
    <3>3. jobs[p].crossed /\ what \in spoilt
      BY <2>1, <2>2, <3>2 DEF WriteHolds
    <3> QED
      BY <2>1, <2>2, <3>1, <3>3 DEF WriteHolds
  <2>3. CASE o # what
    BY <1>2, <2>1, <2>3 DEF WriteHolds
  <2> QED
    BY <2>2, <2>3
<1>6. ~jobs[p].crossed => There(what)' = On(what)'.cert
  <2> SUFFICES ASSUME ~jobs[p].crossed
               PROVE  There(what)' = On(what)'.cert
    OBVIOUS
  <2>1. \A q \in Processes \ {p} : ~MidWrite(q, what)
    BY DEF WritesInv, WriteHolds
  <2>2. \A q \in Processes : ~MidWrite(q, what)'
    BY <1>2, <2>1
  <2> QED
    BY <2>2 DEF There, Processes
<1>7. PairsInv'
  <2> SUFFICES ASSUME NEW o \in Pairs, o \notin spoilt'
               PROVE  There(o)'.key = On(o)'.key
    BY DEF PairsInv
  <2>1. CASE o = what
    BY <1>6, <2>1
  <2>2. CASE o # what
    BY <1>4, <2>2 DEF PairsInv
  <2> QED
    BY <2>1, <2>2
<1> QED
  BY <1>4, <1>5, <1>6, <1>7 DEF WritesInv, Pairs

LEMMA JobsStay ==
  ASSUME LeafType, JobsInv, NEW p \in Processes, NEW j \in Jobs, Goes(p, j), JobHolds(p, j)',
         day' = day, running' => running \/ p = "gateway"
  PROVE  JobsInv'
<1>1. jobs'[p] = j /\ \A q \in Processes \ {p} : jobs'[q] = jobs[q]
  BY DEF Goes, LeafType
<1> SUFFICES ASSUME NEW q \in Processes
             PROVE  JobHolds(q, jobs[q])'
  BY DEF JobsInv
<1>2. CASE q = p
  <2>1. jobs[q]' = j
    BY <1>1, <1>2
  <2> QED
    BY <1>2, <2>1 DEF JobHolds
<1>3. CASE q # p
  <2>1. jobs[q]' = jobs[q] /\ JobHolds(q, jobs[q])
    BY <1>1, <1>3 DEF JobsInv
  <2>2. running' => running \/ jobs[q].by # "start"
    BY <1>3, <2>1 DEF JobHolds, Processes
  <2> QED
    BY <2>1, <2>2 DEF JobHolds
<1> QED
  BY <1>2, <1>3

\* What the gateway serves stays in time, if what it is at is worth what it has used up.
LEMMA ServedStays ==
  ASSUME LeafType, ServedInv, TickInv, DueInv, UNCHANGED <<day, running, served, renewAt>>,
         ServedOfCa' => ServedOfCa, failures' \in Nat, failures' <= MaxFailures,
         AtTick(jobs'["gateway"]) =>
           /\ jobs'["gateway"].wanted = served.names
           /\ ServedOfCa => jobs'["gateway"].ca.key = served.ca,
         ServedOfCa /\ Due /\ day < served.caUntil => failures + Used' <= failures' + Used
  PROVE  ServedInv' /\ TickInv' /\ DueInv'
<1>1. ServedInv'
  BY DEF ServedInv, RenewAt, Never
<1>2. TickInv'
  BY DEF TickInv, AtTick
<1>3. DueInv'
  <2> SUFFICES ASSUME ServedOfCa', Due', day' < served'.caUntil
               PROVE  day' - renewAt' + Used' <= failures'
    BY DEF DueInv
  <2>1. Due
    BY DEF Due
  <2>2. day - renewAt + Used <= failures /\ failures + Used' <= failures' + Used
    BY <2>1 DEF DueInv
  <2>3. /\ day \in Int /\ renewAt \in Int /\ failures \in Int /\ failures' \in Int
        /\ Used \in Int /\ Used' \in Int
    BY DEF LeafType, Used
  <2> QED
    BY <2>2, <2>3
<1> QED
  BY <1>1, <1>2, <1>3

LEMMA WriterAt ==
  ASSUME NEW p, NEW w, JobHolds(p, w)
  PROVE  w.what \in Pairs <=> w.at \in Writing
<1> DEFINE what == w.what  at == w.at
<1>1. what \in Pairs <=> at \in Writing
  BY DEF JobHolds
<1> QED
  BY <1>1

LEMMA JobGoes ==
  ASSUME LeafType, NEW p \in Processes, NEW j \in Jobs, Goes(p, j)
  PROVE  /\ jobs'[p] = j /\ jobs' \in [Processes -> Jobs]
         /\ \A q \in Processes \ {p} : jobs'[q] = jobs[q]
  BY DEF Goes, LeafType

LEMMA Known ==
  ASSUME NEW p \in Processes
  PROVE  /\ CasOf(jobs[p]) \subseteq CaCerts /\ LeavesOf(jobs[p]) \subseteq LeafCerts
         /\ NoLeaf \in CaCerts /\ ca.cert \in CaCerts
         /\ NoLeaf \in LeafCerts /\ leaf.cert \in LeafCerts /\ served \in LeafCerts
  BY DEF CaCerts, LeafCerts

\* A CA that loads is the one there, but if the pair is known to be spoilt.
LEMMA LoadedIsThere ==
  ASSUME LeafInv, Loaded, "ca" \notin spoilt
  PROVE  There("ca") = ca.cert
<1>1. ASSUME NEW q \in Processes, MidWrite(q, "ca")
      PROVE  FALSE
  <2>1. WriteHolds(q, "ca") /\ jobs[q].what = "ca" /\ "ca" \in Pairs
    BY <1>1 DEF LeafInv, WritesInv, MidWrite, Pairs
  <2>2. ca.cert = (IF jobs[q].at = "aside" THEN NoLeaf ELSE jobs[q].cert)
    BY <2>1 DEF WriteHolds, On
  <2>3. jobs[q].cert.key # ca.key
    BY <2>1 DEF LeafInv, NewInv
  <2> QED
    BY <2>2, <2>3 DEF Loaded
<1> QED
  BY <1>1 DEF There, On, Processes

\* A step of a process that is in the middle of no write, and ends in none.
LEMMA QuietKept ==
  ASSUME LeafInv, NEW p \in Processes, NEW j \in Jobs, Goes(p, j),
         jobs[p].at \notin Halfway, j.at \notin Halfway,
         UNCHANGED <<day, ca, leaf, spoilt, running, served, renewAt>>,
         ticked' \in BOOLEAN, failures' \in Nat, failures' <= MaxFailures,
         JobHolds(p, j), CertsInv', NewInv',
         p = "gateway" /\ AtTick(j) =>
           j.wanted = served.names /\ (ServedOfCa => j.ca.key = served.ca),
         ServedOfCa /\ Due /\ day < served.caUntil => failures + Used' <= failures' + Used
  PROVE  LeafInv'
<1>1. /\ jobs'[p] = j /\ jobs' \in [Processes -> Jobs]
      /\ \A q \in Processes \ {p} : jobs'[q] = jobs[q]
  BY JobGoes DEF LeafInv
<1>2. /\ LeafType /\ JobsInv /\ WritesInv /\ PairsInv /\ ServedInv /\ TickInv /\ DueInv
  BY DEF LeafInv
<1>3. LeafType'
  BY <1>1, <1>2 DEF LeafType
<1>4. WritesInv' /\ PairsInv' /\ There("ca")' = There("ca")
  BY <1>2, MidsStay
<1>5. JobsInv'
  <2>1. JobHolds(p, j)'
    BY DEF JobHolds
  <2> QED
    BY <1>2, <2>1, JobsStay
<1>6. ServedInv' /\ TickInv' /\ DueInv'
  <2>1. ServedOfCa' => ServedOfCa
    BY <1>4 DEF ServedOfCa
  <2>2. AtTick(jobs'["gateway"]) =>
          /\ jobs'["gateway"].wanted = served.names
          /\ ServedOfCa => jobs'["gateway"].ca.key = served.ca
    BY <1>1, <1>2 DEF TickInv, Processes
  <2> QED
    BY <1>2, <2>1, <2>2, ServedStays
<1> QED
  BY <1>3, <1>4, <1>5, <1>6 DEF LeafInv

\* A process with nothing more to do.
LEMMA IdleCerts ==
  ASSUME LeafInv, NEW p \in Processes, Goes(p, NoJob), ca'.key = ca.key,
         ca'.cert \in CaCerts, leaf'.cert \in LeafCerts, served' \in LeafCerts
  PROVE  /\ CertsInv' /\ NewInv' /\ jobs'[p] = NoJob /\ NoJob \in Jobs /\ JobHolds(p, NoJob)
         /\ ~AtTick(NoJob) /\ NoJob.at \notin Halfway /\ NoJob.by # "start"
<1>1. /\ jobs'[p] = NoJob /\ NoJob \in Jobs
      /\ \A q \in Processes \ {p} : jobs'[q] = jobs[q]
  BY JobGoes, LeafConstants DEF LeafInv
<1>2. JobHolds(p, NoJob) /\ ~AtTick(NoJob) /\ NoJob.at \notin Halfway /\ NoJob.by # "start"
  BY LeafConstants DEF JobHolds, Pairs, Writing, Halfway, AtTick
<1>3. CertsInv' /\ LeafCerts' \subseteq LeafCerts
  <2>1. CasOf(NoJob) = {NoLeaf} /\ LeavesOf(NoJob) = {NoLeaf}
    BY LeafConstants DEF CasOf, LeavesOf
  <2>2. \A q \in Processes : CasOf(jobs'[q]) \subseteq CaCerts /\ LeavesOf(jobs'[q]) \subseteq LeafCerts
    BY <1>1, <2>1, Known
  <2> QED
    BY <2>2, CertsStay DEF LeafInv
<1>4. NewInv'
  BY <1>1, <1>3, NewStays, LeafConstants DEF LeafInv
<1> QED
  BY <1>1, <1>2, <1>3, <1>4

LEMMA IdlesKept ==
  ASSUME LeafInv, NEW p \in Processes, Goes(p, NoJob), jobs[p].at \notin Halfway,
         UNCHANGED <<day, ca, leaf, spoilt, running, served, renewAt>>,
         ticked' \in BOOLEAN, failures' \in Nat, failures' <= MaxFailures,
         ServedOfCa /\ Due /\ day < served.caUntil => failures + Used' <= failures' + Used
  PROVE  LeafInv'
<1>1. CertsInv' /\ NewInv' /\ NoJob \in Jobs /\ JobHolds(p, NoJob) /\ ~AtTick(NoJob) /\ NoJob.at \notin Halfway
  BY Known, IdleCerts
<1> QED
  BY <1>1, QuietKept

\* What a step that fails no write, and is of no tick or stays of one, uses up.
LEMMA UsesNoMore ==
  ASSUME LeafInv, NEW p \in Processes, NEW j \in Jobs, Goes(p, j), UNCHANGED <<ticked, failures>>,
         p = "gateway" => (j.by = "tick" <=> jobs[p].by = "tick")
  PROVE  /\ failures' \in Nat /\ failures' <= MaxFailures /\ ticked' \in BOOLEAN
         /\ failures + Used' <= failures' + Used
<1>1. failures \in Nat /\ failures <= MaxFailures /\ ticked \in BOOLEAN
  BY DEF LeafInv, LeafType, DueInv
<1>2. jobs'["gateway"].by = "tick" <=> jobs["gateway"].by = "tick"
  BY JobGoes DEF LeafInv, Processes
<1>3. Used' = Used /\ Used \in Int
  BY <1>2 DEF Used
<1> QED
  BY <1>1, <1>3

\* A CA made now, and staged.
LEMMA NewCaKept ==
  ASSUME LeafInv, NEW p \in Processes, NEW by, NEW wanted \in Names,
         Stage(p, by, "ca", NewCa(wanted)), ServesOn, UNCHANGED <<day, ticked, ca, leaf, spoilt>>,
         jobs[p] = NoJob \/ (p = "command" /\ jobs[p].at = "load"),
         IF p = "gateway" THEN by = "start" /\ ~running ELSE by \in {"init", "new-ca"}
  PROVE  LeafInv'
<1> DEFINE c == NewCa(wanted)
<1>1. LeafType /\ CertsInv /\ NewInv
  BY DEF LeafInv
<1>2. c \in Leaves /\ c.ca = c.key /\ c.key # 0 /\ c.key \notin CaKeys
  BY <1>1, NewCaType
<1>3. by \in {"start", "init", "new-ca"}
  BY DEF Processes
<1> HIDE DEF c
<1>4. PICK j \in Jobs :
        /\ Goes(p, j) /\ j.by = by /\ j.at = "staged" /\ j.what = "ca" /\ j.cert = c
        /\ j.ca = NoLeaf /\ j.aside = NoLeaf
  <2> DEFINE j == [NoJob EXCEPT !.by = by, !.at = "staged", !.what = "ca", !.cert = c]
  <2>1. /\ j \in Jobs /\ j.by = by /\ j.at = "staged" /\ j.what = "ca" /\ j.cert = c
        /\ j.ca = NoLeaf /\ j.aside = NoLeaf
    BY <1>2, <1>3, LeafConstants DEF NoJob, Jobs, Writing, Pairs
  <2>2. Goes(p, j)
    BY DEF Stage, c
  <2> HIDE DEF j
  <2> QED
    BY <2>1, <2>2
<1>5. /\ jobs'[p] = j /\ \A q \in Processes \ {p} : jobs'[q] = jobs[q]
  BY <1>1, <1>4, JobGoes
<1>6. /\ running' = running /\ served' = served /\ renewAt' = renewAt /\ failures' = failures
  BY DEF ServesOn
<1>7. CertsInv' /\ LeafCerts' \subseteq LeafCerts
  <2>1. CasOf(j) = {NoLeaf, c} /\ LeavesOf(j) = {}
    BY <1>4 DEF CasOf, LeavesOf
  <2>2. \A q \in Processes :
          CasOf(jobs'[q]) \subseteq CaCerts \cup {c} /\ LeavesOf(jobs'[q]) \subseteq LeafCerts
    BY <1>5, <2>1, Known
  <2> QED
    BY <1>1, <1>2, <1>6, <2>2, Known, NewCaStays
<1>8. NewInv'
  BY <1>1, <1>2, <1>4, <1>7, NewCaIsNew
<1>9. JobHolds(p, j) /\ ~AtTick(j) /\ j.at \notin Halfway /\ jobs[p].at \notin Halfway
  BY <1>4, LeafConstants DEF JobHolds, Pairs, Writing, Halfway, Processes, AtTick
<1>10. p = "gateway" => (j.by = "tick" <=> jobs[p].by = "tick")
  BY <1>4, LeafConstants
<1>11. failures + Used' <= failures' + Used /\ failures' \in Nat /\ failures' <= MaxFailures /\ ticked' \in BOOLEAN
  BY <1>4, <1>6, <1>10, UsesNoMore
<1> QED
  BY <1>4, <1>6, <1>7, <1>8, <1>9, <1>11, QuietKept

\* The CA there, or one a process made and put there, held from now on.
LEMMA LoadKept ==
  ASSUME LeafInv, NEW p \in Processes, NEW by, NEW wanted \in Names,
         Load(p, by, wanted), ServesOn, UNCHANGED <<day, ca, leaf, spoilt>>, ticked' \in BOOLEAN,
         jobs[p] = NoJob \/ (p = "command" /\ jobs[p].at = "load"),
         IF p = "gateway" THEN by \in {"start", "reload", "tick"} ELSE by = "init",
         by = "start" => ~running,
         by = "tick" => wanted = served.names,
         by # "tick" => ticked' = ticked
  PROVE  LeafInv'
<1>1. LeafType /\ CertsInv /\ NewInv
  BY DEF LeafInv
<1>2. /\ running' = running /\ served' = served /\ renewAt' = renewAt /\ failures' = failures
  BY DEF ServesOn
<1>3. CASE NoCa /\ by \in {"start", "init"} /\ Stage(p, by, "ca", NewCa(wanted))
  BY <1>3, NewCaKept
<1>4. CASE Loaded /\ Holds(p, by, wanted, ca.cert)
  <2>1. ca.cert \in Leaves /\ ca.cert # NoLeaf /\ ca.key = ca.cert.key
    BY <1>1, <1>4, LeafTypes DEF Loaded
  <2>2. ca.cert.key # 0
    BY <1>1, <2>1, Known, LeafConstants DEF CertsInv
  <2>3. by \in {"start", "reload", "tick", "init"}
    OBVIOUS
  <2>4. PICK j \in Jobs :
          /\ Goes(p, j) /\ j.by = by /\ j.at = "look" /\ j.wanted = wanted /\ j.ca = ca.cert
          /\ j.what = "none" /\ j.cert = NoLeaf /\ j.aside = NoLeaf
    <3> DEFINE j == [NoJob EXCEPT !.by = by, !.at = "look", !.wanted = wanted, !.ca = ca.cert]
    <3>1. /\ j \in Jobs /\ j.by = by /\ j.at = "look" /\ j.wanted = wanted /\ j.ca = ca.cert
          /\ j.what = "none" /\ j.cert = NoLeaf /\ j.aside = NoLeaf
      BY <2>1, <2>3, LeafConstants DEF NoJob, Jobs
    <3>2. Goes(p, j)
      BY <1>4 DEF Holds
    <3> HIDE DEF j
    <3> QED
      BY <3>1, <3>2
  <2>5. /\ jobs'[p] = j /\ \A q \in Processes \ {p} : jobs'[q] = jobs[q]
    BY <1>1, <2>4, JobGoes
  <2>6. CertsInv' /\ LeafCerts' \subseteq LeafCerts
    <3>1. CasOf(j) = {ca.cert} /\ LeavesOf(j) = {NoLeaf}
      BY <2>4 DEF CasOf, LeavesOf
    <3>2. \A q \in Processes : CasOf(jobs'[q]) \subseteq CaCerts /\ LeavesOf(jobs'[q]) \subseteq LeafCerts
      BY <2>5, <3>1, Known
    <3> QED
      BY <1>1, <1>2, <3>2, Known, CertsStay
  <2>7. NewInv'
    BY <1>1, <2>1, <2>4, <2>5, <2>6, NewStays
  <2>8. JobHolds(p, j) /\ j.at \notin Halfway /\ jobs[p].at \notin Halfway
    BY <2>2, <2>4, LeafConstants DEF JobHolds, Pairs, Writing, Halfway, Processes
  <2>9. p = "gateway" /\ AtTick(j) =>
          j.wanted = served.names /\ (ServedOfCa => j.ca.key = served.ca)
    BY <1>4, <2>4, LoadedIsThere DEF AtTick, ServedOfCa
  <2>10. failures' \in Nat /\ failures' <= MaxFailures /\ failures + Used' <= failures' + Used
    <3>1. CASE by # "tick"
      <4>1. p = "gateway" => (j.by = "tick" <=> jobs[p].by = "tick")
        BY <2>4, <3>1, LeafConstants
      <4> QED
        BY <1>2, <2>4, <3>1, <4>1, UsesNoMore
    <3>2. CASE by = "tick"
      <4>1. Used' = 0
        BY <2>4, <2>5, <3>2 DEF Used, Processes
      <4>2. failures \in Nat /\ failures <= MaxFailures /\ Used \in {0, 1}
        BY DEF LeafInv, LeafType, DueInv, Used
      <4> QED
        BY <1>2, <4>1, <4>2
    <3> QED
      BY <3>1, <3>2
  <2> QED
    BY <1>2, <2>4, <2>6, <2>7, <2>8, <2>9, <2>10, QuietKept
<1> QED
  BY <1>3, <1>4 DEF Load

\* The certificate is there: what is at built is not near its end.
LEMMA EnsuredKept ==
  ASSUME LeafInv, NEW p \in Processes, jobs[p].at = "look", Kept(jobs[p]),
         Ensured(p, jobs[p].by, leaf.cert), ServesOn, UNCHANGED <<day, ticked, ca, leaf, spoilt>>
  PROVE  LeafInv'
<1>1. LeafType /\ CertsInv /\ NewInv
  BY DEF LeafInv
<1>2. /\ running' = running /\ served' = served /\ renewAt' = renewAt /\ failures' = failures
  BY DEF ServesOn
<1>3. jobs[p].at \notin Halfway /\ JobHolds(p, jobs[p])
  BY DEF Halfway, LeafInv, JobsInv
<1>4. CASE p # "gateway"
  <2>1. Goes(p, NoJob)
    BY <1>4 DEF Ensured
  <2>2. failures' \in Nat /\ failures' <= MaxFailures /\ ticked' \in BOOLEAN /\ failures + Used' <= failures' + Used
    BY <1>2, <1>4, <2>1, UsesNoMore, LeafConstants
  <2> QED
    BY <1>2, <1>3, <2>1, <2>2, IdlesKept
<1>5. CASE p = "gateway"
  <2>1. leaf.cert \in Leaves /\ jobs[p] \in Jobs
    BY <1>1, LeafTypes
  <2>2. PICK j \in Jobs :
          /\ Goes(p, j) /\ j.by = jobs[p].by /\ j.at = "built" /\ j.ca = NoLeaf
          /\ j.what = "none" /\ j.cert = leaf.cert /\ j.aside = NoLeaf
    <3> DEFINE j == [NoJob EXCEPT !.by = jobs[p].by, !.at = "built", !.cert = leaf.cert]
    <3>1. jobs[p].by \in {"none", "start", "reload", "tick", "init", "new-ca"}
      BY <2>1 DEF Jobs
    <3>2. /\ j \in Jobs /\ j.by = jobs[p].by /\ j.at = "built" /\ j.ca = NoLeaf
          /\ j.what = "none" /\ j.cert = leaf.cert /\ j.aside = NoLeaf
      BY <2>1, <3>1, NoJobIs DEF Jobs
    <3>3. Goes(p, j)
      BY <1>5 DEF Ensured
    <3> HIDE DEF j
    <3> QED
      BY <3>2, <3>3
  <2>3. /\ jobs'[p] = j /\ \A q \in Processes \ {p} : jobs'[q] = jobs[q]
    BY <1>1, <2>2, JobGoes
  <2>4. CertsInv' /\ LeafCerts' \subseteq LeafCerts
    <3>1. CasOf(j) = {NoLeaf} /\ LeavesOf(j) = {leaf.cert, NoLeaf}
      BY <2>2 DEF CasOf, LeavesOf
    <3>2. \A q \in Processes : CasOf(jobs'[q]) \subseteq CaCerts /\ LeavesOf(jobs'[q]) \subseteq LeafCerts
      BY <2>3, <3>1, Known
    <3> QED
      BY <1>1, <1>2, <3>2, Known, CertsStay
  <2>5. NewInv'
    BY <1>1, <2>2, <2>3, <2>4, NewStays, LeafConstants
  <2>6. JobHolds(p, j) /\ j.at \notin Halfway /\ ~AtTick(j)
    <3>1. leaf.cert.ca # 0 /\ leaf.cert.until > day + RenewBefore
      BY <1>3 DEF Kept, JobHolds
    <3> QED
      BY <1>3, <2>2, <3>1 DEF JobHolds, Pairs, Writing, Halfway, AtTick
  <2>7. failures' \in Nat /\ failures' <= MaxFailures /\ ticked' \in BOOLEAN /\ failures + Used' <= failures' + Used
    BY <1>2, <2>2, UsesNoMore
  <2> QED
    BY <1>2, <1>3, <2>2, <2>4, <2>5, <2>6, <2>7, QuietKept
<1> QED
  BY <1>4, <1>5

\* A certificate issued by the CA a process holds, and staged.
LEMMA IssuedKept ==
  ASSUME LeafInv, NEW p \in Processes, jobs[p].at = "look", Issues(jobs[p]),
         Stage(p, jobs[p].by, "leaf", NewLeaf(jobs[p])), ServesOn,
         UNCHANGED <<day, ticked, ca, leaf, spoilt>>
  PROVE  LeafInv'
<1> DEFINE c == NewLeaf(jobs[p])
<1>1. LeafType /\ CertsInv /\ NewInv
  BY DEF LeafInv
<1>2. /\ running' = running /\ served' = served /\ renewAt' = renewAt /\ failures' = failures
  BY DEF ServesOn
<1>3. jobs[p].at \notin Halfway /\ JobHolds(p, jobs[p]) /\ jobs[p].ca.key # 0
  BY DEF Halfway, LeafInv, JobsInv, JobHolds
<1>4. /\ c \in Leaves /\ c.ca = jobs[p].ca.key /\ c.caUntil = jobs[p].ca.until
      /\ c.names = jobs[p].wanted
      /\ c.until > day + RenewBefore \/ c.until >= c.caUntil
  BY <1>1, LeafTypes, NewLeafType
<1> HIDE DEF c
<1>5. \A y \in CaCerts : Of(c, y)
  <2>1. jobs[p].ca \in CaCerts
    BY Known DEF CasOf
  <2> QED
    BY <1>1, <1>4, <2>1 DEF CertsInv, Of, Issues
<1>6. PICK j \in Jobs :
        /\ Goes(p, j) /\ j.by = jobs[p].by /\ j.at = "staged" /\ j.ca = NoLeaf
        /\ j.what = "leaf" /\ j.cert = c /\ j.aside = NoLeaf
  <2> DEFINE j == [NoJob EXCEPT !.by = jobs[p].by, !.at = "staged", !.what = "leaf", !.cert = c]
  <2>1. jobs[p].by \in {"none", "start", "reload", "tick", "init", "new-ca"}
    BY <1>1 DEF LeafType, Jobs
  <2>2. /\ j \in Jobs /\ j.by = jobs[p].by /\ j.at = "staged" /\ j.ca = NoLeaf
        /\ j.what = "leaf" /\ j.cert = c /\ j.aside = NoLeaf
    BY <1>4, <2>1, LeafConstants DEF NoJob, Jobs, Writing, Pairs
  <2>3. Goes(p, j)
    BY DEF Stage, c
  <2> HIDE DEF j
  <2> QED
    BY <2>2, <2>3
<1>7. /\ jobs'[p] = j /\ \A q \in Processes \ {p} : jobs'[q] = jobs[q]
  BY <1>1, <1>6, JobGoes
<1>8. CertsInv' /\ LeafCerts' \subseteq LeafCerts \cup {c}
  <2>1. CasOf(j) = {NoLeaf} /\ LeavesOf(j) = {c, NoLeaf}
    BY <1>6 DEF CasOf, LeavesOf
  <2>2. \A q \in Processes :
          CasOf(jobs'[q]) \subseteq CaCerts /\ LeavesOf(jobs'[q]) \subseteq LeafCerts \cup {c}
    BY <1>7, <2>1, Known
  <2> QED
    BY <1>1, <1>2, <1>5, <2>2, Known, NewLeafStays
<1>9. NewInv'
  BY <1>1, <1>4, <1>6, <1>7, <1>8, NewStays, LeafConstants
<1>10. JobHolds(p, j) /\ j.at \notin Halfway /\ ~AtTick(j)
  BY <1>3, <1>4, <1>6 DEF JobHolds, Pairs, Writing, Halfway, AtTick
<1>11. failures' \in Nat /\ failures' <= MaxFailures /\ ticked' \in BOOLEAN /\ failures + Used' <= failures' + Used
  BY <1>2, <1>6, UsesNoMore
<1> QED
  BY <1>2, <1>3, <1>6, <1>8, <1>9, <1>10, <1>11, QuietKept

LEMMA LooksKept ==
  ASSUME LeafInv, NEW p \in Processes, Looks(p)
  PROVE  LeafInv'
<1>1. /\ jobs[p].at = "look" /\ ServesOn /\ UNCHANGED <<day, ticked, ca, leaf, spoilt>>
  BY DEF Looks
<1>2. CASE Kept(jobs[p]) /\ Ensured(p, jobs[p].by, leaf.cert)
  BY <1>1, <1>2, EnsuredKept
<1>3. CASE Issues(jobs[p]) /\ Stage(p, jobs[p].by, "leaf", NewLeaf(jobs[p]))
  BY <1>1, <1>3, IssuedKept
<1>4. CASE ~Issues(jobs[p]) /\ Goes(p, NoJob)
  <2>1. /\ running' = running /\ served' = served /\ renewAt' = renewAt /\ failures' = failures
    BY <1>1 DEF ServesOn
  <2>2. ASSUME p = "gateway", jobs[p].by = "tick", ServedOfCa, day < served.caUntil
        PROVE  FALSE
    <3>1. jobs[p].wanted = served.names /\ jobs[p].ca.key = served.ca /\ served.ca # 0
      BY <1>1, <2>2 DEF LeafInv, TickInv, AtTick, ServedInv, ServedOfCa
    <3>2. jobs[p].ca \in CaCerts /\ served \in LeafCerts /\ served # NoLeaf
      BY <3>1, Known, LeafConstants DEF CasOf
    <3>3. served.names \subseteq jobs[p].ca.names /\ served.caUntil = jobs[p].ca.until
      BY <3>1, <3>2 DEF LeafInv, CertsInv, Of
    <3> QED
      BY <1>4, <2>2, <3>1, <3>3 DEF Issues
  <2>3. /\ failures \in Nat /\ failures <= MaxFailures /\ ticked \in BOOLEAN
    BY DEF LeafInv, LeafType, DueInv
  <2>4. ServedOfCa /\ Due /\ day < served.caUntil => failures + Used' <= failures' + Used
    <3>1. CASE p = "gateway" /\ jobs[p].by = "tick"
      BY <2>2, <3>1
    <3>2. CASE ~(p = "gateway" /\ jobs[p].by = "tick")
      BY <1>1, <1>4, <2>1, <3>2, UsesNoMore, LeafConstants
    <3> QED
      BY <3>1, <3>2
  <2>5. jobs[p].at \notin Halfway
    BY <1>1 DEF Halfway
  <2> QED
    BY <1>1, <1>4, <2>1, <2>3, <2>4, <2>5, IdlesKept
<1> QED
  BY <1>2, <1>3, <1>4 DEF Looks

LEMMA NamesOf == ASSUME NEW wanted \in NameSets PROVE wanted \in Names
  BY DEF Names

LEMMA StartsKept == ASSUME LeafInv, Starts PROVE LeafInv'
<1>1. /\ ~running /\ jobs["gateway"] = NoJob /\ ServesOn
      /\ UNCHANGED <<day, ticked, ca, leaf, spoilt>> /\ ticked' \in BOOLEAN
  BY DEF Starts, LeafInv, LeafType
<1>2. PICK wanted \in Names : Load("gateway", "start", wanted)
  BY NamesOf DEF Starts
<1> QED
  BY <1>1, <1>2, LoadKept, LeafConstants

LEMMA ReloadsKept == ASSUME LeafInv, Reloads PROVE LeafInv'
<1>1. /\ jobs["gateway"] = NoJob /\ ServesOn
      /\ UNCHANGED <<day, ticked, ca, leaf, spoilt>> /\ ticked' \in BOOLEAN
  BY DEF Reloads, LeafInv, LeafType
<1>2. PICK wanted \in Names : Load("gateway", "reload", wanted)
  BY NamesOf DEF Reloads
<1> QED
  BY <1>1, <1>2, LoadKept, LeafConstants

LEMMA InitsKept == ASSUME LeafInv, Inits PROVE LeafInv'
<1>1. /\ jobs["command"] = NoJob /\ ServesOn
      /\ UNCHANGED <<day, ticked, ca, leaf, spoilt>> /\ ticked' \in BOOLEAN
  BY DEF Inits, LeafInv, LeafType
<1>2. PICK wanted \in Names : Load("command", "init", wanted)
  BY NamesOf DEF Inits
<1> QED
  BY <1>1, <1>2, LoadKept, LeafConstants

LEMMA NewCaMadeKept == ASSUME LeafInv, NewCaMade PROVE LeafInv'
<1>1. /\ jobs["command"] = NoJob /\ ServesOn /\ UNCHANGED <<day, ticked, ca, leaf, spoilt>>
  BY DEF NewCaMade
<1>2. PICK wanted \in Names : Stage("command", "new-ca", "ca", NewCa(wanted))
  BY NamesOf DEF NewCaMade
<1> QED
  BY <1>1, <1>2, NewCaKept, LeafConstants

LEMMA LoadsAgainKept == ASSUME LeafInv, LoadsAgain PROVE LeafInv'
<1>1. /\ jobs["command"].at = "load" /\ ServesOn
      /\ UNCHANGED <<day, ticked, ca, leaf, spoilt>> /\ ticked' \in BOOLEAN
  BY DEF LoadsAgain, LeafInv, LeafType
<1>2. jobs["command"].wanted \in Names
  BY LeafTypes, LeafConstants DEF LeafInv
<1>3. CASE Load("command", "init", jobs["command"].wanted)
  BY <1>1, <1>2, <1>3, LoadKept, LeafConstants
<1>4. CASE Goes("command", NoJob)
  <2>1. /\ running' = running /\ served' = served /\ renewAt' = renewAt /\ failures' = failures
    BY <1>1 DEF ServesOn
  <2>2. failures' \in Nat /\ failures' <= MaxFailures /\ failures + Used' <= failures' + Used
    BY <1>1, <1>4, <2>1, UsesNoMore, LeafConstants
  <2>3. jobs["command"].at \notin Halfway
    BY <1>1 DEF Halfway
  <2> QED
    BY <1>1, <1>4, <2>1, <2>2, <2>3, IdlesKept, LeafConstants
<1> QED
  BY <1>3, <1>4 DEF LoadsAgain

\* A tick is refused only if the gateway serves no certificate of the CA there.
LEMMA TicksKept == ASSUME LeafInv, Ticks PROVE LeafInv'
<1>1. /\ jobs["gateway"] = NoJob /\ ServesOn /\ running
      /\ UNCHANGED <<day, ca, leaf, spoilt>> /\ ticked' \in BOOLEAN
      /\ "gateway" \in Processes /\ NoJob \in Jobs
  BY LeafConstants DEF Ticks
<1>2. served.names \in Names
  BY DEF LeafInv, LeafType, Leaves
<1>3. CASE Load("gateway", "tick", served.names)
  BY <1>1, <1>2, <1>3, LoadKept, LeafConstants
<1>4. CASE LoadRefused("tick") /\ ~MidWrite("command", "ca") /\ UNCHANGED jobs
  <2>1. /\ running' = running /\ served' = served /\ renewAt' = renewAt /\ failures' = failures
    BY <1>1 DEF ServesOn
  <2>2. Goes("gateway", NoJob)
    BY <1>1, <1>4 DEF Goes, LeafInv, LeafType
  <2>3. jobs["gateway"].at \notin Halfway
    BY <1>1, LeafConstants DEF Halfway
  <2>4. ~ServedOfCa
    <3> SUFFICES ASSUME ServedOfCa
                 PROVE  FALSE
      OBVIOUS
    <3>1. "ca" \in Pairs /\ "ca" \notin spoilt /\ There("ca") = ca.cert /\ served.ca # 0
      BY <1>1, <1>4, <2>3 DEF There, MidWrite, Halfway, On, Pairs, ServedOfCa, LeafInv, ServedInv
    <3>2. ca.cert.key = ca.key /\ ca.cert.key # 0
      BY <3>1 DEF LeafInv, PairsInv, On, ServedOfCa
    <3> QED
      BY <1>4, <3>2, LeafConstants DEF LoadRefused, Loaded, NoCa
  <2>5. failures' \in Nat /\ failures' <= MaxFailures
    BY <2>1 DEF LeafInv, LeafType, DueInv
  <2> QED
    BY <1>1, <2>1, <2>2, <2>3, <2>4, <2>5, IdlesKept
<1> QED
  BY <1>3, <1>4 DEF Ticks

\* What failed is counted: it is what the watch used up this day.
LEMMA FailsUse ==
  ASSUME LeafInv, NEW p \in Processes, Goes(p, NoJob), Fails(p), ticked' = ticked
  PROVE  failures' \in Nat /\ failures' <= MaxFailures /\ failures + Used' <= failures' + Used
<1>1. failures \in Nat /\ failures <= MaxFailures /\ Used \in {0, 1} /\ Used' \in {0, 1} /\ MaxFailures \in Nat
  BY LeafConstants DEF LeafInv, LeafType, DueInv, Used
<1>2. CASE p = "command"
  <2>1. jobs'["gateway"] = jobs["gateway"]
    BY <1>2, JobGoes, LeafConstants DEF LeafInv
  <2>2. Used' = Used
    BY <2>1 DEF Used
  <2> QED
    BY <1>1, <1>2, <2>2 DEF Fails
<1>3. CASE p # "command"
  <2>1. failures < MaxFailures /\ failures' = failures + 1
    BY <1>3 DEF Fails
  <2>2. ASSUME NEW u \in {0, 1}, NEW v \in {0, 1}, NEW f \in Nat
        PROVE  f + v <= f + 1 + u
    OBVIOUS
  <2>3. failures' \in Nat /\ failures' <= MaxFailures
    BY <1>1, <2>1
  <2> QED
    BY <1>1, <2>1, <2>2, <2>3
<1> QED
  BY <1>2, <1>3

LEMMA BuildRefusedKept == ASSUME LeafInv, BuildRefused PROVE LeafInv'
<1>1. /\ jobs["gateway"].at = "built" /\ Goes("gateway", NoJob) /\ Fails("gateway")
      /\ UNCHANGED <<day, ticked, ca, leaf, running, served, renewAt, spoilt>>
      /\ "gateway" \in Processes /\ ticked' \in BOOLEAN
  BY LeafConstants DEF BuildRefused, LeafInv, LeafType
<1>2. failures' \in Nat /\ failures' <= MaxFailures /\ failures + Used' <= failures' + Used
  BY <1>1, FailsUse
<1>3. jobs["gateway"].at \notin Halfway
  BY <1>1 DEF Halfway
<1> QED
  BY <1>1, <1>2, <1>3, IdlesKept

\* What is installed is not near its end, or runs to its CA's: it is not due.
LEMMA InstallsKept == ASSUME LeafInv, Installs PROVE LeafInv'
<1> DEFINE g == "gateway"  c == jobs[g].cert
<1>1. /\ jobs[g].at = "built" /\ Goes(g, NoJob) /\ g \in Processes /\ NoJob \in Jobs
      /\ running' = TRUE /\ served' = c /\ renewAt' = RenewAt(c) /\ failures' = 0
      /\ UNCHANGED <<day, ticked, ca, leaf, spoilt>>
  BY LeafConstants DEF Installs, Serve
<1>2. LeafType /\ JobsInv /\ WritesInv /\ PairsInv /\ CertsInv /\ NewInv
  BY DEF LeafInv
<1>3. /\ jobs'[g] = NoJob /\ jobs' \in [Processes -> Jobs]
      /\ \A q \in Processes \ {g} : jobs'[q] = jobs[q]
  BY <1>1, <1>2, JobGoes
<1>4. /\ c \in Leaves /\ c.ca # 0 /\ jobs[g].what # "ca"
      /\ c.until > day + RenewBefore \/ c.until >= c.caUntil
  BY <1>1, <1>2, LeafTypes DEF JobsInv, JobHolds, Writing, Halfway, Pairs
<1>5. c \in LeafCerts
  BY <1>1, <1>4, Known DEF LeavesOf
<1> HIDE DEF g, c
<1>6. /\ day \in Nat /\ c.until \in Nat /\ c.caUntil \in Nat
      /\ RenewBefore \in Nat /\ MaxFailures \in Nat /\ RenewAt(c) \in Int
      /\ RenewAt(c) # Never => RenewAt(c) > day
      /\ c.until < c.caUntil => RenewAt(c) # Never
  BY <1>2, <1>4, LeafConstants DEF LeafType, Leaves, RenewAt, Never
<1>7. LeafType'
  BY <1>1, <1>2, <1>3, <1>4, <1>6 DEF LeafType
<1>8. JobsInv'
  <2>1. JobHolds(g, NoJob)'
    BY LeafConstants DEF JobHolds, Pairs, Writing, Halfway
  <2> QED
    BY <1>1, <1>2, <2>1, JobsStay DEF g
<1>9. WritesInv' /\ PairsInv'
  BY <1>1, <1>2, MidsStay, LeafConstants DEF Halfway
<1>10. CertsInv' /\ LeafCerts' \subseteq LeafCerts
  <2>1. CasOf(NoJob) = {NoLeaf} /\ LeavesOf(NoJob) = {NoLeaf}
    BY LeafConstants DEF CasOf, LeavesOf
  <2>2. \A q \in Processes : CasOf(jobs'[q]) \subseteq CaCerts /\ LeavesOf(jobs'[q]) \subseteq LeafCerts
    BY <1>3, <2>1, Known
  <2> QED
    BY <1>1, <1>2, <1>5, <2>2, Known, CertsStay
<1>11. NewInv'
  BY <1>1, <1>2, <1>3, <1>10, NewStays, LeafConstants
<1>12. ServedInv' /\ TickInv' /\ DueInv'
  <2>1. ServedInv'
    BY <1>1, <1>4, <1>6 DEF ServedInv, RenewAt, Never
  <2>2. TickInv'
    BY <1>3, LeafConstants DEF TickInv, AtTick, g
  <2>3. ~Due'
    BY <1>1, <1>6 DEF Due, Never
  <2> QED
    BY <1>1, <1>6, <2>1, <2>2, <2>3 DEF DueInv
<1> QED
  BY <1>7, <1>8, <1>9, <1>10, <1>11, <1>12 DEF LeafInv

LEMMA PutsGives ==
  ASSUME LeafType, NEW what \in Pairs, NEW files \in Files, Puts(what, files)
  PROVE  /\ On(what)' = files /\ ca' \in Files /\ leaf' \in Files
         /\ \A o \in Pairs \ {what} : On(o)' = On(o)
         /\ what = "ca" => ca' = files /\ leaf' = leaf
         /\ what = "leaf" => leaf' = files /\ ca' = ca
  BY DEF LeafType, Puts, On, Pairs

LEMMA OnType ==
  ASSUME LeafType, NEW what \in Pairs
  PROVE  On(what) \in Files /\ On(what).cert \in Leaves /\ On(what).key \in Nat
  BY DEF LeafType, On, Files

LEMMA SetsAsideKept ==
  ASSUME LeafInv, NEW p \in Processes, SetsAside(p, jobs[p], On(jobs[p].what)),
         ServesOn, UNCHANGED <<day, ticked>>
  PROVE  LeafInv'
<1>1. /\ LeafType /\ JobsInv /\ WritesInv /\ PairsInv /\ CertsInv /\ NewInv
      /\ ServedInv /\ TickInv /\ DueInv
  BY DEF LeafInv
<1>2. /\ running' = running /\ served' = served /\ renewAt' = renewAt /\ failures' = failures
  BY DEF ServesOn
<1>3. PICK what \in Pairs : what = jobs[p].what /\ jobs[p].at = "staged"
  <2>1. jobs[p].at = "staged"
    BY DEF SetsAside
  <2>2. JobHolds(p, jobs[p])
    BY <1>1 DEF JobsInv
  <2>3. jobs[p].what \in Pairs <=> jobs[p].at \in Writing
    BY <2>2, WriterAt
  <2> QED
    BY <2>1, <2>3 DEF Writing
<1>4. PICK met \in SUBSET Processes :
        /\ met = {q \in Processes \ {p} : MidWrite(q, what)}
        /\ spoilt' = IF met = {} THEN spoilt ELSE spoilt \cup {what}
        /\ jobs' = [q \in Processes |->
                      IF q = p
                      THEN [jobs[p] EXCEPT !.at = "aside", !.aside = On(what).cert, !.crossed = met # {}]
                      ELSE [jobs[q] EXCEPT !.crossed = @ \/ q \in met]]
  BY <1>3 DEF SetsAside
<1>5. Puts(what, [On(what) EXCEPT !.cert = NoLeaf])
  BY <1>3 DEF SetsAside
<1>6. PICK files \in Files :
        Puts(what, files) /\ files.cert = NoLeaf /\ files.key = On(what).key
  <2>1. On(what) \in Files
    BY <1>1, OnType
  <2>2. /\ [On(what) EXCEPT !.cert = NoLeaf] \in Files
        /\ [On(what) EXCEPT !.cert = NoLeaf].cert = NoLeaf
        /\ [On(what) EXCEPT !.cert = NoLeaf].key = On(what).key
    BY <2>1, LeafConstants DEF Files
  <2> QED
    BY <1>5, <2>2
<1>7. /\ On(what)' = files /\ ca' \in Files /\ leaf' \in Files
      /\ \A o \in Pairs \ {what} : On(o)' = On(o)
      /\ what = "ca" => ca' = files /\ leaf' = leaf
      /\ what = "leaf" => leaf' = files /\ ca' = ca
  BY <1>1, <1>6, PutsGives
<1>8. /\ jobs'[p] \in Jobs /\ jobs'[p].at = "aside" /\ jobs'[p].aside = On(what).cert
      /\ jobs'[p].crossed = (met # {})
      /\ jobs'[p].by = jobs[p].by /\ jobs'[p].wanted = jobs[p].wanted
      /\ jobs'[p].ca = jobs[p].ca /\ jobs'[p].what = what /\ jobs'[p].cert = jobs[p].cert
  <2>1. jobs[p] \in Jobs /\ On(what).cert \in Leaves
    BY <1>1, OnType DEF LeafType
  <2>2. jobs'[p] = [jobs[p] EXCEPT !.at = "aside", !.aside = On(what).cert, !.crossed = met # {}]
    BY <1>4
  <2> QED
    BY <1>3, <2>1, <2>2 DEF Jobs, Writing, Halfway
<1>9. ASSUME NEW q \in Processes \ {p}
      PROVE  /\ jobs'[q] \in Jobs /\ jobs'[q].at = jobs[q].at /\ jobs'[q].aside = jobs[q].aside
             /\ jobs'[q].crossed = (jobs[q].crossed \/ q \in met)
             /\ jobs'[q].by = jobs[q].by /\ jobs'[q].wanted = jobs[q].wanted
             /\ jobs'[q].ca = jobs[q].ca /\ jobs'[q].what = jobs[q].what
             /\ jobs'[q].cert = jobs[q].cert
  <2>1. jobs[q] \in Jobs
    BY <1>1 DEF LeafType
  <2>2. jobs'[q] = [jobs[q] EXCEPT !.crossed = @ \/ q \in met]
    BY <1>4
  <2> QED
    BY <2>1, <2>2 DEF Jobs
<1>10. LeafType'
  <2>1. jobs' \in [Processes -> Jobs]
    BY <1>4, <1>8, <1>9
  <2>2. spoilt' \in SUBSET Pairs
    BY <1>1, <1>4 DEF LeafType
  <2> QED
    BY <1>1, <1>2, <1>7, <2>1, <2>2 DEF LeafType
<1>11. JobsInv'
  <2> SUFFICES ASSUME NEW q \in Processes
               PROVE  JobHolds(q, jobs[q])'
    BY DEF JobsInv
  <2>1. JobHolds(q, jobs[q])
    BY <1>1 DEF JobsInv
  <2>2. CASE q = p
    <3>1. JobHolds(q, jobs'[q])
      BY <1>3, <1>8, <2>1, <2>2 DEF JobHolds, Writing, Halfway
    <3> QED
      BY <1>2, <3>1 DEF JobHolds
  <2>3. CASE q # p
    <3>1. JobHolds(q, jobs'[q])
      BY <1>9, <2>1, <2>3 DEF JobHolds
    <3> QED
      BY <1>2, <3>1 DEF JobHolds
  <2> QED
    BY <2>2, <2>3
<1>12. \A q \in Processes, o \in Pairs :
         MidWrite(q, o)' <=> MidWrite(q, o) \/ (q = p /\ o = what)
  <2> SUFFICES ASSUME NEW q \in Processes, NEW o \in Pairs
               PROVE  MidWrite(q, o)' <=> MidWrite(q, o) \/ (q = p /\ o = what)
    OBVIOUS
  <2>1. CASE q = p
    BY <1>3, <1>8, <2>1 DEF MidWrite
  <2>2. CASE q # p
    BY <1>9, <2>2 DEF MidWrite
  <2> QED
    BY <2>1, <2>2
<1>13. \A o \in Pairs : ~MidWrite(p, o)
  BY <1>3 DEF MidWrite
<1>14. \A o \in Pairs : o # what \/ met = {} => There(o)' = There(o)
  <2> SUFFICES ASSUME NEW o \in Pairs, o # what \/ met = {}
               PROVE  There(o)' = There(o)
    OBVIOUS
  <2>1. CASE o # what
    BY <1>7, <1>9, <1>12, <1>13, <2>1 DEF There, Processes
  <2>2. CASE o = what
    <3>1. \A q \in Processes : ~MidWrite(q, o)
      BY <1>4, <1>13, <2>2
    <3>2. There(o)' = jobs'[p].aside
      BY <1>12, <2>2, <3>1 DEF There, Processes
    <3> QED
      BY <1>8, <2>2, <3>1, <3>2 DEF There, Processes
  <2> QED
    BY <2>1, <2>2
<1>15. WritesInv'
  <2> SUFFICES ASSUME NEW q \in Processes, NEW o \in Pairs, MidWrite(q, o)'
               PROVE  WriteHolds(q, o)'
    BY DEF WritesInv
  <2>1. CASE q = p
    <3>1. o = what
      BY <1>12, <1>13, <2>1
    <3>2. CASE met = {}
      <4>1. ~jobs'[q].crossed /\ jobs'[q].at = "aside" /\ On(o)'.cert = NoLeaf
        BY <1>6, <1>7, <1>8, <2>1, <3>1, <3>2
      <4>2. \A r \in Processes \ {q} : ~MidWrite(r, o)'
        BY <1>4, <1>12, <2>1, <3>1, <3>2
      <4> QED
        BY <4>1, <4>2 DEF WriteHolds
    <3>3. CASE met # {}
      BY <1>4, <1>8, <2>1, <3>1, <3>3 DEF WriteHolds
    <3> QED
      BY <3>2, <3>3
  <2>2. CASE q # p
    <3>1. MidWrite(q, o) /\ WriteHolds(q, o)
      BY <1>1, <1>12, <2>2 DEF WritesInv
    <3>2. CASE o = what
      <4>1. q \in met
        BY <1>4, <2>2, <3>1, <3>2
      <4> QED
        BY <1>4, <1>9, <2>2, <3>2, <4>1 DEF WriteHolds
    <3>3. CASE o # what
      <4>1. q \notin met
        BY <1>4, <3>1, <3>3 DEF MidWrite
      <4>2. jobs'[q].crossed = jobs[q].crossed
        BY <1>1, <1>9, <2>2, <4>1 DEF LeafType, Jobs
      <4>3. o \in spoilt => o \in spoilt'
        BY <1>4
      <4>4. On(o)' = On(o) /\ jobs'[q].at = jobs[q].at /\ jobs'[q].cert = jobs[q].cert
        BY <1>7, <1>9, <2>2, <3>3
      <4>5. \A r \in Processes : MidWrite(r, o)' <=> MidWrite(r, o)
        BY <1>12, <3>3
      <4> QED
        BY <3>1, <4>2, <4>3, <4>4, <4>5 DEF WriteHolds
    <3> QED
      BY <3>2, <3>3
  <2> QED
    BY <2>1, <2>2
<1>16. PairsInv'
  <2> SUFFICES ASSUME NEW o \in Pairs, o \notin spoilt'
               PROVE  There(o)'.key = On(o)'.key
    BY DEF PairsInv
  <2>1. o \notin spoilt /\ (o # what \/ met = {})
    BY <1>4
  <2>2. There(o)' = There(o) /\ There(o).key = On(o).key
    BY <1>1, <1>14, <2>1 DEF PairsInv
  <2>3. On(o)'.key = On(o).key
    BY <1>6, <1>7
  <2> QED
    BY <2>2, <2>3
<1>17. CertsInv' /\ LeafCerts' \subseteq LeafCerts
  <2>1. /\ CasOf(jobs'[p]) \subseteq CaCerts /\ LeavesOf(jobs'[p]) \subseteq LeafCerts
    <3>1. CASE what = "ca"
      <4>1. jobs'[p].aside = ca.cert
        BY <1>8, <3>1 DEF On
      <4>2. CasOf(jobs'[p]) = {jobs[p].ca, jobs[p].cert, ca.cert} /\ LeavesOf(jobs'[p]) = {}
        BY <1>8, <3>1, <4>1 DEF CasOf, LeavesOf
      <4>3. {jobs[p].ca, jobs[p].cert} \subseteq CasOf(jobs[p])
        BY <1>3, <3>1 DEF CasOf
      <4> QED
        BY <4>2, <4>3, Known
    <3>2. CASE what = "leaf"
      <4>1. jobs'[p].aside = leaf.cert
        BY <1>8, <3>2 DEF On
      <4>2. CasOf(jobs'[p]) = {jobs[p].ca} /\ LeavesOf(jobs'[p]) = {jobs[p].cert, leaf.cert}
        BY <1>8, <3>2, <4>1 DEF CasOf, LeavesOf
      <4>3. jobs[p].ca \in CasOf(jobs[p]) /\ jobs[p].cert \in LeavesOf(jobs[p])
        BY <1>3, <3>2 DEF CasOf, LeavesOf
      <4> QED
        BY <4>2, <4>3, Known
    <3> QED
      BY <3>1, <3>2 DEF Pairs
  <2>2. \A q \in Processes : CasOf(jobs'[q]) \subseteq CaCerts /\ LeavesOf(jobs'[q]) \subseteq LeafCerts
    <3> SUFFICES ASSUME NEW q \in Processes \ {p}
                 PROVE  CasOf(jobs'[q]) \subseteq CaCerts /\ LeavesOf(jobs'[q]) \subseteq LeafCerts
      BY <2>1
    <3>1. CasOf(jobs'[q]) = CasOf(jobs[q]) /\ LeavesOf(jobs'[q]) = LeavesOf(jobs[q])
      BY <1>9 DEF CasOf, LeavesOf
    <3> QED
      BY <3>1, Known
  <2>3. ca'.cert \in CaCerts /\ leaf'.cert \in LeafCerts
    BY <1>6, <1>7, Known DEF Pairs
  <2> QED
    BY <1>1, <1>2, <2>2, <2>3, Known, CertsStay
<1>18. NewInv'
  <2>1. ca'.key = ca.key
    BY <1>6, <1>7 DEF On, Pairs
  <2> QED
    BY <1>1, <1>3, <1>8, <1>9, <1>17, <2>1, NewStays
<1>19. ServedInv' /\ TickInv' /\ DueInv'
  <2>1. ServedOfCa' => ServedOfCa
    BY <1>2, <1>4, <1>14 DEF ServedOfCa, Pairs
  <2>2. AtTick(jobs'["gateway"]) =>
          /\ jobs'["gateway"].wanted = served.names
          /\ ServedOfCa => jobs'["gateway"].ca.key = served.ca
    <3>1. CASE p = "gateway"
      BY <1>8, <3>1 DEF AtTick
    <3>2. CASE p # "gateway"
      BY <1>1, <1>9, <3>2, LeafConstants DEF TickInv, AtTick
    <3> QED
      BY <3>1, <3>2
  <2>3. Used' = Used
    <3>1. jobs'["gateway"].by = jobs["gateway"].by
      BY <1>8, <1>9, LeafConstants
    <3> QED
      BY <3>1 DEF Used
  <2>4. failures \in Nat /\ failures <= MaxFailures /\ Used \in {0, 1}
    BY <1>1 DEF LeafType, DueInv, Used
  <2> QED
    BY <1>1, <1>2, <2>1, <2>2, <2>3, <2>4, ServedStays
<1> QED
  BY <1>10, <1>11, <1>15, <1>16, <1>17, <1>18, <1>19 DEF LeafInv

LEMMA PutsCertificateKept ==
  ASSUME LeafInv, NEW p \in Processes, PutsCertificate(p, jobs[p], On(jobs[p].what)),
         ServesOn, UNCHANGED <<day, ticked>>
  PROVE  LeafInv'
<1>1. /\ LeafType /\ JobsInv /\ WritesInv /\ PairsInv /\ CertsInv /\ NewInv
      /\ ServedInv /\ TickInv /\ DueInv
  BY DEF LeafInv
<1>2. /\ running' = running /\ served' = served /\ renewAt' = renewAt /\ failures' = failures
      /\ spoilt' = spoilt
  BY DEF ServesOn, PutsCertificate
<1>3. PICK what \in Pairs : what = jobs[p].what /\ jobs[p].at = "aside"
  BY <1>1 DEF PutsCertificate, JobsInv, JobHolds, Writing, Halfway
<1>4. PICK files \in Files :
        Puts(what, files) /\ files.cert = jobs[p].cert /\ files.key = On(what).key
  <2>1. On(what) \in Files /\ jobs[p].cert \in Leaves
    BY <1>1, OnType, LeafTypes
  <2>2. /\ [On(what) EXCEPT !.cert = jobs[p].cert] \in Files
        /\ [On(what) EXCEPT !.cert = jobs[p].cert].cert = jobs[p].cert
        /\ [On(what) EXCEPT !.cert = jobs[p].cert].key = On(what).key
    BY <2>1 DEF Files
  <2> QED
    BY <1>3, <2>2 DEF PutsCertificate
<1>5. /\ On(what)' = files /\ ca' \in Files /\ leaf' \in Files
      /\ \A o \in Pairs \ {what} : On(o)' = On(o)
      /\ what = "ca" => ca' = files /\ leaf' = leaf
      /\ what = "leaf" => leaf' = files /\ ca' = ca
  BY <1>1, <1>4, PutsGives
<1>6. PICK j \in Jobs :
        /\ Goes(p, j) /\ j.at = "certificate" /\ j.by = jobs[p].by /\ j.wanted = jobs[p].wanted
        /\ j.ca = jobs[p].ca /\ j.what = what /\ j.cert = jobs[p].cert
        /\ j.aside = jobs[p].aside /\ j.crossed = jobs[p].crossed
  <2> DEFINE j == [jobs[p] EXCEPT !.at = "certificate"]
  <2>1. jobs[p] \in Jobs
    BY <1>1, LeafTypes
  <2>2. /\ j \in Jobs /\ j.at = "certificate" /\ j.by = jobs[p].by /\ j.wanted = jobs[p].wanted
        /\ j.ca = jobs[p].ca /\ j.what = what /\ j.cert = jobs[p].cert
        /\ j.aside = jobs[p].aside /\ j.crossed = jobs[p].crossed
    BY <1>3, <2>1 DEF Jobs, Writing, Halfway
  <2>3. Goes(p, j)
    BY DEF PutsCertificate
  <2> HIDE DEF j
  <2> QED
    BY <2>2, <2>3
<1>7. /\ jobs'[p] = j /\ jobs' \in [Processes -> Jobs]
      /\ \A q \in Processes \ {p} : jobs'[q] = jobs[q]
  BY <1>1, <1>6, JobGoes
<1>8. LeafType'
  BY <1>1, <1>2, <1>5, <1>7 DEF LeafType
<1>9. JobsInv'
  <2>1. JobHolds(p, jobs[p])
    BY <1>1 DEF JobsInv
  <2>2. JobHolds(p, j)
    BY <1>3, <1>6, <2>1 DEF JobHolds, Writing, Halfway
  <2>3. JobHolds(p, j)'
    BY <1>2, <2>2 DEF JobHolds
  <2> QED
    BY <1>1, <1>2, <1>6, <2>3, JobsStay
<1>10. \A q \in Processes, o \in Pairs :
         /\ MidWrite(q, o)' <=> MidWrite(q, o)
         /\ jobs'[q].aside = jobs[q].aside /\ jobs'[q].crossed = jobs[q].crossed
  BY <1>3, <1>6, <1>7 DEF MidWrite
<1>11. MidWrite(p, what) /\ \A o \in Pairs \ {what} : ~MidWrite(p, o)
  BY <1>3 DEF MidWrite
<1>12. \A o \in Pairs : There(o)' = There(o) /\ On(o)'.key = On(o).key
  BY <1>4, <1>5, <1>10, <1>11 DEF There, Processes
<1>13. WritesInv'
  <2> SUFFICES ASSUME NEW q \in Processes, NEW o \in Pairs, MidWrite(q, o)'
               PROVE  WriteHolds(q, o)'
    BY DEF WritesInv
  <2>1. MidWrite(q, o) /\ WriteHolds(q, o)
    BY <1>1, <1>10 DEF WritesInv
  <2>2. CASE q = p
    <3>1. o = what /\ On(o)'.cert = jobs'[q].cert /\ jobs'[q].at = "certificate"
      BY <1>4, <1>5, <1>6, <1>7, <1>11, <2>1, <2>2
    <3> QED
      BY <1>2, <1>10, <2>1, <3>1 DEF WriteHolds
  <2>3. CASE q # p /\ o = what
    BY <1>2, <1>10, <1>11, <2>1, <2>3 DEF WriteHolds
  <2>4. CASE q # p /\ o # what
    <3>1. On(o)' = On(o) /\ jobs'[q] = jobs[q]
      BY <1>5, <1>7, <2>4
    <3> QED
      BY <1>2, <1>10, <2>1, <3>1 DEF WriteHolds
  <2> QED
    BY <2>2, <2>3, <2>4
<1>14. PairsInv'
  BY <1>1, <1>2, <1>12 DEF PairsInv
<1>15. CertsInv' /\ LeafCerts' \subseteq LeafCerts
  <2>1. CasOf(j) = CasOf(jobs[p]) /\ LeavesOf(j) = LeavesOf(jobs[p])
    BY <1>3, <1>6 DEF CasOf, LeavesOf
  <2>2. \A q \in Processes : CasOf(jobs'[q]) \subseteq CaCerts /\ LeavesOf(jobs'[q]) \subseteq LeafCerts
    BY <1>7, <2>1, Known
  <2>3. jobs[p].cert \in (IF what = "ca" THEN CasOf(jobs[p]) ELSE LeavesOf(jobs[p]))
    BY <1>3 DEF CasOf, LeavesOf
  <2>4. ca'.cert \in CaCerts /\ leaf'.cert \in LeafCerts
    BY <1>4, <1>5, <2>3, Known DEF Pairs
  <2> QED
    BY <1>1, <1>2, <2>2, <2>4, Known, CertsStay
<1>16. NewInv'
  <2>1. ca'.key = ca.key
    BY <1>4, <1>5 DEF On, Pairs
  <2> QED
    BY <1>1, <1>3, <1>6, <1>7, <1>15, <2>1, NewStays
<1>17. ServedInv' /\ TickInv' /\ DueInv'
  <2>1. ServedOfCa' => ServedOfCa
    BY <1>2, <1>12 DEF ServedOfCa, Pairs
  <2>2. AtTick(jobs'["gateway"]) =>
          /\ jobs'["gateway"].wanted = served.names
          /\ ServedOfCa => jobs'["gateway"].ca.key = served.ca
    BY <1>1, <1>6, <1>7, LeafConstants DEF TickInv, AtTick
  <2>3. /\ failures' \in Nat /\ failures' <= MaxFailures /\ failures + Used' <= failures' + Used
    BY <1>2, <1>6, UsesNoMore
  <2> QED
    BY <1>1, <1>2, <2>1, <2>2, <2>3, ServedStays
<1> QED
  BY <1>8, <1>9, <1>13, <1>14, <1>15, <1>16, <1>17 DEF LeafInv

\* What a step that ends a write leaves, if the gateway that serves serves on.
LEMMA EndKept ==
  ASSUME LeafInv, NEW p \in Processes, NEW j \in Jobs, Goes(p, j),
         NEW what \in Pairs, MidWrite(p, what), j.at \notin Halfway,
         NEW files \in Files, Puts(what, files),
         UNCHANGED <<day, ticked, running, served, renewAt>>,
         failures' \in Nat, failures' <= MaxFailures, spoilt' \in SUBSET Pairs,
         \A o \in Pairs \ {what} : o \in spoilt' <=> o \in spoilt,
         jobs[p].crossed => what \in spoilt',
         what \in spoilt' \/ files.cert.key = files.key,
         JobHolds(p, j), ~AtTick(j), CertsInv', NewInv',
         what = "ca" /\ "ca" \notin spoilt' /\ files.cert.key = served.ca =>
            "ca" \notin spoilt /\ files.cert.key = There("ca").key,
         failures + Used' <= failures' + Used
  PROVE  LeafInv'
<1>1. /\ LeafType /\ JobsInv /\ WritesInv /\ PairsInv /\ ServedInv /\ TickInv /\ DueInv
  BY DEF LeafInv
<1>2. /\ jobs'[p] = j /\ jobs' \in [Processes -> Jobs]
      /\ \A q \in Processes \ {p} : jobs'[q] = jobs[q]
  BY <1>1, JobGoes
<1>3. /\ On(what)' = files /\ ca' \in Files /\ leaf' \in Files
      /\ \A o \in Pairs \ {what} : On(o)' = On(o)
  BY <1>1, PutsGives
<1>4. LeafType'
  BY <1>1, <1>2, <1>3 DEF LeafType
<1>5. /\ WritesInv' /\ PairsInv'
      /\ "ca" # what => There("ca")' = There("ca")
      /\ ~jobs[p].crossed => There(what)' = On(what)'.cert
  <2>1. \A o \in Pairs \ {what} : On(o)' = On(o) /\ (o \in spoilt' <=> o \in spoilt)
    BY <1>3
  <2>2. jobs[p].crossed /\ what \in spoilt => what \in spoilt'
    OBVIOUS
  <2>3. what \in spoilt' \/ (~jobs[p].crossed /\ On(what)'.cert.key = On(what)'.key)
    BY <1>3
  <2> QED
    BY <1>1, <2>1, <2>2, <2>3, WriteEnds
<1>6. JobsInv'
  <2>1. JobHolds(p, j)'
    BY DEF JobHolds
  <2> QED
    BY <1>1, <2>1, JobsStay
<1>7. ServedInv' /\ TickInv' /\ DueInv'
  <2>1. ServedOfCa' => ServedOfCa
    <3>1. CASE what = "ca"
      BY <1>3, <1>5, <3>1 DEF ServedOfCa
    <3>2. CASE what # "ca"
      BY <1>5, <3>2 DEF ServedOfCa, Pairs
    <3> QED
      BY <3>1, <3>2
  <2>2. AtTick(jobs'["gateway"]) =>
          /\ jobs'["gateway"].wanted = served.names
          /\ ServedOfCa => jobs'["gateway"].ca.key = served.ca
    BY <1>1, <1>2, LeafConstants DEF TickInv
  <2> QED
    BY <1>1, <2>1, <2>2, ServedStays
<1> QED
  BY <1>4, <1>5, <1>6, <1>7 DEF LeafInv

\* What a process is at when it has put a pair there.
LEMMA PutJobs ==
  ASSUME LeafInv, NEW p \in Processes, NEW what \in Pairs, MidWrite(p, what),
         NEW files \in Files, Puts(what, files), files.key = jobs[p].cert.key,
         files.cert \in (IF what = "ca" THEN CaCerts ELSE LeafCerts), served' = served,
         \/ what = "leaf" /\ Ensured(p, jobs[p].by, jobs[p].cert)
         \/ what = "ca" /\ jobs[p].by # "new-ca" /\ Holds(p, jobs[p].by, jobs[p].cert.names, jobs[p].cert)
         \/ /\ jobs[p].by = "new-ca"
            /\ Goes(p, [NoJob EXCEPT !.by = "init", !.at = "load", !.wanted = jobs[p].cert.names])
  PROVE  \E j \in Jobs :
           /\ Goes(p, j) /\ j.at \notin Halfway /\ JobHolds(p, j) /\ ~AtTick(j)
           /\ CertsInv' /\ NewInv'
           /\ p = "gateway" => (j.by = "tick" <=> jobs[p].by = "tick")
<1> DEFINE w == jobs[p]
<1>1. /\ LeafType /\ CertsInv /\ NewInv /\ w \in Jobs /\ w.cert \in Leaves /\ w.cert.names \in Names
      /\ w.what = what /\ w.at \in Halfway /\ JobHolds(p, w)
      /\ w.by \in {"none", "start", "reload", "tick", "init", "new-ca"}
  <2>1. LeafType /\ CertsInv /\ NewInv /\ JobsInv
    BY DEF LeafInv
  <2>2. w \in Jobs /\ w.cert \in Leaves
    BY <2>1, LeafTypes
  <2> QED
    BY <2>1, <2>2 DEF MidWrite, Halfway, JobsInv, Leaves, Jobs
<1>2. w.cert \in (IF what = "ca" THEN CasOf(w) ELSE LeavesOf(w))
  BY <1>1 DEF CasOf, LeavesOf, Pairs
<1>3. /\ ca'.cert \in CaCerts /\ leaf'.cert \in LeafCerts
      /\ ca'.key = (IF what = "ca" THEN w.cert.key ELSE ca.key)
  BY <1>1, PutsGives, Known DEF Pairs
<1> HIDE DEF w
<1>4. \E j \in Jobs :
        /\ Goes(p, j) /\ j.at \in {"none", "built", "look", "load"} /\ j.what = "none"
        /\ j.aside = NoLeaf /\ JobHolds(p, j) /\ ~AtTick(j)
        /\ p = "gateway" => (j.by = "tick" <=> w.by = "tick")
        /\ IF what = "ca" THEN j.ca \in {NoLeaf, w.cert} /\ j.cert = NoLeaf
           ELSE j.ca = NoLeaf /\ j.cert \in {NoLeaf, w.cert}
  <2>1. CASE what = "leaf" /\ Ensured(p, w.by, w.cert) /\ p = "gateway"
    <3> DEFINE j == [NoJob EXCEPT !.by = w.by, !.at = "built", !.cert = w.cert]
    <3>1. /\ j \in Jobs /\ j.by = w.by /\ j.at = "built" /\ j.what = "none" /\ j.ca = NoLeaf
          /\ j.cert = w.cert /\ j.aside = NoLeaf
      BY <1>1, NoJobIs DEF Jobs
    <3>2. Goes(p, j)
      BY <2>1 DEF Ensured
    <3> HIDE DEF j
    <3>3. JobHolds(p, j) /\ ~AtTick(j)
      BY <1>1, <2>1, <3>1 DEF JobHolds, AtTick, Pairs, Writing, Halfway
    <3> QED
      BY <2>1, <3>1, <3>2, <3>3
  <2>2. CASE what = "leaf" /\ Ensured(p, w.by, w.cert) /\ p # "gateway"
    <3>1. Goes(p, NoJob)
      BY <2>2 DEF Ensured
    <3>2. JobHolds(p, NoJob) /\ ~AtTick(NoJob)
      BY LeafConstants DEF JobHolds, AtTick, Pairs, Writing, Halfway
    <3> QED
      BY <2>2, <3>1, <3>2, LeafConstants
  <2>3. CASE what = "ca" /\ w.by # "new-ca" /\ Holds(p, w.by, w.cert.names, w.cert)
    <3> DEFINE j == [NoJob EXCEPT !.by = w.by, !.at = "look", !.wanted = w.cert.names, !.ca = w.cert]
    <3>1. /\ j \in Jobs /\ j.by = w.by /\ j.at = "look" /\ j.what = "none" /\ j.ca = w.cert
          /\ j.cert = NoLeaf /\ j.aside = NoLeaf
      BY <1>1, NoJobIs DEF Jobs
    <3>2. Goes(p, j)
      BY <2>3 DEF Holds
    <3> HIDE DEF j
    <3>3. w.cert.key # 0
      BY <1>1, <2>3 DEF NewInv, w
    <3>4. JobHolds(p, j) /\ ~AtTick(j)
      BY <1>1, <2>3, <3>1, <3>3 DEF JobHolds, AtTick, Pairs, Writing, Halfway
    <3> QED
      BY <2>3, <3>1, <3>2, <3>4
  <2>4. CASE /\ w.by = "new-ca"
             /\ Goes(p, [NoJob EXCEPT !.by = "init", !.at = "load", !.wanted = w.cert.names])
    <3> DEFINE j == [NoJob EXCEPT !.by = "init", !.at = "load", !.wanted = w.cert.names]
    <3>1. /\ j \in Jobs /\ j.by = "init" /\ j.at = "load" /\ j.what = "none" /\ j.ca = NoLeaf
          /\ j.cert = NoLeaf /\ j.aside = NoLeaf
      BY <1>1, NoJobIs DEF Jobs
    <3>2. Goes(p, j)
      BY <2>4
    <3> HIDE DEF j
    <3>3. p # "gateway"
      BY <1>1, <2>4 DEF JobHolds
    <3>4. JobHolds(p, j) /\ ~AtTick(j)
      BY <1>1, <3>1, <3>3 DEF JobHolds, AtTick, Pairs, Writing, Halfway
    <3> QED
      BY <3>1, <3>2, <3>3, <3>4
  <2> QED
    BY <2>1, <2>2, <2>3, <2>4 DEF w
<1>5. PICK j \in Jobs :
        /\ Goes(p, j) /\ j.at \in {"none", "built", "look", "load"} /\ j.what = "none"
        /\ j.aside = NoLeaf /\ JobHolds(p, j) /\ ~AtTick(j)
        /\ p = "gateway" => (j.by = "tick" <=> w.by = "tick")
        /\ IF what = "ca" THEN j.ca \in {NoLeaf, w.cert} /\ j.cert = NoLeaf
           ELSE j.ca = NoLeaf /\ j.cert \in {NoLeaf, w.cert}
  BY <1>4
<1>6. jobs'[p] = j /\ \A q \in Processes \ {p} : jobs'[q] = jobs[q]
  BY <1>1, <1>5, JobGoes
<1>7. CertsInv' /\ LeafCerts' \subseteq LeafCerts
  <2>1. CasOf(j) = {j.ca} /\ LeavesOf(j) = {j.cert, j.aside}
    BY <1>5 DEF CasOf, LeavesOf
  <2>2. CasOf(j) \subseteq CaCerts /\ LeavesOf(j) \subseteq LeafCerts
    BY <1>2, <1>5, <2>1, Known DEF w
  <2>3. \A q \in Processes : CasOf(jobs'[q]) \subseteq CaCerts /\ LeavesOf(jobs'[q]) \subseteq LeafCerts
    BY <1>6, <2>2, Known
  <2>4. served' \in LeafCerts
    BY Known
  <2> QED
    BY <1>1, <1>3, <2>3, <2>4, CertsStay
<1>8. NewInv'
  BY <1>1, <1>3, <1>5, <1>6, <1>7, NewStays, LeafConstants DEF w
<1> QED
  BY <1>5, <1>7, <1>8 DEF Halfway, w

\* The key put beside its certificate: of a new CA, no certificate is served yet.
LEMMA PutsKeyKept ==
  ASSUME LeafInv, NEW p \in Processes, PutsKey(p, jobs[p], On(jobs[p].what)),
         ServesOn, UNCHANGED <<day, ticked>>
  PROVE  LeafInv'
<1>1. LeafType /\ JobsInv /\ WritesInv /\ NewInv
  BY DEF LeafInv
<1>2. running' = running /\ served' = served /\ renewAt' = renewAt /\ failures' = failures
  BY DEF ServesOn
<1>3. PICK what \in Pairs : what = jobs[p].what /\ jobs[p].at = "certificate" /\ MidWrite(p, what)
  BY <1>1 DEF PutsKey, JobsInv, JobHolds, Writing, Halfway, MidWrite
<1>4. PICK files \in Files :
        Puts(what, files) /\ files.cert = On(what).cert /\ files.key = jobs[p].cert.key
  <2>1. On(what) \in Files /\ jobs[p].cert.key \in Nat
    BY <1>1, OnType, LeafTypes DEF Leaves
  <2>2. /\ [On(what) EXCEPT !.key = jobs[p].cert.key] \in Files
        /\ [On(what) EXCEPT !.key = jobs[p].cert.key].cert = On(what).cert
        /\ [On(what) EXCEPT !.key = jobs[p].cert.key].key = jobs[p].cert.key
    BY <2>1 DEF Files
  <2> QED
    BY <1>3, <2>2 DEF PutsKey
<1>5. PICK j \in Jobs :
        /\ Goes(p, j) /\ j.at \notin Halfway /\ JobHolds(p, j) /\ ~AtTick(j)
        /\ CertsInv' /\ NewInv'
        /\ p = "gateway" => (j.by = "tick" <=> jobs[p].by = "tick")
  <2>1. On(what).cert \in (IF what = "ca" THEN CaCerts ELSE LeafCerts)
    BY Known DEF On, Pairs
  <2>2. \/ what = "leaf" /\ Ensured(p, jobs[p].by, jobs[p].cert)
        \/ what = "ca" /\ jobs[p].by # "new-ca" /\ Holds(p, jobs[p].by, jobs[p].cert.names, jobs[p].cert)
        \/ /\ jobs[p].by = "new-ca"
           /\ Goes(p, [NoJob EXCEPT !.by = "init", !.at = "load", !.wanted = jobs[p].cert.names])
    BY <1>3 DEF PutsKey
  <2> QED
    BY <1>2, <1>3, <1>4, <2>1, <2>2, PutJobs
<1>6. WriteHolds(p, what) /\ jobs[p].crossed \in BOOLEAN
  BY <1>1, <1>3 DEF WritesInv, LeafType, Jobs
<1>7. /\ spoilt' = IF jobs[p].crossed THEN spoilt ELSE spoilt \ {what}
      /\ spoilt' \in SUBSET Pairs
  BY <1>1, <1>3 DEF PutsKey, LeafType
<1>8. /\ jobs[p].crossed => what \in spoilt'
      /\ what \in spoilt' \/ files.cert.key = files.key
      /\ what \notin spoilt' => files.cert = jobs[p].cert
      /\ \A o \in Pairs \ {what} : o \in spoilt' <=> o \in spoilt
  BY <1>3, <1>4, <1>6, <1>7 DEF WriteHolds
<1>9. ~(what = "ca" /\ "ca" \notin spoilt' /\ files.cert.key = served.ca)
  <2>1. what = "ca" => jobs[p].cert.key # served.ca
    BY <1>1, <1>3, Known DEF NewInv
  <2> QED
    BY <1>8, <2>1
<1>10. failures' \in Nat /\ failures' <= MaxFailures /\ failures + Used' <= failures' + Used
  BY <1>2, <1>5, UsesNoMore
<1> QED
  BY <1>2, <1>3, <1>4, <1>5, <1>7, <1>8, <1>9, <1>10, EndKept

LEMMA WritesKept == ASSUME LeafInv, NEW p \in Processes, Writes(p) PROVE LeafInv'
<1>1. ServesOn /\ UNCHANGED <<day, ticked>>
  BY DEF Writes
<1> QED
  BY <1>1, SetsAsideKept, PutsCertificateKept, PutsKeyKept DEF Writes

LEMMA WriteFailsKept == ASSUME LeafInv, NEW p \in Processes, WriteFails(p) PROVE LeafInv'
<1>1. /\ LeafType /\ JobsInv /\ WritesInv /\ PairsInv
  BY DEF LeafInv
<1>2. /\ Goes(p, NoJob) /\ Fails(p) /\ UNCHANGED <<day, ticked, running, served, renewAt, spoilt>>
      /\ ticked' \in BOOLEAN
  BY <1>1 DEF WriteFails, LeafType
<1>3. PICK what \in Pairs : what = jobs[p].what /\ jobs[p].at \in {"staged", "aside", "certificate"}
  BY <1>1 DEF WriteFails, JobsInv, JobHolds, Writing, Halfway
<1>4. failures' \in Nat /\ failures' <= MaxFailures /\ failures + Used' <= failures' + Used
  BY <1>2, FailsUse
<1>5. On(what) \in Files /\ jobs[p].aside \in Leaves
  BY <1>1, OnType, LeafTypes
<1>6. CASE jobs[p].at = "staged"
  <2>1. [On(what) EXCEPT !.cert = On(what).cert] = On(what)
    BY <1>5 DEF Files
  <2>2. Puts(what, On(what))
    BY <1>3, <1>6, <2>1 DEF WriteFails
  <2>3. ca' = ca /\ leaf' = leaf
    BY <2>2 DEF Puts, On
  <2>4. jobs[p].at \notin Halfway
    BY <1>6 DEF Halfway
  <2> QED
    BY <1>2, <1>4, <2>3, <2>4, IdlesKept
<1>7. CASE jobs[p].at # "staged"
  <2>1. MidWrite(p, what)
    BY <1>3, <1>7 DEF MidWrite
  <2>2. PICK files \in Files :
          Puts(what, files) /\ files.cert = jobs[p].aside /\ files.key = On(what).key
    <3>1. /\ [On(what) EXCEPT !.cert = jobs[p].aside] \in Files
          /\ [On(what) EXCEPT !.cert = jobs[p].aside].cert = jobs[p].aside
          /\ [On(what) EXCEPT !.cert = jobs[p].aside].key = On(what).key
      BY <1>5 DEF Files
    <3> QED
      BY <1>3, <1>7, <3>1 DEF WriteFails
  <2>3. /\ ca'.key = ca.key /\ ca'.cert \in CaCerts /\ leaf'.cert \in LeafCerts
    <3>1. jobs[p].aside \in (IF what = "ca" THEN CasOf(jobs[p]) ELSE LeavesOf(jobs[p]))
      BY <1>3 DEF CasOf, LeavesOf
    <3> QED
      BY <1>1, <2>2, <3>1, PutsGives, Known DEF On, Pairs
  <2>4. /\ CertsInv' /\ NewInv' /\ NoJob \in Jobs /\ JobHolds(p, NoJob) /\ ~AtTick(NoJob)
        /\ NoJob.at \notin Halfway
    BY <1>2, <2>3, Known, IdleCerts
  <2>5. WriteHolds(p, what)
    BY <1>1, <2>1 DEF WritesInv
  <2>6. jobs[p].crossed => what \in spoilt'
    BY <1>2, <2>5 DEF WriteHolds
  <2>7. ~jobs[p].crossed => There(what) = files.cert
    <3> SUFFICES ASSUME ~jobs[p].crossed
                 PROVE  There(what) = files.cert
      OBVIOUS
    <3>1. \A q \in Processes \ {p} : ~MidWrite(q, what)
      BY <2>5 DEF WriteHolds
    <3> QED
      BY <2>1, <2>2, <3>1 DEF There, Processes
  <2>8. what \in spoilt' \/ files.cert.key = files.key
    BY <1>1, <1>2, <2>2, <2>6, <2>7 DEF PairsInv
  <2>9. what = "ca" /\ "ca" \notin spoilt' /\ files.cert.key = served.ca =>
          "ca" \notin spoilt /\ files.cert.key = There("ca").key
    BY <1>2, <2>6, <2>7
  <2>10. spoilt' \in SUBSET Pairs
    BY <1>1, <1>2 DEF LeafType
  <2> QED
    BY <1>2, <1>4, <2>1, <2>2, <2>4, <2>6, <2>8, <2>9, <2>10, EndKept
<1> QED
  BY <1>6, <1>7

LEMMA RollbackFailsKept == ASSUME LeafInv, NEW p \in Processes, RollbackFails(p) PROVE LeafInv'
<1>1. LeafType /\ JobsInv
  BY DEF LeafInv
<1>2. /\ Goes(p, NoJob) /\ Fails(p) /\ UNCHANGED <<day, ticked, running, served, renewAt>>
  BY DEF RollbackFails
<1>3. PICK what \in Pairs : what = jobs[p].what /\ MidWrite(p, what)
  BY <1>1 DEF RollbackFails, JobsInv, JobHolds, Writing, Halfway, MidWrite
<1>4. failures' \in Nat /\ failures' <= MaxFailures /\ failures + Used' <= failures' + Used
  BY <1>2, FailsUse
<1>5. PICK files \in Files :
        Puts(what, files) /\ files.cert \in {NoLeaf, On(what).cert} /\ files.key = On(what).key
  <2>1. PICK cert \in {NoLeaf, On(what).cert} : Puts(what, [On(what) EXCEPT !.cert = cert])
    BY <1>3 DEF RollbackFails
  <2>2. On(what) \in Files /\ cert \in Leaves
    BY <1>1, OnType, LeafConstants
  <2>3. /\ [On(what) EXCEPT !.cert = cert] \in Files /\ [On(what) EXCEPT !.cert = cert].cert = cert
        /\ [On(what) EXCEPT !.cert = cert].key = On(what).key
    BY <2>2 DEF Files
  <2> QED
    BY <2>1, <2>3
<1>6. ca'.key = ca.key /\ ca'.cert \in CaCerts /\ leaf'.cert \in LeafCerts
  BY <1>1, <1>5, PutsGives, Known DEF On, Pairs
<1>7. /\ CertsInv' /\ NewInv' /\ NoJob \in Jobs /\ JobHolds(p, NoJob) /\ ~AtTick(NoJob)
      /\ NoJob.at \notin Halfway
  BY <1>2, <1>6, Known, IdleCerts
<1>8. /\ what \in spoilt' /\ spoilt' \in SUBSET Pairs
      /\ \A o \in Pairs \ {what} : o \in spoilt' <=> o \in spoilt
  BY <1>1, <1>3 DEF RollbackFails, LeafType
<1> QED
  BY <1>2, <1>3, <1>4, <1>5, <1>7, <1>8, EndKept

\* The command dies.
LEMMA CommandDiesKept == ASSUME LeafInv, Dies("command") PROVE LeafInv'
<1> DEFINE p == "command"
<1>1. LeafType /\ JobsInv /\ p \in Processes
  BY LeafConstants DEF LeafInv
<1>2. /\ Goes(p, NoJob) /\ UNCHANGED <<day, ticked, ca, leaf, running, served, renewAt, failures>>
      /\ spoilt' = spoilt \cup {what \in Pairs : MidWrite(p, what)}
  BY DEF Dies, Pairs
<1> HIDE DEF p
<1>3. /\ CertsInv' /\ NewInv' /\ NoJob \in Jobs /\ JobHolds(p, NoJob) /\ ~AtTick(NoJob)
      /\ NoJob.at \notin Halfway
  BY <1>1, <1>2, Known, IdleCerts
<1>4. failures' \in Nat /\ failures' <= MaxFailures /\ ticked' \in BOOLEAN /\ failures + Used' <= failures' + Used
  BY <1>1, <1>2, <1>3, UsesNoMore, LeafConstants DEF p
<1>5. CASE jobs[p].at \notin Halfway
  <2>1. spoilt' = spoilt
    BY <1>2, <1>5 DEF MidWrite, Halfway
  <2> QED
    BY <1>1, <1>2, <1>4, <1>5, <2>1, IdlesKept
<1>6. CASE jobs[p].at \in Halfway
  <2>1. PICK what \in Pairs : what = jobs[p].what /\ MidWrite(p, what)
    BY <1>1, <1>6 DEF JobsInv, JobHolds, Writing, Halfway, MidWrite
  <2>2. /\ what \in spoilt' /\ spoilt' \in SUBSET Pairs
        /\ \A o \in Pairs \ {what} : o \in spoilt' <=> o \in spoilt
    BY <1>1, <1>2, <2>1 DEF MidWrite, LeafType
  <2>3. Puts(what, On(what)) /\ On(what) \in Files
    BY <1>1, <1>2, OnType DEF Puts, On
  <2> QED
    BY <1>1, <1>2, <1>3, <1>4, <2>1, <2>2, <2>3, EndKept
<1> QED
  BY <1>5, <1>6

\* The gateway dies: it serves nothing, until it starts again.
LEMMA GatewayDiesKept == ASSUME LeafInv, Dies("gateway") PROVE LeafInv'
<1> DEFINE p == "gateway"
<1>1. /\ LeafType /\ JobsInv /\ WritesInv /\ PairsInv /\ p \in Processes /\ NoLeaf \in Leaves
  BY LeafConstants DEF LeafInv
<1>2. /\ Goes(p, NoJob) /\ UNCHANGED <<day, ca, leaf, failures>>
      /\ spoilt' = spoilt \cup {what \in Pairs : MidWrite(p, what)}
      /\ ticked' = FALSE /\ running' = FALSE /\ served' = NoLeaf /\ renewAt' = Never
  BY DEF Dies, Pairs
<1>3. /\ CertsInv' /\ NewInv' /\ jobs'[p] = NoJob /\ NoJob \in Jobs /\ JobHolds(p, NoJob)
      /\ ~AtTick(NoJob) /\ NoJob.at \notin Halfway /\ NoJob.by # "start"
  BY <1>1, <1>2, Known, IdleCerts
<1>4. LeafType'
  <2>1. jobs' \in [Processes -> Jobs] /\ Never \in Int
    BY <1>1, <1>2, <1>3, JobGoes DEF Never
  <2>2. spoilt' \in SUBSET Pairs
    <3>1. spoilt \subseteq Pairs
      BY <1>1 DEF LeafType
    <3> QED
      BY <1>2, <3>1
  <2> QED
    BY <1>1, <1>2, <2>1, <2>2 DEF LeafType
<1>5. JobsInv'
  <2>1. JobHolds(p, NoJob)'
    BY <1>2, <1>3 DEF JobHolds
  <2> QED
    BY <1>1, <1>2, <1>3, <2>1, JobsStay
<1>6. WritesInv' /\ PairsInv'
  <2>1. CASE jobs[p].at \notin Halfway
    <3>1. spoilt' = spoilt
      BY <1>2, <2>1 DEF MidWrite, Halfway
    <3> QED
      BY <1>1, <1>2, <1>3, <2>1, <3>1, MidsStay
  <2>2. CASE jobs[p].at \in Halfway
    <3>1. PICK what \in Pairs : what = jobs[p].what /\ MidWrite(p, what)
      BY <1>1, <2>2 DEF JobsInv, JobHolds, Writing, Halfway, MidWrite
    <3>2. /\ what \in spoilt'
          /\ \A o \in Pairs \ {what} : On(o)' = On(o) /\ (o \in spoilt' <=> o \in spoilt)
      BY <1>2, <3>1 DEF MidWrite, On
    <3> QED
      BY <1>1, <1>2, <1>3, <3>1, <3>2, WriteEnds
  <2> QED
    BY <2>1, <2>2
<1>7. ServedInv' /\ TickInv' /\ DueInv'
  BY <1>2, <1>3 DEF LeafInv, ServedInv, TickInv, AtTick, DueInv, ServedOfCa
<1> QED
  BY <1>3, <1>4, <1>5, <1>6, <1>7 DEF LeafInv

LEMMA DayEndsKept == ASSUME LeafInv, DayEnds PROVE LeafInv'
<1>1. /\ day' = day + 1 /\ (running /\ Due => ticked) /\ ticked' = FALSE
      /\ \A q \in Processes : jobs[q] = NoJob
      /\ UNCHANGED <<ca, leaf, jobs, running, served, renewAt, failures, spoilt>>
  BY DEF DayEnds
<1>2. /\ LeafType /\ WritesInv /\ PairsInv /\ CertsInv /\ NewInv /\ ServedInv /\ TickInv /\ DueInv
  BY DEF LeafInv
<1>3. LeafType'
  <2>1. day \in Nat /\ day' \in Nat
    BY <1>1, <1>2 DEF LeafType
  <2> QED
    BY <1>1, <1>2, <2>1 DEF LeafType
<1>4. JobsInv'
  <2> SUFFICES ASSUME NEW q \in Processes
               PROVE  JobHolds(q, jobs[q])'
    BY DEF JobsInv
  <2>1. jobs'[q] = NoJob
    BY <1>1
  <2> QED
    BY <2>1, LeafConstants DEF JobHolds, Pairs, Writing, Halfway
<1>5. /\ \A q \in Processes, what \in Pairs : MidWrite(q, what)' <=> MidWrite(q, what)
      /\ \A what \in Pairs : There(what)' = There(what) /\ On(what)' = On(what)
  BY <1>1 DEF MidWrite, There, On
<1>6. WritesInv' /\ PairsInv'
  BY <1>1, <1>2, <1>5 DEF WritesInv, PairsInv, WriteHolds
<1>7. CaCerts' = CaCerts /\ LeafCerts' = LeafCerts
  BY <1>1 DEF CaCerts, LeafCerts, CasOf, LeavesOf
<1>8. CertsInv' /\ NewInv'
  BY <1>1, <1>2, <1>7 DEF CertsInv, NewInv, Of
<1>9. ServedInv' /\ TickInv'
  BY <1>1, <1>2, <1>5 DEF ServedInv, TickInv, AtTick, ServedOfCa, RenewAt, Never, Pairs
<1>10. DueInv'
  <2>1. failures' <= MaxFailures
    BY <1>1, <1>2 DEF DueInv
  <2>2. ASSUME ServedOfCa', Due', day' < served'.caUntil
        PROVE  day' - renewAt' + Used' <= failures'
    <3>1. ServedOfCa /\ Used' = 0 /\ running /\ day < served.caUntil
      BY <1>1, <1>2, <1>5, <2>2 DEF ServedOfCa, Used, LeafType, Leaves, Pairs
    <3>2. day \in Nat /\ renewAt \in Int /\ failures \in Nat
      BY <1>2 DEF LeafType
    <3>3. CASE day >= renewAt
      <4>1. Due /\ ticked
        BY <1>1, <2>2, <3>1, <3>3 DEF Due
      <4>2. Used = 1
        BY <1>1, <4>1, LeafConstants DEF Used
      <4>3. day - renewAt + 1 <= failures
        BY <1>2, <3>1, <4>1, <4>2 DEF DueInv
      <4> QED
        BY <1>1, <3>1, <3>2, <4>3
    <3>4. CASE day < renewAt
      BY <1>1, <3>1, <3>2, <3>4
    <3> QED
      BY <3>2, <3>3, <3>4
  <2> QED
    BY <2>1, <2>2 DEF DueInv
<1> QED
  BY <1>3, <1>4, <1>6, <1>8, <1>9, <1>10 DEF LeafInv

LEMMA LeafKept == ASSUME LeafInv, LeafNext PROVE LeafInv'
<1>1. ASSUME NEW p \in Processes, Dies(p)
      PROVE  LeafInv'
  <2>1. p \in {"gateway", "command"}
    BY DEF Processes
  <2> QED
    BY <1>1, <2>1, CommandDiesKept, GatewayDiesKept
<1>2. ASSUME NEW p \in Processes, Looks(p) \/ Writes(p) \/ WriteFails(p) \/ RollbackFails(p) \/ Dies(p)
      PROVE  LeafInv'
  BY <1>1, <1>2, LooksKept, WritesKept, WriteFailsKept, RollbackFailsKept
<1> QED
  BY <1>2, StartsKept, ReloadsKept, TicksKept, InstallsKept, BuildRefusedKept,
     InitsKept, NewCaMadeKept, LoadsAgainKept, DayEndsKept DEF LeafNext

LEMMA LeafBegins == ASSUME LeafInit PROVE LeafInv
<1>1. \A p \in Processes : jobs[p] = NoJob
  BY DEF LeafInit
<1>2. LeafType
  <2>1. jobs \in [Processes -> Jobs] /\ Never \in Int /\ {} \in SUBSET Pairs
    BY LeafConstants DEF LeafInit, Never
  <2> QED
    BY <2>1, LeafConstants DEF LeafInit, LeafType
<1>3. JobsInv
  BY <1>1, LeafConstants DEF JobsInv, JobHolds, Pairs, Writing, Halfway
<1>4. \A p \in Processes, what \in Pairs : ~MidWrite(p, what)
  BY <1>1, LeafConstants DEF MidWrite
<1>5. WritesInv
  BY <1>4 DEF WritesInv
<1>6. PairsInv
  BY <1>4, LeafConstants DEF LeafInit, PairsInv, There, On, Processes
<1>7. CaCerts = {NoLeaf} /\ LeafCerts = {NoLeaf}
  <2>1. \A p \in Processes : CasOf(jobs[p]) = {NoLeaf} /\ LeavesOf(jobs[p]) = {NoLeaf}
    BY <1>1, LeafConstants DEF CasOf, LeavesOf
  <2> QED
    BY <2>1, LeafConstants DEF LeafInit, CaCerts, LeafCerts
<1>8. CertsInv
  BY <1>7, LeafConstants DEF CertsInv, Of
<1>9. NewInv
  BY <1>1, LeafConstants DEF NewInv
<1>10. ServedInv /\ TickInv /\ DueInv
  BY <1>1, LeafConstants DEF LeafInit, ServedInv, TickInv, AtTick, DueInv, ServedOfCa
<1> QED
  BY <1>2, <1>3, <1>5, <1>6, <1>8, <1>9, <1>10 DEF LeafInv

LEMMA LeafStays == ASSUME LeafInv, UNCHANGED leafVars PROVE LeafInv'
<1>1. UNCHANGED <<day, ticked, ca, leaf, jobs, running, served, renewAt, failures, spoilt>>
  BY DEF leafVars
<1>2. /\ \A q \in Processes, what \in Pairs : MidWrite(q, what)' <=> MidWrite(q, what)
      /\ \A what \in Pairs : There(what)' = There(what) /\ On(what)' = On(what)
      /\ CaCerts' = CaCerts /\ LeafCerts' = LeafCerts
  BY <1>1 DEF MidWrite, There, On, CaCerts, LeafCerts, CasOf, LeavesOf
<1>3. (ServedOfCa' <=> ServedOfCa) /\ (Due' <=> Due) /\ Used' = Used
  BY <1>1, <1>2 DEF ServedOfCa, Due, Used, Pairs
<1>4. LeafType' /\ JobsInv' /\ WritesInv' /\ PairsInv'
  BY <1>1, <1>2 DEF LeafInv, LeafType, JobsInv, JobHolds, WritesInv, WriteHolds, PairsInv
<1>5. CertsInv' /\ NewInv'
  BY <1>1, <1>2 DEF LeafInv, CertsInv, Of, NewInv
<1>6. ServedInv' /\ TickInv' /\ DueInv'
  BY <1>1, <1>3 DEF LeafInv, ServedInv, RenewAt, TickInv, AtTick, DueInv
<1> QED
  BY <1>4, <1>5, <1>6 DEF LeafInv

LEMMA ServedIsHeld == ASSUME LeafInv PROVE ServedHolds
<1>1. LeafType /\ WritesInv /\ PairsInv /\ NewInv /\ ServedInv /\ DueInv
  BY DEF LeafInv
<1>2. ASSUME NEW what \in Pairs, \A p \in Processes : ~MidWrite(p, what)
      PROVE  There(what) = On(what).cert
  BY <1>2 DEF There, Processes
<1>3. PairsHold
  BY <1>1, <1>2 DEF PairsHold, PairsInv, Pairs
<1>4. ServedIsInTime
  <2> SUFFICES ASSUME running, served.until <= day, day < served.caUntil,
                      served.ca = ca.cert.key, "ca" \notin spoilt
               PROVE  FALSE
    <3>1. day \in Int /\ served.caUntil \in Int
      BY <1>1 DEF LeafType, Leaves
    <3> QED
      BY <3>1 DEF ServedIsInTime
  <2>1. served.ca # 0 /\ renewAt = served.until - RenewBefore /\ renewAt # Never
    <3>1. served.until < served.caUntil
      BY <1>1 DEF LeafType, Leaves
    <3> QED
      BY <1>1, <3>1 DEF ServedInv, RenewAt
  <2>2. There("ca") = ca.cert
    <3>1. ASSUME NEW p \in Processes, MidWrite(p, "ca")
          PROVE  FALSE
      <4>1. ca.cert = (IF jobs[p].at = "aside" THEN NoLeaf ELSE jobs[p].cert)
        BY <1>1, <3>1 DEF WritesInv, WriteHolds, On, Pairs
      <4>2. jobs[p].cert.key # served.ca
        BY <1>1, <3>1, Known DEF NewInv, MidWrite
      <4> QED
        BY <2>1, <4>1, <4>2, LeafConstants
    <3> QED
      BY <1>2, <3>1 DEF On, Pairs
  <2>3. ServedOfCa /\ Due
    <3>1. day >= renewAt
      BY <1>1, <2>1, LeafConstants DEF LeafType, Leaves
    <3> QED
      BY <2>1, <2>2, <3>1 DEF ServedOfCa, Due
  <2>4. day - renewAt + Used <= failures /\ failures <= MaxFailures
    BY <1>1, <2>3 DEF DueInv
  <2>5. /\ day \in Int /\ served.until \in Int /\ failures \in Int /\ Used \in {0, 1}
        /\ RenewBefore \in Int /\ MaxFailures \in Int /\ MaxFailures < RenewBefore
    BY <1>1, LeafConstants DEF LeafType, Leaves, Used
  <2> QED
    BY <2>1, <2>4, <2>5
<1> QED
  BY <1>3, <1>4 DEF ServedHolds

LEMMA ClientsStay ==
  ASSUME ClientInv, UNCHANGED certVars
  PROVE  ClientInv'
<1>1. ClientType' /\ RevokedInv'
  BY DEF certVars, ClientInv, ClientType, RevokedInv, HasWritten
<1>2. InUse' = InUse
  BY DEF certVars, InUse
<1>3. ChecksInv' /\ CheckedInv'
  BY <1>2 DEF certVars, ClientInv, ChecksInv, CheckedInv
<1>4. AdmittedInv'
  BY DEF certVars, ClientInv, AdmittedInv, RevokedStayOut
<1> QED
  BY <1>1, <1>3, <1>4 DEF ClientInv

-----------------------------------------------------------------------------
(***************************************************************************)
(* A client that is admitted is one the check it was admitted by does not  *)
(* find revoked, nor ended when its connection began, whatever its         *)
(* handshake was checked against, and no revocation is lost from the list, *)
(* wherever what writes it dies (client_auth.rs, issued.rs).  Commands     *)
(* come one at a time: two would each write what it read.                  *)
(***************************************************************************)
THEOREM ClientsAreHeld ==
  ASSUME OneCommand
  PROVE  Spec => []ClientsHold
<1>1. Init => ClientInv
  BY ClientsBegin DEF Init
<1>2. ClientInv /\ [Next]_vars => ClientInv'
  BY ClientsKept, ClientsStay DEF Next, vars
<1>3. ClientInv => ClientsHold
  BY DEF ClientInv, AdmittedInv, RevokedInv, ClientsHold, RevokedIsKept
<1> QED
  BY <1>1, <1>2, <1>3, PTL DEF Spec

(***************************************************************************)
(* A browser's session is of a sign-in of its own, whoever's answer it     *)
(* opens; what is signed out of opens no more until the next start,        *)
(* whatever renewals of before it still arrive; a sign-in finishes once in *)
(* as many as are remembered; and a session in use is lost to no new key,  *)
(* nor to idleness sooner than it may be (signin.rs, session.rs).          *)
(***************************************************************************)
THEOREM SessionsAreKept == Spec => []SessionsHold
<1>1. Init => SessionInv
  BY SessionsBegin DEF Init
<1>2. SessionInv /\ [Next]_vars => SessionInv'
  BY SessionsKept, SessionsStay, SignInsAreSessions DEF Next, vars
<1>3. SessionInv => SessionsHold
  BY SessionsAreHeld
<1> QED
  BY <1>1, <1>2, <1>3, PTL DEF Spec

\* The listeners' certificate with none of the run's restrictions: any reloads, commands and
\* troubles, within any bounds, for any names.
LeafSpec == LeafInit /\ [][LeafNext]_leafVars

(***************************************************************************)
(* While its CA lasts and is the one there, whole, the gateway serves a    *)
(* certificate that has not ended, though writes and builds fail on fewer  *)
(* days in a row than it is renewed ahead, whatever a command does beside. *)
(* A pair is left in halves only by a process that dies in the middle of   *)
(* it, a rollback that fails, or two processes at it at once: by no write  *)
(* that fails, or is alone (local_ca.rs, tls.rs, main.rs).                 *)
(***************************************************************************)
THEOREM ServedIsKept == (Spec => LeafSpec) /\ (LeafSpec => []ServedHolds)
<1>1. Init => LeafInit
  BY DEF Init
<1>2. [Next]_vars => [LeafNext]_leafVars
  BY DEF Next, vars, OneChange, OneName
<1>3. LeafInit => LeafInv
  BY LeafBegins
<1>4. LeafInv /\ [LeafNext]_leafVars => LeafInv'
  BY LeafKept, LeafStays
<1>5. LeafInv => ServedHolds
  BY ServedIsHeld
<1> QED
  BY <1>1, <1>2, <1>3, <1>4, <1>5, PTL DEF Spec, LeafSpec

-----------------------------------------------------------------------------
(***************************************************************************)
(* The admin listener's door (ConsoleDoor), for any configuration, any     *)
(* request and any names of roles.                                         *)
(***************************************************************************)
Door == INSTANCE ConsoleDoor
Roles == {Door!Viewer, Door!Operator, Door!Admin}

\* Some of the names is of the role, or of one above it.
Reach(given, need) == \E name \in given : Door!RoleOf(name) >= need

LEMMA HighestIsReached ==
  ASSUME NEW given, NEW need \in Roles
  PROVE  Door!Highest(given) \in 0 .. 3 /\ (Door!Highest(given) >= need <=> Reach(given, need))
<1> DEFINE held == {Door!RoleOf(name) : name \in given} \cup {Door!NoRole}
<1>1. need \in 1 .. 3
  BY DEF Roles, Door!Viewer, Door!Operator, Door!Admin
<1>2. \A name : Door!RoleOf(name) \in 0 .. 3
  BY DEF Door!RoleOf, Door!Viewer, Door!Operator, Door!Admin, Door!NoRole
<1>3. held \subseteq 0 .. 3 /\ 0 \in held
  BY <1>2 DEF Door!NoRole
<1>4. \A r \in held : r = 0 \/ \E name \in given : r = Door!RoleOf(name)
  BY DEF Door!NoRole
<1>5. \A name \in given : Door!RoleOf(name) \in held
  OBVIOUS
<1>6. Door!Highest(given) = CHOOSE r \in held : \A s \in held : s <= r
  BY DEF Door!Highest
<1> HIDE DEF held
<1>7. \E r \in held : \A s \in held : s <= r
  <2>1. CASE 3 \in held BY <1>3, <2>1
  <2>2. CASE 3 \notin held /\ 2 \in held BY <1>3, <2>2
  <2>3. CASE 3 \notin held /\ 2 \notin held /\ 1 \in held BY <1>3, <2>3
  <2>4. CASE 3 \notin held /\ 2 \notin held /\ 1 \notin held BY <1>3, <2>4
  <2> QED BY <2>1, <2>2, <2>3, <2>4
<1>8. Door!Highest(given) \in held /\ \A s \in held : s <= Door!Highest(given)
  BY <1>6, <1>7
<1>9. ASSUME Door!Highest(given) >= need PROVE Reach(given, need)
  <2>1. PICK name \in given : Door!Highest(given) = Door!RoleOf(name)
    BY <1>1, <1>4, <1>8, <1>9
  <2> QED BY <1>9, <2>1 DEF Reach
<1>10. ASSUME Reach(given, need) PROVE Door!Highest(given) >= need
  <2>1. PICK name \in given : Door!RoleOf(name) >= need
    BY <1>10 DEF Reach
  <2>2. Door!RoleOf(name) \in held /\ Door!RoleOf(name) <= Door!Highest(given)
    BY <1>5, <1>8
  <2>3. Door!RoleOf(name) \in 0 .. 3 /\ Door!Highest(given) \in 0 .. 3
    BY <1>2, <1>3, <1>8
  <2> QED BY <1>1, <2>1, <2>2, <2>3
<1> QED BY <1>3, <1>8, <1>9, <1>10

\* A request the envelope turns away whoever it is from.
TurnedAway(admin, request) ==
    \/ ~Door!HostAllowed(admin, request.host)
    \/ request.changes /\ (~Door!SameOrigin(admin, request) \/ request.body = "form")
    \/ request.identity = "refused"

\* It shows a token, where tokens are taken.
ByToken(admin, request) == request.token.kind # "none" /\ (admin.breakGlass \/ (admin.oidc /\ admin.apiAudience))

\* What the credential of this very request that counts gives: a token before a
\* certificate, and a certificate before a session.
Given(admin, request, need) ==
    IF ByToken(admin, request)
    THEN \/ request.token.kind = "break-glass" /\ admin.breakGlass
         \/ /\ request.token.kind = "issued" /\ admin.oidc /\ admin.apiAudience
            /\ Reach(request.token.roles \cup Door!ScopeRoles(request.token.scopes), need)
    ELSE IF ~Door!SignsIn(admin) THEN TRUE
    ELSE IF request.identity # Door!Nobody THEN Reach(admin.certMap[request.identity], need)
    ELSE admin.oidc /\ request.session.open /\ Reach(request.session.roles, need)

LEMMA GateOfRole ==
  ASSUME NEW need \in Roles, NEW status, NEW caller
  PROVE  Door!Gate(need, Door!Answer(status, caller)).status = 200 <=> status = 200 /\ caller.role >= need
BY DEF Door!Gate, Door!Answer

\* By the credential that counts when the request gets past the envelope's own checks.
LEMMA BearerGives ==
  ASSUME NEW admin, NEW request, ByToken(admin, request), NEW need \in Roles
  PROVE  Door!Gate(need, Door!Bearer(admin, request.token)).status = 200 <=> Given(admin, request, need)
<1> DEFINE token == request.token
           given == token.roles \cup Door!ScopeRoles(token.scopes)
<1>1. need <= 3 /\ ~(0 >= need)
  BY DEF Roles, Door!Viewer, Door!Operator, Door!Admin
<1>2. CASE token.kind = "break-glass" /\ admin.breakGlass
  <2>1. Door!Bearer(admin, token) = Door!Answer(200, Door!Caller("break-glass", Door!Nobody, Door!Admin))
    BY <1>2 DEF Door!Bearer
  <2>2. Door!Caller("break-glass", Door!Nobody, Door!Admin).role = 3
    BY DEF Door!Caller, Door!Admin
  <2> QED BY <1>1, <1>2, <2>1, <2>2, GateOfRole DEF Given
<1>3. CASE ~(token.kind = "break-glass" /\ admin.breakGlass) /\ token.kind = "issued" /\ admin.oidc /\ admin.apiAudience
  <2>1. Door!Bearer(admin, token) = Door!Answer(200, Door!ApiCaller(token))
    BY <1>3 DEF Door!Bearer, Door!TakesApiTokens
  <2>2. Door!ApiCaller(token).role = Door!Highest(given)
    BY DEF Door!ApiCaller, Door!Caller
  <2>3. Door!Gate(need, Door!Bearer(admin, token)).status = 200 <=> Reach(given, need)
    BY <2>1, <2>2, GateOfRole, HighestIsReached
  <2> QED BY <1>3, <2>3 DEF Given
<1>4. CASE ~(token.kind = "break-glass" /\ admin.breakGlass) /\ ~(token.kind = "issued" /\ admin.oidc /\ admin.apiAudience)
  <2>1. \E status \in {401, 503} : Door!Bearer(admin, token) = Door!Answer(status, Door!NoCaller)
    BY <1>4 DEF Door!Bearer, Door!TakesApiTokens
  <2>2. Door!Gate(need, Door!Bearer(admin, token)).status # 200
    BY <2>1, GateOfRole
  <2> QED BY <1>4, <2>2 DEF Given
<1> QED BY <1>2, <1>3, <1>4

LEMMA CallerGives ==
  ASSUME NEW admin, NEW request, ~ByToken(admin, request), NEW need \in Roles
  PROVE  Door!CallerBy(admin, request).role >= need <=> Given(admin, request, need)
<1> DEFINE caller == Door!CallerBy(admin, request)
<1>1. 3 >= need /\ ~(0 >= need)
  BY DEF Roles, Door!Viewer, Door!Operator, Door!Admin
<1>2. CASE request.identity = Door!Nobody /\ admin.oidc /\ request.session.open
  <2>1. caller.role = Door!Highest(request.session.roles)
    BY <1>2 DEF Door!CallerBy, Door!Caller
  <2>2. Door!SignsIn(admin)
    BY <1>2 DEF Door!SignsIn
  <2> QED BY <1>2, <2>1, <2>2, HighestIsReached DEF Given
<1>3. CASE request.identity = Door!Nobody /\ admin.oidc /\ ~request.session.open
  <2>1. caller.role = 0
    BY <1>3 DEF Door!CallerBy, Door!SignedOut, Door!Caller, Door!NoRole
  <2>2. Door!SignsIn(admin)
    BY <1>3 DEF Door!SignsIn
  <2> QED BY <1>1, <1>3, <2>1, <2>2 DEF Given
<1>4. CASE ~(request.identity = Door!Nobody /\ admin.oidc) /\ ~Door!SignsIn(admin)
  <2>1. caller.role = 3
    BY <1>4 DEF Door!CallerBy, Door!CallerOf, Door!Caller, Door!Admin
  <2> QED BY <1>1, <1>4, <2>1 DEF Given
<1>5. CASE ~(request.identity = Door!Nobody /\ admin.oidc) /\ Door!SignsIn(admin) /\ request.identity # Door!Nobody
  <2>1. caller.role = Door!Highest(admin.certMap[request.identity])
    BY <1>5 DEF Door!CallerBy, Door!CallerOf, Door!Caller
  <2> QED BY <1>5, <2>1, HighestIsReached DEF Given
<1>6. CASE ~(request.identity = Door!Nobody /\ admin.oidc) /\ Door!SignsIn(admin) /\ request.identity = Door!Nobody
  <2>1. caller.role = 0
    BY <1>6 DEF Door!CallerBy, Door!CallerOf, Door!Caller, Door!NoRole
  <2> QED BY <1>1, <1>6, <2>1 DEF Given
<1> QED BY <1>2, <1>3, <1>4, <1>5, <1>6

\* envelope and gate: a route that needs a role is run for exactly the requests that are
\* not turned away and whose own credential gives the role or one above it. A token
\* shown where tokens are taken is never passed over for the certificate or the session
\* that comes with it.
THEOREM RolesAreGiven ==
  ASSUME NEW admin, NEW request, NEW need \in Roles
  PROVE  Door!Gate(need, Door!Envelope(admin, request)).status = 200
            <=> ~TurnedAway(admin, request) /\ Given(admin, request, need)
<1> DEFINE answer == Door!Envelope(admin, request)
<1>1. CASE TurnedAway(admin, request)
  <2>1. \E status \in {403, 415, 421} : answer = Door!Answer(status, Door!NoCaller)
    BY <1>1 DEF TurnedAway, Door!Envelope
  <2>2. Door!Gate(need, answer).status # 200
    BY <2>1, GateOfRole
  <2> QED BY <1>1, <2>2
<1>2. CASE ~TurnedAway(admin, request) /\ ByToken(admin, request)
  <2>1. answer = Door!Bearer(admin, request.token)
    BY <1>2 DEF TurnedAway, ByToken, Door!Envelope, Door!TakesTokens, Door!TakesApiTokens
  <2> QED BY <1>2, <2>1, BearerGives
<1>3. CASE ~TurnedAway(admin, request) /\ ~ByToken(admin, request)
  <2>1. answer = Door!Answer(200, Door!CallerBy(admin, request))
    BY <1>3 DEF TurnedAway, ByToken, Door!Envelope, Door!TakesTokens, Door!TakesApiTokens
  <2> QED BY <1>3, <2>1, GateOfRole, CallerGives
<1> QED BY <1>1, <1>2, <1>3

-----------------------------------------------------------------------------
\* An origin as a browser writes it: without its scheme's own port, a dot after the
\* name or not.
Browsed == {url \in [scheme : {"http", "https"}, name : STRING, dot : BOOLEAN, port : Nat] :
               url.port # Door!DefaultPort(url.scheme)}

\* A change a page asks for at a URL, from a browser that says whether the two are of
\* one origin, or from an older one that says where the page is from.
Asks(page, url, newer, site, request) ==
    /\ request.changes /\ request.host = [name |-> url.name, dot |-> url.dot, port |-> url.port]
    /\ request.site = IF newer THEN {site} ELSE {}
    /\ request.origin = {page}
    /\ site \in {"same-origin", "same-site", "cross-site"} /\ (site = "same-origin" <=> page = url)

\* The URL under the scheme the listener takes itself to have.
Seen(admin, url) == Door!OriginOf([url EXCEPT !.scheme = admin.scheme])
Public(admin) == {Door!OriginOf(address) : address \in admin.publicUrl}

LEMMA OldBrowsersPages ==
  ASSUME NEW admin, admin.scheme \in {"http", "https"}, NEW page \in Browsed, NEW url \in Browsed
  PROVE  page \in Door!OwnOrigins(admin, admin.scheme, [name |-> url.name, dot |-> url.dot, port |-> url.port])
            <=> page \in {Seen(admin, url)} \cup Public(admin)
<1> DEFINE scheme == admin.scheme
           host == [name |-> url.name, dot |-> url.dot, port |-> url.port]
           at(port) == [scheme |-> scheme, name |-> url.name, dot |-> url.dot, port |-> port]
<1>1. /\ url \in [scheme : {"http", "https"}, name : STRING, dot : BOOLEAN, port : Nat]
      /\ page \in [scheme : {"http", "https"}, name : STRING, dot : BOOLEAN, port : Nat]
      /\ page.port # Door!DefaultPort(page.scheme)
  BY DEF Browsed
<1>2. Door!OwnOrigins(admin, scheme, host) =
        Public(admin) \cup {at(url.port)} \cup (IF url.port = Door!DefaultPort(scheme) THEN {at(0)} ELSE {})
  BY DEF Door!OwnOrigins, Door!OriginAt, Door!NoPort, Public
<1>3. [url EXCEPT !.scheme = scheme] = at(url.port)
  BY <1>1
<1>4. Seen(admin, url) = [at(url.port) EXCEPT !.port = IF url.port = Door!DefaultPort(scheme) THEN 0 ELSE url.port]
  BY <1>3 DEF Seen, Door!OriginOf, Door!NoPort
<1>5. Seen(admin, url) = at(IF url.port = Door!DefaultPort(scheme) THEN 0 ELSE url.port)
  BY <1>4
<1>6. CASE url.port = Door!DefaultPort(scheme)
  <2>1. page # at(url.port)
    BY <1>1, <1>6
  <2> QED BY <1>2, <1>5, <1>6, <2>1
<1>7. CASE url.port # Door!DefaultPort(scheme)
  BY <1>2, <1>5, <1>7
<1> QED BY <1>6, <1>7

\* same_origin: whatever the configuration, a change that a browser's page asks for gets
\* past the door only when the page is the one at that URL or, of an older browser, at
\* the URL as the listener knows it or at public_url, and a page at the URL always may
\* where the listener knows its scheme.
THEOREM ChangesAreItsOwn ==
  ASSUME NEW admin, admin.scheme \in {"http", "https"}, NEW page \in Browsed, NEW url \in Browsed,
         NEW newer \in BOOLEAN, NEW site, NEW request, Asks(page, url, newer, site, request)
  PROVE  /\ Door!SameOrigin(admin, request) <=>
               IF newer THEN page = url ELSE page \in {Seen(admin, url)} \cup Public(admin)
         /\ page = url /\ (newer \/ admin.scheme = url.scheme \/ url \in Public(admin)) =>
               Door!SameOrigin(admin, request)
         /\ ~Door!SameOrigin(admin, request) => Door!Envelope(admin, request).status # 200
<1>1. page \in [scheme : {"http", "https"}, name : STRING, dot : BOOLEAN, port : Nat]
      /\ url \in [scheme : {"http", "https"}, name : STRING, dot : BOOLEAN, port : Nat]
      /\ page.port # Door!DefaultPort(page.scheme) /\ url.port # Door!DefaultPort(url.scheme)
  BY DEF Browsed
<1>2. Door!SameOrigin(admin, request) <=>
        IF newer THEN page = url ELSE page \in {Seen(admin, url)} \cup Public(admin)
  <2>1. CASE newer
    BY <2>1 DEF Asks, Door!SameOrigin
  <2>2. CASE ~newer
    <3>1. Door!OriginOf(page) = page /\ page.scheme # "null"
      BY <1>1 DEF Door!OriginOf
    <3>2. Door!SameOrigin(admin, request) <=> page \in Door!OwnOrigins(admin, admin.scheme, request.host)
      BY <2>2, <3>1 DEF Asks, Door!SameOrigin
    <3> QED BY <2>2, <3>2, OldBrowsersPages DEF Asks
  <2> QED BY <2>1, <2>2
<1>3. ASSUME admin.scheme = url.scheme PROVE Seen(admin, url) = url
  BY <1>1, <1>3 DEF Seen, Door!OriginOf
<1>4. ~Door!SameOrigin(admin, request) => Door!Envelope(admin, request).status # 200
  BY DEF Asks, Door!Envelope, Door!Answer
<1> QED BY <1>2, <1>3, <1>4

-----------------------------------------------------------------------------
(***************************************************************************)
(* The MCP listener's door (FrontDoor), for any listener, any credentials  *)
(* it takes, any request and any certificate.                              *)
(***************************************************************************)
CONSTANTS IdMost, DomainMost, Bits, MostCertificates
Mcp == INSTANCE FrontDoor

FromProxy(listener, request) == request.peer.addr \in listener.proxy

\* The certificate this request is with, if it is with one.
Shown(listener, request) == IF FromProxy(listener, request) THEN request.forwarded ELSE request.peer.presented

Asked(listener) == listener.clients.mode # "off"

\* The certificate is one this listener admits, and gives an identity.
ByCertificate(listener, request) ==
    /\ Asked(listener)
    /\ ~Mcp!IsRefusal(Shown(listener, request)) /\ Shown(listener, request) # Mcp!None
    /\ Shown(listener, request)[2].admitted
    /\ Mcp!Identity(listener.clients, Shown(listener, request)[2])[1] = "some"

\* No certificate is asked for, or none is shown and none has to be.
WithoutOne(listener, request) ==
    \/ ~Asked(listener)
    \/ Shown(listener, request) = Mcp!None /\ listener.clients.mode # "required"

\* The token or key checks out, and is of a kind that is taken.
ByTokenOf(auth, request) ==
    /\ request.token.who # "no one"
    /\ (request.token.kind = "key" /\ auth.keys) \/ (request.token.kind = "jwt" /\ auth.bearer)

\* Of the credentials that are needed, all or one are there, and no token is shown
\* that is not taken.
Authorized(listener, auth, request) ==
    LET takesTokens == auth.bearer \/ auth.keys IN
    \/ auth = Mcp!Open
    \/ /\ takesTokens /\ request.token.kind # "none" => ByTokenOf(auth, request)
       /\ IF auth.all
          THEN /\ takesTokens => ByTokenOf(auth, request)
               /\ auth.certificate => ByCertificate(listener, request)
          ELSE ByTokenOf(auth, request) \/ (auth.certificate /\ ByCertificate(listener, request))

LEMMA IdentityIsOne ==
  ASSUME NEW clients, NEW cert
  PROVE  Mcp!Identity(clients, cert)[1] \in {"some", "refused"}
<1>1. \A what : Mcp!Some(what)[1] = "some" /\ Mcp!Refusal(what)[1] = "refused"
  BY DEF Mcp!Some, Mcp!Refusal
<1>2. Mcp!SpiffeId(cert, clients.domains)[1] \in {"some", "refused"}
  BY <1>1 DEF Mcp!SpiffeId
<1> QED BY <1>1, <1>2 DEF Mcp!Identity

\* What certified makes of the request.
LEMMA CertifiedIs ==
  ASSUME NEW listener, NEW request
  PROVE  LET identity == Mcp!Certified(listener, request.peer, request.forwarded) IN
         /\ identity[1] = "some" <=> ByCertificate(listener, request)
         /\ ~Mcp!IsRefusal(identity) <=> ByCertificate(listener, request) \/ WithoutOne(listener, request)
<1> DEFINE identity == Mcp!Certified(listener, request.peer, request.forwarded)
           shown == Shown(listener, request)
<1>1. Mcp!Presented(listener, request.peer, request.forwarded) = shown
  BY DEF Mcp!Presented, Shown, FromProxy
<1>2. identity = IF listener.clients.mode = "off" THEN Mcp!None
                 ELSE IF Mcp!IsRefusal(shown) THEN shown
                 ELSE IF shown = Mcp!None THEN (IF listener.clients.mode = "required" THEN Mcp!Refusal("certificate") ELSE Mcp!None)
                 ELSE IF ~shown[2].admitted THEN Mcp!Refusal("certificate")
                 ELSE Mcp!Identity(listener.clients, shown[2])
  BY <1>1 DEF Mcp!Certified
<1>3. /\ Mcp!None[1] = "none" /\ Mcp!Refusal("certificate")[1] = "refused"
      /\ \A verdict : Mcp!IsRefusal(verdict) <=> verdict[1] = "refused"
  BY DEF Mcp!None, Mcp!Refusal, Mcp!IsRefusal
<1>4. Mcp!Identity(listener.clients, shown[2])[1] \in {"some", "refused"}
  BY IdentityIsOne
<1> HIDE DEF identity, shown
<1> QED BY <1>2, <1>3, <1>4 DEF ByCertificate, WithoutOne, Asked, shown, identity

\* What authenticated makes of the token, and of whether there is a certificate.
LEMMA AuthenticatedIs ==
  ASSUME NEW auth, NEW request, NEW certified \in BOOLEAN
  PROVE  LET principal == Mcp!Authenticated(auth, request.token, certified)
             taken == ByTokenOf(auth, request)
             takesTokens == auth.bearer \/ auth.keys
         IN /\ ~Mcp!IsRefusal(principal) <=>
                  /\ takesTokens /\ request.token.kind # "none" => taken
                  /\ IF auth.all THEN (takesTokens => taken) /\ (auth.certificate => certified)
                     ELSE taken \/ (auth.certificate /\ certified)
            /\ ~Mcp!IsRefusal(principal) => (principal[1] = "some" <=> taken)
            /\ Mcp!IsRefusal(principal) => Mcp!StatusOf(auth, principal[2]) # 200
<1> DEFINE principal == Mcp!Authenticated(auth, request.token, certified)
           taken == ByTokenOf(auth, request)
           takesTokens == auth.bearer \/ auth.keys
           named == IF taken THEN Mcp!Some(request.token.who) ELSE Mcp!None
           refused == IF auth.all THEN (takesTokens /\ ~taken) \/ (auth.certificate /\ ~certified)
                      ELSE ~taken /\ ~(auth.certificate /\ certified)
<1>1. /\ Mcp!None[1] = "none" /\ \A what : Mcp!Some(what)[1] = "some" /\ Mcp!Refusal(what)[1] = "refused"
      /\ \A verdict : Mcp!IsRefusal(verdict) <=> verdict[1] = "refused"
  BY DEF Mcp!None, Mcp!Some, Mcp!Refusal, Mcp!IsRefusal
<1>2. named = Mcp!None <=> ~taken
  BY <1>1
<1>3. principal = IF takesTokens /\ request.token.kind # "none" /\ named = Mcp!None THEN Mcp!Refusal("token")
                  ELSE IF ~(IF auth.all THEN (takesTokens /\ named = Mcp!None) \/ (auth.certificate /\ ~certified)
                            ELSE named = Mcp!None /\ ~(auth.certificate /\ certified)) THEN named
                  ELSE IF takesTokens /\ named = Mcp!None THEN Mcp!Refusal("token") ELSE Mcp!Refusal("certificate")
  BY DEF Mcp!Authenticated, Mcp!TakesTokens, ByTokenOf
<1>4. principal = IF takesTokens /\ request.token.kind # "none" /\ ~taken THEN Mcp!Refusal("token")
                  ELSE IF ~refused THEN named
                  ELSE IF takesTokens /\ ~taken THEN Mcp!Refusal("token") ELSE Mcp!Refusal("certificate")
  <2> HIDE DEF named, taken, principal, takesTokens
  <2> QED BY <1>2, <1>3
<1>5. named[1] \in {"some", "none"} /\ (named[1] = "some" <=> taken)
  BY <1>1
<1>6. \A missing : Mcp!StatusOf(auth, missing) # 200
  BY DEF Mcp!StatusOf
<1> HIDE DEF named, taken, principal, takesTokens
<1>7. Mcp!IsRefusal(principal) <=> (takesTokens /\ request.token.kind # "none" /\ ~taken) \/ refused
  BY <1>1, <1>4, <1>5
<1>8. ~Mcp!IsRefusal(principal) => principal = named
  BY <1>1, <1>4
<1>9. ~Mcp!IsRefusal(principal) => (principal[1] = "some" <=> taken)
  BY <1>5, <1>8
<1> QED BY <1>6, <1>7, <1>9 DEF principal, taken, takesTokens

\* handle_post hands the gateway exactly the requests that are from an allowed origin,
\* find a permit, are with a certificate the listener admits or with none where none is
\* needed, show the credentials that are needed and none that does not check out, and
\* read; and it says whose they are by a credential that they show.
THEOREM McpServesWhomItKnows ==
  ASSUME NEW listener, NEW auth, NEW request
  PROVE  LET answer == Mcp!HandlePost(listener, auth, request) IN
         /\ answer.status = 200 <=>
               /\ Mcp!OriginAllowed(request.origin, listener.origins) /\ request.permit /\ request.reads = 200
               /\ ByCertificate(listener, request) \/ WithoutOne(listener, request)
               /\ Authorized(listener, auth, request)
         /\ answer.status = 200 =>
               /\ answer.as.certificate[1] = "some" <=> ByCertificate(listener, request)
               /\ answer.as.principal[1] = "some" <=> ByTokenOf(auth, request)
<1> DEFINE answer == Mcp!HandlePost(listener, auth, request)
           identity == Mcp!Certified(listener, request.peer, request.forwarded)
           principal == Mcp!Authenticated(auth, request.token, identity[1] = "some")
           allowed == Mcp!OriginAllowed(request.origin, listener.origins)
           certified == ByCertificate(listener, request)
           taken == ByTokenOf(auth, request)
           whose == [principal |-> IF auth = Mcp!Open THEN Mcp!None ELSE principal, certificate |-> identity]
<1>1. answer = IF ~allowed THEN Mcp!Answer(403, Mcp!None)
               ELSE IF ~request.permit THEN Mcp!Answer(503, Mcp!None)
               ELSE IF Mcp!IsRefusal(identity) THEN Mcp!Answer(403, Mcp!None)
               ELSE IF auth # Mcp!Open /\ Mcp!IsRefusal(principal) THEN Mcp!Answer(Mcp!StatusOf(auth, principal[2]), Mcp!None)
               ELSE IF request.reads # 200 THEN Mcp!Answer(request.reads, Mcp!None)
               ELSE Mcp!Answer(200, whose)
  BY DEF Mcp!HandlePost
<1>2. \A status, as : Mcp!Answer(status, as).status = status /\ Mcp!Answer(status, as).as = as
  BY DEF Mcp!Answer
<1>3. /\ identity[1] = "some" <=> certified
      /\ ~Mcp!IsRefusal(identity) <=> certified \/ WithoutOne(listener, request)
  BY CertifiedIs
<1>4. certified \in BOOLEAN /\ (identity[1] = "some") = certified
  BY <1>3 DEF ByCertificate
<1>5. principal = Mcp!Authenticated(auth, request.token, certified)
  BY <1>4
<1>6. /\ Authorized(listener, auth, request) <=> auth = Mcp!Open \/ ~Mcp!IsRefusal(principal)
      /\ ~Mcp!IsRefusal(principal) => (principal[1] = "some" <=> taken)
      /\ Mcp!IsRefusal(principal) => Mcp!StatusOf(auth, principal[2]) # 200
  <2> HIDE DEF principal
  <2>1. /\ ~Mcp!IsRefusal(principal) <=>
               /\ (auth.bearer \/ auth.keys) /\ request.token.kind # "none" => taken
               /\ IF auth.all THEN ((auth.bearer \/ auth.keys) => taken) /\ (auth.certificate => certified)
                  ELSE taken \/ (auth.certificate /\ certified)
        /\ ~Mcp!IsRefusal(principal) => (principal[1] = "some" <=> taken)
        /\ Mcp!IsRefusal(principal) => Mcp!StatusOf(auth, principal[2]) # 200
    BY <1>4, <1>5, AuthenticatedIs
  <2>2. Authorized(listener, auth, request) <=>
          \/ auth = Mcp!Open
          \/ /\ (auth.bearer \/ auth.keys) /\ request.token.kind # "none" => taken
             /\ IF auth.all THEN ((auth.bearer \/ auth.keys) => taken) /\ (auth.certificate => certified)
                ELSE taken \/ (auth.certificate /\ certified)
    BY DEF Authorized
  <2> HIDE DEF taken, certified
  <2> QED BY <2>1, <2>2
<1>7. auth = Mcp!Open => ~taken
  BY DEF Mcp!Open, ByTokenOf
<1>8. whose.certificate = identity /\ whose.principal = IF auth = Mcp!Open THEN Mcp!None ELSE principal
  OBVIOUS
<1>9. Mcp!None[1] = "none"
  BY DEF Mcp!None
<1> HIDE DEF answer, identity, principal, allowed, certified, taken, whose
<1>10. answer.status = 200 <=> /\ allowed /\ request.permit /\ request.reads = 200 /\ ~Mcp!IsRefusal(identity)
                               /\ auth = Mcp!Open \/ ~Mcp!IsRefusal(principal)
  BY <1>1, <1>2, <1>6
<1>11. ASSUME answer.status = 200
       PROVE  (answer.as.certificate[1] = "some" <=> certified) /\ (answer.as.principal[1] = "some" <=> taken)
  <2>1. answer = Mcp!Answer(200, whose)
    BY <1>1, <1>2, <1>6, <1>11
  <2>2. answer.as = whose
    BY <1>2, <2>1
  <2>3. answer.as.certificate = identity
    BY <1>8, <2>2
  <2>4. CASE auth = Mcp!Open
    BY <1>3, <1>7, <1>8, <1>9, <2>2, <2>3, <2>4
  <2>5. CASE auth # Mcp!Open
    <3>1. answer.as.principal = principal /\ ~Mcp!IsRefusal(principal)
      BY <1>8, <1>10, <1>11, <2>2, <2>5
    <3> QED BY <1>3, <1>6, <2>3, <3>1
  <2> QED BY <2>4, <2>5
<1> QED BY <1>3, <1>6, <1>10, <1>11 DEF answer, allowed, certified, taken

\* TrustedProxy: what a client writes into the headers of a forwarded certificate counts
\* for nothing unless the connection is the proxy's, and of the proxy's connection only
\* the headers count: a request is answered alike whatever the other one says.
THEOREM OnlyTheProxyForwards ==
  ASSUME NEW listener, NEW auth, NEW request, NEW other,
         request.peer.addr = other.peer.addr, request.token = other.token, request.origin = other.origin,
         request.permit = other.permit, request.reads = other.reads,
         IF FromProxy(listener, request) THEN request.forwarded = other.forwarded
         ELSE request.peer.presented = other.peer.presented
  PROVE  Mcp!HandlePost(listener, auth, request) = Mcp!HandlePost(listener, auth, other)
<1>1. Mcp!Presented(listener, request.peer, request.forwarded) = Mcp!Presented(listener, other.peer, other.forwarded)
  BY DEF Mcp!Presented, FromProxy
<1>2. Mcp!Certified(listener, request.peer, request.forwarded) = Mcp!Certified(listener, other.peer, other.forwarded)
  BY <1>1 DEF Mcp!Certified
<1> QED BY <1>2 DEF Mcp!HandlePost

===============================================================================
