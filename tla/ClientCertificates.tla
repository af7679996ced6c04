--------------------------- MODULE ClientCertificates ---------------------------
(***************************************************************************)
(* The certificates clients present: issued and revoked by commands beside *)
(* the gateway (tls/issued.rs, main.rs), checked at a handshake, on a      *)
(* connection kept through reloads, and when a trusted proxy forwards one  *)
(* (tls.rs accept, client_auth.rs ClientCerts, listener.rs certified).  A  *)
(* command may die anywhere; what it renames into place stays.  A CA is    *)
(* known by its number, a client's certificate by its own.                 *)
(***************************************************************************)
EXTENDS Integers, FiniteSets

CONSTANTS Certs,        \* what may be issued
          Lasts,        \* how long each lasts, from when it is issued
          Conns,        \* connections at once
          Commands,     \* commands at once
          ProxyTrusted, \* whether requests come with what a proxy forwards, or not
          MaxAge, MaxCas, MaxChecks, MaxCommands \* bounds

ASSUME CertificateAssumption ==
    /\ Lasts \in [Certs -> Nat]
    /\ ProxyTrusted \subseteq BOOLEAN /\ ProxyTrusted # {}
    /\ {MaxAge, MaxCas, MaxChecks, MaxCommands} \subseteq Nat

VARIABLES
    age,        \* the time
    disk,       \* ca.crt; revoked.json; ca.crl
    command,    \* each command: what it does, and how far it is
    commands,   \* how many there were
    issuedAs,   \* each certificate handed out: its CA, and when it expires
    check,      \* the slot's ClientCerts: the CA and CRL it holds, its generation
    building,   \* the one a reload builds
    generation, \* GENERATION
    proxied,    \* whether the listener trusts a proxy
    conn,       \* each connection
    revokedBy,  \* history: the revocations their commands said were done
    admitted    \* history: the last request let through

certVars == <<age, disk, command, commands, issuedAs, check, building, generation, proxied,
              conn, revokedBy, admitted>>

NoCert == "none"
NotIssued == [ca |-> 0, until |-> 0]
NoCommand == [op |-> "none", cert |-> NoCert, ca |-> 0, read |-> {}, at |-> "none"]
NoCheck == [ca |-> 0, crl |-> [ca |-> 0, revoked |-> {}], generation |-> 0, covers |-> {}]
NoConn == [state |-> "none", cert |-> NoCert, by |-> NoCheck, checked |-> 0, began |-> 0]
Unchecked == 0

\* ClientCerts::build from the files as they are.
ReadNow(g) == [ca |-> disk.ca, crl |-> disk.crl, generation |-> g, covers |-> revokedBy]

CertificatesInit ==
    /\ age = 0
    /\ disk = [ca |-> 1, revoked |-> {}, crl |-> [ca |-> 1, revoked |-> {}]]
    /\ command = [k \in Commands |-> NoCommand] /\ commands = 0
    /\ issuedAs = [c \in Certs |-> NotIssued]
    /\ check = [NoCheck EXCEPT !.ca = 1, !.crl.ca = 1, !.generation = 1]
    /\ building = NoCheck /\ generation = 1
    /\ proxied \in ProxyTrusted
    /\ conn = [n \in Conns |-> NoConn]
    /\ revokedBy = {} /\ admitted = [cert |-> NoCert, began |-> 0, covers |-> {}]

Ages ==
    /\ age < MaxAge /\ age' = age + 1
    /\ UNCHANGED <<disk, command, commands, issuedAs, check, building, generation, proxied,
                   conn, revokedBy, admitted>>

-----------------------------------------------------------------------------
\* `tls issue`, `tls revoke` and `tls init --new-ca`, which starts with the CA itself;
\* each reads the CA, then revoked.json.
CommandBegins(k) ==
    /\ command[k] = NoCommand /\ commands < MaxCommands /\ commands' = commands + 1
    /\ \/ \E c \in Certs : /\ issuedAs[c] = NotIssued
                           /\ command' = [command EXCEPT ![k] =
                                [NoCommand EXCEPT !.op = "issue", !.cert = c, !.ca = disk.ca, !.at = "ca"]]
                           /\ UNCHANGED disk
       \/ \E c \in Certs : /\ issuedAs[c] # NotIssued
                           /\ command' = [command EXCEPT ![k] =
                                [NoCommand EXCEPT !.op = "revoke", !.cert = c, !.ca = disk.ca, !.at = "ca"]]
                           /\ UNCHANGED disk
       \/ /\ disk.ca < MaxCas /\ disk' = [disk EXCEPT !.ca = @ + 1]
          /\ command' = [command EXCEPT ![k] =
               [NoCommand EXCEPT !.op = "new-ca", !.ca = disk.ca + 1, !.at = "ca"]]
    /\ UNCHANGED <<age, issuedAs, check, building, generation, proxied, conn, revokedBy, admitted>>

\* Revocations::read, and revoke's own addition to what it read.
CommandReads(k) ==
    /\ command[k].at = "ca"
    /\ command' = [command EXCEPT ![k].at = "read",
         ![k].read = disk.revoked \union (IF command[k].op = "revoke" THEN {command[k].cert} ELSE {})]
    /\ UNCHANGED <<age, disk, commands, issuedAs, check, building, generation, proxied,
                   conn, revokedBy, admitted>>

\* write_crl: the list first, the CRL after it.
WriteList(k) ==
    /\ command[k].at = "read"
    /\ disk' = [disk EXCEPT !.revoked = command[k].read]
    /\ command' = [command EXCEPT ![k].at = "list"]
    /\ UNCHANGED <<age, commands, issuedAs, check, building, generation, proxied,
                   conn, revokedBy, admitted>>

WriteCrl(k) ==
    /\ command[k].at = "list"
    /\ disk' = [disk EXCEPT !.crl = [ca |-> command[k].ca, revoked |-> command[k].read]]
    /\ command' = [command EXCEPT ![k].at = "crl"]
    /\ UNCHANGED <<age, commands, issuedAs, check, building, generation, proxied,
                   conn, revokedBy, admitted>>

\* Whether the check t was built with takes c, as rustls does: the chain, the CRL of its
\* CA and the dates.
Verified(t, c) ==
    /\ issuedAs[c].ca = t.ca /\ t.crl.ca = t.ca
    /\ c \notin t.crl.revoked /\ age <= issuedAs[c].until

\* The command is done: a certificate a gateway would take (check), or a revocation.
CommandEnds(k) ==
    LET m == command[k] IN
    /\ m.at = "crl" /\ command' = [command EXCEPT ![k] = NoCommand]
    /\ \/ /\ m.op = "issue" /\ m.ca = disk.ca /\ disk.crl.ca = m.ca
          /\ issuedAs' = [issuedAs EXCEPT ![m.cert] = [ca |-> m.ca, until |-> age + Lasts[m.cert]]]
          /\ UNCHANGED revokedBy
       \/ m.op = "issue" /\ (m.ca # disk.ca \/ disk.crl.ca # m.ca) /\ UNCHANGED <<issuedAs, revokedBy>>
       \/ m.op = "revoke" /\ revokedBy' = revokedBy \union {m.cert} /\ UNCHANGED issuedAs
       \/ m.op = "new-ca" /\ UNCHANGED <<issuedAs, revokedBy>>
    /\ UNCHANGED <<age, disk, commands, check, building, generation, proxied, conn, admitted>>

\* The command dies, or a write fails.
CommandDies(k) ==
    /\ command[k] # NoCommand /\ command' = [command EXCEPT ![k] = NoCommand]
    /\ UNCHANGED <<age, disk, commands, issuedAs, check, building, generation, proxied,
                   conn, revokedBy, admitted>>

-----------------------------------------------------------------------------
\* A reload, or a renewal, builds the check again: the CA read, then the CRL.
BuildReadsCa ==
    /\ building = NoCheck /\ generation < MaxChecks
    /\ building' = [NoCheck EXCEPT !.ca = disk.ca, !.covers = revokedBy]
    /\ UNCHANGED <<age, disk, command, commands, issuedAs, check, generation, proxied,
                   conn, revokedBy, admitted>>

BuildReadsCrl ==
    /\ building.ca # 0 /\ building.generation = 0
    /\ generation' = generation + 1
    /\ building' = [building EXCEPT !.crl = disk.crl, !.generation = generation']
    /\ UNCHANGED <<age, disk, command, commands, issuedAs, check, proxied, conn, revokedBy, admitted>>

\* ListenerTls::install; or the reload is refused.
BuildEnds ==
    /\ building.generation # 0 /\ building' = NoCheck
    /\ check' \in {building, check}
    /\ UNCHANGED <<age, disk, command, commands, issuedAs, generation, proxied,
                   conn, revokedBy, admitted>>

\* The gateway starts again: what it reads is whole, and its connections are gone.
GatewayRestarts ==
    /\ generation < MaxChecks /\ generation' = generation + 1
    /\ check' = ReadNow(generation') /\ building' = NoCheck
    /\ conn' = [n \in Conns |-> NoConn]
    /\ UNCHANGED <<age, disk, command, commands, issuedAs, proxied, revokedBy, admitted>>

-----------------------------------------------------------------------------
\* accept: the slot is loaded as a connection comes, and its handshake ends later, with
\* the certificate the check of then takes.
HandshakeBegins(n) ==
    /\ conn[n].state = "none"
    /\ conn' = [conn EXCEPT ![n].state = "handshake", ![n].by = check]
    /\ UNCHANGED <<age, disk, command, commands, issuedAs, check, building, generation, proxied,
                   revokedBy, admitted>>

\* Mutant: it is taken as checked by the slot of the handshake's end.
HandshakeEndsChecked(n) ==
    /\ conn[n].state = "handshake"
    /\ \E c \in {c \in Certs : issuedAs[c] # NotIssued /\ Verified(conn[n].by, c)} :
         conn' = [conn EXCEPT ![n] = [NoConn EXCEPT !.state = "open", !.cert = c,
                                      !.checked = check.generation]]
    /\ UNCHANGED <<age, disk, command, commands, issuedAs, check, building, generation, proxied,
                   revokedBy, admitted>>

HandshakeEnds(n) ==
    /\ conn[n].state = "handshake"
    /\ \E c \in {c \in Certs : issuedAs[c] # NotIssued /\ Verified(conn[n].by, c)} :
         conn' = [conn EXCEPT ![n] = [NoConn EXCEPT !.state = "open", !.cert = c,
                                      !.checked = conn[n].by.generation]]
    /\ UNCHANGED <<age, disk, command, commands, issuedAs, check, building, generation, proxied,
                   revokedBy, admitted>>

\* A connection with no certificate to check at its handshake: a proxy's.
ProxyConnects(n) ==
    /\ proxied /\ conn[n].state = "none" /\ conn' = [conn EXCEPT ![n].state = "open"]
    /\ UNCHANGED <<age, disk, command, commands, issuedAs, check, building, generation, proxied,
                   revokedBy, admitted>>

\* certified: the slot loaded and the clock read; the proxy's own certificate is not its
\* client's, and what it forwards was checked by none.
RequestBegins(n) ==
    /\ conn[n].state = "open"
    /\ \/ ~proxied /\ conn' = [conn EXCEPT ![n].state = "request", ![n].by = check, ![n].began = age]
       \/ /\ proxied
          /\ \E c \in {c \in Certs : issuedAs[c] # NotIssued} :
               conn' = [conn EXCEPT ![n] = [state |-> "request", cert |-> c, by |-> check,
                                            checked |-> Unchecked, began |-> age]]
    /\ UNCHANGED <<age, disk, command, commands, issuedAs, check, building, generation, proxied,
                   revokedBy, admitted>>

\* ClientCerts::admit.
Admits(r) ==
    /\ r.began <= issuedAs[r.cert].until
    /\ r.checked = r.by.generation \/ Verified(r.by, r.cert)

RequestEnds(n) ==
    LET r == conn[n] IN
    /\ r.state = "request"
    /\ conn' = [conn EXCEPT ![n] = [NoConn EXCEPT !.state = "open", !.cert = r.cert,
         !.checked = IF Admits(r) THEN r.by.generation ELSE r.checked]]
    /\ admitted' = (IF Admits(r)
                    THEN [cert |-> r.cert, began |-> r.began, covers |-> r.by.covers] ELSE admitted)
    /\ UNCHANGED <<age, disk, command, commands, issuedAs, check, building, generation, proxied, revokedBy>>

Disconnects(n) ==
    /\ conn[n].state # "none" /\ conn' = [conn EXCEPT ![n] = NoConn]
    /\ UNCHANGED <<age, disk, command, commands, issuedAs, check, building, generation, proxied,
                   revokedBy, admitted>>

CertificatesNext ==
    \/ Ages \/ BuildReadsCa \/ BuildReadsCrl \/ BuildEnds \/ GatewayRestarts
    \/ \E k \in Commands : \/ CommandBegins(k) \/ CommandReads(k) \/ WriteList(k) \/ WriteCrl(k)
                           \/ CommandEnds(k) \/ CommandDies(k)
    \/ \E n \in Conns : \/ HandshakeBegins(n) \/ HandshakeEnds(n) \/ ProxyConnects(n)
                        \/ RequestBegins(n) \/ RequestEnds(n) \/ Disconnects(n)

\* A certificate whose revocation its command said was done lets no request in that
\* begins after a reload that began after that, on no connection, handshaken when it
\* may; nor does one that had expired (ClientCerts::admit, issued.rs write_crl).
RevokedStayOut ==
    admitted.cert # NoCert =>
        /\ admitted.cert \notin admitted.covers
        /\ admitted.began <= issuedAs[admitted.cert].until

\* What is revoked is lost from no list, with commands one at a time, wherever they die
\* (write_crl).
RevokedIsKept == revokedBy \subseteq disk.revoked
================================================================================
