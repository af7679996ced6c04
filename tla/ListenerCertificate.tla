--------------------------- MODULE ListenerCertificate ---------------------------
(***************************************************************************)
(* The local CA and the certificate it issues the listeners: made at the   *)
(* start, kept or issued again as `ensure` finds it (tls/local_ca.rs), and *)
(* again when it is due (tls.rs ListenerTls, reload.rs renew_if_due), with *)
(* `mcpdef tls init`, and its --new-ca, run beside (main.rs).  The gateway *)
(* and the command are two processes, and no lock keeps one out while the  *)
(* other writes.  Each pair, a certificate and its key, goes to disk in    *)
(* three renames (write_pair): either process may die between any two, a   *)
(* rename may fail, and so may the one that puts the old certificate back. *)
(* A certificate is of a key; what the CA and the keys that are nowhere    *)
(* any more were is left out.  A day is a unit of the clock: a process is  *)
(* done long before it ends, and the watch ticks often in it.              *)
(***************************************************************************)
EXTENDS Integers, Sequences, FiniteSets

CONSTANTS CaLifetime, LeafLifetime, RenewBefore, \* in days
          NameSets,                              \* what names the listeners may need
          MaxDay, MaxTroubles, MaxFailures, MaxChanges
                              \* bounds: the time; deaths and rollbacks that fail; the gateway's
                              \* failed writes and builds in a row; reloads and commands

ASSUME LeafAssumption ==
    /\ {CaLifetime, LeafLifetime, RenewBefore} \subseteq Nat \ {0}
    /\ RenewBefore < LeafLifetime
    /\ MaxFailures \in Nat /\ MaxFailures < RenewBefore

VARIABLES
    day, ticked,     \* the time, and whether the watch has found it due since
    ca, leaf,        \* ca.crt and ca.key; tls.crt and tls.key
    jobs,            \* per process, the ensure or the write_pair it is at
    running,         \* whether the gateway serves
    served,          \* the certificate its listeners serve, for the names of its config
    renewAt,         \* ListenerTls::renew_at
    failures,        \* the gateway's writes and builds in a row that failed
    spoilt,          \* history: the pairs a write that was cut short, or met another, may have
                     \* left in halves, and no write since has put there whole
    troubles, changes

leafVars == <<day, ticked, ca, leaf, jobs, running, served, renewAt,
              failures, spoilt, troubles, changes>>

Processes == {"gateway", "command"}
Never == -1
\* A certificate: its key, its names and end, and its CA's key and end.
NoLeaf == [key |-> 0, names |-> {}, until |-> 0, ca |-> 0, caUntil |-> 0]
NoFiles == [cert |-> NoLeaf, key |-> 0]
\* What a process is at: for what, and how far; the names it wants and the CA it holds; the
\* pair it writes, with the certificate it set aside and whether the other wrote meanwhile.
NoJob == [by |-> "none", at |-> "none", wanted |-> {}, ca |-> NoLeaf,
          what |-> "none", cert |-> NoLeaf, aside |-> NoLeaf, crossed |-> FALSE]

LeafInit ==
    /\ day = 0 /\ ticked = FALSE
    /\ ca = NoFiles /\ leaf = NoFiles /\ jobs = [p \in Processes |-> NoJob]
    /\ running = FALSE /\ served = NoLeaf /\ renewAt = Never
    /\ failures = 0 /\ spoilt = {} /\ troubles = 0 /\ changes = 0

\* What is on disk, and a process between its first rename of a pair and its last.
On(what) == IF what = "ca" THEN ca ELSE leaf
Puts(what, files) ==
    IF what = "ca" THEN ca' = files /\ UNCHANGED leaf ELSE leaf' = files /\ UNCHANGED ca
MidWrite(p, what) == jobs[p].what = what /\ jobs[p].at \in {"aside", "certificate"}

\* LocalCa::load: whether what is there is a CA, not half of one, nor another's key.  The
\* files are read one by one, and what is read of a pair the other process is writing is
\* refused, or is what was there at some moment meanwhile.
NoCa == ca = NoFiles
Loaded == ca.cert # NoLeaf /\ ca.key = ca.cert.key

\* LocalCa::until, and usable.
Until(by) == IF day + LeafLifetime < by.until THEN day + LeafLifetime ELSE by.until

\* LocalCa::issue: a certificate a client that trusts the CA takes for each name.
Issues(j) == day < j.ca.until /\ j.wanted \subseteq j.ca.names

\* kept: the pair there, of this CA for exactly these names, and not near its end.
Kept(j) ==
    /\ leaf.cert # NoLeaf /\ leaf.key = leaf.cert.key
    /\ leaf.cert.ca = j.ca.key /\ leaf.cert.names = j.wanted
    /\ leaf.cert.until > day + RenewBefore

\* When it is to be issued again, unless it runs to the CA's own end.
RenewAt(cert) == IF cert.until < cert.caUntil THEN cert.until - RenewBefore ELSE Never

\* install, of what is built with this certificate.
Serve(cert) ==
    /\ running' = TRUE /\ served' = cert
    /\ renewAt' = RenewAt(cert) /\ failures' = 0
ServesOn == UNCHANGED <<running, served, renewAt, failures>>

\* A key for a pair made now and staged to be put in place: of a CA, one that no CA is of whose
\* certificate, or one it issued, is anywhere; of a certificate, one that is not on disk, nor
\* about to be.
Held == UNION {{jobs[p].ca, jobs[p].cert, jobs[p].aside} : p \in Processes}
CaKeys == {ca.key} \cup {c.ca : c \in {ca.cert, leaf.cert, served} \cup Held}
LeafKeys == {leaf.key} \cup {c.key : c \in {leaf.cert} \cup Held}
NewKey(around) == CHOOSE k \in 1 .. (Cardinality(around) + 1) : k \notin around

Goes(p, job) == jobs' = [jobs EXCEPT ![p] = job]
Stage(p, by, what, cert) ==
    Goes(p, [NoJob EXCEPT !.by = by, !.at = "staged", !.what = what, !.cert = cert])
NewCa(wanted) == [key |-> NewKey(CaKeys), names |-> wanted, until |-> day + CaLifetime,
                  ca |-> NewKey(CaKeys), caUntil |-> day + CaLifetime]
NewLeaf(j) == [key |-> NewKey(LeafKeys), names |-> j.wanted, until |-> Until(j.ca),
               ca |-> j.ca.key, caUntil |-> j.ca.until]

-----------------------------------------------------------------------------
\* ensure's first half: the CA there is loaded, or one is made, by what may make one.
Holds(p, by, wanted, cert) ==
    Goes(p, [NoJob EXCEPT !.by = by, !.at = "look", !.wanted = wanted, !.ca = cert])
Load(p, by, wanted) ==
    \/ NoCa /\ by \in {"start", "init"} /\ Stage(p, by, "ca", NewCa(wanted))
    \/ Loaded /\ Holds(p, by, wanted, ca.cert)

\* No CA for a gateway that runs, or half of one.
LoadRefused(by) == ~Loaded /\ (NoCa => by \notin {"start", "init"})

\* The certificate is there: a command is done, the gateway goes on to build the rest.
Ensured(p, by, cert) ==
    Goes(p, IF p = "gateway" THEN [NoJob EXCEPT !.by = by, !.at = "built", !.cert = cert] ELSE NoJob)

\* Its second: the pair there is kept, or one issued by the CA it holds, which may not be the
\* one there any more; or that CA has ended, or does not vouch for the names.
Looks(p) ==
    LET j == jobs[p] IN
    /\ j.at = "look"
    /\ \/ Kept(j) /\ Ensured(p, j.by, leaf.cert)
       \/ ~Kept(j) /\ Issues(j) /\ Stage(p, j.by, "leaf", NewLeaf(j))
       \/ ~Kept(j) /\ ~Issues(j) /\ Goes(p, NoJob)
    /\ ServesOn /\ UNCHANGED <<day, ticked, ca, leaf, spoilt, troubles, changes>>

Starts ==
    /\ ~running /\ jobs["gateway"] = NoJob
    /\ \E wanted \in NameSets : Load("gateway", "start", wanted)
    /\ ServesOn /\ UNCHANGED <<day, ticked, ca, leaf, spoilt, troubles, changes>>

\* A reload, with the names a config has now; one that is refused changes nothing.
Reloads ==
    /\ running /\ jobs["gateway"] = NoJob /\ changes < MaxChanges /\ changes' = changes + 1
    /\ \E wanted \in NameSets : Load("gateway", "reload", wanted)
    /\ ServesOn /\ UNCHANGED <<day, ticked, ca, leaf, spoilt, troubles>>

\* A tick of the watch: what is due is issued again, as the config in effect says.  One that
\* is refused for a CA a command is putting there is of no account: more come that day.
Due == renewAt # Never /\ day >= renewAt
Ticks ==
    /\ running /\ jobs["gateway"] = NoJob /\ Due /\ ~ticked /\ ticked' = TRUE
    /\ \/ Load("gateway", "tick", served.names)
       \/ LoadRefused("tick") /\ ~MidWrite("command", "ca") /\ UNCHANGED jobs
    /\ ServesOn /\ UNCHANGED <<day, ca, leaf, spoilt, troubles, changes>>

\* The gateway's failures are counted.
Fails(p) ==
    IF p = "command" THEN UNCHANGED failures ELSE failures < MaxFailures /\ failures' = failures + 1

\* What the gateway built is installed; or the rest of it was not to be had, a file the config
\* names not reading, and the pair that was issued stays on disk.
Installs ==
    /\ jobs["gateway"].at = "built" /\ Serve(jobs["gateway"].cert) /\ Goes("gateway", NoJob)
    /\ UNCHANGED <<day, ticked, ca, leaf, spoilt, troubles, changes>>
BuildRefused ==
    /\ jobs["gateway"].at = "built" /\ Goes("gateway", NoJob) /\ Fails("gateway")
    /\ UNCHANGED <<day, ticked, ca, leaf, running, served, renewAt, spoilt, troubles, changes>>

\* `tls init`: ensure.  With --new-ca: a new CA put in place, then ensure, which loads it as
\* any other, unless its CRL cannot be written.
Inits ==
    /\ jobs["command"] = NoJob /\ changes < MaxChanges /\ changes' = changes + 1
    /\ \E wanted \in NameSets : Load("command", "init", wanted)
    /\ ServesOn /\ UNCHANGED <<day, ticked, ca, leaf, spoilt, troubles>>
NewCaMade ==
    /\ jobs["command"] = NoJob /\ changes < MaxChanges /\ changes' = changes + 1
    /\ \E wanted \in NameSets : Stage("command", "new-ca", "ca", NewCa(wanted))
    /\ ServesOn /\ UNCHANGED <<day, ticked, ca, leaf, spoilt, troubles>>
LoadsAgain ==
    /\ jobs["command"].at = "load"
    /\ Load("command", "init", jobs["command"].wanted) \/ Goes("command", NoJob)
    /\ ServesOn /\ UNCHANGED <<day, ticked, ca, leaf, spoilt, troubles, changes>>

-----------------------------------------------------------------------------
\* write_pair, a rename at a time: the old certificate set aside, the new one, its key.  Both
\* processes may be at the same pair: a history of it, in their jobs and in `spoilt`.
SetsAside(p, w, files) ==
    LET met == {q \in Processes \ {p} : MidWrite(q, w.what)} IN
    /\ w.at = "staged" /\ Puts(w.what, [files EXCEPT !.cert = NoLeaf])
    /\ jobs' = [q \in Processes |->
                  IF q = p
                  THEN [w EXCEPT !.at = "aside", !.aside = files.cert, !.crossed = met # {}]
                  ELSE [jobs[q] EXCEPT !.crossed = @ \/ q \in met]]
    /\ spoilt' = IF met = {} THEN spoilt ELSE spoilt \cup {w.what}
PutsCertificate(p, w, files) ==
    /\ w.at = "aside" /\ Puts(w.what, [files EXCEPT !.cert = w.cert])
    /\ Goes(p, [w EXCEPT !.at = "certificate"]) /\ UNCHANGED spoilt
PutsKey(p, w, files) ==
    /\ w.at = "certificate" /\ Puts(w.what, [files EXCEPT !.key = w.cert.key])
    /\ \/ w.what = "leaf" /\ Ensured(p, w.by, w.cert)
       \/ w.what = "ca" /\ w.by # "new-ca" /\ Holds(p, w.by, w.cert.names, w.cert)
       \/ w.by = "new-ca" /\ Goes(p, [NoJob EXCEPT !.by = "init", !.at = "load", !.wanted = w.cert.names])
    /\ spoilt' = IF w.crossed THEN spoilt ELSE spoilt \ {w.what}

Writes(p) ==
    LET w == jobs[p]  files == On(w.what) IN
    /\ SetsAside(p, w, files) \/ PutsCertificate(p, w, files) \/ PutsKey(p, w, files)
    /\ ServesOn /\ UNCHANGED <<day, ticked, troubles, changes>>

\* Mutant: the certificate is left where it was set aside.
WriteFailsThere(p) ==
    LET w == jobs[p]  files == On(w.what) IN
    /\ w.at \in {"staged", "aside", "certificate"} /\ Fails(p)
    /\ Puts(w.what, files) /\ Goes(p, NoJob)
    /\ UNCHANGED <<day, ticked, running, served, renewAt, spoilt, troubles, changes>>

\* A rename fails: the certificate set aside goes back.
WriteFails(p) ==
    LET w == jobs[p]  files == On(w.what) IN
    /\ w.at \in {"staged", "aside", "certificate"} /\ Fails(p)
    /\ Puts(w.what, [files EXCEPT !.cert = IF w.at = "staged" THEN @ ELSE w.aside])
    /\ Goes(p, NoJob)
    /\ UNCHANGED <<day, ticked, running, served, renewAt, spoilt, troubles, changes>>

\* Or does not, its own rename failing too, and so perhaps the removal before it.
RollbackFails(p) ==
    LET w == jobs[p]  files == On(w.what) IN
    /\ w.at \in {"aside", "certificate"} /\ Fails(p)
    /\ troubles < MaxTroubles /\ troubles' = troubles + 1
    /\ \E cert \in {NoLeaf, files.cert} : Puts(w.what, [files EXCEPT !.cert = cert])
    /\ Goes(p, NoJob) /\ spoilt' = spoilt \cup {w.what}
    /\ UNCHANGED <<day, ticked, running, served, renewAt, changes>>

\* A process dies, whatever it is at.
Dies(p) ==
    /\ troubles < MaxTroubles /\ troubles' = troubles + 1
    /\ jobs[p] # NoJob \/ (p = "gateway" /\ running)
    /\ Goes(p, NoJob)
    /\ spoilt' = spoilt \cup {what \in {"ca", "leaf"} : MidWrite(p, what)}
    /\ IF p = "command" THEN UNCHANGED <<ticked, running, served, renewAt>>
       ELSE ticked' = FALSE /\ running' = FALSE /\ served' = NoLeaf /\ renewAt' = Never
    /\ UNCHANGED <<day, ca, leaf, failures, changes>>

\* A day goes by; no process is part way, and the watch has ticked if there was need.
DayEnds ==
    /\ day < MaxDay /\ day' = day + 1 /\ (running /\ Due => ticked) /\ ticked' = FALSE
    /\ \A p \in Processes : jobs[p] = NoJob
    /\ UNCHANGED <<ca, leaf, jobs, running, served, renewAt, failures,
                   spoilt, troubles, changes>>

LeafNext ==
    \/ Starts \/ Reloads \/ Ticks \/ Installs \/ BuildRefused
    \/ Inits \/ NewCaMade \/ LoadsAgain
    \/ \E p \in Processes : Looks(p) \/ Writes(p) \/ WriteFails(p) \/ RollbackFails(p) \/ Dies(p)
    \/ DayEnds

-----------------------------------------------------------------------------
\* While it runs, the gateway serves no certificate that has ended, unless its CA has, or
\* is not the one there, whole, any more: one is issued again in time, whatever a command
\* does beside it, whatever processes died, and though writes and builds failed on fewer days
\* than are left it (ensure, renew_if_due).
ServedIsInTime ==
    running /\ served.until <= day =>
        day >= served.caUntil \/ served.ca # ca.cert.key \/ "ca" \in spoilt

\* A write that fails leaves the pair there was.  A certificate and a key that are not a pair
\* are left only by a process that dies in the middle, by a rollback that fails, or by two
\* processes at the same pair at once, until one is written whole again (write_pair).
PairsHold ==
    \A what \in {"ca", "leaf"} :
        (\A p \in Processes : ~MidWrite(p, what)) /\ what \notin spoilt =>
            On(what).cert.key = On(what).key
==================================================================================
