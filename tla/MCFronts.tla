------------------------------- MODULE MCFronts -------------------------------
(***************************************************************************)
(* What the listeners and the admin console keep, each part on its own:    *)
(* `part` says which one this behaviour is of, and the others stay as they *)
(* began.  Sign-ins are followed in two browsers, the whole life of the    *)
(* sessions in one; the listeners' certificate through one reload, command *)
(* or failed write with a trouble, and under one name through more of      *)
(* them, with none.                                                        *)
(***************************************************************************)
EXTENDS ConsoleSessions, ClientCertificates, ListenerCertificate

TwoSets == {{"l"}, {"l", "h"}}
OneOfEach == [c \in Certs |-> IF c = "a" THEN 0 ELSE 9]

VARIABLE part

vars == <<part, sessionVars, certVars, leafVars>>

Init ==
    /\ part \in {"signin", "sessions", "clients", "leaf", "pair"}
    /\ SessionInit /\ CertificatesInit /\ LeafInit
    /\ part # "clients" => ~proxied

\* Sign-ins in every browser, and no use of the sessions they end in.
SignInsMeet ==
    \/ \E b \in Browsers : Login(b)
    \/ \E b \in Browsers, l \in DOMAIN logins : CallbackBegins(b, l) \/ CallbackRefused(b, l)
    \/ \E r \in inflight : CallbackEnds(r) \/ Lost(r)

OneBrowser == SessionNext /\ \A b \in Browsers \ {"b1"} : UNCHANGED jar[b]

OneChange == LeafNext /\ changes' + failures' <= 1
OneName ==
    /\ LeafNext /\ troubles' = 0
    /\ \A p \in Processes : jobs'[p].wanted \cup jobs'[p].cert.names \subseteq {"l"}

Next ==
    \/ part = "signin" /\ SignInsMeet /\ UNCHANGED <<part, certVars, leafVars>>
    \/ part = "sessions" /\ OneBrowser /\ UNCHANGED <<part, certVars, leafVars>>
    \/ part = "clients" /\ CertificatesNext /\ UNCHANGED <<part, sessionVars, leafVars>>
    \/ part = "leaf" /\ OneChange /\ UNCHANGED <<part, sessionVars, certVars>>
    \/ part = "pair" /\ OneName /\ UNCHANGED <<part, sessionVars, certVars>>

Spec == Init /\ [][Next]_vars

\* A browser's session is of its own sign-in, stays while it is used, opens no more once
\* signed out of, and each sign-in finishes once (signin.rs, session.rs).
SessionsHold == SessionsAreTheBrowsers /\ SignedOutStaysOut /\ FinishesOnce /\ UsedSessionsStay

\* No revoked or expired client gets in once the gateway has read so, and no revocation
\* is lost (issued.rs, client_auth.rs).
ClientsHold == RevokedStayOut /\ RevokedIsKept

\* The listeners' own certificate is renewed in time, and its files stay a pair
\* (local_ca.rs, tls.rs).
ServedHolds == ServedIsInTime /\ PairsHold
===============================================================================
