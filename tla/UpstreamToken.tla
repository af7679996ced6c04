----------------------------- MODULE UpstreamToken -----------------------------
(***************************************************************************)
(* The credentials of an HTTP upstream's requests (send_authorized of      *)
(* http.rs; TokenAuth of oauth.rs, StaticAuth of auth.rs): requests that   *)
(* run at once share a token fetched when one needs it, or a secret read   *)
(* when it was built, and one the upstream refuses goes once more.         *)
(*                                                                         *)
(* A credential is a number, the later the greater.  Its source (the token *)
(* endpoint, or where the secret is kept) gives the newest there is, and   *)
(* the upstream takes those from `floor` on.                               *)
(***************************************************************************)
EXTENDS Integers, Sequences, SequencesExt

CONSTANTS Requests, MaxCredential, MaxFailures

ASSUME TokenAssumption == MaxCredential \in Nat \ {0} /\ MaxFailures \in Nat

VARIABLES
    auth,     \* the kind of credential, and what is kept of it: TokenAuth::cache, StaticAuth::current
    line,     \* who holds `fetching` (`refreshing`), then who waits for it
    request,  \* each request: where send_authorized is
    source,   \* the newest credential the source gives
    floor,    \* the oldest the upstream takes
    failures  \* fetches that failed

tokenVars == <<auth, line, request, source, floor, failures>>

Over == {"answered", "unauthorized", "credentials", "dropped"}
Nothing == 0
Failed == -1

Blank(at) == [at |-> at, for |-> "apply", seen |-> 0, sent |-> Nothing, again |-> FALSE,
              got |-> Nothing]

Kept(kind, latest, expires) ==
    [kind |-> kind, latest |-> latest, expires |-> expires, due |-> FALSE, fetches |-> 0]

\* TokenAuth::new fetches nothing, and its server may say when a token expires;
\* StaticAuth::read has read the secret.
TokenInit ==
    /\ \/ \E expires \in BOOLEAN : auth = Kept("token", Nothing, expires)
       \/ auth = Kept("static", 1, FALSE)
    /\ line = <<>> /\ request = [r \in Requests |-> Blank("apply")]
    /\ source = 1 /\ floor = 1 /\ failures = 0

To(r, at) == request' = [request EXCEPT ![r].at = at]
Ends(r, end) == request' = [request EXCEPT ![r] = Blank(end)]
Asks(r, for) ==
    request' = [request EXCEPT ![r] = [@ EXCEPT !.at = "join", !.for = for, !.seen = auth.fetches]]
Gets(r, got) == request' = [request EXCEPT ![r] = [@ EXCEPT !.at = "fetched", !.got = got]]
Sends(r, credential) ==
    request' = [request EXCEPT ![r] = [@ EXCEPT !.at = "send", !.sent = credential, !.seen = 0, !.got = Nothing]]
Again(r) ==
    request' = [request EXCEPT ![r] = [@ EXCEPT !.at = "apply", !.again = TRUE, !.seen = 0, !.got = Nothing]]

\* Mutant: a lock is not given back.
LeaveLocked(r) == UNCHANGED line

Leave(r) ==
    \/ (\A i \in DOMAIN line : line[i] # r) /\ UNCHANGED line
    \/ \E i \in DOMAIN line : line[i] = r /\ line' = RemoveAt(line, i)

-----------------------------------------------------------------------------
(***************************************************************************)
(* The source and the upstream.                                            *)
(***************************************************************************)

Issue == source < MaxCredential /\ source' = source + 1 /\ UNCHANGED <<auth, line, request, floor, failures>>

\* The upstream takes older credentials no more, once there is a newer one.
Revoke == floor < source /\ floor' = source /\ UNCHANGED <<auth, line, request, source, failures>>

\* MARGIN before the token held expires, counted from when it was asked for.
ComesDue ==
    /\ auth.expires /\ auth.latest > 0 /\ ~auth.due
    /\ auth' = [auth EXCEPT !.due = TRUE]
    /\ UNCHANGED <<line, request, source, floor, failures>>

-----------------------------------------------------------------------------
(***************************************************************************)
(* A request.                                                              *)
(***************************************************************************)

\* The credential held is added, if it is of use.
Held == auth.latest > 0 /\ ~auth.due

Apply(r) ==
    /\ request[r].at = "apply"
    /\ IF Held THEN Sends(r, auth.latest) ELSE Asks(r, "apply")
    /\ UNCHANGED <<auth, line, source, floor, failures>>

\* fetching.lock() is fair: who asks first has it first.
Join(r) ==
    /\ request[r].at = "join"
    /\ line' = Append(line, r) /\ To(r, "line")
    /\ UNCHANGED <<auth, source, floor, failures>>

Turn(r) == request[r].at = "line" /\ Head(line) = r
\* Mutant: everyone who waited fetches.
FetchedNever(r) == FALSE

\* Another fetch has finished since r asked for one.
FetchedSince(r) == auth.latest # Nothing /\ auth.fetches # request[r].seen

\* What fetch_after gives, as `apply` and `refresh` take it.
Take(r, got) ==
    /\ Leave(r)
    /\ CASE got = Failed -> Ends(r, "credentials")
         [] got # Failed /\ request[r].for = "apply" -> Sends(r, got)
         [] got # Failed /\ request[r].for = "refresh" ->
              IF got = request[r].sent THEN Ends(r, "unauthorized")
              ELSE Again(r)

TakeLatest(r) ==
    /\ auth.kind = "token" /\ Turn(r) /\ FetchedSince(r)
    /\ Take(r, auth.latest)
    /\ UNCHANGED <<auth, source, floor, failures>>

StartFetch(r) ==
    /\ auth.kind = "token" /\ Turn(r) /\ ~FetchedSince(r)
    /\ To(r, "fetch")
    /\ UNCHANGED <<auth, line, source, floor, failures>>

\* The token endpoint answers, or the secret is read: not always.
Reached(r, at) ==
    /\ request[r].at = at
    /\ \/ Gets(r, source) /\ UNCHANGED failures
       \/ failures < MaxFailures /\ failures' = failures + 1 /\ Gets(r, Failed)
    /\ UNCHANGED <<auth, line, source, floor>>

FetchAnswered(r) == auth.kind = "token" /\ Reached(r, "fetch")

FetchEnds(r) ==
    /\ auth.kind = "token" /\ request[r].at = "fetched"
    /\ auth' = [auth EXCEPT !.latest = request[r].got, !.due = FALSE, !.fetches = @ + 1]
    /\ Take(r, request[r].got)
    /\ UNCHANGED <<source, floor, failures>>

\* The request goes, and the upstream has it.
Post(r) ==
    /\ request[r].at = "send"
    /\ To(r, "sent")
    /\ UNCHANGED <<auth, line, source, floor, failures>>

Answered(r) ==
    /\ request[r].at = "sent" /\ request[r].sent >= floor
    /\ Ends(r, "answered")
    /\ UNCHANGED <<auth, line, source, floor, failures>>

\* 401: a second one is final.
Refused(r) ==
    /\ request[r].at = "sent" /\ request[r].sent < floor
    /\ IF request[r].again THEN Ends(r, "unauthorized") ELSE To(r, "refused")
    /\ UNCHANGED <<auth, line, source, floor, failures>>

Refresh(r) ==
    /\ auth.kind = "token" /\ request[r].at = "refused"
    /\ IF auth.latest # request[r].sent THEN Again(r) ELSE Asks(r, "refresh")
    /\ UNCHANGED <<auth, line, source, floor, failures>>

-----------------------------------------------------------------------------
\* StaticAuth::refresh: the lock first, then what is held, then the secret.
LockSecret(r) ==
    /\ auth.kind = "static" /\ request[r].at = "refused"
    /\ line' = Append(line, r) /\ To(r, "line")
    /\ UNCHANGED <<auth, source, floor, failures>>

ReadSecret(r) ==
    /\ auth.kind = "static" /\ Turn(r)
    /\ IF auth.latest # request[r].sent
       THEN Leave(r) /\ Again(r)
       ELSE To(r, "read") /\ UNCHANGED line
    /\ UNCHANGED <<auth, source, floor, failures>>

SecretRead(r) == auth.kind = "static" /\ Reached(r, "read")

KeepSecret(r) ==
    /\ auth.kind = "static" /\ request[r].at = "fetched" /\ Leave(r)
    /\ LET got == request[r].got IN
       CASE got = Failed -> Ends(r, "credentials") /\ UNCHANGED auth
         [] got = auth.latest -> Ends(r, "unauthorized") /\ UNCHANGED auth
         [] got \notin {Failed, auth.latest} ->
              auth' = [auth EXCEPT !.latest = got] /\ Again(r)
    /\ UNCHANGED <<source, floor, failures>>

\* Its call's timeout drops the request wherever it is, and what it holds.
Dropped(r) ==
    /\ request[r].at \notin Over
    /\ Ends(r, "dropped") /\ Leave(r)
    /\ UNCHANGED <<auth, source, floor, failures>>

RequestStep(r) ==
    \/ Apply(r) \/ Join(r) \/ TakeLatest(r) \/ StartFetch(r) \/ FetchAnswered(r) \/ FetchEnds(r)
    \/ Post(r) \/ Answered(r) \/ Refused(r) \/ Refresh(r)
    \/ LockSecret(r) \/ ReadSecret(r) \/ SecretRead(r) \/ KeepSecret(r)

TokenNext ==
    \/ Issue \/ Revoke \/ ComesDue
    \/ \E r \in Requests : RequestStep(r) \/ Dropped(r)

-----------------------------------------------------------------------------
\* Each variable has its type (Cache, and what send_authorized holds).
TokenTypeOK ==
    /\ auth \in [kind : {"token", "static"}, latest : {Failed} \cup 0 .. MaxCredential,
                 expires : BOOLEAN, due : BOOLEAN, fetches : Nat]
    /\ \A i \in DOMAIN line : line[i] \in Requests
    /\ \A r \in Requests :
         /\ request[r].at \in {"apply", "join", "line", "fetch", "read", "fetched", "send",
                               "sent", "refused"} \cup Over
    /\ floor \in 1 .. source /\ source \in 1 .. MaxCredential /\ failures \in 0 .. MaxFailures

\* "Requests that need a token while one is being fetched wait for it, and take
\* what it gave", whatever timeouts drop of the line: a token is fetched only when
\* none of use is held, but the one the upstream refused the request that fetches.
FetchesAreUsed ==
    [][\A r \in Requests :
         request[r].at = "line" /\ request'[r].at \in {"fetch", "read"} =>
             ~Held \/ auth.latest = request[r].sent]_tokenVars

\* "Refused, it is fetched afresh, unless another refused request has already":
\* credentials revoked once cost no request, when their successors can be had,
\* whoever gets them. Not so of a token that expires: a fetch begun before the
\* revocation for another reason may give the refused token again.
RevokedOnceCostsNothing ==
    ~auth.expires /\ floor <= 2 => \A r \in Requests : request[r].at # "unauthorized"

\* No fetch more than is needed, and none less.
FetchesAreNeeded == FetchesAreUsed /\ []RevokedOnceCostsNothing

\* Every request ends, whoever is dropped while it holds the lock.
RequestsEnd == \A r \in Requests : <>(request[r].at \in Over)
===============================================================================
