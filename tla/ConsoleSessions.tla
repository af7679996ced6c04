---------------------------- MODULE ConsoleSessions ----------------------------
(***************************************************************************)
(* Signing in to the admin console (signin.rs), its sessions (session.rs)  *)
(* and the part of each request's envelope that reads and renews them      *)
(* (guard.rs).  Browsers keep two cookies; requests and the answers that   *)
(* set cookies cross; the gateway restarts, with another key or the same.  *)
(* A login stands for its state, nonce and PKCE verifier, drawn together.  *)
(* The clock's unit is far longer than from its reading to its use.        *)
(***************************************************************************)
EXTENDS Integers, Sequences, FiniteSets

CONSTANTS Browsers,
          Absolute, IdleFor, RenewAfter, LoginFor,   \* as the source's
          FinishedKept,                           \* FINISHED_KEPT
          MaxDelay,                               \* how long an answer may take
          MaxLogins, MaxTime, MaxInflight, MaxKey, MaxFinishes \* bounds

ASSUME SessionAssumption ==
    /\ {Absolute, IdleFor, RenewAfter, LoginFor, FinishedKept, MaxInflight, MaxKey} \subseteq Nat \ {0}
    /\ {MaxDelay, MaxLogins, MaxTime, MaxFinishes} \subseteq Nat

VARIABLES
    now,
    keys,       \* Sessions::keys: the key that seals, then the one that only opens
    signedOut,  \* Sessions::signed_out
    finished,   \* SignIn::finished, each with its number since the start
    jar,        \* each browser's cookies
    inflight,   \* requests being served
    logins,     \* history: each sign-in begun, by which browser and when
    began,      \* history: of which sign-in each session is; a session's id is its place
    finishes,   \* history: the sign-ins finished since the start, in order
    ended,      \* history: the sessions signed out of since the start
    lastUse,    \* history: when the last use a browser had an answer to began
    retired     \* history: when each key sealed last

sessionVars == <<now, keys, signedOut, finished, jar, inflight,
                 logins, began, finishes, ended, lastUse, retired>>

NoLogin == [key |-> 0, of |-> 0]
NoSession == [key |-> 0, sid |-> 0, exp |-> 0, seen |-> 0]

\* Sessions::seal: whatever was sealed before, the first key seals.
Sealed(sid, exp) == [key |-> keys[1], sid |-> sid, exp |-> exp, seen |-> now]

SessionInit ==
    /\ now = 0 /\ keys = <<1>> /\ signedOut = {} /\ finished = {}
    /\ jar = [b \in Browsers |-> [login |-> NoLogin, session |-> NoSession]]
    /\ inflight = {} /\ logins = <<>> /\ began = <<>> /\ finishes = <<>>
    /\ ended = {}
    /\ lastUse = [b \in Browsers |-> 0] /\ retired = [k \in 1..MaxKey |-> 0]

KeysHeld == {keys[i] : i \in DOMAIN keys}

\* Sessions::open: what it is, by what a cookie seals.
Opens(c) ==
    IF c.key \notin KeysHeld THEN "forged"
    ELSE IF now >= c.exp THEN "expired"
    ELSE IF now >= c.seen + IdleFor THEN "idle"
    ELSE IF \E e \in signedOut : e.sid = c.sid THEN "signed out"
    ELSE "open"

\* Mutant: the session is sealed again as it was, with the time it had.
RenewedAsItWas(c) ==
    IF now < c.seen + RenewAfter THEN NoSession ELSE [Sealed(c.sid, c.exp) EXCEPT !.seen = c.seen]

\* Sessions::renewed: the cookie an answer sets, or none.
Renewed(c) == IF now < c.seen + RenewAfter THEN NoSession ELSE Sealed(c.sid, c.exp)

Begins(kind, b, of, cookie) ==
    /\ Cardinality(inflight) < MaxInflight
    /\ inflight' = inflight \union
         {[kind |-> kind, by |-> b, of |-> of, began |-> now, cookie |-> cookie]}

TimePasses ==
    /\ now < MaxTime /\ \A r \in inflight : now < r.began + MaxDelay
    /\ now' = now + 1
    /\ UNCHANGED <<keys, signedOut, finished, jar, inflight,
                   logins, began, finishes, ended, lastUse, retired>>

\* GET /login: a sign-in begun, sealed in the browser's cookie.
Login(b) ==
    /\ Len(logins) < MaxLogins
    /\ logins' = Append(logins, [by |-> b, iat |-> now])
    /\ jar' = [jar EXCEPT ![b].login = [key |-> keys[1], of |-> Len(logins) + 1]]
    /\ UNCHANGED <<now, keys, signedOut, finished, inflight,
                   began, finishes, ended, lastUse, retired>>

\* finished, what has expired let go.
Remembered == {f \in finished : f.until > now}

\* SignIn::first_finish: once, and the first of too many is forgotten.
ButTheFirst == {f \in Remembered : \E g \in Remembered : g.nth < f.nth}
FirstFinish(l) ==
    /\ \A f \in Remembered : f.state # l
    /\ finished' = (IF Cardinality(Remembered) >= FinishedKept THEN ButTheFirst ELSE Remembered)
         \union {[state |-> l, until |-> logins[l].iat + LoginFor, nth |-> Len(finishes) + 1]}

\* An answer to l, opened in b: its cookie is of that sign-in, and it is not too late.
AnswersItsLogin(b, l) ==
    LET c == jar[b].login
    IN  c.key \in KeysHeld /\ now < logins[c.of].iat + LoginFor /\ c.of = l

\* GET /callback, up to its first await.  The provider's answer to any sign-in may be
\* opened in any browser, and again.
CallbackBegins(b, l) ==
    /\ Len(finishes) < MaxFinishes /\ AnswersItsLogin(b, l) /\ FirstFinish(l)
    /\ finishes' = Append(finishes, l)
    /\ Begins("callback", b, l, NoSession)
    /\ UNCHANGED <<now, keys, signedOut, jar, logins, began, ended, lastUse, retired>>

\* Refused before that, its cookie cleared; what has expired is let go on the way.
CallbackRefused(b, l) ==
    /\ jar[b].login # NoLogin
    /\ IF AnswersItsLogin(b, l)
       THEN (\E f \in Remembered : f.state = l) /\ finished' = Remembered
       ELSE UNCHANGED finished
    /\ jar' = [jar EXCEPT ![b].login = NoLogin]
    /\ UNCHANGED <<now, keys, signedOut, inflight,
                   logins, began, finishes, ended, lastUse, retired>>

\* Its code exchanged and its ID token read: a session, or a sign-in refused.
CallbackEnds(r) ==
    /\ r.kind = "callback" /\ inflight' = inflight \ {r}
    /\ \/ /\ began' = Append(began, r.of)
          /\ jar' = [jar EXCEPT ![r.by] =
               [login |-> NoLogin, session |-> Sealed(Len(began) + 1, now + Absolute)]]
          /\ lastUse' = [lastUse EXCEPT ![r.by] = now]
       \/ jar' = [jar EXCEPT ![r.by].login = NoLogin] /\ UNCHANGED <<began, lastUse>>
    /\ UNCHANGED <<now, keys, signedOut, finished, logins, finishes, ended, retired>>

\* A request with a session's cookie passes the envelope: it is served as that session.
UseBegins(b) ==
    LET c == jar[b].session IN
    /\ c # NoSession /\ Opens(c) = "open"
    /\ Begins("use", b, 0, Renewed(c))
    /\ UNCHANGED <<now, keys, signedOut, finished, jar, logins, began, finishes, ended, lastUse, retired>>

\* POST /logout: the session signed out, and those that have expired let go.
LogoutBegins(b) ==
    LET c == jar[b].session IN
    /\ c # NoSession /\ Opens(c) = "open"
    /\ signedOut' = {e \in signedOut : e.exp > now} \union {[sid |-> c.sid, exp |-> c.exp]}
    /\ ended' = ended \union {c.sid}
    /\ Begins("logout", b, 0, NoSession)
    /\ UNCHANGED <<now, keys, finished, jar, logins, began, finishes, lastUse, retired>>

\* The answer reaches the browser.  A renewal rides on it, unless the route set the
\* cookie itself (renewal_rides); an answer that may be cached for others has none, and
\* is not told apart here from one lost.
Answered(r) ==
    /\ inflight' = inflight \ {r}
    /\ \/ r.kind = "logout" /\ jar' = [jar EXCEPT ![r.by].session = NoSession] /\ UNCHANGED lastUse
       \/ /\ r.kind = "use"
          /\ jar' = [jar EXCEPT ![r.by].session = IF r.cookie = NoSession THEN @ ELSE r.cookie]
          /\ lastUse' = [lastUse EXCEPT ![r.by] = IF r.began > @ THEN r.began ELSE @]
    /\ UNCHANGED <<now, keys, signedOut, finished, logins, began, finishes, ended, retired>>

\* The browser goes away, or the answer does.
Lost(r) ==
    /\ inflight' = inflight \ {r}
    /\ UNCHANGED <<now, keys, signedOut, finished, jar,
                   logins, began, finishes, ended, lastUse, retired>>

\* Another start (keys): with the same keys, with a new one before the old, or without
\* the old, once the sessions it sealed have ended, as the documentation has it.
Ended(k) == now >= retired[k] + Absolute
Restart ==
    /\ \/ UNCHANGED <<keys, retired>>
       \/ /\ \A i \in 2..Len(keys) : Ended(keys[i])
          /\ \/ /\ keys[1] < MaxKey /\ keys' = <<keys[1] + 1, keys[1]>>
                /\ retired' = [retired EXCEPT ![keys[1]] = now]
             \/ Len(keys) > 1 /\ keys' = <<keys[1]>> /\ UNCHANGED retired
    /\ signedOut' = {} /\ finished' = {} /\ inflight' = {}
    /\ finishes' = <<>> /\ ended' = {}
    /\ UNCHANGED <<now, jar, logins, began, lastUse>>

SessionNext ==
    \/ TimePasses \/ Restart
    \/ \E b \in Browsers : Login(b) \/ UseBegins(b) \/ LogoutBegins(b)
    \/ \E b \in Browsers, l \in DOMAIN logins : CallbackBegins(b, l) \/ CallbackRefused(b, l)
    \/ \E r \in inflight : CallbackEnds(r) \/ Answered(r) \/ Lost(r)

\* A browser holds no session but of a sign-in it began, whoever's answer it opened.
SessionsAreTheBrowsers ==
    \A b \in Browsers : LET sid == jar[b].session.sid IN sid # 0 => logins[began[sid]].by = b

\* A session signed out of opens no more until the next start, whatever answers of
\* before it bring its cookie back (Sessions::sign_out).
SignedOutStaysOut ==
    \A b \in Browsers : jar[b].session.sid \in ended => Opens(jar[b].session) # "open"

\* A sign-in that finished finishes again only once FINISHED_KEPT others have since
\* (first_finish).
FinishesOnce ==
    \A i, j \in DOMAIN finishes : i < j /\ finishes[i] = finishes[j] => j - i > FinishedKept

\* A session in use is not lost: to idleness only by as long unused, less what the last
\* renewal and a late answer take; to a new key never (renewed, keys).
Least == IdleFor - (IF RenewAfter > MaxDelay THEN RenewAfter ELSE MaxDelay)
UsedSessionsStay ==
    \A b \in Browsers : LET c == jar[b].session IN
      c # NoSession /\ now < c.exp =>
        /\ Opens(c) # "forged"
        /\ Opens(c) = "idle" => now >= lastUse[b] + Least
================================================================================
