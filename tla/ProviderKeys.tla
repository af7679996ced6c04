------------------------------ MODULE ProviderKeys ------------------------------
(***************************************************************************)
(* An identity provider and what the gateway keeps of it: its keys, read   *)
(* again when a token names one not held (listener.rs                      *)
(* verify_with_rotation, SignIn::rotated, auth lib.rs Verifier), and the   *)
(* provider itself, looked for when a sign-in needs it (SignIn::provider). *)
(* The keys are known by the number of the document that served them:      *)
(* document v holds key v, and v - 1 until the next.                       *)
(***************************************************************************)
EXTENDS Integers, FiniteSets

CONSTANTS Tokens,       \* requests with a token
          SignIns,      \* sign-ins
          MinRefresh,   \* min_refresh_interval
          FetchLimit,   \* FETCH_TIMEOUT, less than that
          LookAgain,    \* LOOK_AGAIN
          LookLimit,    \* the fetches of one look, each with its limit
          MaxRotations, MaxMishaps \* bounds: new documents; fetches that fail, and callers that leave

ASSUME KeyAssumption ==
    /\ {MinRefresh, FetchLimit, LookAgain, LookLimit} \subseteq Nat \ {0}
    /\ FetchLimit < MinRefresh
    /\ {MaxRotations, MaxMishaps} \subseteq Nat

VARIABLES
    published,  \* the document the provider serves
    answers,    \* whether it answers
    mishaps,    \* fetches that failed
    held,       \* Verifier::jwks, as the document's number
    since,      \* the time since last_refresh, up to MinRefresh
    token,      \* each request: its key, how far it is, and the document it has read
    provider,   \* SignIn::provider: whether it is found
    looked,     \* the time since SignIn::looked, up to LookAgain, when it is set
    look        \* each sign-in, and the start of the gateway: how far its look is

keyVars == <<published, answers, mishaps, held, since, token, provider, looked, look>>

Start == "start"      \* with_sign_in's look, in the background
Lookers == SignIns \union {Start}
Unset == -1
NotBegun == [state |-> "idle", key |-> 0, read |-> 0, age |-> 0]

KeyInit ==
    /\ published = 1 /\ answers \in BOOLEAN /\ mishaps = 0
    /\ held = 1 /\ since = MinRefresh /\ token = [t \in Tokens |-> NotBegun]
    /\ provider = FALSE /\ looked = Unset
    /\ \E begun \in {"looking", "idle"} : \* whether the console signs people in
         look = [s \in Lookers |-> [state |-> IF s = Start THEN begun ELSE "idle", age |-> 0]]

KeysOf(v) == {v, v - 1} \ {0}
Bogus == published + 2

\* Time passes: no fetch outlasts its limit.
Tick ==
    /\ \A t \in Tokens : token[t].state = "fetching" => token[t].age < FetchLimit
    /\ \A s \in Lookers : look[s].state = "looking" => look[s].age < LookLimit
    /\ \/ since < MinRefresh \/ looked \in 0..(LookAgain - 1)
       \/ \E t \in Tokens : token[t].state = "fetching"
       \/ \E s \in Lookers : look[s].state = "looking"
    /\ since' = IF since < MinRefresh THEN since + 1 ELSE since
    /\ looked' = IF looked \in 0..(LookAgain - 1) THEN looked + 1 ELSE looked
    /\ token' = [t \in Tokens |-> IF token[t].state = "fetching"
                                  THEN [token[t] EXCEPT !.age = @ + 1] ELSE token[t]]
    /\ look' = [s \in Lookers |-> IF look[s].state = "looking"
                                  THEN [look[s] EXCEPT !.age = @ + 1] ELSE look[s]]
    /\ UNCHANGED <<published, answers, mishaps, held, provider>>

Rotate ==
    /\ published <= MaxRotations /\ published' = published + 1
    /\ UNCHANGED <<answers, mishaps, held, since, token, provider, looked, look>>

ComesUp == ~answers /\ answers' = TRUE /\ UNCHANGED <<published, mishaps, held, since, token, provider, looked, look>>

\* Mutant: a refresh that came through is what counts.
AttemptWheneverDue == since = MinRefresh /\ UNCHANGED since

\* Verifier::should_attempt_refresh: the attempt reserves the slot, whatever comes of it.
ShouldAttemptRefresh == since = MinRefresh /\ since' = 0

\* A token signed with key k: taken, fetched for, or refused.
Present(t, k) ==
    /\ token[t].state = "idle"
    /\ \/ k \in KeysOf(held) /\ token' = [token EXCEPT ![t].state = "taken", ![t].key = k] /\ UNCHANGED since
       \/ /\ k \notin KeysOf(held) /\ ShouldAttemptRefresh
          /\ token' = [token EXCEPT ![t] = [state |-> "fetching", key |-> k, read |-> 0, age |-> 0]]
       \/ /\ k \notin KeysOf(held) /\ since < MinRefresh
          /\ token' = [token EXCEPT ![t].state = "refused", ![t].key = k] /\ UNCHANGED since
    /\ UNCHANGED <<published, answers, mishaps, held, provider, looked, look>>

\* The provider answers with the document of the moment; it arrives later.
Served(t) ==
    /\ answers /\ token[t].state = "fetching" /\ token[t].read = 0
    /\ token' = [token EXCEPT ![t].read = published]
    /\ UNCHANGED <<published, answers, mishaps, held, since, provider, looked, look>>

\* refresh_jwks, and the token tried once more.
Refreshed(t) ==
    /\ token[t].state = "fetching" /\ token[t].read # 0
    /\ held' = token[t].read
    /\ token' = [token EXCEPT ![t].state = IF token[t].key \in KeysOf(held') THEN "taken" ELSE "refused"]
    /\ UNCHANGED <<published, answers, mishaps, since, provider, looked, look>>

\* The fetch fails or takes too long, or its caller leaves and takes it along.
FetchFails(t) ==
    /\ token[t].state = "fetching"
    /\ \/ mishaps < MaxMishaps /\ mishaps' = mishaps + 1
       \/ ~answers /\ UNCHANGED mishaps
    /\ token' = [token EXCEPT ![t].state = "refused"]
    /\ UNCHANGED <<published, answers, held, since, provider, looked, look>>

\* The client tries again, with this token or another.
TriesAgain(t) ==
    /\ token[t].state \in {"taken", "refused"} /\ token' = [token EXCEPT ![t] = NotBegun]
    /\ UNCHANGED <<published, answers, mishaps, held, since, provider, looked, look>>

\* SignIn::provider: found before; looked for just now; or looked for now.
Ask(s) ==
    /\ s # Start /\ look[s].state = "idle"
    /\ \/ provider /\ look' = [look EXCEPT ![s].state = "found"] /\ UNCHANGED looked
       \/ /\ ~provider /\ looked \in 0..(LookAgain - 1)
          /\ look' = [look EXCEPT ![s].state = "unavailable"] /\ UNCHANGED looked
       \/ /\ ~provider /\ looked \in {Unset, LookAgain} /\ looked' = 0
          /\ look' = [look EXCEPT ![s] = [state |-> "looking", age |-> 0]]
    /\ UNCHANGED <<published, answers, mishaps, held, since, token, provider>>

\* SignIn::find, as the provider is when it answers; discover's outcome.
Finds(s) ==
    /\ answers /\ look[s].state = "looking"
    /\ provider' = TRUE /\ looked' = Unset
    /\ look' = [look EXCEPT ![s].state = "found"]
    /\ UNCHANGED <<published, answers, mishaps, held, since, token>>

FindsNot(s) ==
    /\ look[s].state = "looking" /\ (answers => mishaps < MaxMishaps)
    /\ mishaps' = (IF answers THEN mishaps + 1 ELSE mishaps)
    /\ looked' = 0 /\ look' = [look EXCEPT ![s].state = "unavailable"]
    /\ UNCHANGED <<published, answers, held, since, token, provider>>

\* The browser goes away, and its look with it.
LookDropped(s) ==
    /\ s # Start /\ look[s].state = "looking" /\ mishaps < MaxMishaps
    /\ mishaps' = mishaps + 1 /\ look' = [look EXCEPT ![s].state = "unavailable"]
    /\ UNCHANGED <<published, answers, held, since, token, provider, looked>>

AsksAgain(s) ==
    /\ s # Start /\ look[s].state \in {"found", "unavailable"}
    /\ look' = [look EXCEPT ![s] = [state |-> "idle", age |-> 0]]
    /\ UNCHANGED <<published, answers, mishaps, held, since, token, provider, looked>>

KeyNext ==
    \/ Tick \/ Rotate \/ ComesUp
    \/ \E t \in Tokens :
         \/ \E k \in 1..Bogus : Present(t, k)
         \/ Served(t) \/ Refreshed(t) \/ FetchFails(t) \/ TriesAgain(t)

LookNext ==
    \/ Tick \/ ComesUp
    \/ \E s \in Lookers : Ask(s) \/ Finds(s) \/ FindsNot(s) \/ LookDropped(s) \/ AsksAgain(s)

\* The keys in force never go back to ones a later document replaced, however slow a
\* fetch was: a key withdrawn, and seen to be, is not taken again (refresh_jwks).
KeysMoveForward == [][held' >= held]_held

\* A rotation is picked up, whatever fetches failed or were dropped with their callers,
\* and whatever else tokens named (verify_with_rotation).
RotationsComeIn == <>[](held = published)

\* The provider is found, once it answers, by those who come to sign in (SignIn::provider).
ProviderIsFound == <>provider
=================================================================================
