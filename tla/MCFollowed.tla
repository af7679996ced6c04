------------------------------- MODULE MCFollowed -------------------------------
(***************************************************************************)
(* What the gateway follows outside itself, each part on its own: the keys *)
(* of an identity provider, the provider itself, and the config and its    *)
(* files.  `part` says which one this behaviour is of, and the others stay *)
(* as they began.                                                          *)
(***************************************************************************)
EXTENDS ProviderKeys, ConfigReload

VARIABLE part

vars == <<part, keyVars, reloadVars>>

Init ==
    /\ part \in {"keys", "looks", "reload"}
    /\ KeyInit /\ ReloadInit
    /\ part = "reload" => answers
    /\ part # "looks" => look[Start].state = "idle"

Keys == part = "keys" /\ UNCHANGED <<part, reloadVars>>
Looks == part = "looks" /\ UNCHANGED <<part, reloadVars>>
Config == part = "reload" /\ UNCHANGED <<part, keyVars>>

Next ==
    \/ Keys /\ KeyNext
    \/ Looks /\ LookNext
    \/ Config /\ ReloadNext

\* What a request waits for comes, and clients with a token of the key in use keep coming;
\* the provider comes back, and so do those who sign in.
ProviderFairness ==
    /\ WF_vars(Keys /\ Tick) /\ WF_vars(Keys /\ ComesUp)
    /\ WF_vars(Keys /\ \E t \in Tokens : Served(t)) /\ WF_vars(Keys /\ \E t \in Tokens : Refreshed(t))
    /\ WF_vars(Keys /\ \E t \in Tokens : TriesAgain(t))
    /\ SF_vars(Keys /\ \E t \in Tokens : Present(t, published))
    /\ WF_vars(Looks /\ Tick) /\ WF_vars(Looks /\ ComesUp)
    /\ WF_vars(Looks /\ \E s \in Lookers : Finds(s)) /\ WF_vars(Looks /\ \E s \in Lookers : AsksAgain(s))
    /\ SF_vars(Looks /\ \E s \in Lookers : Ask(s))

\* The steps of the reload task, of a keeper and of who asks; a `select` that is fair to
\* the watch and the channel; and an operator who writes a certificate's key once its
\* certificate is written.
ReloadFairness ==
    /\ WF_vars(Config /\ LoopStep) /\ WF_vars(Config /\ PairCompleted)
    /\ WF_vars(Config /\ Reopens /\ retrying # NoRetry)
    /\ SF_vars(Config /\ TakeTick) /\ SF_vars(Config /\ TakeAsk)
    /\ WF_vars(Config /\ \E a \in Askers : Send(a))

Spec == Init /\ [][Next]_vars /\ ProviderFairness /\ ReloadFairness

\* A reload is taken whole or not at all, and what the watch refused it refuses once
\* (Reloader::apply, run).
ReloadsHold == WholeOrNot /\ WatchActsOnce

\* What comes to be so, once what is outside stands still: a rotated key is held
\* (verify_with_rotation), the provider is found (SignIn::provider), the config on disk is
\* in force (run), and who asks for a reload is answered (Reloads::reload).
OutsideIsFollowed ==
    /\ part = "keys" => RotationsComeIn
    /\ part = "looks" => ProviderIsFound
    /\ part = "reload" => Settles
    /\ AsksEnd
===============================================================================
