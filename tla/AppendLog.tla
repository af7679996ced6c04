------------------------------ MODULE AppendLog -------------------------------
(***************************************************************************)
(* What the audit ledger promises those who append to it (mcpdef-audit's   *)
(* `LedgerHandle`): one log, that only ever gains an entry at its end.     *)
(* Each entry goes in once and between its caller's asking and answer.     *)
(* A caller that has its answer has its entry in the log, for good; one    *)
(* that went without may or may not, but adds nothing afterwards.          *)
(***************************************************************************)
EXTENDS Sequences, SequencesExt

CONSTANT Entries  \* what there is to record

VARIABLES
    log,   \* the entries, in the order they went in
    fate   \* how far the append of each entry is

Init == log = <<>> /\ fate = [e \in Entries |-> "new"]

\* A caller asks for e to be recorded.
Ask(e) ==
    /\ fate[e] = "new"
    /\ fate' = [fate EXCEPT ![e] = "waiting"]
    /\ UNCHANGED log

\* The entry goes in while its caller waits.
Commit(e) ==
    /\ fate[e] = "waiting" /\ e \notin ToSet(log)
    /\ log' = Append(log, e)
    /\ UNCHANGED fate

\* The caller is told so.
Answer(e) ==
    /\ fate[e] = "waiting" /\ e \in ToSet(log)
    /\ fate' = [fate EXCEPT ![e] = "recorded"]
    /\ UNCHANGED log

\* Callers go without an answer, one alone or many at once.
Leave(S) ==
    /\ \A e \in S : fate[e] = "waiting"
    /\ fate' = [e \in Entries |-> IF e \in S THEN "gone" ELSE fate[e]]
    /\ UNCHANGED log

Next ==
    \/ \E e \in Entries : Ask(e) \/ Commit(e) \/ Answer(e)
    \/ \E S \in SUBSET Entries : Leave(S)

Spec == Init /\ [][Next]_<<log, fate>>
==============================================================================
