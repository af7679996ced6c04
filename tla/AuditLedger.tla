----------------------------- MODULE AuditLedger ------------------------------
(***************************************************************************)
(* The audit ledger (mcpdef-audit/src/lib.rs): `LedgerHandle`, the one     *)
(* lock that many tasks of a gateway append through, and `Ledger`, the     *)
(* append-only file behind it.                                             *)
(*                                                                         *)
(* A gateway is a process.  It opens the file when it starts, resuming the *)
(* chain from what it reads there, and keeps the chain's head and the next *)
(* number in memory from then on; it may die at any step.  Every process   *)
(* that is given the same file opens it for itself.                        *)
(*                                                                         *)
(* The file is its complete lines and what follows the last newline.  A    *)
(* record's line is written front, back and newline; a line that is not    *)
(* exactly one record does not parse.                                      *)
(***************************************************************************)
EXTENDS LedgerChain, SequencesExt

CONSTANTS
    Gateways,  \* the processes that open the file
    Tearing,   \* whether a write may end, for a time or for good, part way
    Garbled    \* what a line that does not parse reads as

ASSUME GarbledAssumption == Garbled \notin Record

VARIABLES
    lines,   \* the file's complete lines that are not blank, as they parse
    rest,    \* what is written after the last newline
    proc,    \* whether each gateway runs, does not, or was refused its start
    ledger,  \* each gateway's Ledger: the head of the chain and the next number
    shown,   \* the Head each gateway last published
    turns,   \* those who wait for the gateway's lock, the holder first
    put,     \* how much of the holder's line is out: 0 to 2 halves, 3 with its newline
    stage    \* how far the append of each entry is

fileVars == <<lines, rest>>
vars == <<fileVars, proc, ledger, shown, turns, put, stage>>

-----------------------------------------------------------------------------
Half == [of : Record, half : {"front", "back"}]
Head0 == [hash |-> Genesis, next |-> 0]
Heads == [hash : Hashes, next : Nat]

Halves(r) == <<[of |-> r, half |-> "front"], [of |-> r, half |-> "back"]>>

\* serde_json::from_slice of a line that is not blank.
Parse(line) ==
    IF line # <<>> /\ line = Halves(line[1].of) THEN line[1].of ELSE Garbled

\* A blank line is no record: every reader passes over it.
EndLine(line) == IF line = <<>> THEN lines ELSE Append(lines, Parse(line))

\* What BufReader::lines gives: the last line counts, newline or not.
LinesRead == EndLine(rest)

Whole(ls) == \A i \in DOMAIN ls : ls[i] # Garbled

\* The record gateway g stamps for an entry: the number and link it has in memory.
Stamp(g, entry) ==
    [seq |-> ledger[g].next, entry |-> entry, prev |-> ledger[g].hash,
     hash |-> Hash(ledger[g].next, entry, ledger[g].hash)]

-----------------------------------------------------------------------------
Init ==
    /\ lines = <<>> /\ rest = <<>>
    /\ proc = [g \in Gateways |-> "stopped"]
    /\ ledger = [g \in Gateways |-> Head0]
    /\ shown = [g \in Gateways |-> Head0]
    /\ turns = [g \in Gateways |-> <<>>]
    /\ put = [g \in Gateways |-> 0]
    /\ stage = [e \in Entries |-> "new"]

\* Mutants: a start counts the records and forgets the head; it takes the
\* number of the last record for its next, with and without a last one.
OpenAtGenesis(g) ==
    /\ proc[g] = "stopped" /\ Whole(LinesRead)
    /\ proc' = [proc EXCEPT ![g] = "running"]
    /\ ledger' = [ledger EXCEPT ![g] = [hash |-> Genesis, next |-> Len(LinesRead)]]
    /\ shown' = [shown EXCEPT ![g] = ledger'[g]]
    /\ UNCHANGED <<fileVars, turns, put, stage>>

\* Ledger::open and LedgerHandle::new: the chain is resumed from the last record.
Open(g) ==
    /\ proc[g] = "stopped" /\ Whole(LinesRead)
    /\ proc' = [proc EXCEPT ![g] = "running"]
    /\ ledger' = [ledger EXCEPT ![g] = [hash |-> HeadHash(LinesRead), next |-> Len(LinesRead)]]
    /\ shown' = [shown EXCEPT ![g] = ledger'[g]]
    /\ UNCHANGED <<fileVars, turns, put, stage>>

\* AuditError::Corrupt: the gateway does not start.
Refuse(g) ==
    /\ proc[g] = "stopped" /\ ~Whole(LinesRead)
    /\ proc' = [proc EXCEPT ![g] = "refused"]
    /\ UNCHANGED <<fileVars, ledger, shown, turns, put, stage>>

\* LedgerHandle::append: the caller takes its place for the lock.
Ask(g, e) ==
    /\ proc[g] = "running" /\ stage[e] = "new"
    /\ turns' = [turns EXCEPT ![g] = Append(@, e)]
    /\ stage' = [stage EXCEPT ![e] = "waiting"]
    /\ UNCHANGED <<fileVars, proc, ledger, shown, put>>

\* Mutant: a caller that goes leaves its entry behind.
GiveUpQueued(g, i) ==
    /\ ~(i = 1 /\ put[g] > 0)
    /\ stage' = [stage EXCEPT ![turns[g][i]] = "gone"]
    /\ UNCHANGED <<fileVars, proc, ledger, shown, turns, put>>

\* The future of the caller in place i is dropped before its turn: it has
\* handed nothing over.
GiveUp(g, i) ==
    /\ ~(i = 1 /\ put[g] > 0)
    /\ turns' = [turns EXCEPT ![g] = RemoveAt(@, i)]
    /\ stage' = [stage EXCEPT ![turns[g][i]] = "gone"]
    /\ UNCHANGED <<fileVars, proc, ledger, shown, put>>

\* Gateway g's lock has a holder whose line is not all out.
Writing(g) == proc[g] = "running" /\ turns[g] # <<>> /\ put[g] < 3

Line(g) == Halves(Stamp(g, Head(turns[g])))

\* Part of the line is out.
WriteSome(g) ==
    /\ Tearing /\ Writing(g)
    /\ \E n \in put[g] + 1 .. 2 :
          /\ rest' = rest \o SubSeq(Line(g), put[g] + 1, n)
          /\ put' = [put EXCEPT ![g] = n]
    /\ UNCHANGED <<lines, proc, ledger, shown, turns, stage>>

\* Ledger::append: what is left of the line is out, its newline with it, and
\* the chain moves on.
Write(g) ==
    /\ Writing(g)
    /\ lines' = EndLine(rest \o SubSeq(Line(g), put[g] + 1, 2))
    /\ rest' = <<>>
    /\ put' = [put EXCEPT ![g] = 3]
    /\ ledger' = [ledger EXCEPT ![g] = [hash |-> Stamp(g, Head(turns[g])).hash, next |-> @.next + 1]]
    /\ UNCHANGED <<proc, shown, turns, stage>>

\* The holder's append ends this way, and the lock passes on.
LetGo(g, how) ==
    /\ turns' = [turns EXCEPT ![g] = Tail(@)]
    /\ put' = [put EXCEPT ![g] = 0]
    /\ stage' = [stage EXCEPT ![Head(turns[g])] = how]

\* AuditError::Io: the chain does not move on, and what is out stays out.
WriteFails(g) ==
    /\ Tearing /\ Writing(g)
    /\ LetGo(g, "failed")
    /\ UNCHANGED <<fileVars, proc, ledger, shown>>

\* Mutants: the caller is answered before its line is out; the lock stays held.
PublishUnwritten(g) ==
    /\ proc[g] = "running" /\ turns[g] # <<>>
    /\ shown' = [shown EXCEPT ![g] = ledger[g]]
    /\ LetGo(g, "recorded")
    /\ UNCHANGED <<fileVars, proc, ledger>>

\* The new head is published, and the caller has its record.
Publish(g) ==
    /\ proc[g] = "running" /\ put[g] = 3
    /\ shown' = [shown EXCEPT ![g] = ledger[g]]
    /\ LetGo(g, "recorded")
    /\ UNCHANGED <<fileVars, proc, ledger>>

\* The process ends: every append in it with it. What it wrote stays.
Die(g) ==
    /\ proc[g] = "running"
    /\ proc' = [proc EXCEPT ![g] = "stopped"]
    /\ stage' = [e \in Entries |-> IF e \in ToSet(turns[g]) THEN "gone" ELSE stage[e]]
    /\ turns' = [turns EXCEPT ![g] = <<>>]
    /\ put' = [put EXCEPT ![g] = 0]
    /\ UNCHANGED <<fileVars, ledger, shown>>

-----------------------------------------------------------------------------
Task(g) == WriteSome(g) \/ Write(g) \/ WriteFails(g) \/ Publish(g)

Next ==
    \E g \in Gateways :
        \/ Open(g) \/ Refuse(g) \/ Die(g) \/ Task(g)
        \/ \E e \in Entries : Ask(g, e)
        \/ \E i \in DOMAIN turns[g] : GiveUp(g, i)

Spec == Init /\ [][Next]_vars

\* Tokio polls the holder of the lock, and passes the lock on in turn; a write
\* to a file ends, one way or the other.
FairSpec == Spec /\ \A g \in Gateways : WF_vars(Write(g)) /\ WF_vars(Publish(g))

-----------------------------------------------------------------------------
Line0 == Record \cup {Garbled}

\* Each variable has its type (Ledger, LedgerHandle and its Shared).
TypeOK ==
    /\ lines \in Seq(Line0) /\ rest \in Seq(Half)
    /\ proc \in [Gateways -> {"stopped", "running", "refused"}]
    /\ ledger \in [Gateways -> Heads] /\ shown \in [Gateways -> Heads]
    /\ turns \in [Gateways -> Seq(Entries)] /\ put \in [Gateways -> 0 .. 3]
    /\ stage \in [Entries -> {"new", "waiting", "recorded", "failed", "gone"}]

\* The entries that a reader of the file's lines finds there.
OnFile == {lines[i].entry : i \in {i \in DOMAIN lines : lines[i] # Garbled}}

\* The lock's order is the chain's: a file whose every line parses is a chain
\* that verifies, whatever stopped, failed or started again meanwhile, short of
\* the last number.
ChainVerifies == Whole(lines) /\ Len(lines) < MaxSeq => BrokenAt(lines) = NoBreak

\* Numbers only grow down the file, past lines that do not parse too: what
\* find and Follow::after search by.
NumbersGrow ==
    \A i, j \in DOMAIN lines :
        i < j /\ lines[i] # Garbled /\ lines[j] # Garbled => lines[i].seq < lines[j].seq

\* "append resolves once the record is written": the record of an append that
\* returned it is a line of the file.
RecordedIsOnFile ==
    \A e \in Entries : stage[e] = "recorded" => e \in OnFile

-----------------------------------------------------------------------------
\* What callers are promised, whatever happens to their gateway: see AppendLog.
Log == INSTANCE AppendLog WITH
    log <- [i \in DOMAIN lines |-> lines[i].entry],
    fate <- [e \in Entries |-> IF stage[e] \in {"failed", "gone"} THEN "gone" ELSE stage[e]]

\* The ledger is such a log while one gateway has the file and writes are whole.
KeepsLog == Log!Spec
==============================================================================
