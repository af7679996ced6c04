------------------------------ MODULE LedgerChain ------------------------------
(***************************************************************************)
(* The hash chain of the audit ledger (mcpdef-audit/src/lib.rs): what a    *)
(* record is, and what the readers that check the chain answer.            *)
(*                                                                         *)
(* SHA-256 is taken to be injective: a hash is the list of everything it   *)
(* covers, the (seq, entry) pairs from the first record on.  An entry is   *)
(* what the gateway hands over; its fields are never told apart here.      *)
(***************************************************************************)
EXTENDS Integers, Sequences

CONSTANTS
    Entries,  \* what there is to record
    MaxSeq    \* the greatest `seq` a record can hold: u64::MAX in the code

ASSUME MaxSeqAssumption == MaxSeq \in Nat

Genesis == <<>>

\* Record::compute_hash.
Hash(seq, entry, prev) == Append(prev, <<seq, entry>>)

Hashes == Seq(Nat \X Entries)

Record == [seq : Nat, entry : Entries, prev : Hashes, hash : Hashes]

-----------------------------------------------------------------------------
(***************************************************************************)
(* verify: one pass over the records of a file, each against the one       *)
(* before it.                                                              *)
(***************************************************************************)
PrevHash(recs, i) == IF i = 1 THEN Genesis ELSE recs[i - 1].hash

\* Past the greatest number, the number stays where it is.
ExpectedSeq(recs, i) ==
    IF i = 1 THEN 0
    ELSE IF recs[i - 1].seq = MaxSeq THEN MaxSeq ELSE recs[i - 1].seq + 1

\* The hash recomputes, the link names the record before, and so does `seq`.
Intact(recs, i) ==
    /\ recs[i].hash = Hash(recs[i].seq, recs[i].entry, recs[i].prev)
    /\ recs[i].prev = PrevHash(recs, i)
    /\ recs[i].seq = ExpectedSeq(recs, i)

\* The records verify finds fault with. One with no number after it is a break
\* of its own, so that the numbers never wrap round to 0.
Broken(recs) == {i \in 1 .. Len(recs) : ~Intact(recs, i) \/ recs[i].seq = MaxSeq}

First(S) == CHOOSE i \in S : \A j \in S : i <= j

HeadHash(recs) == IF recs = <<>> THEN Genesis ELSE recs[Len(recs)].hash

\* No break. `broken_at` is a record's number otherwise.
NoBreak == -1

BrokenAt(recs) == IF Broken(recs) = {} THEN NoBreak ELSE recs[First(Broken(recs))].seq

\* verify_against a head and a number of records sealed elsewhere.
VerifyAgainst(recs, head, count) ==
    IF BrokenAt(recs) # NoBreak \/ (Len(recs) = count /\ HeadHash(recs) = head)
    THEN BrokenAt(recs)
    ELSE IF Len(recs) < count THEN Len(recs) ELSE count

\* verify_marked: the hash of the record numbered `mark`, the first if several.
Marked(recs, mark) ==
    LET at == {i \in 1 .. Len(recs) : recs[i].seq = mark}
    IN IF at = {} THEN "none" ELSE recs[First(at)].hash

\* GET /api/v1/audit/verify: the file may have grown past the point it is
\* checked against, so what must still be there is the record at that point.
VerifyWritten(recs, head, count) ==
    IF BrokenAt(recs) # NoBreak THEN BrokenAt(recs)
    ELSE IF Len(recs) < count THEN Len(recs)
    ELSE IF count > 0 /\ Marked(recs, count - 1) # head THEN count - 1
    ELSE NoBreak
==============================================================================
