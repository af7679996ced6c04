-------------------------- MODULE AuditLedgerProofs ---------------------------
(***************************************************************************)
(* Proofs about AuditLedger and AuditReaders.  For a file that one gateway *)
(* at most has open: whatever writes stop part way, fail or are cut by its *)
(* death, and however often it starts again, what still parses is a chain  *)
(* in order, and what a browser has of it is exact.  For writes that are   *)
(* whole: the ledger is a log, however many gateways append to it, and     *)
(* verify never reports one gateway's file broken.  Of a file somebody     *)
(* changed, in any way: verify passes it only if what it is to vouch for   *)
(* is there as it was written.                                             *)
(***************************************************************************)
EXTENDS AuditReaders, FiniteSetTheorems, SequenceTheorems, WellFoundedInduction, TLAPS

\* One process has the file.
OneWriter == \A g, h \in Gateways : g = h

-----------------------------------------------------------------------------
(***************************************************************************)
(* The inductive invariant.                                                *)
(***************************************************************************)
EndOf(ls) == [hash |-> HeadHash(ls), next |-> Len(ls)]

Linked(ls, i) ==
    /\ ls[i].hash = Hash(ls[i].seq, ls[i].entry, ls[i].prev)
    /\ ls[i].prev = PrevHash(ls, i)
    /\ ls[i].seq = i - 1

\* While every line parses, they are a chain.
ChainSoFar == Whole(lines) => \A i \in DOMAIN lines : Linked(lines, i)

\* A gateway that runs stands at the end of that chain, or else what is out
\* after the last newline is more than its own part of a line, and the next
\* line ends up not parsing.
AtEnd(g) ==
    /\ put[g] > 0 => turns[g] # <<>>
    /\ put[g] = 3 => rest = <<>> /\ (Whole(lines) => ledger[g] = EndOf(lines))
    /\ put[g] < 3 =>
          \/ Len(rest) > put[g]
          \/ /\ Len(rest) = put[g]
             /\ put[g] > 0 => rest = SubSeq(Line(g), 1, put[g])
             /\ Whole(lines) => ledger[g] = EndOf(lines)

\* Every readable line's number is one the gateway has gone past.
Passed(g) == \A i \in DOMAIN lines : lines[i] # Garbled => lines[i].seq < ledger[g].next

LedgerInv ==
    /\ TypeOK /\ ChainSoFar /\ NumbersGrow
    /\ \A g \in Gateways :
          IF proc[g] = "running" THEN AtEnd(g) /\ Passed(g) ELSE put[g] = 0

-----------------------------------------------------------------------------
\* What a line parses as, and when.
LEMMA ParseType == ASSUME NEW line \in Seq(Half) PROVE Parse(line) \in Line0
<1>1. CASE line = <<>>
  BY <1>1 DEF Parse, Line0
<1>2. CASE line # <<>>
  <2>1. line[1] \in Half
    BY <1>2
  <2>2. line[1].of \in Record
    BY <2>1 DEF Half
  <2> QED BY <1>2, <2>2 DEF Parse, Line0
<1> QED BY <1>1, <1>2

LEMMA ParseHalves == ASSUME NEW r \in Record PROVE Parse(Halves(r)) = r
  BY DEF Parse, Halves

LEMMA ParseLong == ASSUME NEW line \in Seq(Half), Len(line) # 2 PROVE Parse(line) = Garbled
  BY DEF Parse, Halves

LEMMA StampType ==
  ASSUME TypeOK, NEW g \in Gateways, NEW e \in Entries
  PROVE  Stamp(g, e) \in Record
<1> DEFINE r == Stamp(g, e)
<1>1. ledger[g].next \in Nat /\ ledger[g].hash \in Hashes
  BY DEF TypeOK, Heads
<1>2. <<ledger[g].next, e>> \in Nat \X Entries
  BY <1>1
<1>3. Hash(ledger[g].next, e, ledger[g].hash) \in Hashes
  BY <1>1, <1>2 DEF Hash, Hashes
<1> QED BY <1>1, <1>3 DEF Stamp, Record

LEMMA HolderType ==
  ASSUME TypeOK, NEW g \in Gateways, turns[g] # <<>>
  PROVE  Head(turns[g]) \in Entries /\ Tail(turns[g]) \in Seq(Entries)
  BY DEF TypeOK

\* Both halves of a line, written in one part or two.
LEMMA TwoHalves ==
  ASSUME NEW r \in Record, NEW n \in 0 .. 2
  PROVE  /\ Halves(r) \in Seq(Half) /\ Len(Halves(r)) = 2
         /\ SubSeq(Halves(r), n + 1, 2) \in Seq(Half)
         /\ Len(SubSeq(Halves(r), n + 1, 2)) = 2 - n
         /\ n > 0 => SubSeq(Halves(r), 1, n) \o SubSeq(Halves(r), n + 1, 2) = Halves(r)
         /\ n = 0 => SubSeq(Halves(r), n + 1, 2) = Halves(r)
<1>1. Halves(r) \in Seq(Half) /\ Len(Halves(r)) = 2
  BY DEF Halves, Half
<1>2. SubSeq(Halves(r), n + 1, 2) \in Seq(Half) /\ Len(SubSeq(Halves(r), n + 1, 2)) = 2 - n
  BY <1>1, SMTT(20)
<1>3. n > 0 => SubSeq(Halves(r), 1, n) \o SubSeq(Halves(r), n + 1, 2) = Halves(r)
  BY <1>1
<1>4. n = 0 => SubSeq(Halves(r), n + 1, 2) = Halves(r)
  BY <1>1
<1> QED BY <1>1, <1>2, <1>3, <1>4

\* Part of a line on top of an earlier part.
LEMMA PartOfLine ==
  ASSUME NEW r \in Record, NEW m \in 0 .. 2, NEW n \in 1 .. 2, m < n
  PROVE  /\ SubSeq(Halves(r), m + 1, n) \in Seq(Half)
         /\ Len(SubSeq(Halves(r), m + 1, n)) = n - m
         /\ m > 0 => SubSeq(Halves(r), 1, m) \o SubSeq(Halves(r), m + 1, n) = SubSeq(Halves(r), 1, n)
         /\ m = 0 => SubSeq(Halves(r), m + 1, n) = SubSeq(Halves(r), 1, n)
<1>1. Halves(r) \in Seq(Half) /\ Len(Halves(r)) = 2
  BY DEF Halves, Half
<1>2. SubSeq(Halves(r), m + 1, n) \in Seq(Half) /\ Len(SubSeq(Halves(r), m + 1, n)) = n - m
  BY <1>1
<1>3. CASE m = 0
  BY <1>2, <1>3
<1>4. CASE m = 1 /\ n = 2
  <2>1. SubSeq(Halves(r), 1, 1) \o SubSeq(Halves(r), 2, 2) = Halves(r)
    BY <1>1
  <2>2. SubSeq(Halves(r), 1, 2) = Halves(r)
    BY <1>1
  <2> QED BY <1>2, <1>4, <2>1, <2>2
<1> QED BY <1>3, <1>4

\* Reading the file gives lines, those that end among them first.
LEMMA LinesReadType ==
  ASSUME TypeOK
  PROVE  /\ LinesRead \in Seq(Line0)
         /\ Len(LinesRead) >= Len(lines)
         /\ rest = <<>> => LinesRead = lines
         /\ \A i \in DOMAIN lines : i \in DOMAIN LinesRead /\ LinesRead[i] = lines[i]
<1>1. lines \in Seq(Line0) /\ Parse(rest) \in Line0
  BY ParseType DEF TypeOK
<1>2. CASE rest = <<>>
  BY <1>1, <1>2 DEF LinesRead, EndLine
<1>3. CASE rest # <<>>
  BY <1>1, <1>3 DEF LinesRead, EndLine
<1> QED BY <1>2, <1>3

\* A line that parses holds a record.
LEMMA WholeType ==
  ASSUME NEW ls \in Seq(Line0), Whole(ls)
  PROVE  /\ \A i \in DOMAIN ls : ls[i] \in Record
         /\ EndOf(ls) \in Heads
<1>1. \A i \in DOMAIN ls : ls[i] \in Record
  BY DEF Whole, Line0
<1>2. HeadHash(ls) \in Hashes
  <2>1. CASE ls = <<>>
    BY <2>1 DEF HeadHash, Genesis, Hashes
  <2>2. CASE ls # <<>>
    <3>1. Len(ls) \in DOMAIN ls
      BY <2>2
    <3>2. ls[Len(ls)].hash \in Hashes
      BY <1>1, <3>1 DEF Record
    <3> QED BY <2>2, <3>2 DEF HeadHash
  <2> QED BY <2>1, <2>2
<1> QED BY <1>1, <1>2 DEF EndOf, Heads

-----------------------------------------------------------------------------
\* What the holder's write puts on the file: the record it stamped, if the line
\* began with it, or a line that does not parse.
LEMMA LineWritten ==
  ASSUME TypeOK, NEW g \in Gateways, Writing(g), AtEnd(g)
  PROVE  LET line == rest \o SubSeq(Line(g), put[g] + 1, 2)
             r == Stamp(g, Head(turns[g]))
         IN /\ line \in Seq(Half) /\ line # <<>> /\ r \in Record
            /\ \/ Parse(line) = Garbled
               \/ Parse(line) = r /\ (Whole(lines) => ledger[g] = EndOf(lines))
<1> DEFINE r == Stamp(g, Head(turns[g]))
           remains == SubSeq(Line(g), put[g] + 1, 2)
<1>1. r \in Record
  BY StampType, HolderType DEF Writing
<1>2. put[g] \in 0 .. 2 /\ put[g] < 3 /\ rest \in Seq(Half)
  BY DEF TypeOK, Writing
<1>3. /\ remains \in Seq(Half) /\ Len(remains) = 2 - put[g]
      /\ put[g] > 0 => SubSeq(Halves(r), 1, put[g]) \o remains = Halves(r)
      /\ put[g] = 0 => remains = Halves(r)
  BY <1>1, <1>2, TwoHalves DEF Line
<1>4. rest \o remains \in Seq(Half) /\ Len(rest \o remains) = Len(rest) + 2 - put[g]
  BY <1>2, <1>3
<1>5. Len(rest) \in Nat /\ Len(rest) >= put[g]
  BY <1>2 DEF AtEnd
<1> HIDE DEF remains
<1>a. Len(rest \o remains) >= 2
  BY <1>2, <1>4, <1>5
<1>6. rest \o remains # <<>>
  <2>1. Len(<<>>) = 0
    OBVIOUS
  <2> QED BY <1>a, <2>1
<1>7. CASE Len(rest) > put[g]
  <2>1. Len(rest \o remains) # 2
    BY <1>2, <1>4, <1>5, <1>7
  <2>2. Parse(rest \o remains) = Garbled
    BY <1>4, <2>1, ParseLong
  <2> QED BY <1>1, <1>4, <1>6, <2>2 DEF remains
<1>8. CASE Len(rest) = put[g]
  <2>1. /\ put[g] > 0 => rest = SubSeq(Halves(r), 1, put[g])
        /\ Whole(lines) => ledger[g] = EndOf(lines)
    BY <1>2, <1>8 DEF AtEnd, Line
  <2>2. rest \o remains = Halves(r)
    <3>1. CASE put[g] = 0
      BY <1>2, <1>3, <1>8, <3>1
    <3>2. CASE put[g] > 0
      BY <1>3, <2>1, <3>2
    <3> QED BY <1>2, <3>1, <3>2
  <2>3. Parse(rest \o remains) = r
    BY <1>1, <2>2, ParseHalves
  <2> QED BY <1>1, <1>4, <1>6, <2>1, <2>3 DEF remains
<1>9. Len(rest) > put[g] \/ Len(rest) = put[g]
  BY <1>2, <1>5
<1> QED BY <1>7, <1>8, <1>9 DEF remains

-----------------------------------------------------------------------------
LEMMA InitInv == Init => LedgerInv
<1> SUFFICES ASSUME Init PROVE LedgerInv
  OBVIOUS
<1>1. TypeOK
  BY DEF Init, TypeOK, Head0, Heads, Genesis, Hashes, Line0
<1>2. ChainSoFar /\ NumbersGrow
  BY DEF Init, ChainSoFar, NumbersGrow
<1>3. \A g \in Gateways : proc[g] # "running" /\ put[g] = 0
  BY DEF Init
<1> QED BY <1>1, <1>2, <1>3 DEF LedgerInv

\* What is left to show of a step that leaves the file alone.
LEMMA SameFile ==
  ASSUME LedgerInv, UNCHANGED lines
  PROVE  ChainSoFar' /\ NumbersGrow'
  BY DEF LedgerInv, ChainSoFar, NumbersGrow, Whole, Linked, PrevHash

LEMMA OpenInv ==
  ASSUME LedgerInv, OneWriter, NEW g \in Gateways, Open(g)
  PROVE  LedgerInv'
<1>1. TypeOK /\ ChainSoFar /\ Whole(LinesRead) /\ put[g] = 0 /\ UNCHANGED <<lines, rest, turns, put, stage>>
  BY DEF LedgerInv, Open, fileVars
<1>2. /\ ledger' = [ledger EXCEPT ![g] = EndOf(LinesRead)]
      /\ shown' = [shown EXCEPT ![g] = ledger'[g]]
      /\ proc' = [proc EXCEPT ![g] = "running"]
  BY DEF Open, EndOf
<1>3. LinesRead \in Seq(Line0) /\ EndOf(LinesRead) \in Heads
  BY <1>1, LinesReadType, WholeType
<1>4. ledger'[g] = EndOf(LinesRead) /\ proc'[g] = "running"
  BY <1>1, <1>2 DEF TypeOK
<1>5. TypeOK'
  BY <1>1, <1>2, <1>3, <1>4 DEF TypeOK
<1>6. AtEnd(g)'
  <2>1. CASE rest = <<>>
    <3>1. LinesRead = lines
      BY <1>1, <2>1, LinesReadType
    <3> QED BY <1>1, <1>4, <2>1, <3>1 DEF AtEnd, EndOf, HeadHash
  <2>2. CASE rest # <<>>
    <3>1. Len(rest) > 0
      BY <1>1, <2>2 DEF TypeOK
    <3> QED BY <1>1, <3>1 DEF AtEnd
  <2> QED BY <2>1, <2>2
<1>7. Passed(g)'
  <2>1. Whole(lines)
    BY <1>1, LinesReadType DEF Whole
  <2>2. \A i \in DOMAIN lines : lines[i].seq = i - 1
    BY <1>1, <2>1 DEF ChainSoFar, Linked
  <2>3. ledger'[g].next = Len(LinesRead) /\ Len(LinesRead) \in Nat /\ Len(lines) \in Nat
    BY <1>1, <1>3, <1>4 DEF EndOf, TypeOK
  <2>4. Len(lines) <= Len(LinesRead)
    BY <1>1, LinesReadType
  <2>5. \A i \in DOMAIN lines : lines[i].seq < Len(LinesRead)
    BY <1>1, <2>2, <2>3, <2>4 DEF TypeOK
  <2> QED BY <1>1, <2>3, <2>5 DEF Passed
<1>8. \A h \in Gateways : h = g
  BY DEF OneWriter
<1> QED BY <1>1, <1>4, <1>5, <1>6, <1>7, <1>8, SameFile DEF LedgerInv

LEMMA RefuseInv ==
  ASSUME LedgerInv, OneWriter, NEW g \in Gateways, Refuse(g)
  PROVE  LedgerInv'
<1>1. TypeOK'
  BY DEF LedgerInv, Refuse, TypeOK, fileVars
<1>2. proc'[g] = "refused" /\ put'[g] = 0
  BY DEF LedgerInv, Refuse, TypeOK
<1>3. ChainSoFar' /\ NumbersGrow'
  BY SameFile DEF Refuse, fileVars
<1> QED BY <1>1, <1>2, <1>3 DEF LedgerInv, OneWriter

\* A change to those who wait behind the holder changes nothing the holder does.
LEMMA SameHolder ==
  ASSUME LedgerInv, NEW g \in Gateways, proc[g] = "running",
         UNCHANGED <<lines, rest, ledger, put>>,
         put[g] > 0 => turns'[g] # <<>> /\ Head(turns'[g]) = Head(turns[g])
  PROVE  AtEnd(g)' /\ Passed(g)'
<1>1. AtEnd(g) /\ Passed(g) /\ put[g] \in 0 .. 3
  BY DEF LedgerInv, TypeOK
<1>2. Passed(g)'
  BY <1>1 DEF Passed
<1>3. put[g] > 0 => Line(g)' = Line(g)
  BY DEF Line, Stamp
<1>4. AtEnd(g)'
  <2>1. CASE put[g] = 0
    BY <1>1, <2>1 DEF AtEnd, Whole, EndOf, HeadHash
  <2>2. CASE put[g] > 0
    BY <1>1, <1>3, <2>2 DEF AtEnd, Whole, EndOf, HeadHash
  <2> QED BY <1>1, <2>1, <2>2
<1> QED BY <1>2, <1>4

LEMMA AskInv ==
  ASSUME LedgerInv, OneWriter, NEW g \in Gateways, NEW e \in Entries, Ask(g, e)
  PROVE  LedgerInv'
<1>1. TypeOK /\ proc[g] = "running" /\ proc' = proc /\ UNCHANGED <<lines, rest, ledger, put>>
  BY DEF LedgerInv, Ask, fileVars
<1>2. turns'[g] = Append(turns[g], e) /\ turns[g] \in Seq(Entries)
  BY <1>1 DEF Ask, TypeOK
<1>3. TypeOK'
  <2>1. turns' \in [Gateways -> Seq(Entries)]
    BY <1>1, <1>2 DEF Ask, TypeOK
  <2> QED BY <1>1, <2>1 DEF Ask, TypeOK, fileVars
<1>4. turns[g] # <<>> => turns'[g] # <<>> /\ Head(turns'[g]) = Head(turns[g])
  BY <1>2
<1>5. AtEnd(g)
  BY <1>1 DEF LedgerInv
<1>6. AtEnd(g)' /\ Passed(g)'
  BY <1>1, <1>4, <1>5, SameHolder DEF AtEnd
<1>7. ChainSoFar' /\ NumbersGrow'
  BY <1>1, SameFile
<1> QED BY <1>1, <1>3, <1>6, <1>7 DEF LedgerInv, OneWriter

LEMMA GiveUpInv ==
  ASSUME LedgerInv, OneWriter, NEW g \in Gateways, NEW i \in DOMAIN turns[g], GiveUp(g, i)
  PROVE  LedgerInv'
<1>1. TypeOK /\ proc' = proc /\ UNCHANGED <<lines, rest, ledger, put>> /\ put[g] \in 0 .. 3
  BY DEF LedgerInv, GiveUp, fileVars, TypeOK
<1>2. turns[g] \in Seq(Entries) /\ i \in 1 .. Len(turns[g]) /\ turns[g][i] \in Entries
  BY <1>1 DEF TypeOK
<1>3. turns'[g] = SubSeq(turns[g], 1, i - 1) \o SubSeq(turns[g], i + 1, Len(turns[g]))
  BY <1>1 DEF GiveUp, TypeOK, RemoveAt
<1>4. turns'[g] \in Seq(Entries)
  BY <1>2, <1>3
<1>5. TypeOK'
  <2>1. turns' \in [Gateways -> Seq(Entries)]
    BY <1>1, <1>4 DEF GiveUp, TypeOK
  <2> QED BY <1>1, <1>2, <2>1 DEF GiveUp, TypeOK
<1>6. put[g] > 0 => turns'[g] # <<>> /\ Head(turns'[g]) = Head(turns[g])
  <2>1. put[g] > 0 => i > 1
    BY <1>2 DEF GiveUp
  <2>2. i > 1 => turns'[g] # <<>> /\ turns'[g][1] = turns[g][1]
    BY <1>2, <1>3
  <2> QED BY <1>2, <1>4, <2>1, <2>2
<1>7. proc[g] = "running" => AtEnd(g)' /\ Passed(g)'
  BY <1>1, <1>6, SameHolder
<1>8. ChainSoFar' /\ NumbersGrow'
  BY <1>1, SameFile
<1>9. \A h \in Gateways : h = g
  BY DEF OneWriter
<1> QED BY <1>1, <1>5, <1>7, <1>8, <1>9 DEF LedgerInv

LEMMA WriteSomeInv ==
  ASSUME LedgerInv, OneWriter, NEW g \in Gateways, WriteSome(g)
  PROVE  LedgerInv'
<1>1. TypeOK /\ Writing(g) /\ AtEnd(g) /\ Passed(g)
      /\ UNCHANGED <<lines, proc, ledger, shown, turns, stage>>
  BY DEF LedgerInv, WriteSome, Writing
<1>2. PICK n \in put[g] + 1 .. 2 :
         /\ rest' = rest \o SubSeq(Line(g), put[g] + 1, n)
         /\ put' = [put EXCEPT ![g] = n]
  BY DEF WriteSome
<1> DEFINE r == Stamp(g, Head(turns[g]))
           more == SubSeq(Halves(r), put[g] + 1, n)
<1>3. r \in Record
  BY <1>1, StampType, HolderType DEF Writing
<1>4. put[g] \in 0 .. 2 /\ put[g] < 3 /\ n \in 1 .. 2 /\ n > put[g] /\ rest \in Seq(Half) /\ put'[g] = n
  BY <1>1, <1>2 DEF TypeOK, Writing
<1>5. /\ more \in Seq(Half) /\ Len(more) = n - put[g]
      /\ put[g] > 0 => SubSeq(Halves(r), 1, put[g]) \o more = SubSeq(Halves(r), 1, n)
      /\ put[g] = 0 => more = SubSeq(Halves(r), 1, n)
  BY <1>3, <1>4, PartOfLine
<1>6. rest' = rest \o more /\ Line(g)' = Halves(r)
  BY <1>1, <1>2 DEF Line, Stamp
<1> HIDE DEF more
<1>7. Len(rest') = Len(rest) + n - put[g] /\ rest' \in Seq(Half) /\ Len(rest) \in Nat
  BY <1>4, <1>5, <1>6
<1>8. TypeOK'
  <2>1. n \in 0 .. 3
    BY <1>4
  <2>2. put' \in [Gateways -> 0 .. 3]
    BY <1>1, <1>2, <2>1 DEF TypeOK
  <2> QED BY <1>1, <1>7, <2>2 DEF TypeOK
<1>9. AtEnd(g)'
  <2>1. CASE Len(rest) > put[g]
    <3>1. Len(rest') > put'[g]
      BY <1>4, <1>7, <2>1
    <3> QED BY <1>1, <1>4, <3>1 DEF AtEnd, Writing
  <2>2. CASE Len(rest) = put[g]
    <3>1. /\ put[g] > 0 => rest = SubSeq(Halves(r), 1, put[g])
          /\ Whole(lines) => ledger[g] = EndOf(lines)
      BY <1>1, <1>4, <2>2 DEF AtEnd, Line
    <3>2. rest' = SubSeq(Halves(r), 1, n)
      <4>1. CASE put[g] = 0
        BY <1>4, <1>5, <1>6, <2>2, <4>1
      <4>2. CASE put[g] > 0
        BY <1>5, <1>6, <3>1, <4>2
      <4> QED BY <1>4, <4>1, <4>2
    <3>3. Len(rest') = n
      BY <1>4, <1>7, <2>2
    <3>4. Whole(lines)' => ledger'[g] = EndOf(lines)'
      BY <1>1, <3>1
    <3>5. rest' = SubSeq(Line(g)', 1, put'[g])
      BY <1>4, <1>6, <3>2
    <3> QED BY <1>1, <1>4, <3>3, <3>4, <3>5 DEF AtEnd, Writing
  <2>3. Len(rest) > put[g] \/ Len(rest) = put[g]
    BY <1>1, <1>4, <1>7 DEF AtEnd
  <2> QED BY <2>1, <2>2, <2>3
<1>10. Passed(g)'
  BY <1>1 DEF Passed
<1>11. ChainSoFar' /\ NumbersGrow'
  BY <1>1, SameFile
<1>12. proc'[g] = "running" /\ \A h \in Gateways : h = g
  BY <1>1 DEF OneWriter, Writing
<1> QED BY <1>8, <1>9, <1>10, <1>11, <1>12 DEF LedgerInv

LEMMA WriteInv ==
  ASSUME LedgerInv, OneWriter, NEW g \in Gateways, Write(g)
  PROVE  LedgerInv'
<1> DEFINE r == Stamp(g, Head(turns[g]))
           line == rest \o SubSeq(Line(g), put[g] + 1, 2)
<1>1. TypeOK /\ ChainSoFar /\ NumbersGrow /\ Writing(g) /\ AtEnd(g) /\ Passed(g)
      /\ UNCHANGED <<proc, shown, turns, stage>>
  BY DEF LedgerInv, Write, Writing
<1>2. /\ line \in Seq(Half) /\ line # <<>> /\ r \in Record
      /\ \/ Parse(line) = Garbled
         \/ Parse(line) = r /\ (Whole(lines) => ledger[g] = EndOf(lines))
  BY <1>1, LineWritten
<1>3. rest' = <<>> /\ put' = [put EXCEPT ![g] = 3] /\ lines' = EndLine(line)
      /\ ledger' = [ledger EXCEPT ![g] = [hash |-> r.hash, next |-> @.next + 1]]
  BY DEF Write
<1> HIDE DEF line
<1>4. lines' = Append(lines, Parse(line)) /\ Parse(line) \in Line0 /\ lines \in Seq(Line0)
  BY <1>1, <1>2, <1>3, ParseType DEF EndLine, TypeOK
<1>5. ledger[g] \in Heads /\ ledger'[g] = [hash |-> r.hash, next |-> ledger[g].next + 1]
      /\ put'[g] = 3 /\ proc'[g] = "running" /\ ledger[g].next \in Nat
  BY <1>1, <1>3 DEF TypeOK, Writing, Heads
<1>6. r.seq = ledger[g].next /\ r.prev = ledger[g].hash /\ r.hash = Hash(r.seq, r.entry, r.prev)
      /\ r.hash \in Hashes
  BY <1>2 DEF Stamp, Record
<1> HIDE DEF r
<1>7. TypeOK'
  <2>1. lines' \in Seq(Line0)
    BY <1>4
  <2>2. ledger' \in [Gateways -> Heads]
    BY <1>1, <1>3, <1>5, <1>6 DEF TypeOK, Heads
  <2> QED BY <1>1, <1>3, <2>1, <2>2 DEF TypeOK
<1>8. /\ Len(lines') = Len(lines) + 1 /\ lines'[Len(lines) + 1] = Parse(line)
      /\ \A i \in DOMAIN lines : i \in DOMAIN lines' /\ lines'[i] = lines[i]
      /\ \A i \in DOMAIN lines' : i \in DOMAIN lines \/ i = Len(lines) + 1
      /\ Len(lines) \in Nat
  BY <1>4
<1>9. Whole(lines)' => Whole(lines) /\ Parse(line) = r /\ ledger[g] = EndOf(lines)
  <2> SUFFICES ASSUME Whole(lines)' PROVE Whole(lines) /\ Parse(line) = r /\ ledger[g] = EndOf(lines)
    OBVIOUS
  <2>1. Whole(lines)
    BY <1>8 DEF Whole
  <2>2. Parse(line) # Garbled
    BY <1>4, <1>8 DEF Whole
  <2> QED BY <1>2, <2>1, <2>2
<1>10. ChainSoFar'
  <2> SUFFICES ASSUME Whole(lines)', NEW i \in DOMAIN lines' PROVE Linked(lines', i)
    BY DEF ChainSoFar
  <2>1. CASE i \in DOMAIN lines
    <3>1. Linked(lines, i)
      BY <1>1, <1>9, <2>1 DEF ChainSoFar
    <3>2. PrevHash(lines', i) = PrevHash(lines, i)
      <4>1. i # 1 => i - 1 \in DOMAIN lines
        BY <1>4, <2>1
      <4> QED BY <1>8, <4>1 DEF PrevHash
    <3> QED BY <1>8, <2>1, <3>1, <3>2 DEF Linked
  <2>2. CASE i = Len(lines) + 1
    <3>1. lines'[i] = r /\ r.seq = Len(lines) /\ r.prev = HeadHash(lines)
      BY <1>6, <1>8, <1>9, <2>2 DEF EndOf
    <3>2. PrevHash(lines', i) = HeadHash(lines)
      <4>1. CASE lines = <<>>
        <5>1. i = 1
          BY <1>4, <2>2, <4>1
        <5> QED BY <4>1, <5>1 DEF PrevHash, HeadHash
      <4>2. CASE lines # <<>>
        <5>1. Len(lines) \in DOMAIN lines /\ i # 1 /\ i - 1 = Len(lines)
          BY <1>4, <1>8, <2>2, <4>2
        <5> QED BY <1>8, <4>2, <5>1 DEF PrevHash, HeadHash
      <4> QED BY <4>1, <4>2
    <3>3. r.seq = i - 1
      BY <1>8, <2>2, <3>1
    <3> QED BY <1>6, <3>1, <3>2, <3>3 DEF Linked
  <2> QED BY <1>8, <2>1, <2>2
<1>11. NumbersGrow'
  <2> SUFFICES ASSUME NEW i \in DOMAIN lines', NEW j \in DOMAIN lines', i < j,
                      lines'[i] # Garbled, lines'[j] # Garbled
               PROVE  lines'[i].seq < lines'[j].seq
    BY DEF NumbersGrow
  <2>1. i \in DOMAIN lines
    BY <1>4, <1>8
  <2>2. CASE j \in DOMAIN lines
    BY <1>1, <1>8, <2>1, <2>2 DEF NumbersGrow
  <2>3. CASE j = Len(lines) + 1
    BY <1>1, <1>2, <1>6, <1>8, <2>1, <2>3 DEF Passed
  <2> QED BY <1>8, <2>2, <2>3
<1>12. Passed(g)'
  <2> SUFFICES ASSUME NEW i \in DOMAIN lines', lines'[i] # Garbled
               PROVE  lines'[i].seq < ledger'[g].next
    BY DEF Passed
  <2>1. lines'[i] \in Record
    BY <1>7 DEF TypeOK, Line0
  <2>2. lines'[i].seq \in Nat
    BY <2>1 DEF Record
  <2>3. lines'[i].seq <= ledger[g].next
    BY <1>1, <1>2, <1>5, <1>6, <1>8, <2>2 DEF Passed
  <2> QED BY <1>5, <2>2, <2>3
<1>13. AtEnd(g)'
  <2>1. turns'[g] # <<>>
    BY <1>1 DEF Writing
  <2>2. Whole(lines)' => ledger'[g] = EndOf(lines)'
    <3> SUFFICES ASSUME Whole(lines)' PROVE ledger'[g] = EndOf(lines')
      OBVIOUS
    <3>1. lines' # <<>> /\ HeadHash(lines') = r.hash
      BY <1>4, <1>8, <1>9 DEF HeadHash
    <3>2. ledger[g].next = Len(lines)
      BY <1>9 DEF EndOf
    <3> QED BY <1>5, <1>8, <3>1, <3>2 DEF EndOf
  <2> QED BY <1>3, <1>5, <2>1, <2>2 DEF AtEnd
<1>14. \A h \in Gateways : h = g
  BY DEF OneWriter
<1> QED BY <1>5, <1>7, <1>10, <1>11, <1>12, <1>13, <1>14 DEF LedgerInv

\* The holder lets go of the lock: the gateway stands where it stood.
LEMMA LetGoType ==
  ASSUME TypeOK, NEW g \in Gateways, turns[g] # <<>>, NEW how \in {"recorded", "failed"},
         LetGo(g, how)
  PROVE  /\ turns' \in [Gateways -> Seq(Entries)] /\ put' \in [Gateways -> 0 .. 3]
         /\ stage' \in [Entries -> {"new", "waiting", "recorded", "failed", "gone"}]
         /\ put'[g] = 0
  BY HolderType DEF LetGo, TypeOK

LEMMA WriteFailsInv ==
  ASSUME LedgerInv, OneWriter, NEW g \in Gateways, WriteFails(g)
  PROVE  LedgerInv'
<1>1. TypeOK /\ Writing(g) /\ AtEnd(g) /\ Passed(g) /\ LetGo(g, "failed")
      /\ UNCHANGED <<lines, rest, proc, ledger, shown>>
  BY DEF LedgerInv, WriteFails, Writing, fileVars
<1>2. TypeOK' /\ put'[g] = 0
  BY <1>1, LetGoType DEF TypeOK, Writing
<1>3. put[g] \in 0 .. 2 /\ put[g] < 3 /\ Len(rest) \in Nat
  BY <1>1 DEF TypeOK, Writing
<1>4. AtEnd(g)'
  <2>1. CASE Len(rest) > 0
    BY <1>1, <1>2, <2>1 DEF AtEnd
  <2>2. CASE Len(rest) = 0
    <3>1. Whole(lines) => ledger[g] = EndOf(lines)
      BY <1>1, <1>3, <2>2 DEF AtEnd
    <3> QED BY <1>1, <1>2, <2>2, <3>1 DEF AtEnd, Whole, EndOf, HeadHash
  <2> QED BY <1>3, <2>1, <2>2
<1>5. Passed(g)'
  BY <1>1 DEF Passed
<1>6. ChainSoFar' /\ NumbersGrow'
  BY <1>1, SameFile
<1>7. proc'[g] = "running" /\ \A h \in Gateways : h = g
  BY <1>1 DEF OneWriter, Writing
<1> QED BY <1>2, <1>4, <1>5, <1>6, <1>7 DEF LedgerInv

LEMMA PublishInv ==
  ASSUME LedgerInv, OneWriter, NEW g \in Gateways, Publish(g)
  PROVE  LedgerInv'
<1>1. TypeOK /\ proc[g] = "running" /\ put[g] = 3 /\ AtEnd(g) /\ Passed(g)
      /\ LetGo(g, "recorded") /\ shown' = [shown EXCEPT ![g] = ledger[g]]
      /\ UNCHANGED <<lines, rest, proc, ledger>>
  BY DEF LedgerInv, Publish, fileVars
<1>2. turns[g] # <<>> /\ rest = <<>> /\ (Whole(lines) => ledger[g] = EndOf(lines))
  BY <1>1 DEF AtEnd
<1>3. TypeOK' /\ put'[g] = 0
  BY <1>1, <1>2, LetGoType DEF TypeOK
<1>4. AtEnd(g)'
  BY <1>1, <1>2, <1>3 DEF AtEnd, Whole, EndOf, HeadHash
<1>5. Passed(g)'
  BY <1>1 DEF Passed
<1>6. ChainSoFar' /\ NumbersGrow'
  BY <1>1, SameFile
<1>7. proc'[g] = "running" /\ \A h \in Gateways : h = g
  BY <1>1 DEF OneWriter
<1> QED BY <1>3, <1>4, <1>5, <1>6, <1>7 DEF LedgerInv

LEMMA DieInv ==
  ASSUME LedgerInv, OneWriter, NEW g \in Gateways, Die(g)
  PROVE  LedgerInv'
<1>1. TypeOK'
  BY DEF LedgerInv, Die, TypeOK, fileVars
<1>2. proc'[g] = "stopped" /\ put'[g] = 0
  BY DEF LedgerInv, Die, TypeOK
<1>3. ChainSoFar' /\ NumbersGrow'
  BY SameFile DEF Die, fileVars
<1> QED BY <1>1, <1>2, <1>3 DEF LedgerInv, OneWriter

-----------------------------------------------------------------------------
\* The invariant holds of every behaviour, with one writer.
LEMMA StepInv == OneWriter /\ LedgerInv /\ [Next]_vars => LedgerInv'
<1> SUFFICES ASSUME OneWriter, LedgerInv, [Next]_vars PROVE LedgerInv'
  OBVIOUS
<1>1. CASE UNCHANGED vars
  BY <1>1 DEF vars, fileVars, LedgerInv, TypeOK, ChainSoFar, NumbersGrow, AtEnd, Passed, Line, Stamp,
     Whole, Linked, PrevHash, EndOf, HeadHash
<1>2. CASE Next
  <2>1. PICK g \in Gateways :
           \/ Open(g) \/ Refuse(g) \/ Die(g) \/ Task(g)
           \/ \E e \in Entries : Ask(g, e)
           \/ \E i \in DOMAIN turns[g] : GiveUp(g, i)
    BY <1>2 DEF Next
  <2>2. CASE Task(g)
    BY <2>2, WriteSomeInv, WriteInv, WriteFailsInv, PublishInv DEF Task
  <2> QED BY <2>1, <2>2, OpenInv, RefuseInv, DieInv, AskInv, GiveUpInv
<1> QED BY <1>1, <1>2

LEMMA Invariance == ASSUME OneWriter PROVE Spec => []LedgerInv
<1>1. LedgerInv /\ [Next]_vars => LedgerInv'
  BY StepInv
<1>2. Init => LedgerInv
  BY InitInv
<1> QED BY <1>1, <1>2, PTL DEF Spec

\* Every variable keeps its type: Ledger, LedgerHandle and its Shared.
THEOREM TypeCorrect == ASSUME OneWriter PROVE Spec => []TypeOK
<1>1. LedgerInv => TypeOK
  BY DEF LedgerInv
<1> QED BY <1>1, Invariance, PTL

LEMMA InvVerifies == LedgerInv => ChainVerifies
<1> SUFFICES ASSUME LedgerInv, Whole(lines), Len(lines) < MaxSeq PROVE BrokenAt(lines) = NoBreak
  BY DEF ChainVerifies
<1>1. lines \in Seq(Line0) /\ MaxSeq \in Nat /\ \A i \in 1 .. Len(lines) : Linked(lines, i)
  BY MaxSeqAssumption DEF LedgerInv, TypeOK, ChainSoFar
<1>2. ASSUME NEW i \in 1 .. Len(lines) PROVE Intact(lines, i) /\ lines[i].seq # MaxSeq
  <2>1. Linked(lines, i) /\ (i # 1 => i - 1 \in 1 .. Len(lines) /\ Linked(lines, i - 1))
    BY <1>1
  <2>2. lines[i].seq = ExpectedSeq(lines, i)
    BY <1>1, <2>1 DEF Linked, ExpectedSeq
  <2> QED BY <1>1, <2>1, <2>2 DEF Linked, Intact
<1>3. Broken(lines) = {}
  BY <1>2 DEF Broken
<1> QED BY <1>3 DEF BrokenAt

\* The lock's order is the chain's (LedgerHandle): through partial writes, write
\* errors, deaths and restarts, a file whose every line parses verifies.
THEOREM ChainHolds == ASSUME OneWriter PROVE Spec => []ChainVerifies
  BY InvVerifies, Invariance, PTL

\* Numbers grow down the file, past what does not parse too (read.rs searches
\* by them).
THEOREM NumbersAlwaysGrow == ASSUME OneWriter PROVE Spec => []NumbersGrow
<1>1. LedgerInv => NumbersGrow
  BY DEF LedgerInv
<1> QED BY <1>1, Invariance, PTL

-----------------------------------------------------------------------------
(***************************************************************************)
(* Where every write is whole, any number of gateways may share the file:  *)
(* the chain is lost (ChainVerifies), the records are not.                 *)
(***************************************************************************)
WholeInv ==
    /\ TypeOK /\ RecordedIsOnFile
    /\ rest = <<>> /\ Whole(lines)
    /\ \A g \in Gateways :
          /\ put[g] = 0 \/ put[g] = 3
          /\ put[g] = 3 => turns[g] # <<>> /\ Head(turns[g]) \in OnFile

\* A step that leaves the file, and what is out of each line, as they are.
LEMMA SameOnFile ==
  ASSUME UNCHANGED lines PROVE OnFile' = OnFile /\ (Whole(lines) => Whole(lines)')
  BY DEF OnFile, Whole

LEMMA WholeWrite ==
  ASSUME WholeInv, NEW g \in Gateways, Write(g)
  PROVE  WholeInv'
<1> DEFINE r == Stamp(g, Head(turns[g]))
<1>1. TypeOK /\ rest = <<>> /\ Whole(lines) /\ put[g] = 0 /\ turns[g] # <<>> /\ proc[g] = "running"
      /\ UNCHANGED <<proc, shown, turns, stage>>
  BY DEF WholeInv, Write, Writing
<1>2. r \in Record /\ r.entry = Head(turns[g])
  BY <1>1, StampType, HolderType DEF Stamp
<1>3. Parse(Halves(r)) = r /\ Halves(r) \in Seq(Half) /\ Len(Halves(r)) = 2
  BY <1>2, ParseHalves, TwoHalves
<1>4. lines' = Append(lines, r) /\ rest' = <<>> /\ put' = [put EXCEPT ![g] = 3]
      /\ ledger' = [ledger EXCEPT ![g] = [hash |-> r.hash, next |-> @.next + 1]]
  <2>1. rest \o SubSeq(Line(g), put[g] + 1, 2) = Halves(r)
    BY <1>1, <1>3 DEF Line
  <2>2. EndLine(Halves(r)) = Append(lines, r)
    BY <1>3 DEF EndLine
  <2> QED BY <2>1, <2>2 DEF Write
<1> HIDE DEF r
<1>5. lines \in Seq(Line0) /\ r \in Line0 /\ r # Garbled
  BY <1>1, <1>2, GarbledAssumption DEF TypeOK, Line0
<1>6. /\ \A i \in DOMAIN lines : i \in DOMAIN lines' /\ lines'[i] = lines[i]
      /\ \A i \in DOMAIN lines' : lines'[i] = r \/ (i \in DOMAIN lines /\ lines'[i] = lines[i])
      /\ Len(lines) + 1 \in DOMAIN lines' /\ lines'[Len(lines) + 1] = r
  BY <1>4, <1>5
<1>7. TypeOK'
  <2>1. ledger[g].next \in Nat /\ r.hash \in Hashes
    BY <1>1, <1>2 DEF TypeOK, Heads, Record
  <2>2. ledger' \in [Gateways -> Heads]
    BY <1>1, <1>4, <2>1 DEF TypeOK, Heads
  <2> QED BY <1>1, <1>4, <1>5, <2>2 DEF TypeOK
<1>8. Whole(lines)'
  BY <1>1, <1>5, <1>6 DEF Whole
<1>9. OnFile \subseteq OnFile' /\ Head(turns[g]) \in OnFile'
  BY <1>2, <1>5, <1>6 DEF OnFile
<1>10. RecordedIsOnFile'
  BY <1>1, <1>9 DEF WholeInv, RecordedIsOnFile
<1>11. ASSUME NEW h \in Gateways
       PROVE  /\ put'[h] = 0 \/ put'[h] = 3
              /\ put'[h] = 3 => turns'[h] # <<>> /\ Head(turns'[h]) \in OnFile'
  BY <1>1, <1>4, <1>9 DEF WholeInv, TypeOK
<1> QED BY <1>4, <1>7, <1>8, <1>10, <1>11 DEF WholeInv

LEMMA WholeStep == ASSUME ~Tearing, WholeInv, [Next]_vars PROVE WholeInv'
<1>1. CASE UNCHANGED vars
  BY <1>1 DEF vars, fileVars, WholeInv, TypeOK, RecordedIsOnFile, OnFile, Whole
<1>2. ASSUME NEW g \in Gateways, Open(g) PROVE WholeInv'
  <2>1. TypeOK /\ Whole(LinesRead) /\ UNCHANGED <<lines, rest, turns, put, stage>>
    BY <1>2 DEF WholeInv, Open, fileVars
  <2>2. EndOf(LinesRead) \in Heads
    BY <2>1, LinesReadType, WholeType
  <2>3. TypeOK'
    BY <1>2, <2>1, <2>2 DEF TypeOK, Open, EndOf
  <2> QED BY <2>1, <2>3, SameOnFile DEF WholeInv, RecordedIsOnFile
<1>3. ASSUME NEW g \in Gateways, Refuse(g) PROVE WholeInv'
  <2>1. TypeOK' /\ UNCHANGED <<lines, rest, turns, put, stage>>
    BY <1>3 DEF WholeInv, Refuse, TypeOK, fileVars
  <2> QED BY <2>1, SameOnFile DEF WholeInv, RecordedIsOnFile
<1>4. ASSUME NEW g \in Gateways, Die(g) PROVE WholeInv'
  <2>1. TypeOK' /\ UNCHANGED <<lines, rest>>
        /\ turns' = [turns EXCEPT ![g] = <<>>] /\ put' = [put EXCEPT ![g] = 0]
        /\ \A e \in Entries : stage'[e] = "recorded" => stage[e] = "recorded"
    BY <1>4 DEF WholeInv, Die, TypeOK, fileVars
  <2>2. put \in [Gateways -> 0 .. 3] /\ turns \in [Gateways -> Seq(Entries)]
    BY DEF WholeInv, TypeOK
  <2> QED BY <2>1, <2>2, SameOnFile DEF WholeInv, RecordedIsOnFile
<1>5. ASSUME NEW g \in Gateways, Publish(g) PROVE WholeInv'
  <2>1. TypeOK /\ UNCHANGED <<lines, rest, proc, ledger>> /\ LetGo(g, "recorded")
        /\ shown' = [shown EXCEPT ![g] = ledger[g]]
        /\ turns[g] # <<>> /\ Head(turns[g]) \in OnFile
    BY <1>5 DEF WholeInv, Publish, fileVars
  <2>2. TypeOK'
    BY <2>1, LetGoType DEF TypeOK
  <2>3. \A e \in Entries : stage'[e] = "recorded" => stage[e] = "recorded" \/ e = Head(turns[g])
    BY <2>1 DEF LetGo, TypeOK
  <2>4. RecordedIsOnFile'
    BY <2>1, <2>3, SameOnFile DEF WholeInv, RecordedIsOnFile
  <2>5. ASSUME NEW h \in Gateways
        PROVE  /\ put'[h] = 0 \/ put'[h] = 3
               /\ put'[h] = 3 => turns'[h] # <<>> /\ Head(turns'[h]) \in OnFile'
    BY <2>1, SameOnFile DEF WholeInv, TypeOK, LetGo
  <2> QED BY <2>1, <2>2, <2>4, <2>5, SameOnFile DEF WholeInv
<1>6. ASSUME NEW g \in Gateways, NEW e \in Entries, Ask(g, e) PROVE WholeInv'
  <2>1. TypeOK /\ UNCHANGED <<lines, rest, proc, ledger, shown, put>>
        /\ turns' = [turns EXCEPT ![g] = Append(@, e)]
        /\ stage' = [stage EXCEPT ![e] = "waiting"]
    BY <1>6 DEF WholeInv, Ask, fileVars
  <2>2. TypeOK'
    BY <2>1 DEF TypeOK
  <2>3. turns[g] # <<>> => turns'[g] # <<>> /\ Head(turns'[g]) = Head(turns[g])
    <3>1. turns'[g] = Append(turns[g], e) /\ turns[g] \in Seq(Entries)
      BY <2>1 DEF TypeOK
    <3> QED BY <3>1
  <2>4. ASSUME NEW h \in Gateways
        PROVE  /\ put'[h] = 0 \/ put'[h] = 3
               /\ put'[h] = 3 => turns'[h] # <<>> /\ Head(turns'[h]) \in OnFile'
    BY <2>1, <2>3, SameOnFile DEF WholeInv, TypeOK
  <2>5. RecordedIsOnFile'
    BY <2>1, SameOnFile DEF WholeInv, RecordedIsOnFile, TypeOK
  <2> QED BY <2>1, <2>2, <2>4, <2>5, SameOnFile DEF WholeInv
<1>7. ASSUME NEW g \in Gateways, NEW i \in DOMAIN turns[g], GiveUp(g, i) PROVE WholeInv'
  <2>1. TypeOK /\ UNCHANGED <<lines, rest, proc, ledger, shown, put>>
        /\ turns' = [turns EXCEPT ![g] = SubSeq(@, 1, i - 1) \o SubSeq(@, i + 1, Len(@))]
        /\ stage' = [stage EXCEPT ![turns[g][i]] = "gone"]
        /\ ~(i = 1 /\ put[g] > 0)
    BY <1>7 DEF WholeInv, GiveUp, fileVars, RemoveAt
  <2>2. turns[g] \in Seq(Entries) /\ i \in 1 .. Len(turns[g]) /\ turns[g][i] \in Entries
    BY <2>1 DEF TypeOK
  <2>3. turns'[g] = SubSeq(turns[g], 1, i - 1) \o SubSeq(turns[g], i + 1, Len(turns[g]))
    BY <2>1 DEF TypeOK
  <2>4. turns'[g] \in Seq(Entries)
    BY <2>2, <2>3
  <2>5. TypeOK'
    <3>1. turns' \in [Gateways -> Seq(Entries)]
      BY <2>1, <2>3, <2>4 DEF TypeOK
    <3> QED BY <2>1, <2>2, <3>1 DEF TypeOK
  <2>6. i > 1 => turns'[g] # <<>> /\ Head(turns'[g]) = Head(turns[g])
    <3>1. i > 1 => turns'[g] # <<>> /\ turns'[g][1] = turns[g][1]
      BY <2>2, <2>3
    <3> QED BY <2>2, <2>4, <3>1
  <2>7. ASSUME NEW h \in Gateways
        PROVE  /\ put'[h] = 0 \/ put'[h] = 3
               /\ put'[h] = 3 => turns'[h] # <<>> /\ Head(turns'[h]) \in OnFile'
    <3>1. CASE h = g
      BY <2>1, <2>2, <2>6, <3>1, SameOnFile DEF WholeInv
    <3>2. CASE h # g
      BY <2>1, <3>2, SameOnFile DEF WholeInv, TypeOK
    <3> QED BY <3>1, <3>2
  <2>8. RecordedIsOnFile'
    BY <2>1, SameOnFile DEF WholeInv, RecordedIsOnFile, TypeOK
  <2> QED BY <2>1, <2>5, <2>7, <2>8, SameOnFile DEF WholeInv
<1>8. CASE Next
  <2>1. \A g \in Gateways : ~WriteSome(g) /\ ~WriteFails(g)
    BY DEF WriteSome, WriteFails
  <2> QED BY <1>2, <1>3, <1>4, <1>5, <1>6, <1>7, <1>8, <2>1, WholeWrite DEF Next, Task
<1> QED BY <1>1, <1>8

\* "append resolves once the record is written" (LedgerHandle): where writes are
\* whole, the record of an append that returned it is on file for good, however
\* many processes append, die and start again.
THEOREM RecordsAreKept == ASSUME ~Tearing PROVE Spec => []RecordedIsOnFile
<1>1. Init => WholeInv
  BY DEF Init, WholeInv, TypeOK, RecordedIsOnFile, Whole, Head0, Heads, Genesis, Hashes, Line0
<1>2. WholeInv /\ [Next]_vars => WholeInv'
  BY WholeStep
<1>3. WholeInv => RecordedIsOnFile
  BY DEF WholeInv
<1> QED BY <1>1, <1>2, <1>3, PTL DEF Spec
-----------------------------------------------------------------------------
(***************************************************************************)
(* The ledger implements AppendLog where every write is whole: step by     *)
(* step, with the log the entries of the file's lines.                     *)
(***************************************************************************)
TheLog == [i \in DOMAIN lines |-> lines[i].entry]
TheFate == [e \in Entries |-> IF stage[e] \in {"failed", "gone"} THEN "gone" ELSE stage[e]]

\* An entry waits in one place, is on file there only once its line is out, and
\* is nowhere before it is asked for.
LogInv ==
    /\ \A g, h \in Gateways : \A i \in DOMAIN turns[g] : \A j \in DOMAIN turns[h] :
          turns[g][i] = turns[h][j] => g = h /\ i = j
    /\ \A g \in Gateways : \A i \in DOMAIN turns[g] :
          /\ stage[turns[g][i]] = "waiting"
          /\ turns[g][i] \in OnFile => i = 1 /\ put[g] = 3
    /\ \A e \in Entries : stage[e] = "new" => e \notin OnFile
    /\ \A i, j \in DOMAIN lines : lines[i].entry = lines[j].entry => i = j

\* What the log holds is what is on file.
LEMMA TheLogType ==
  ASSUME WholeInv
  PROVE  /\ TheLog \in Seq(Entries) /\ Len(TheLog) = Len(lines) /\ DOMAIN TheLog = DOMAIN lines
         /\ ToSet(TheLog) = OnFile
<1>1. lines \in Seq(Line0) /\ DOMAIN lines = 1 .. Len(lines) /\ Len(lines) \in Nat
  BY DEF WholeInv, TypeOK
<1>2. \A i \in DOMAIN lines : lines[i] # Garbled /\ lines[i].entry \in Entries
  BY <1>1 DEF WholeInv, Whole, Line0, Record
<1>3. TheLog \in [1 .. Len(lines) -> Entries]
  BY <1>1, <1>2 DEF TheLog
<1>4. TheLog \in Seq(Entries) /\ Len(TheLog) = Len(lines) /\ DOMAIN TheLog = DOMAIN lines
  BY <1>1, <1>3
<1>5. ToSet(TheLog) = OnFile
  BY <1>1, <1>2 DEF TheLog, ToSet, OnFile
<1> QED BY <1>4, <1>5

LEMMA FateType ==
  ASSUME WholeInv, NEW e \in Entries
  PROVE  /\ stage[e] \in {"new", "waiting", "recorded"} => TheFate[e] = stage[e]
         /\ stage[e] \in {"failed", "gone"} => TheFate[e] = "gone"
  BY DEF TheFate

\* Ledger::append: the holder's entry goes in at the end.
LEMMA CommitStep ==
  ASSUME WholeInv, WholeInv', LogInv, NEW g \in Gateways, Write(g),
         NEW e \in Entries, e = Head(turns[g])
  PROVE  LogInv' /\ Log!Commit(e)
<1> DEFINE r == Stamp(g, e)
<1>1. TypeOK /\ rest = <<>> /\ put[g] = 0 /\ turns[g] # <<>> /\ UNCHANGED <<turns, stage>>
      /\ put' = [put EXCEPT ![g] = 3]
  BY DEF WholeInv, Write, Writing
<1>2. r \in Record /\ r.entry = e /\ e \in Entries
  BY <1>1, StampType, HolderType DEF Stamp
<1>3. Parse(Halves(r)) = r /\ Halves(r) \in Seq(Half) /\ Len(Halves(r)) = 2
  BY <1>2, ParseHalves, TwoHalves
<1>4. lines' = Append(lines, r)
  <2>1. rest \o SubSeq(Line(g), put[g] + 1, 2) = Halves(r)
    BY <1>1, <1>3 DEF Line
  <2>2. EndLine(Halves(r)) = Append(lines, r)
    <3>1. Halves(r) # <<>>
      BY DEF Halves
    <3> QED BY <1>3, <3>1 DEF EndLine
  <2> QED BY <2>1, <2>2 DEF Write
<1>5. turns[g] \in Seq(Entries) /\ 1 \in DOMAIN turns[g] /\ turns[g][1] = e
  BY <1>1 DEF TypeOK
<1>6. stage[e] = "waiting" /\ e \notin OnFile
  BY <1>1, <1>5 DEF LogInv
<1> HIDE DEF r
<1>7. lines \in Seq(Line0) /\ r \in Line0 /\ r # Garbled /\ lines' \in Seq(Line0)
  BY <1>1, <1>2, GarbledAssumption DEF TypeOK, Line0, WholeInv
<1>8. /\ Len(lines') = Len(lines) + 1 /\ DOMAIN lines' = 1 .. Len(lines) + 1
      /\ DOMAIN lines = 1 .. Len(lines) /\ Len(lines) \in Nat
      /\ \A i \in DOMAIN lines : lines'[i] = lines[i]
      /\ lines'[Len(lines) + 1] = r
  BY <1>4, <1>7
<1>9. TheLog' = Append(TheLog, e)
  <2> DEFINE longer == Append(TheLog, e)
  <2>1. TheLog \in Seq(Entries) /\ Len(TheLog) = Len(lines) /\ \A i \in DOMAIN lines : TheLog[i] = lines[i].entry
    BY TheLogType DEF TheLog
  <2>2. /\ longer \in Seq(Entries) /\ Len(longer) = Len(lines) + 1
        /\ \A i \in 1 .. Len(lines) : longer[i] = TheLog[i]
        /\ longer[Len(lines) + 1] = e
    BY <1>2, <1>8, <2>1
  <2>3. TheLog' = [i \in 1 .. Len(lines) + 1 |-> lines'[i].entry]
    BY <1>8 DEF TheLog
  <2> HIDE DEF longer
  <2>4. longer = [i \in 1 .. Len(lines) + 1 |-> longer[i]]
    BY <2>2
  <2>5. \A i \in 1 .. Len(lines) + 1 : lines'[i].entry = longer[i]
    BY <1>2, <1>8, <2>1, <2>2
  <2> QED BY <2>3, <2>4, <2>5 DEF longer
<1>10. Log!Commit(e)
  <2>1. TheFate[e] = "waiting" /\ TheFate' = TheFate /\ e \notin ToSet(TheLog)
    BY <1>1, <1>2, <1>6, FateType, TheLogType DEF TheFate
  <2> QED BY <1>9, <2>1 DEF Log!Commit, Log!ToSet, ToSet, TheLog, TheFate
<1>11. OnFile' = OnFile \cup {e}
  <2>1. \A i \in DOMAIN lines : lines[i] # Garbled
    BY DEF WholeInv, Whole
  <2> QED BY <1>2, <1>7, <1>8, <2>1 DEF OnFile
<1>12. \A h \in Gateways : put'[h] = IF h = g THEN 3 ELSE put[h]
  BY <1>1 DEF TypeOK
<1>13. \A i, j \in DOMAIN lines' : lines'[i].entry = lines'[j].entry => i = j
  <2>1. \A i \in DOMAIN lines : lines[i].entry # e
    BY <1>6 DEF WholeInv, Whole, OnFile
  <2> QED BY <1>2, <1>8, <2>1 DEF LogInv
<1>14. \A h \in Gateways : \A i \in DOMAIN turns[h] : turns[h][i] \in OnFile' => i = 1 /\ put'[h] = 3
  BY <1>1, <1>5, <1>11, <1>12 DEF LogInv
<1>15. LogInv'
  BY <1>1, <1>6, <1>11, <1>13, <1>14 DEF LogInv
<1> QED BY <1>10, <1>15

\* The holder's append ends: its caller has its answer.
LEMMA AnswerStep ==
  ASSUME WholeInv, LogInv, NEW g \in Gateways, Publish(g), NEW e \in Entries, e = Head(turns[g])
  PROVE  LogInv' /\ Log!Answer(e)
<1>1. /\ TypeOK /\ UNCHANGED lines /\ turns[g] # <<>> /\ e \in OnFile /\ put[g] = 3
      /\ turns' = [turns EXCEPT ![g] = Tail(@)] /\ put' = [put EXCEPT ![g] = 0]
      /\ stage' = [stage EXCEPT ![e] = "recorded"]
  BY DEF WholeInv, Publish, LetGo, fileVars
<1>2. /\ turns[g] \in Seq(Entries) /\ 1 \in DOMAIN turns[g] /\ turns[g][1] = e /\ e \in Entries
      /\ DOMAIN Tail(turns[g]) = 1 .. Len(turns[g]) - 1
      /\ \A i \in DOMAIN Tail(turns[g]) : i + 1 \in DOMAIN turns[g] /\ Tail(turns[g])[i] = turns[g][i + 1]
  BY <1>1 DEF TypeOK
<1>3. stage[e] = "waiting"
  BY <1>1, <1>2 DEF LogInv
<1>4. /\ \A h \in Gateways : /\ turns'[h] = IF h = g THEN Tail(turns[g]) ELSE turns[h]
                             /\ put'[h] = IF h = g THEN 0 ELSE put[h]
      /\ \A f \in Entries : stage'[f] = IF f = e THEN "recorded" ELSE stage[f]
  BY <1>1 DEF TypeOK
<1>5. Log!Answer(e)
  <2>1. TheFate[e] = "waiting" /\ e \in ToSet(TheLog) /\ TheLog' = TheLog
    BY <1>1, <1>2, <1>3, FateType, TheLogType DEF TheLog
  <2>2. TheFate' = [TheFate EXCEPT ![e] = "recorded"]
    <3>1. \A f \in Entries : TheFate'[f] = IF f = e THEN "recorded" ELSE TheFate[f]
      BY <1>4 DEF TheFate
    <3> QED BY <3>1 DEF TheFate
  <2> QED BY <2>1, <2>2 DEF Log!Answer, Log!ToSet, ToSet, TheLog, TheFate
<1>6. OnFile' = OnFile
  BY <1>1, SameOnFile
<1>7. ASSUME NEW h \in Gateways, NEW i \in DOMAIN turns'[h]
      PROVE  \E j \in DOMAIN turns[h] : turns'[h][i] = turns[h][j] /\ (h = g => j = i + 1) /\ (h # g => j = i)
  <2>1. CASE h = g
    <3>1. i \in DOMAIN turns'[g] /\ i + 1 \in DOMAIN turns[g] /\ turns'[g][i] = turns[g][i + 1]
      BY <1>2, <1>4, <2>1
    <3> QED BY <2>1, <3>1
  <2>2. CASE h # g
    BY <1>4, <2>2
  <2> QED BY <2>1, <2>2
<1>8. \A h \in Gateways : \A i \in DOMAIN turns[h] : turns[h][i] = e => h = g /\ i = 1
  BY <1>2 DEF LogInv
<1>a. \A h \in Gateways : DOMAIN turns[h] \subseteq Nat /\ DOMAIN turns'[h] \subseteq Nat
                         /\ \A i \in DOMAIN turns'[h] : i >= 1
  BY <1>1, <1>2, <1>4 DEF TypeOK
<1>9. ASSUME NEW h \in Gateways, NEW k \in Gateways, NEW i \in DOMAIN turns'[h], NEW j \in DOMAIN turns'[k],
             turns'[h][i] = turns'[k][j]
      PROVE  h = k /\ i = j
  <2>1. PICK m \in DOMAIN turns[h] : turns'[h][i] = turns[h][m] /\ (h = g => m = i + 1) /\ (h # g => m = i)
    BY <1>7
  <2>2. PICK n \in DOMAIN turns[k] : turns'[k][j] = turns[k][n] /\ (k = g => n = j + 1) /\ (k # g => n = j)
    BY <1>7
  <2>3. h = k /\ m = n
    <3>1. turns[h][m] = turns[k][n]
      BY <1>9, <2>1, <2>2
    <3> QED BY <3>1 DEF LogInv
  <2>4. i \in Nat /\ j \in Nat
    BY <1>a
  <2> QED BY <2>1, <2>2, <2>3, <2>4
<1>10. ASSUME NEW h \in Gateways, NEW i \in DOMAIN turns'[h]
       PROVE  /\ stage'[turns'[h][i]] = "waiting"
              /\ turns'[h][i] \in OnFile' => i = 1 /\ put'[h] = 3
  <2>1. PICK m \in DOMAIN turns[h] : turns'[h][i] = turns[h][m] /\ (h = g => m = i + 1) /\ (h # g => m = i)
    BY <1>7
  <2>2. i \in Nat /\ i >= 1 /\ turns[h][m] \in Entries
    BY <1>1, <1>a DEF TypeOK
  <2>3. turns[h][m] # e
    BY <1>8, <2>1, <2>2
  <2>4. stage[turns[h][m]] = "waiting" /\ (turns[h][m] \in OnFile => m = 1 /\ put[h] = 3)
    BY DEF LogInv
  <2> QED BY <1>4, <1>6, <2>1, <2>2, <2>3, <2>4
<1>11. \A f \in Entries : stage'[f] = "new" => f \notin OnFile'
  BY <1>4, <1>6 DEF LogInv
<1>12. LogInv'
  BY <1>1, <1>9, <1>10, <1>11 DEF LogInv
<1> QED BY <1>5, <1>12

LEMMA AskStep ==
  ASSUME WholeInv, LogInv, NEW g \in Gateways, NEW e \in Entries, Ask(g, e)
  PROVE  LogInv' /\ Log!Ask(e)
<1>1. /\ TypeOK /\ UNCHANGED <<lines, put>> /\ stage[e] = "new"
      /\ turns' = [turns EXCEPT ![g] = Append(@, e)]
      /\ stage' = [stage EXCEPT ![e] = "waiting"]
  BY DEF WholeInv, Ask, fileVars
<1>2. /\ \A h \in Gateways : turns'[h] = IF h = g THEN Append(turns[g], e) ELSE turns[h]
      /\ \A f \in Entries : stage'[f] = IF f = e THEN "waiting" ELSE stage[f]
      /\ \A h \in Gateways : turns[h] \in Seq(Entries)
  BY <1>1 DEF TypeOK
<1>3. OnFile' = OnFile /\ e \notin OnFile
  BY <1>1, SameOnFile DEF LogInv
<1>4. \A h \in Gateways : \A i \in DOMAIN turns[h] : turns[h][i] # e
  BY <1>1 DEF LogInv
<1>5. Log!Ask(e)
  <2>1. TheFate[e] = "new" /\ TheLog' = TheLog
    BY <1>1, FateType DEF TheLog
  <2>2. TheFate' = [TheFate EXCEPT ![e] = "waiting"]
    <3>1. \A f \in Entries : TheFate'[f] = IF f = e THEN "waiting" ELSE TheFate[f]
      BY <1>2 DEF TheFate
    <3> QED BY <3>1 DEF TheFate
  <2> QED BY <2>1, <2>2 DEF Log!Ask, TheLog, TheFate
<1>6. ASSUME NEW h \in Gateways, NEW i \in DOMAIN turns'[h]
      PROVE  \/ i \in DOMAIN turns[h] /\ turns'[h][i] = turns[h][i]
             \/ h = g /\ i = Len(turns[g]) + 1 /\ turns'[h][i] = e
  <2>1. CASE h = g
    <3>1. turns'[g] = Append(turns[g], e) /\ turns[g] \in Seq(Entries) /\ i \in DOMAIN turns'[g]
      BY <1>2, <2>1
    <3>2. i \in 1 .. Len(turns[g]) + 1 /\ DOMAIN turns[g] = 1 .. Len(turns[g]) /\ Len(turns[g]) \in Nat
      BY <3>1
    <3>3. CASE i = Len(turns[g]) + 1
      BY <2>1, <3>1, <3>3
    <3>4. CASE i # Len(turns[g]) + 1
      BY <2>1, <3>1, <3>2, <3>4
    <3> QED BY <3>3, <3>4
  <2>2. CASE h # g
    BY <1>2, <2>2
  <2> QED BY <2>1, <2>2
<1>7. ASSUME NEW h \in Gateways, NEW k \in Gateways, NEW i \in DOMAIN turns'[h], NEW j \in DOMAIN turns'[k],
             turns'[h][i] = turns'[k][j]
      PROVE  h = k /\ i = j
  <2>1. CASE turns'[h][i] = e
    <3>1. h = g /\ i = Len(turns[g]) + 1
      BY <1>4, <1>6, <2>1
    <3>2. k = g /\ j = Len(turns[g]) + 1
      BY <1>4, <1>6, <1>7, <2>1
    <3> QED BY <3>1, <3>2
  <2>2. CASE turns'[h][i] # e
    <3>1. i \in DOMAIN turns[h] /\ j \in DOMAIN turns[k] /\ turns[h][i] = turns[k][j]
      BY <1>6, <1>7, <2>2
    <3> QED BY <3>1 DEF LogInv
  <2> QED BY <2>1, <2>2
<1>8. ASSUME NEW h \in Gateways, NEW i \in DOMAIN turns'[h]
      PROVE  /\ stage'[turns'[h][i]] = "waiting"
             /\ turns'[h][i] \in OnFile' => i = 1 /\ put'[h] = 3
  <2>1. CASE turns'[h][i] = e
    BY <1>2, <1>3, <2>1
  <2>2. CASE turns'[h][i] # e
    <3>1. i \in DOMAIN turns[h] /\ turns'[h][i] = turns[h][i]
      BY <1>6, <2>2
    <3>2. turns[h][i] \in Entries
      BY <1>2, <3>1
    <3> QED BY <1>1, <1>2, <1>3, <2>2, <3>1, <3>2 DEF LogInv
  <2> QED BY <2>1, <2>2
<1>9. \A f \in Entries : stage'[f] = "new" => f \notin OnFile'
  BY <1>2, <1>3 DEF LogInv
<1>10. LogInv'
  BY <1>1, <1>7, <1>8, <1>9 DEF LogInv
<1> QED BY <1>5, <1>10

\* Callers that go without an answer leave nothing behind, whatever the places of
\* those who stay: one that gives up its place, or all of a gateway that dies.
LEMMA LeaveStep ==
  ASSUME WholeInv, LogInv, NEW S \in SUBSET Entries, UNCHANGED lines,
         \A e \in Entries : stage'[e] = IF e \in S THEN "gone" ELSE stage[e],
         \A e \in S : \E g \in Gateways : \E i \in DOMAIN turns[g] : turns[g][i] = e,
         \A g \in Gateways : \A i \in DOMAIN turns'[g] :
            \E j \in DOMAIN turns[g] :
               /\ turns'[g][i] = turns[g][j] /\ turns[g][j] \in Entries \ S
               /\ j = 1 => i = 1 /\ put'[g] = put[g]
               /\ \A k \in DOMAIN turns'[g] : turns'[g][k] = turns[g][j] => k = i
  PROVE  LogInv' /\ Log!Leave(S)
<1>1. OnFile' = OnFile
  BY SameOnFile
<1>2. \A e \in S : stage[e] = "waiting"
  BY DEF LogInv
<1>3. Log!Leave(S)
  <2>1. \A e \in S : TheFate[e] = "waiting"
    BY <1>2, FateType
  <2>2. TheFate' = [e \in Entries |-> IF e \in S THEN "gone" ELSE TheFate[e]]
    <3>1. \A e \in Entries : TheFate'[e] = IF e \in S THEN "gone" ELSE TheFate[e]
      BY DEF TheFate
    <3> QED BY <3>1 DEF TheFate
  <2>3. TheLog' = TheLog
    BY DEF TheLog
  <2> QED BY <2>1, <2>2, <2>3 DEF Log!Leave, TheLog, TheFate
<1>4. ASSUME NEW h \in Gateways, NEW k \in Gateways, NEW i \in DOMAIN turns'[h], NEW j \in DOMAIN turns'[k],
             turns'[h][i] = turns'[k][j]
      PROVE  h = k /\ i = j
  <2>1. PICK m \in DOMAIN turns[h] : turns'[h][i] = turns[h][m]
           /\ \A n \in DOMAIN turns'[h] : turns'[h][n] = turns[h][m] => n = i
    OBVIOUS
  <2>2. PICK n \in DOMAIN turns[k] : turns'[k][j] = turns[k][n]
    OBVIOUS
  <2>3. turns[h][m] = turns[k][n]
    BY <1>4, <2>1, <2>2
  <2>4. h = k
    BY <2>3 DEF LogInv
  <2> QED BY <1>4, <2>1, <2>4
<1>5. ASSUME NEW h \in Gateways, NEW i \in DOMAIN turns'[h]
      PROVE  /\ stage'[turns'[h][i]] = "waiting"
             /\ turns'[h][i] \in OnFile' => i = 1 /\ put'[h] = 3
  <2>1. PICK m \in DOMAIN turns[h] : /\ turns'[h][i] = turns[h][m] /\ turns[h][m] \in Entries \ S
                                     /\ m = 1 => i = 1 /\ put'[h] = put[h]
    OBVIOUS
  <2> QED BY <1>1, <2>1 DEF LogInv
<1>6. \A f \in Entries : stage'[f] = "new" => f \notin OnFile'
  BY <1>1 DEF LogInv
<1>7. LogInv'
  BY <1>4, <1>5, <1>6 DEF LogInv
<1> QED BY <1>3, <1>7

\* RemoveAt: what follows the place moves one up.
LEMMA WithoutPlace ==
  ASSUME NEW T, NEW s \in Seq(T), NEW i \in 1 .. Len(s), NEW r,
         r = SubSeq(s, 1, i - 1) \o SubSeq(s, i + 1, Len(s))
  PROVE  /\ DOMAIN r = 1 .. Len(s) - 1
         /\ \A k \in 1 .. Len(s) - 1 : r[k] = s[IF k < i THEN k ELSE k + 1]
<1> DEFINE before == SubSeq(s, 1, i - 1)
           after  == SubSeq(s, i + 1, Len(s))
<1>1. before \in Seq(T) /\ Len(before) = i - 1 /\ \A k \in 1 .. i - 1 : before[k] = s[k]
  OBVIOUS
<1>2. after \in Seq(T) /\ Len(after) = Len(s) - i /\ \A k \in 1 .. Len(s) - i : after[k] = s[k + i]
  OBVIOUS
<1>3. r = before \o after
  OBVIOUS
<1> HIDE DEF before, after
<1>4. DOMAIN r = 1 .. Len(before) + Len(after)
      /\ \A k \in 1 .. Len(before) + Len(after) : r[k] = IF k <= Len(before) THEN before[k] ELSE after[k - Len(before)]
  <2>1. before \in Seq(T) /\ after \in Seq(T) /\ r = before \o after
    BY <1>1, <1>2, <1>3
  <2>2. \A k \in 1 .. Len(before) + Len(after) : r[k] = IF k <= Len(before) THEN before[k] ELSE after[k - Len(before)]
    <3>1. \A k \in 1 .. Len(before) + Len(after) :
             (before \o after)[k] = IF k <= Len(before) THEN before[k] ELSE after[k - Len(before)]
      BY <2>1, ConcatProperties, Zenon
    <3> QED BY <2>1, <3>1, Zenon
  <2>3. r \in Seq(T) /\ Len(r) = Len(before) + Len(after)
    BY <2>1, ConcatProperties
  <2>4. DOMAIN r = 1 .. Len(r)
    BY <2>3
  <2> QED BY <2>2, <2>3, <2>4
<1>5. Len(s) \in Nat
  OBVIOUS
<1> DEFINE m == Len(s)
           b == Len(before)
           a == Len(after)
<1>6. m \in Nat /\ i \in 1 .. m /\ b = i - 1 /\ a = m - i
  BY <1>1, <1>2, <1>5
<1> HIDE DEF m, b, a
<1>7. /\ DOMAIN r = 1 .. b + a
      /\ \A k \in 1 .. b + a : r[k] = IF k <= b THEN before[k] ELSE after[k - b]
      /\ \A k \in 1 .. b : before[k] = s[k]
      /\ \A k \in 1 .. a : after[k] = s[k + i]
  BY <1>1, <1>2, <1>4 DEF m, b, a
<1>8. 1 .. b + a = 1 .. m - 1
  BY <1>6
<1>9. ASSUME NEW k \in 1 .. m - 1 PROVE r[k] = s[IF k < i THEN k ELSE k + 1]
  <2>1. CASE k < i
    <3>1. k \in 1 .. b /\ k <= b
      BY <1>6, <2>1
    <3> QED BY <1>7, <1>8, <2>1, <3>1
  <2>2. CASE ~(k < i)
    <3>1. k - b \in 1 .. a /\ k - b + i = k + 1 /\ ~(k <= b)
      BY <1>6, <2>2
    <3> QED BY <1>7, <1>8, <2>2, <3>1
  <2> QED BY <2>1, <2>2
<1> QED BY <1>7, <1>8, <1>9 DEF m

LEMMA GiveUpStep ==
  ASSUME WholeInv, LogInv, NEW g \in Gateways, NEW i \in DOMAIN turns[g], GiveUp(g, i),
         NEW S \in SUBSET Entries, S = {turns[g][i]}
  PROVE  LogInv' /\ Log!Leave(S)
<1>1. /\ TypeOK /\ UNCHANGED <<lines, put>>
      /\ turns' = [turns EXCEPT ![g] = SubSeq(@, 1, i - 1) \o SubSeq(@, i + 1, Len(@))]
      /\ stage' = [stage EXCEPT ![turns[g][i]] = "gone"]
  BY DEF WholeInv, GiveUp, fileVars, RemoveAt
<1>2. turns[g] \in Seq(Entries) /\ i \in 1 .. Len(turns[g]) /\ turns[g][i] \in Entries /\ Len(turns[g]) \in Nat
  BY <1>1 DEF TypeOK
<1>3. turns'[g] = SubSeq(turns[g], 1, i - 1) \o SubSeq(turns[g], i + 1, Len(turns[g]))
      /\ \A h \in Gateways \ {g} : turns'[h] = turns[h]
  BY <1>1 DEF TypeOK
<1>4. DOMAIN turns'[g] = 1 .. Len(turns[g]) - 1
      /\ \A k \in 1 .. Len(turns[g]) - 1 : turns'[g][k] = turns[g][IF k < i THEN k ELSE k + 1]
  BY <1>2, <1>3, WithoutPlace
<1>5. \A h \in Gateways : \A k \in DOMAIN turns[h] : turns[h][k] \in Entries /\ (turns[h][k] = turns[g][i] => h = g /\ k = i)
  BY <1>1 DEF LogInv, TypeOK
<1>6. ASSUME NEW h \in Gateways, NEW k \in DOMAIN turns'[h]
      PROVE  \E j \in DOMAIN turns[h] :
               /\ turns'[h][k] = turns[h][j] /\ turns[h][j] \in Entries \ S
               /\ j = 1 => k = 1 /\ put'[h] = put[h]
               /\ \A n \in DOMAIN turns'[h] : turns'[h][n] = turns[h][j] => n = k
  <2>1. CASE h = g
    <3> DEFINE place(n) == IF n < i THEN n ELSE n + 1
    <3>1. k \in 1 .. Len(turns[g]) - 1 /\ \A n \in 1 .. Len(turns[g]) - 1 : place(n) \in DOMAIN turns[g] /\ place(n) # i
                                           /\ (place(n) = 1 => n = 1)
      BY <1>2, <1>4, <2>1
    <3>2. \A n \in 1 .. Len(turns[g]) - 1 : turns'[g][n] = turns[g][place(n)]
      BY <1>4
    <3>3. \A n \in 1 .. Len(turns[g]) - 1 : place(n) = place(k) => n = k
      BY <1>2, <3>1
    <3> HIDE DEF place
    <3>4. \A n \in DOMAIN turns'[g] : turns'[g][n] = turns[g][place(k)] => n = k
      BY <1>4, <3>1, <3>2, <3>3 DEF LogInv
    <3>5. turns[g][place(k)] \in Entries \ S
      BY <1>5, <3>1
    <3> QED BY <1>1, <2>1, <3>1, <3>2, <3>4, <3>5
  <2>2. CASE h # g
    BY <1>1, <1>3, <1>5, <2>2 DEF LogInv
  <2> QED BY <2>1, <2>2
<1>7. \A e \in Entries : stage'[e] = IF e \in S THEN "gone" ELSE stage[e]
  BY <1>1 DEF TypeOK
<1>8. \A e \in S : \E h \in Gateways : \E k \in DOMAIN turns[h] : turns[h][k] = e
  OBVIOUS
<1>9. UNCHANGED lines
  BY <1>1
<1> QED BY <1>6, <1>7, <1>8, <1>9, LeaveStep

LEMMA DieStep ==
  ASSUME WholeInv, LogInv, NEW g \in Gateways, Die(g),
         NEW S \in SUBSET Entries, S = ToSet(turns[g])
  PROVE  LogInv' /\ Log!Leave(S)
<1>1. /\ TypeOK /\ UNCHANGED lines
      /\ turns' = [turns EXCEPT ![g] = <<>>] /\ put' = [put EXCEPT ![g] = 0]
      /\ stage' = [e \in Entries |-> IF e \in ToSet(turns[g]) THEN "gone" ELSE stage[e]]
  BY DEF WholeInv, Die, fileVars
<1>2. ToSet(turns[g]) = {turns[g][i] : i \in DOMAIN turns[g]} /\ ToSet(turns[g]) \in SUBSET Entries
  BY <1>1 DEF TypeOK, ToSet
<1>3. \A h \in Gateways \ {g} : turns'[h] = turns[h] /\ put'[h] = put[h]
  BY <1>1 DEF TypeOK
<1>4. turns'[g] = <<>>
  BY <1>1 DEF TypeOK
<1>5. ASSUME NEW h \in Gateways, NEW k \in DOMAIN turns'[h]
      PROVE  \E j \in DOMAIN turns[h] :
               /\ turns'[h][k] = turns[h][j] /\ turns[h][j] \in Entries \ S
               /\ j = 1 => k = 1 /\ put'[h] = put[h]
               /\ \A n \in DOMAIN turns'[h] : turns'[h][n] = turns[h][j] => n = k
  <2>1. h # g
    BY <1>4
  <2>2. turns[h][k] \in Entries /\ k \in DOMAIN turns[h]
    BY <1>1, <1>3, <2>1 DEF TypeOK
  <2>3. turns[h][k] \notin ToSet(turns[g])
    BY <1>2, <2>1, <2>2 DEF LogInv
  <2> QED BY <1>3, <2>1, <2>2, <2>3 DEF LogInv
<1>6. \A e \in Entries : stage'[e] = IF e \in S THEN "gone" ELSE stage[e]
  BY <1>1
<1>7. \A e \in S : \E h \in Gateways : \E k \in DOMAIN turns[h] : turns[h][k] = e
  BY <1>2
<1>8. UNCHANGED lines
  BY <1>1
<1> QED BY <1>5, <1>6, <1>7, <1>8, LeaveStep

\* Every step of the ledger is one of the log, or none.
LEMMA LogStep ==
  ASSUME ~Tearing, WholeInv, WholeInv', LogInv, [Next]_vars
  PROVE  LogInv' /\ [Log!Next]_<<TheLog, TheFate>>
<1>1. ASSUME UNCHANGED <<lines, turns, put, stage>>
      PROVE  LogInv' /\ UNCHANGED <<TheLog, TheFate>>
  BY <1>1, SameOnFile DEF LogInv, TheLog, TheFate
<1>2. CASE UNCHANGED vars
  BY <1>1, <1>2 DEF vars, fileVars
<1>3. ASSUME NEW g \in Gateways, Open(g) \/ Refuse(g)
      PROVE  LogInv' /\ UNCHANGED <<TheLog, TheFate>>
  BY <1>1, <1>3 DEF Open, Refuse, fileVars
<1>4. ASSUME NEW g \in Gateways, Die(g)
      PROVE  LogInv' /\ Log!Next
  <2>0. ToSet(turns[g]) \in SUBSET Entries
    BY DEF WholeInv, TypeOK, ToSet
  <2>1. PICK S \in SUBSET Entries : S = ToSet(turns[g])
    BY <2>0
  <2> QED BY <1>4, <2>1, DieStep DEF Log!Next
<1>5. ASSUME NEW g \in Gateways, Write(g)
      PROVE  LogInv' /\ Log!Next
  <2>1. PICK e \in Entries : e = Head(turns[g])
    BY <1>5, HolderType DEF WholeInv, Write, Writing
  <2> QED BY <1>5, <2>1, CommitStep DEF Log!Next
<1>6. ASSUME NEW g \in Gateways, Publish(g)
      PROVE  LogInv' /\ Log!Next
  <2>1. PICK e \in Entries : e = Head(turns[g])
    BY <1>6, HolderType DEF WholeInv, Publish
  <2> QED BY <1>6, <2>1, AnswerStep DEF Log!Next
<1>7. ASSUME NEW g \in Gateways, NEW e \in Entries, Ask(g, e)
      PROVE  LogInv' /\ Log!Next
  BY <1>7, AskStep DEF Log!Next
<1>8. ASSUME NEW g \in Gateways, NEW i \in DOMAIN turns[g], GiveUp(g, i)
      PROVE  LogInv' /\ Log!Next
  <2>0. {turns[g][i]} \in SUBSET Entries
    BY DEF WholeInv, TypeOK
  <2>1. PICK S \in SUBSET Entries : S = {turns[g][i]}
    BY <2>0
  <2> QED BY <1>8, <2>1, GiveUpStep DEF Log!Next
<1>9. \A g \in Gateways : ~WriteSome(g) /\ ~WriteFails(g)
  BY DEF WriteSome, WriteFails
<1> QED BY <1>2, <1>3, <1>4, <1>5, <1>6, <1>7, <1>8, <1>9 DEF Next, Task

LEMMA InitWhole == Init => WholeInv /\ LogInv /\ Log!Init
<1> SUFFICES ASSUME Init PROVE WholeInv /\ LogInv /\ Log!Init
  OBVIOUS
<1>1. WholeInv
  BY DEF Init, WholeInv, TypeOK, RecordedIsOnFile, Whole, Head0, Heads, Genesis, Hashes, Line0
<1>2. OnFile = {}
  BY DEF Init, OnFile
<1>3. LogInv
  BY <1>2 DEF Init, LogInv
<1>4. Log!Init
  <2>1. TheLog = <<>>
    BY DEF Init, TheLog
  <2>2. TheFate = [e \in Entries |-> "new"]
    BY DEF Init, TheFate
  <2> QED BY <2>1, <2>2 DEF Log!Init, TheLog, TheFate
<1> QED BY <1>1, <1>3, <1>4

(***************************************************************************)
(* LedgerHandle::append: one log, which each entry goes into at most once, *)
(* while its caller waits, and for good, however many gateways append to   *)
(* the file, die and start again, and however many callers leave.          *)
(***************************************************************************)
THEOREM TheLedgerIsALog == ASSUME ~Tearing PROVE Spec => KeepsLog
<1>1. Init => WholeInv /\ LogInv /\ Log!Init
  BY InitWhole
<1>2. WholeInv /\ LogInv /\ [Next]_vars => WholeInv' /\ LogInv' /\ [Log!Next]_<<TheLog, TheFate>>
  BY WholeStep, LogStep
<1>3. [Log!Next]_<<TheLog, TheFate>> => [Log!Next]_<<[i \in DOMAIN lines |-> lines[i].entry],
         [e \in Entries |-> IF stage[e] \in {"failed", "gone"} THEN "gone" ELSE stage[e]]>>
  BY DEF TheLog, TheFate
<1> QED BY <1>1, <1>2, <1>3, PTL DEF Spec, KeepsLog, Log!Spec

-----------------------------------------------------------------------------
(***************************************************************************)
(* Verify, beside the appends: what it noted as written stays a point of   *)
(* the file, which only grows.                                             *)
(***************************************************************************)

\* The file has that many lines, and the last of them that hash.
PointOf(h) == h.next = 0 \/ (h.next \in DOMAIN lines /\ lines[h.next].hash = h.hash)

VerifyInv ==
    /\ \A g \in Gateways : PointOf(shown[g])
    /\ noted = NotNoted \/ (noted \in Heads /\ PointOf(noted))
    /\ verdict = NoBreak

\* Each entry is on one line at most, so there are no more lines than entries.
LEMMA LinesCounted ==
  ASSUME WholeInv, LogInv, IsFiniteSet(Entries)
  PROVE  Len(lines) <= Cardinality(Entries)
<1>1. Len(lines) \in Nat /\ TheLog \in [1 .. Len(lines) -> Entries]
  BY TheLogType DEF WholeInv, TypeOK
<1>2. IsFiniteSet(1 .. Len(lines)) /\ Cardinality(1 .. Len(lines)) = Len(lines)
  BY <1>1, FS_Interval
<1>3. Cardinality(Entries) \in Nat
  BY FS_CardinalityType
<1>4. \A i, j \in 1 .. Len(lines) : TheLog[i] = TheLog[j] => i = j
  BY <1>1 DEF LogInv, TheLog
<1>5. ~(Cardinality(Entries) < Cardinality(1 .. Len(lines)))
  BY <1>1, <1>2, <1>4, FS_PigeonHole
<1> QED BY <1>1, <1>2, <1>3, <1>5

\* A line once out is there for good.
LEMMA LinesStay ==
  ASSUME TypeOK, [Next]_vars
  PROVE  \A i \in DOMAIN lines : i \in DOMAIN lines' /\ lines'[i] = lines[i]
<1>1. lines \in Seq(Line0)
  BY DEF TypeOK
<1>2. lines' = lines \/ \E r : lines' = Append(lines, r)
  BY DEF Next, Task, Open, Refuse, Die, Ask, GiveUp, WriteSome, Write, WriteFails, Publish, EndLine, vars, fileVars
<1>3. ASSUME NEW r, lines' = Append(lines, r)
      PROVE  \A i \in DOMAIN lines : i \in DOMAIN lines' /\ lines'[i] = lines[i]
  BY <1>1, <1>3
<1> QED BY <1>2, <1>3

LEMMA PointStays ==
  ASSUME WholeInv, [Next]_vars, NEW h \in Heads, PointOf(h)
  PROVE  PointOf(h)'
  BY LinesStay DEF PointOf, WholeInv

\* The end of the file is such a point, and the head the holder publishes is it.
LEMMA EndIsPoint ==
  ASSUME WholeInv
  PROVE  PointOf(EndOf(lines)) /\ EndOf(lines) \in Heads
<1>1. lines \in Seq(Line0) /\ Whole(lines)
  BY DEF WholeInv, TypeOK
<1>2. CASE lines = <<>>
  BY <1>1, <1>2, WholeType DEF PointOf, EndOf
<1>3. CASE lines # <<>>
  <2>1. Len(lines) \in DOMAIN lines
    BY <1>1, <1>3
  <2> QED BY <1>1, <1>3, <2>1, WholeType DEF PointOf, EndOf, HeadHash
<1> QED BY <1>2, <1>3

LEMMA ShownStep ==
  ASSUME LedgerInv, WholeInv, WholeInv', VerifyInv, [Next]_vars, NEW g \in Gateways
  PROVE  PointOf(shown[g])'
<1>1. shown \in [Gateways -> Heads]
  BY DEF WholeInv, TypeOK
<1>2. PICK h0 \in Heads : h0 = shown[g]
  BY <1>1
<1>3. PointOf(h0)'
  BY <1>2, PointStays DEF VerifyInv
<1>4. shown \in [Gateways -> Heads] /\ (shown'[g] = shown[g] => PointOf(shown[g])')
  BY <1>1, <1>2, <1>3 DEF PointOf
<1>5. CASE shown'[g] = shown[g]
  BY <1>4, <1>5
<1>6. ASSUME NEW h \in Gateways, Open(h)
      PROVE  PointOf(shown[g])'
  <2>1. LinesRead = lines /\ lines' = lines
    BY <1>6, LinesReadType DEF WholeInv, Open, fileVars
  <2>2. shown'[g] = shown[g] \/ shown'[g] = EndOf(lines)
    BY <1>4, <1>6, <2>1 DEF Open, EndOf, WholeInv, TypeOK
  <2>3. PointOf(EndOf(lines))'
    BY <2>1, EndIsPoint DEF PointOf, EndOf, HeadHash
  <2>4. EndOf(lines)' = EndOf(lines)
    BY <2>1 DEF EndOf, HeadHash
  <2> QED BY <1>4, <2>1, <2>2, EndIsPoint DEF PointOf
<1>7. ASSUME NEW h \in Gateways, Publish(h)
      PROVE  PointOf(shown[g])'
  <2>1. ledger[h] = EndOf(lines) /\ lines' = lines
    BY <1>7 DEF LedgerInv, AtEnd, WholeInv, Publish, fileVars
  <2>2. shown'[g] = shown[g] \/ shown'[g] = EndOf(lines)
    BY <1>4, <1>7, <2>1 DEF Publish
  <2> QED BY <1>4, <2>1, <2>2, EndIsPoint DEF PointOf
<1>8. CASE UNCHANGED shown
  BY <1>5, <1>8
<1>9. \/ UNCHANGED shown \/ \E h \in Gateways : Open(h) \/ Publish(h)
  BY DEF Next, Task, Refuse, Die, Ask, GiveUp, WriteSome, Write, WriteFails, vars
<1> QED BY <1>6, <1>7, <1>8, <1>9

\* What is on file verifies, and against each of its points.
LEMMA PointVerifies ==
  ASSUME LedgerInv, WholeInv, Len(lines) < MaxSeq, NEW h \in Heads, PointOf(h)
  PROVE  VerifyWritten(LinesRead, h.hash, h.next) = NoBreak
<1>1. LinesRead = lines /\ BrokenAt(lines) = NoBreak
  BY LinesReadType, InvVerifies DEF WholeInv, ChainVerifies
<1>2. lines \in Seq(Line0) /\ Len(lines) \in Nat /\ DOMAIN lines = 1 .. Len(lines) /\ h.next \in Nat
  BY DEF WholeInv, TypeOK, Heads
<1>3. CASE h.next = 0
  BY <1>1, <1>2, <1>3 DEF VerifyWritten
<1>4. CASE h.next # 0
  <2>1. h.next \in 1 .. Len(lines) /\ lines[h.next].hash = h.hash
    BY <1>2, <1>4 DEF PointOf
  <2>2. \A i \in 1 .. Len(lines) : lines[i].seq = i - 1
    BY <1>2 DEF LedgerInv, ChainSoFar, Linked, WholeInv
  <2>3. {i \in 1 .. Len(lines) : lines[i].seq = h.next - 1} = {h.next}
    BY <1>2, <2>1, <2>2
  <2>4. First({h.next}) = h.next
    BY <1>2 DEF First
  <2>5. Marked(lines, h.next - 1) = h.hash
    BY <2>1, <2>3, <2>4 DEF Marked
  <2> QED BY <1>1, <1>2, <1>4, <2>1, <2>5 DEF VerifyWritten
<1> QED BY <1>3, <1>4

LEMMA VerifyStep ==
  ASSUME LedgerInv, WholeInv, WholeInv', VerifyInv, Len(lines) < MaxSeq, [RNext]_rvars, [Next]_vars
  PROVE  VerifyInv'
<1>1. \A g \in Gateways : PointOf(shown[g])'
  <2>1. ASSUME NEW g \in Gateways PROVE PointOf(shown[g])'
    BY ShownStep DEF PointOf
  <2> QED BY <2>1
<1>2. noted' = NotNoted \/ (noted' \in Heads /\ PointOf(noted)')
  <2>1. CASE noted' = noted
    <3>1. CASE noted = NotNoted
      BY <2>1, <3>1
    <3>2. CASE noted \in Heads /\ PointOf(noted)
      <4>1. PICK h \in Heads : h = noted
        BY <3>2
      <4>2. PointOf(h)'
        BY <3>2, <4>1, PointStays
      <4> QED BY <2>1, <3>2, <4>1, <4>2 DEF PointOf
    <3> QED BY <3>1, <3>2 DEF VerifyInv
  <2>2. CASE Note
    <3>1. noted' = shown[Home] /\ shown' = shown /\ shown[Home] \in Heads
      BY <2>2, HomeAssumption DEF Note, WholeInv, TypeOK, vars
    <3>2. PointOf(shown[Home])'
      BY <1>1, HomeAssumption
    <3> QED BY <3>1, <3>2 DEF PointOf
  <2>3. noted' = noted \/ noted' = NotNoted \/ Note
    BY DEF RNext, rvars, LedgerStep, ReadersDie, Subscribe, StreamTask, Locate, LocateFails, Read, ReadFails,
           SendNext, BatchDone, Wake, Receive, Cut, Answer, AnswerCorrupt, streamVars, verifyVars
  <2> QED BY <2>1, <2>2, <2>3
<1>3. verdict' = NoBreak
  <2>1. CASE Answer
    <3>1. noted \in Heads /\ PointOf(noted) /\ verdict' = VerifyWritten(LinesRead, noted.hash, noted.next)
      BY <2>1 DEF Answer, VerifyInv
    <3> QED BY <3>1, PointVerifies
  <2>2. verdict' = verdict \/ Answer
    BY DEF RNext, rvars, LedgerStep, ReadersDie, Subscribe, StreamTask, Locate, LocateFails, Read, ReadFails,
           SendNext, BatchDone, Wake, Receive, Cut, Note, AnswerCorrupt, streamVars, verifyVars
  <2> QED BY <2>1, <2>2 DEF VerifyInv
<1> QED BY <1>1, <1>2, <1>3 DEF VerifyInv

\* A step of the readers is one of the ledger, or leaves it alone.
LEMMA ReadersRefine == [RNext]_rvars => [Next]_vars
  BY HomeAssumption DEF RNext, rvars, LedgerStep, ReadersDie, Next, Subscribe, StreamTask, Locate, LocateFails,
     Read, ReadFails, SendNext, BatchDone, Wake, Receive, Cut, Note, Answer, AnswerCorrupt

\* The readers only read (admin/audit.rs, read.rs): what is proved of the ledger
\* holds with a stream and verifies beside it.
THEOREM ReadersOnlyRead == RSpec => Spec
<1>1. RInit => Init
  BY DEF RInit
<1> QED BY <1>1, ReadersRefine, PTL DEF RSpec, Spec

\* What a gateway has published, or is about to publish, is always a point of the file.
LEMMA VerifyInvariance ==
  ASSUME ~Tearing, OneWriter, IsFiniteSet(Entries), Cardinality(Entries) < MaxSeq
  PROVE  RSpec => [](LedgerInv /\ WholeInv /\ VerifyInv)
<1> DEFINE Inv == LedgerInv /\ WholeInv /\ LogInv /\ VerifyInv
<1>1. RInit => Inv
  <2> SUFFICES ASSUME RInit PROVE Inv
    OBVIOUS
  <2>1. LedgerInv /\ WholeInv /\ LogInv
    BY InitInv, InitWhole DEF RInit
  <2>2. VerifyInv
    BY DEF RInit, Init, ReadersInit, VerifyInv, PointOf, Head0
  <2> QED BY <2>1, <2>2
<1>2. Inv /\ [RNext]_rvars => Inv'
  <2> SUFFICES ASSUME Inv, [RNext]_rvars PROVE Inv'
    OBVIOUS
  <2>1. [Next]_vars
    BY ReadersRefine
  <2>2. LedgerInv'
    BY <2>1, StepInv
  <2>3. WholeInv'
    BY <2>1, WholeStep
  <2>4. LogInv'
    BY <2>1, <2>3, LogStep
  <2>5. Len(lines) < MaxSeq
    <3>1. Len(lines) \in Nat /\ Cardinality(Entries) \in Nat
      BY FS_CardinalityType DEF WholeInv, TypeOK
    <3> QED BY <3>1, LinesCounted, MaxSeqAssumption
  <2> QED BY <2>1, <2>2, <2>3, <2>4, <2>5, VerifyStep
<1>3. Inv => LedgerInv /\ WholeInv /\ VerifyInv
  OBVIOUS
<1> QED BY <1>1, <1>2, <1>3, PTL DEF RSpec

\* "one that has grown since passes" (admin/audit.rs verify): of a file that one
\* gateway writes, in whole lines, no verify ever says that it is broken or cut,
\* whatever is appended, and however often the gateway starts again, between the
\* look at what is written and the reading. A file has numbers for all there is
\* to record.
THEOREM VerifyNeverCriesWolf ==
  ASSUME ~Tearing, OneWriter, IsFiniteSet(Entries), Cardinality(Entries) < MaxSeq
  PROVE  RSpec => []NoFalseAlarm
<1>1. LedgerInv /\ WholeInv /\ VerifyInv => NoFalseAlarm
  BY DEF VerifyInv, NoFalseAlarm
<1> QED BY <1>1, VerifyInvariance, PTL

-----------------------------------------------------------------------------
(***************************************************************************)
(* The stream: what the browser has, what is on its way and what is read   *)
(* and not passed on are, end to end, the file from where it began.        *)
(***************************************************************************)
Streaming == phase \in {"reading", "sending", "waiting"}

\* The lines the task has passed on.
Sent == at - Len(batch)

\* Line p holds the record numbered n.
Numbered(p, n) == lines[p] # Garbled /\ lines[p].seq = n

StreamType ==
    /\ phase \in {"closed", "subscribed", "reading", "sending", "waiting"}
    /\ at \in Nat /\ since \in Nat /\ since <= Len(lines)
    /\ last \in Nat \cup {NoId} /\ got \in Seq(Nat)
    /\ wire \in Seq([id : Nat, data : BOOLEAN]) /\ batch \in Seq(Line0)

BatchInv ==
    /\ phase # "sending" => batch = <<>>
    /\ Streaming => at <= Len(lines) /\ since <= Sent
    /\ \A k \in DOMAIN batch : batch[k] # Garbled /\ batch[k] = lines[Sent + k]

\* On its way, in order, are records passed on and past what the browser saw,
\* among them every one the filter takes.
WireInv ==
    /\ ~Streaming => wire = <<>>
    /\ \A i, j \in DOMAIN wire : i < j => wire[i].id < wire[j].id
    /\ \A i \in DOMAIN wire :
          /\ wire[i].id > last
          /\ \E p \in since + 1 .. Sent :
                Numbered(p, wire[i].id) /\ (wire[i].data <=> lines[p].entry \in Wanted)
    /\ Streaming => \A p \in since + 1 .. Sent :
          lines[p] # Garbled /\ lines[p].seq > last /\ lines[p].entry \in Wanted
             => \E i \in DOMAIN wire : wire[i].id = lines[p].seq

\* The browser is at a record behind its start, that was passed on to it.
PlaceInv ==
    IF last = NoId THEN got = <<>>
    ELSE \E p \in since + 1 .. Len(lines) : Numbered(p, last) /\ (Streaming => p <= Sent)

StreamInv == StreamType /\ BatchInv /\ WireInv /\ PlaceInv /\ StreamIsExact

\* The numbers of the wanted lines behind the browser's start, to its last id.
Due == {i \in since + 1 .. Len(lines) :
           lines[i] # Garbled /\ lines[i].seq <= last /\ lines[i].entry \in Wanted}

\* A set of numbers has a least one.
LEMMA Least ==
  ASSUME NEW T \in SUBSET Nat, T # {}
  PROVE  \E m \in T : \A j \in T : m <= j
<1> DEFINE before == {ss \in Nat \X Nat : ss[1] < ss[2]}
<1>1. IsWellFoundedOn(before, Nat)
  BY NatLessThanWellFounded DEF OpToRel
<1>2. PICK m \in T : \A j \in T : ~(<<j, m>> \in before)
  <2> HIDE DEF before
  <2> QED BY <1>1, WFMin
<1>3. ASSUME NEW j \in T PROVE m <= j
  <2>1. m \in Nat /\ j \in Nat
    OBVIOUS
  <2>2. ASSUME j < m PROVE <<j, m>> \in before
    <3>1. <<j, m>>[1] = j /\ <<j, m>>[2] = m /\ <<j, m>> \in Nat \X Nat
      BY <2>1
    <3> QED BY <2>2, <3>1
  <2>3. ~(j < m)
    <3> HIDE DEF before
    <3> QED BY <1>2, <2>2
  <2> QED BY <2>1, <2>3
<1> QED BY <1>3

LEMMA FirstIsLeast ==
  ASSUME NEW T \in SUBSET Nat, T # {}
  PROVE  First(T) \in T /\ \A j \in T : First(T) <= j
  BY Least DEF First

\* Of two lines the later has the greater number, and a number is on one line.
LEMMA InOrder ==
  ASSUME TypeOK, NumbersGrow, NEW p \in DOMAIN lines, NEW q \in DOMAIN lines, lines[p] # Garbled, lines[q] # Garbled
  PROVE  /\ lines[p].seq \in Nat /\ lines[q].seq \in Nat /\ lines[p].entry \in Entries
         /\ p < q => lines[p].seq < lines[q].seq
         /\ lines[p].seq = lines[q].seq => p = q
         /\ lines[p].seq < lines[q].seq => p < q
<1>1. lines \in Seq(Line0) /\ p \in Nat /\ q \in Nat
  BY DEF TypeOK
<1>2. lines[p] \in Record /\ lines[q] \in Record
  BY <1>1 DEF Line0
<1>3. lines[p].seq \in Nat /\ lines[q].seq \in Nat /\ lines[p].entry \in Entries
  BY <1>2 DEF Record
<1>4. (p < q => lines[p].seq < lines[q].seq) /\ (q < p => lines[q].seq < lines[p].seq)
  BY DEF NumbersGrow
<1> QED BY <1>1, <1>3, <1>4

\* The same after the step.
LEMMA InOrderNext ==
  ASSUME TypeOK', NumbersGrow', NEW p \in DOMAIN lines', NEW q \in DOMAIN lines', lines'[p] # Garbled, lines'[q] # Garbled
  PROVE  /\ lines'[p].seq \in Nat /\ lines'[q].seq \in Nat
         /\ p < q => lines'[p].seq < lines'[q].seq
<1>1. lines' \in Seq(Line0)
  BY DEF TypeOK
<1>2. lines'[p] \in Record /\ lines'[q] \in Record
  BY <1>1 DEF Line0
<1> QED BY <1>2 DEF NumbersGrow, Record

\* Follow::after: the lines before the place it finds are those the browser has
\* seen, numbered.
LEMMA Found ==
  ASSUME TypeOK, NumbersGrow, NEW n \in Nat, NEW p \in DOMAIN lines, Numbered(p, n)
  PROVE  /\ FirstFrom(n + 1) \in p .. Len(lines)
         /\ \A q \in 1 .. FirstFrom(n + 1) : lines[q] # Garbled => lines[q].seq <= n
<1> DEFINE T == {i \in DOMAIN lines : lines[i] # Garbled /\ lines[i].seq >= n + 1}
<1>1. lines \in Seq(Line0) /\ DOMAIN lines = 1 .. Len(lines) /\ Len(lines) \in Nat /\ p \in Nat /\ T \in SUBSET Nat
  BY DEF TypeOK
<1>2. \A q \in DOMAIN lines : lines[q] # Garbled => lines[q].seq \in Nat /\ (q \notin T => lines[q].seq <= n)
  BY InOrder
<1>3. CASE T = {}
  <2>1. FirstFrom(n + 1) = Len(lines)
    BY <1>3 DEF FirstFrom
  <2>2. \A q \in DOMAIN lines : q \notin T
    BY <1>3
  <2> HIDE DEF T
  <2> QED BY <1>1, <1>2, <2>1, <2>2
<1>4. CASE T # {}
  <2>1. FirstFrom(n + 1) = First(T) - 1
    BY <1>4 DEF FirstFrom
  <2>2. First(T) \in T /\ \A j \in T : First(T) <= j
    BY <1>1, <1>4, FirstIsLeast
  <2>3. PICK m \in T : m = First(T)
    BY <2>2
  <2>4. m \in DOMAIN lines /\ lines[m] # Garbled /\ lines[m].seq >= n + 1 /\ m \in Nat
    BY <1>1, <2>3
  <2>5. p < m
    BY <2>4, InOrder DEF Numbered
  <2>6. \A q \in 1 .. m - 1 : q \in DOMAIN lines /\ q \notin T
    <3> HIDE DEF T
    <3> QED BY <1>1, <2>2, <2>3, <2>4
  <2> HIDE DEF T
  <2> QED BY <1>1, <1>2, <2>1, <2>3, <2>4, <2>5, <2>6
<1> QED BY <1>3, <1>4

LEMMA LocateStep ==
  ASSUME TypeOK, NumbersGrow, StreamInv, Locate
  PROVE  StreamInv'
<1>1. /\ StreamType /\ phase = "subscribed" /\ phase' = "reading" /\ wire = <<>> /\ batch = <<>>
      /\ UNCHANGED <<lines, batch, wire, last, got>>
      /\ lines \in Seq(Line0) /\ DOMAIN lines = 1 .. Len(lines) /\ Len(lines) \in Nat
  BY DEF StreamInv, BatchInv, WireInv, Streaming, Locate, vars, fileVars, TypeOK
<1>2. Streaming' /\ (at' \in Nat => Sent' = at')
  <2>1. Len(batch') = 0
    BY <1>1
  <2> QED BY <1>1, <2>1 DEF Sent, Streaming
<1>3. CASE last = NoId
  <2>1. at' = Len(lines) /\ since' = Len(lines) /\ got = <<>>
    BY <1>1, <1>3 DEF Locate, StreamInv, PlaceInv
  <2>2. \A p \in since' + 1 .. Len(lines) : FALSE
    BY <1>1, <2>1
  <2>3. StreamType'
    BY <1>1, <2>1 DEF StreamType
  <2>4. BatchInv' /\ WireInv'
    BY <1>1, <1>2, <2>1, <2>2 DEF BatchInv, WireInv
  <2>5. PlaceInv'
    BY <1>1, <1>3, <2>1 DEF PlaceInv
  <2>6. StreamIsExact'
    BY <1>1, <2>1, <2>2 DEF StreamIsExact, ToSet
  <2> QED BY <2>3, <2>4, <2>5, <2>6 DEF StreamInv
<1>4. CASE last # NoId
  <2>1. PICK p \in since + 1 .. Len(lines) : Numbered(p, last)
    BY <1>4 DEF StreamInv, PlaceInv
  <2>2. at' = FirstFrom(last + 1) /\ since' = since /\ last \in Nat /\ since \in Nat /\ p \in DOMAIN lines
    BY <1>1, <1>4, <2>1 DEF Locate, StreamType
  <2>3. at' \in p .. Len(lines) /\ \A q \in 1 .. at' : lines[q] # Garbled => lines[q].seq <= last
    BY <2>1, <2>2, Found
  <2>4. at' \in Nat /\ since <= at' /\ at' <= Len(lines) /\ p <= at'
    BY <1>1, <2>1, <2>2, <2>3
  <2>5. StreamType'
    BY <1>1, <2>2, <2>4 DEF StreamType
  <2>6. BatchInv'
    BY <1>1, <1>2, <2>2, <2>4 DEF BatchInv
  <2>7. WireInv'
    <3>1. ASSUME NEW q \in since + 1 .. at', lines[q] # Garbled
          PROVE  ~(lines[q].seq > last)
      <4>1. q \in 1 .. at' /\ q \in DOMAIN lines
        BY <1>1, <2>2, <2>4
      <4>2. lines[q].seq \in Nat
        BY <3>1, <4>1, InOrder
      <4> QED BY <2>2, <2>3, <3>1, <4>1, <4>2
    <3> QED BY <1>1, <1>2, <2>2, <2>4, <3>1 DEF WireInv
  <2>8. PlaceInv'
    BY <1>1, <1>2, <1>4, <2>1, <2>2, <2>4 DEF PlaceInv, Numbered
  <2>9. StreamIsExact'
    BY <1>1, <2>2 DEF StreamInv, StreamIsExact
  <2> QED BY <2>5, <2>6, <2>7, <2>8, <2>9 DEF StreamInv
<1> QED BY <1>3, <1>4
LEMMA LinesTaken ==
  ASSUME NEW T, NEW s \in Seq(T), NEW a \in Nat, NEW m \in Nat, a <= m, m <= Len(s)
  PROVE  /\ SubSeq(s, a + 1, m) \in Seq(T) /\ Len(SubSeq(s, a + 1, m)) = m - a
         /\ \A k \in 1 .. m - a : SubSeq(s, a + 1, m)[k] = s[a + k]
  OBVIOUS

\* Follow::read.
LEMMA ReadStep ==
  ASSUME TypeOK, NumbersGrow, StreamInv, Read
  PROVE  StreamInv'
<1> DEFINE m == IF Len(lines) < at + Batch THEN Len(lines) ELSE at + Batch
           r == SubSeq(lines, at + 1, m)
<1>1. /\ StreamType /\ phase = "reading" /\ Streaming /\ batch = <<>>
      /\ phase' = "sending" /\ UNCHANGED <<lines, wire, last, got, since>>
      /\ batch' = r /\ at' = at + Len(r) /\ Whole(r)
      /\ lines \in Seq(Line0) /\ DOMAIN lines = 1 .. Len(lines) /\ Len(lines) \in Nat
  BY DEF StreamInv, BatchInv, Streaming, Read, Chunk, vars, fileVars, TypeOK
<1>2. at \in Nat /\ at <= Len(lines) /\ m \in Nat /\ at <= m /\ m <= Len(lines)
  BY <1>1, HomeAssumption DEF StreamInv, BatchInv, StreamType
<1> HIDE DEF m
<1>3. r \in Seq(Line0) /\ Len(r) = m - at /\ \A k \in 1 .. m - at : r[k] = lines[at + k]
  BY <1>1, <1>2, LinesTaken
<1> HIDE DEF r
<1>4. Sent = at /\ Sent' = at /\ Streaming' /\ at' = m
  <2>1. Len(batch) = 0
    BY <1>1
  <2> QED BY <1>1, <1>2, <1>3, <2>1 DEF Sent, Streaming
<1>5. StreamType'
  BY <1>1, <1>2, <1>3, <1>4 DEF StreamType
<1>6. BatchInv'
  <2>1. since <= at
    BY <1>1, <1>4 DEF StreamInv, BatchInv
  <2>2. \A k \in DOMAIN r : r[k] # Garbled /\ r[k] = lines[at + k]
    BY <1>1, <1>3 DEF Whole
  <2> QED BY <1>1, <1>2, <1>4, <2>1, <2>2 DEF BatchInv
<1>7. WireInv' /\ PlaceInv' /\ StreamIsExact'
  <2>1. WireInv /\ PlaceInv /\ StreamIsExact
    BY DEF StreamInv
  <2>2. WireInv'
    BY <1>1, <1>4, <2>1 DEF WireInv, Numbered
  <2>3. PlaceInv'
    BY <1>1, <1>4, <2>1 DEF PlaceInv, Numbered
  <2>4. StreamIsExact'
    BY <1>1, <2>1 DEF StreamIsExact
  <2> QED BY <2>2, <2>3, <2>4
<1> QED BY <1>5, <1>6, <1>7 DEF StreamInv

\* The task ends, or waits, or has its batch behind it.
LEMMA SamePlace ==
  ASSUME TypeOK, StreamInv, UNCHANGED <<lines, at, last, got, since>>,
         \/ phase' \in {"closed", "subscribed"} /\ wire' = <<>> /\ batch' = <<>>
         \/ /\ Streaming /\ phase' \in {"reading", "sending", "waiting"} /\ UNCHANGED <<wire, batch>>
            /\ phase' # "sending" => batch = <<>>
  PROVE  StreamInv'
<1>1. StreamType /\ BatchInv /\ WireInv /\ PlaceInv /\ StreamIsExact
  BY DEF StreamInv
<1>2. StreamIsExact'
  BY <1>1 DEF StreamIsExact
<1>3. CASE phase' \in {"closed", "subscribed"} /\ wire' = <<>> /\ batch' = <<>>
  <2>1. ~Streaming'
    BY <1>3 DEF Streaming
  <2>2. StreamType'
    BY <1>1, <1>3 DEF StreamType
  <2>3. BatchInv' /\ WireInv'
    BY <1>3, <2>1 DEF BatchInv, WireInv
  <2>4. PlaceInv'
    BY <1>1, <2>1 DEF PlaceInv, Numbered
  <2> QED BY <1>2, <2>2, <2>3, <2>4 DEF StreamInv
<1>4. CASE /\ Streaming /\ phase' \in {"reading", "sending", "waiting"} /\ UNCHANGED <<wire, batch>>
           /\ phase' # "sending" => batch = <<>>
  <2>1. Streaming' /\ Streaming /\ Sent' = Sent
    BY <1>4 DEF Streaming, Sent
  <2>2. StreamType'
    BY <1>1, <1>4 DEF StreamType
  <2>3. BatchInv'
    BY <1>1, <1>4, <2>1 DEF BatchInv
  <2>4. WireInv'
    BY <1>1, <1>4, <2>1 DEF WireInv, Numbered
  <2>5. PlaceInv'
    BY <1>1, <2>1 DEF PlaceInv, Numbered
  <2> QED BY <1>2, <2>2, <2>3, <2>4, <2>5 DEF StreamInv
<1> QED BY <1>3, <1>4

\* The appends, beside the stream.
LEMMA AppendsBeside ==
  ASSUME TypeOK, TypeOK', NumbersGrow', StreamInv, [Next]_vars, UNCHANGED streamVars
  PROVE  StreamInv'
<1>1. StreamType /\ BatchInv /\ WireInv /\ PlaceInv /\ StreamIsExact
  BY DEF StreamInv
<1>2. UNCHANGED <<phase, seen, at, batch, full, wire, last, got, since>>
  BY DEF streamVars
<1>3. /\ lines \in Seq(Line0) /\ DOMAIN lines = 1 .. Len(lines) /\ Len(lines) \in Nat
      /\ lines' \in Seq(Line0) /\ DOMAIN lines' = 1 .. Len(lines') /\ Len(lines') \in Nat
  BY DEF TypeOK
<1>4. Len(lines) <= Len(lines') /\ \A i \in 1 .. Len(lines) : lines'[i] = lines[i]
  BY <1>3, LinesStay
<1>5. Sent' = Sent /\ (Streaming' <=> Streaming) /\ (Streaming => Sent <= Len(lines) /\ Sent \in Int)
  BY <1>1, <1>2, <1>3 DEF Streaming, Sent, BatchInv, StreamType
<1>6. since \in Nat /\ since <= Len(lines)
  BY <1>1 DEF StreamType
<1>7. StreamType'
  BY <1>1, <1>2, <1>3, <1>4 DEF StreamType
<1>8. BatchInv'
  <2>1. Streaming => at <= Len(lines') /\ since <= Sent
    BY <1>1, <1>3, <1>4 DEF BatchInv, StreamType
  <2>2. ASSUME NEW k \in DOMAIN batch PROVE lines'[Sent + k] = lines[Sent + k]
    <3>1. Streaming /\ at <= Len(lines) /\ batch # <<>> /\ since <= Sent
      BY <1>1, <1>2 DEF BatchInv, Streaming
    <3>2. k \in 1 .. Len(batch) /\ Len(batch) \in Nat /\ at \in Nat /\ since \in Nat
      BY <1>1 DEF StreamType
    <3>3. Sent + k \in 1 .. Len(lines)
      BY <1>3, <3>1, <3>2 DEF Sent
    <3> QED BY <1>4, <3>3
  <2> QED BY <1>1, <1>2, <1>5, <2>1, <2>2 DEF BatchInv
<1>9. WireInv'
  <2>1. Streaming => \A p \in since + 1 .. Sent : lines'[p] = lines[p]
    BY <1>3, <1>4, <1>5, <1>6
  <2>2. CASE Streaming
    BY <1>1, <1>2, <1>5, <2>1, <2>2 DEF WireInv, Numbered
  <2>3. CASE ~Streaming
    <3>1. wire = <<>>
      BY <1>1, <2>3 DEF WireInv
    <3> QED BY <1>2, <1>5, <2>3, <3>1 DEF WireInv
  <2> QED BY <2>2, <2>3
<1>10. PlaceInv'
  BY <1>1, <1>2, <1>3, <1>4, <1>5, <1>6 DEF PlaceInv, Numbered
<1>11. StreamIsExact'
  <2>1. ASSUME NEW i \in Len(lines) + 1 .. Len(lines'), lines'[i] # Garbled
        PROVE  ~(lines'[i].seq <= last)
    <3>1. i \in DOMAIN lines' /\ lines'[i].seq \in Nat
      BY <1>3, <1>4, <2>1, InOrderNext
    <3>2. CASE last = NoId
      BY <3>1, <3>2 DEF NoId
    <3>3. CASE last # NoId
      <4>1. PICK p \in since + 1 .. Len(lines) : Numbered(p, last)
        BY <1>1, <3>3 DEF PlaceInv
      <4>2. p \in DOMAIN lines' /\ p < i /\ lines'[p] # Garbled /\ lines'[p].seq = last
        BY <1>3, <1>4, <1>6, <4>1 DEF Numbered
      <4>3. lines'[p].seq < lines'[i].seq /\ lines'[p].seq \in Nat
        BY <2>1, <3>1, <4>2, InOrderNext
      <4> QED BY <3>1, <4>2, <4>3
    <3> QED BY <3>2, <3>3
  <2>2. Due' = Due
    BY <1>2, <1>3, <1>4, <1>6, <2>1 DEF Due
  <2>3. \A i \in Due : lines'[i] = lines[i]
    BY <1>3, <1>4, <1>6 DEF Due
  <2>4. {lines'[i].seq : i \in Due'} = {lines[i].seq : i \in Due}
    BY <2>2, <2>3
  <2> QED BY <1>1, <1>2, <2>4 DEF StreamIsExact, Due
<1> QED BY <1>7, <1>8, <1>9, <1>10, <1>11 DEF StreamInv
\* What is next to pass on is behind all that went before.
LEMMA NextBehind ==
  ASSUME TypeOK, NumbersGrow, StreamInv, Streaming, NEW q \in Sent + 1 .. Len(lines), lines[q] # Garbled
  PROVE  /\ q \in DOMAIN lines /\ lines[q].seq \in Nat /\ lines[q].seq > last
         /\ \A i \in DOMAIN wire : wire[i].id < lines[q].seq
<1>1. lines \in Seq(Line0) /\ DOMAIN lines = 1 .. Len(lines) /\ Len(lines) \in Nat
  BY DEF TypeOK
<1>2. since \in Nat /\ Sent \in Int /\ since <= Sent /\ Sent <= Len(lines)
  BY <1>1 DEF StreamInv, StreamType, BatchInv, Sent
<1>3. q \in DOMAIN lines /\ q \in Nat
  BY <1>1, <1>2
<1>4. lines[q].seq \in Nat
  BY <1>3, InOrder
<1>5. ASSUME NEW n, NEW p \in since + 1 .. Sent, Numbered(p, n)
      PROVE  n < lines[q].seq
  <2>1. p \in DOMAIN lines /\ p < q
    BY <1>1, <1>2, <1>3
  <2> QED BY <1>3, <1>5, <2>1, InOrder DEF Numbered
<1>6. lines[q].seq > last
  <2>1. CASE last = NoId
    BY <1>4, <2>1 DEF NoId
  <2>2. CASE last # NoId
    <3>1. PICK p \in since + 1 .. Len(lines) : Numbered(p, last) /\ p <= Sent
      BY <2>2 DEF StreamInv, PlaceInv
    <3>2. p \in since + 1 .. Sent
      BY <1>1, <1>2, <3>1
    <3>3. last < lines[q].seq
      BY <1>5, <3>1, <3>2
    <3>4. last \in Nat
      BY <2>2 DEF StreamInv, StreamType
    <3> QED BY <1>4, <3>3, <3>4
  <2> QED BY <2>1, <2>2
<1>7. ASSUME NEW i \in DOMAIN wire PROVE wire[i].id < lines[q].seq
  <2>1. PICK p \in since + 1 .. Sent : Numbered(p, wire[i].id)
    BY DEF StreamInv, WireInv
  <2> QED BY <1>5, <2>1
<1> QED BY <1>3, <1>4, <1>6, <1>7

LEMMA SendNextStep ==
  ASSUME TypeOK, NumbersGrow, StreamInv, SendNext
  PROVE  StreamInv'
<1> DEFINE q == Sent + 1
           e == [id |-> lines[q].seq, data |-> lines[q].entry \in Wanted]
<1>1. /\ StreamType /\ BatchInv /\ WireInv /\ PlaceInv /\ StreamIsExact
      /\ phase = "sending" /\ phase' = "sending" /\ batch # <<>> /\ batch' = Tail(batch)
      /\ UNCHANGED <<lines, at, last, got, since>>
      /\ lines \in Seq(Line0) /\ DOMAIN lines = 1 .. Len(lines) /\ Len(lines) \in Nat
  BY DEF StreamInv, SendNext, vars, fileVars, TypeOK
<1>2. Streaming /\ Streaming'
  BY <1>1 DEF Streaming
<1>3. /\ batch \in Seq(Line0) /\ Len(batch) \in Nat /\ Len(batch) >= 1 /\ 1 \in DOMAIN batch /\ Head(batch) = batch[1]
      /\ batch' \in Seq(Line0) /\ Len(batch') = Len(batch) - 1
      /\ \A k \in DOMAIN batch' : k + 1 \in DOMAIN batch /\ batch'[k] = batch[k + 1] /\ k \in Nat
  BY <1>1 DEF StreamType
<1>4. /\ at \in Nat /\ since \in Nat /\ Sent \in Int /\ since <= Sent /\ at <= Len(lines) /\ Sent = at - Len(batch)
      /\ Sent' = Sent + 1
  BY <1>1, <1>2, <1>3 DEF StreamType, BatchInv, Sent
<1>5. q \in Sent + 1 .. Len(lines) /\ q \in since + 1 .. Sent' /\ q <= at
  BY <1>1, <1>3, <1>4
<1>6. batch[1] = lines[q] /\ lines[q] # Garbled
  BY <1>1, <1>3 DEF BatchInv
<1> HIDE DEF q
<1>7. /\ q \in DOMAIN lines /\ lines[q].seq \in Nat /\ lines[q].seq > last
      /\ \A i \in DOMAIN wire : wire[i].id < lines[q].seq
  BY <1>2, <1>5, <1>6, NextBehind
<1>8. e \in [id : Nat, data : BOOLEAN] /\ e.id = lines[q].seq /\ (e.data <=> lines[q].entry \in Wanted)
  <2>1. (lines[q].entry \in Wanted) \in BOOLEAN
    OBVIOUS
  <2>2. e.id = lines[q].seq /\ e.data = (lines[q].entry \in Wanted)
    BY Zenon
  <2>3. e \in [id : Nat, data : BOOLEAN]
    BY <1>7, <2>1, Zenon
  <2> QED BY <2>2, <2>3, Zenon
<1>9. Event(Head(batch)) = e
  BY <1>3, <1>6 DEF Event
<1> HIDE DEF e
<1>10. \/ wire' = Append(wire, e)
       \/ wire' = wire /\ ~(lines[q].entry \in Wanted)
  BY <1>8, <1>9 DEF SendNext, Put
<1>11. wire \in Seq([id : Nat, data : BOOLEAN])
  BY <1>1 DEF StreamType
<1>12. BatchInv'
  <2>1. ASSUME NEW k \in DOMAIN batch' PROVE batch'[k] # Garbled /\ batch'[k] = lines[Sent' + k]
    <3>1. batch[k + 1] # Garbled /\ batch[k + 1] = lines[Sent + (k + 1)]
      BY <1>1, <1>3 DEF BatchInv
    <3>2. Sent' + k = Sent + (k + 1)
      BY <1>3, <1>4
    <3> QED BY <1>3, <3>1, <3>2
  <2>2. since <= Sent'
    BY <1>4
  <2> QED BY <1>1, <1>4, <2>1, <2>2 DEF BatchInv
<1>13. PlaceInv'
  BY <1>1, <1>2, <1>4 DEF PlaceInv, Numbered
<1>14. StreamIsExact'
  BY <1>1 DEF StreamIsExact
<1>15. \A p \in since + 1 .. Sent' : p \in since + 1 .. Sent \/ p = q
  BY <1>4 DEF q
<1>16. \A p \in since + 1 .. Sent : p \in since + 1 .. Sent'
  BY <1>4
<1>17. CASE wire' = Append(wire, e)
  <2>1. /\ wire' \in Seq([id : Nat, data : BOOLEAN]) /\ DOMAIN wire' = 1 .. Len(wire) + 1 /\ Len(wire) \in Nat
        /\ DOMAIN wire = 1 .. Len(wire)
        /\ \A i \in DOMAIN wire : wire'[i] = wire[i] /\ i \in DOMAIN wire' /\ i < Len(wire) + 1
        /\ wire'[Len(wire) + 1] = e /\ Len(wire) + 1 \in DOMAIN wire'
        /\ \A i \in DOMAIN wire' : i \in DOMAIN wire \/ i = Len(wire) + 1
    BY <1>8, <1>11, <1>17
  <2>2. \A i, j \in DOMAIN wire' : i < j => wire'[i].id < wire'[j].id
    <3>1. ASSUME NEW i \in DOMAIN wire', NEW j \in DOMAIN wire', i < j PROVE wire'[i].id < wire'[j].id
      <4>1. i \in DOMAIN wire
        BY <2>1, <3>1
      <4>2. CASE j \in DOMAIN wire
        BY <1>1, <2>1, <3>1, <4>1, <4>2 DEF WireInv
      <4>3. CASE j = Len(wire) + 1
        BY <1>7, <1>8, <2>1, <4>1, <4>3
      <4> QED BY <2>1, <4>2, <4>3
    <3> QED BY <3>1
  <2>3. ASSUME NEW i \in DOMAIN wire'
        PROVE  /\ wire'[i].id > last
               /\ \E p \in since + 1 .. Sent' :
                     Numbered(p, wire'[i].id) /\ (wire'[i].data <=> lines[p].entry \in Wanted)
    <3>1. CASE i \in DOMAIN wire
      <4>1. wire'[i] = wire[i] /\ wire[i].id > last
        BY <1>1, <2>1, <3>1 DEF WireInv
      <4>2. PICK p \in since + 1 .. Sent : Numbered(p, wire[i].id) /\ (wire[i].data <=> lines[p].entry \in Wanted)
        BY <1>1, <3>1 DEF WireInv
      <4> QED BY <1>16, <4>1, <4>2
    <3>2. CASE i = Len(wire) + 1
      BY <1>5, <1>6, <1>7, <1>8, <2>1, <3>2 DEF Numbered
    <3> QED BY <2>1, <3>1, <3>2
  <2>4. ASSUME NEW p \in since + 1 .. Sent', lines[p] # Garbled, lines[p].seq > last, lines[p].entry \in Wanted
        PROVE  \E i \in DOMAIN wire' : wire'[i].id = lines[p].seq
    <3>1. CASE p \in since + 1 .. Sent
      <4>1. PICK i \in DOMAIN wire : wire[i].id = lines[p].seq
        BY <1>1, <1>2, <2>4, <3>1 DEF WireInv
      <4> QED BY <2>1, <4>1
    <3>2. CASE p = q
      BY <1>8, <2>1, <3>2
    <3> QED BY <1>15, <3>1, <3>2
  <2>5. WireInv'
    BY <1>1, <1>2, <2>2, <2>3, <2>4 DEF WireInv, Numbered
  <2>6. StreamType'
    BY <1>1, <1>3, <2>1 DEF StreamType
  <2> QED BY <1>12, <1>13, <1>14, <2>5, <2>6 DEF StreamInv
<1>18. CASE wire' = wire /\ ~(lines[q].entry \in Wanted)
  <2>1. WireInv'
    <3>1. \A p \in since + 1 .. Sent' : lines[p].entry \in Wanted => p \in since + 1 .. Sent
      BY <1>15, <1>18
    <3>2. /\ \A i, j \in DOMAIN wire : i < j => wire[i].id < wire[j].id
          /\ \A i \in DOMAIN wire :
                /\ wire[i].id > last
                /\ \E p \in since + 1 .. Sent' :
                      Numbered(p, wire[i].id) /\ (wire[i].data <=> lines[p].entry \in Wanted)
      BY <1>1, <1>16 DEF WireInv
    <3>3. \A p \in since + 1 .. Sent' :
             lines[p] # Garbled /\ lines[p].seq > last /\ lines[p].entry \in Wanted
                => \E i \in DOMAIN wire : wire[i].id = lines[p].seq
      BY <1>1, <1>2, <3>1 DEF WireInv
    <3> QED BY <1>1, <1>2, <1>18, <3>2, <3>3 DEF WireInv, Numbered
  <2>2. StreamType'
    BY <1>1, <1>3, <1>18 DEF StreamType
  <2> QED BY <1>12, <1>13, <1>14, <2>1, <2>2 DEF StreamInv
<1> QED BY <1>10, <1>17, <1>18
LEMMA EachOf == ASSUME NEW T, NEW s \in Seq(T), NEW i \in DOMAIN s PROVE s[i] \in T
  OBVIOUS

\* The browser takes what is next on its way: of the wanted lines past what it
\* saw, none is numbered less.
LEMMA ReceiveStep ==
  ASSUME TypeOK, NumbersGrow, StreamInv, Receive
  PROVE  StreamInv'
<1> DEFINE n == wire[1].id
           d == wire[1].data
<1>1. /\ StreamType /\ BatchInv /\ WireInv /\ PlaceInv /\ StreamIsExact
      /\ wire # <<>> /\ UNCHANGED <<lines, phase, at, batch, since>>
      /\ lines \in Seq(Line0) /\ DOMAIN lines = 1 .. Len(lines) /\ Len(lines) \in Nat
  BY DEF StreamInv, Receive, vars, fileVars, TypeOK
<1>2. Streaming /\ Streaming' /\ Sent' = Sent
  BY <1>1 DEF Streaming, WireInv, Sent
<1>3. /\ wire' \in Seq([id : Nat, data : BOOLEAN]) /\ Head(wire) = wire[1] /\ 1 \in DOMAIN wire
      /\ \A i \in DOMAIN wire' : i + 1 \in DOMAIN wire /\ wire'[i] = wire[i + 1] /\ i \in Nat /\ 1 < i + 1
      /\ \A i \in DOMAIN wire : i \in Nat /\ (i = 1 \/ (i - 1 \in DOMAIN wire' /\ wire'[i - 1] = wire[i] /\ 1 < i))
  <2>1. wire' = Tail(wire) /\ wire \in Seq([id : Nat, data : BOOLEAN])
    BY <1>1 DEF Receive, StreamType
  <2>2. Len(wire) \in Nat /\ Len(wire) >= 1 /\ DOMAIN wire = 1 .. Len(wire) /\ Head(wire) = wire[1]
    BY <1>1, <2>1
  <2>3. /\ wire' \in Seq([id : Nat, data : BOOLEAN]) /\ Len(wire') = Len(wire) - 1 /\ DOMAIN wire' = 1 .. Len(wire) - 1
        /\ \A i \in 1 .. Len(wire) - 1 : wire'[i] = wire[i + 1]
    BY <1>1, <2>1
  <2>4. \A i \in DOMAIN wire' : i + 1 \in DOMAIN wire /\ wire'[i] = wire[i + 1] /\ i \in Nat /\ 1 < i + 1
    BY <2>2, <2>3
  <2>5. ASSUME NEW i \in DOMAIN wire, i # 1
        PROVE  i - 1 \in DOMAIN wire' /\ wire'[i - 1] = wire[i] /\ 1 < i
    <3>1. i \in Nat /\ i - 1 \in 1 .. Len(wire) - 1 /\ i - 1 + 1 = i /\ 1 < i
      BY <2>2, <2>5
    <3> QED BY <2>3, <3>1
  <2> QED BY <2>2, <2>3, <2>4, <2>5
<1>4. last' = n /\ got' = IF d THEN Append(got, n) ELSE got
  BY <1>3 DEF Receive
<1>5. n \in Nat /\ d \in BOOLEAN
  <2>1. wire[1] \in [id : Nat, data : BOOLEAN]
    BY <1>1, <1>3, EachOf DEF StreamType
  <2> QED BY <2>1
<1>6. n > last /\ \A i \in DOMAIN wire : i = 1 \/ n < wire[i].id
  BY <1>1, <1>3 DEF WireInv
<1>7. PICK p \in since + 1 .. Sent : Numbered(p, n) /\ (d <=> lines[p].entry \in Wanted)
  BY <1>1, <1>3 DEF WireInv
<1> HIDE DEF n, d
<1>8. since \in Nat /\ Sent \in Int /\ since <= Sent /\ Sent <= Len(lines)
  BY <1>1, <1>2 DEF StreamType, BatchInv, Sent
<1>9. p \in since + 1 .. Len(lines) /\ p \in DOMAIN lines /\ lines[p] # Garbled /\ lines[p].seq = n
  BY <1>1, <1>7, <1>8 DEF Numbered
<1>10. last \in Nat \cup {NoId} /\ got \in Seq(Nat)
  BY <1>1 DEF StreamType
<1>11. ASSUME NEW q \in since + 1 .. Len(lines), lines[q] # Garbled, lines[q].entry \in Wanted
       PROVE  lines[q].seq <= n <=> lines[q].seq <= last \/ (q = p /\ d)
  <2>1. q \in DOMAIN lines /\ lines[q].seq \in Nat /\ (lines[q].seq = n => q = p)
    BY <1>1, <1>8, <1>9, <1>11, InOrder
  <2>2. CASE q \in Sent + 1 .. Len(lines)
    <3>1. lines[q].seq > last /\ n < lines[q].seq
      BY <1>2, <1>3, <1>11, <2>2, NextBehind DEF n
    <3>2. q # p
      BY <1>7, <1>8, <2>2
    <3> QED BY <1>5, <1>10, <2>1, <3>1, <3>2 DEF NoId
  <2>3. CASE q \in since + 1 .. Sent
    <3>1. lines[q].seq > last => \E i \in DOMAIN wire : wire[i].id = lines[q].seq
      BY <1>1, <1>2, <1>11, <2>3 DEF WireInv
    <3>2. lines[q].seq > last => lines[q].seq = n \/ n < lines[q].seq
      BY <1>6, <3>1 DEF n
    <3>3. q = p => d /\ lines[q].seq = n
      BY <1>7, <1>9, <1>11
    <3> QED BY <1>5, <1>6, <1>7, <1>9, <1>10, <1>11, <2>1, <3>2, <3>3 DEF NoId
  <2> QED BY <1>1, <1>8, <2>2, <2>3
<1>12. Due' = IF d THEN Due \cup {p} ELSE Due
  <2>1. Due' = {i \in since + 1 .. Len(lines) : lines[i] # Garbled /\ lines[i].seq <= n /\ lines[i].entry \in Wanted}
    BY <1>1, <1>4 DEF Due
  <2>2. ASSUME NEW q PROVE q \in Due' <=> q \in Due \/ (q = p /\ d)
    BY <1>7, <1>9, <1>11, <2>1 DEF Due
  <2> QED BY <1>5, <2>2
<1>13. \A i, j \in DOMAIN got : i < j => got[i] < got[j]
  BY <1>1 DEF StreamIsExact
<1>14. ToSet(got) = {lines[i].seq : i \in Due}
  BY <1>1 DEF StreamIsExact, Due
<1>15. \A i \in DOMAIN got : got[i] \in Nat /\ got[i] < n
  <2>1. ASSUME NEW i \in DOMAIN got PROVE got[i] \in Nat /\ got[i] < n
    <3>1. got[i] \in ToSet(got) /\ got[i] \in Nat
      BY <1>10 DEF ToSet
    <3>2. PICK q \in Due : got[i] = lines[q].seq
      BY <1>14, <3>1
    <3>3. lines[q].seq <= last
      BY <3>2 DEF Due
    <3>4. last \in Int
      BY <1>10 DEF NoId
    <3> QED BY <1>5, <1>6, <3>1, <3>2, <3>3, <3>4
  <2> QED BY <2>1
<1>16. got' \in Seq(Nat) /\ (\A i, j \in DOMAIN got' : i < j => got'[i] < got'[j])
       /\ ToSet(got') = IF d THEN ToSet(got) \cup {n} ELSE ToSet(got)
  <2>1. CASE ~d
    BY <1>4, <1>10, <1>13, <2>1
  <2>2. CASE d
    <3>1. got' = Append(got, n)
      BY <1>4, <2>2
    <3>2. /\ got' \in Seq(Nat) /\ DOMAIN got = 1 .. Len(got) /\ Len(got) \in Nat /\ DOMAIN got' = 1 .. Len(got) + 1
          /\ got'[Len(got) + 1] = n /\ \A i \in 1 .. Len(got) : got'[i] = got[i]
      BY <1>5, <1>10, <3>1
    <3>3. ASSUME NEW i \in DOMAIN got', NEW j \in DOMAIN got', i < j PROVE got'[i] < got'[j]
      <4>1. i \in DOMAIN got /\ got'[i] = got[i] /\ (j \in DOMAIN got \/ j = Len(got) + 1)
        BY <3>2, <3>3
      <4> QED BY <1>13, <1>15, <3>2, <3>3, <4>1
    <3>4. ToSet(got') = ToSet(got) \cup {n}
      <4>1. \A x : x \in ToSet(got') <=> \E i \in 1 .. Len(got) + 1 : got'[i] = x
        BY <3>2 DEF ToSet
      <4>2. \A x : x \in ToSet(got) <=> \E i \in 1 .. Len(got) : got[i] = x
        BY <3>2 DEF ToSet
      <4>3. \A i \in 1 .. Len(got) + 1 : i \in 1 .. Len(got) \/ i = Len(got) + 1
        BY <3>2
      <4>4. Len(got) + 1 \in 1 .. Len(got) + 1 /\ \A i \in 1 .. Len(got) : i \in 1 .. Len(got) + 1
        BY <3>2
      <4> QED BY <3>2, <4>1, <4>2, <4>3, <4>4
    <3> QED BY <2>2, <3>2, <3>3, <3>4
  <2> QED BY <1>5, <2>1, <2>2
<1>17. StreamIsExact'
  <2>1. {lines'[i].seq : i \in Due'} = IF d THEN {lines[i].seq : i \in Due} \cup {n} ELSE {lines[i].seq : i \in Due}
    BY <1>1, <1>5, <1>9, <1>12
  <2>2. ToSet(got') = {lines'[i].seq : i \in Due'}
    BY <1>5, <1>14, <1>16, <2>1
  <2> QED BY <1>16, <2>2 DEF StreamIsExact, Due
<1>18. StreamType'
  BY <1>1, <1>3, <1>4, <1>5, <1>16 DEF StreamType
<1>19. BatchInv'
  BY <1>1, <1>2 DEF BatchInv
<1>20. PlaceInv'
  <2>1. last' # NoId
    BY <1>4, <1>5 DEF NoId
  <2>2. p \in since' + 1 .. Len(lines') /\ lines'[p] # Garbled /\ lines'[p].seq = last' /\ p <= Sent'
    <3>1. p <= Sent
      BY <1>7, <1>8
    <3> QED BY <1>1, <1>2, <1>4, <1>9, <3>1
  <2> QED BY <2>1, <2>2 DEF PlaceInv, Numbered
<1>21. WireInv'
  <2>1. ASSUME NEW i \in DOMAIN wire', NEW j \in DOMAIN wire', i < j PROVE wire'[i].id < wire'[j].id
    <3>1. i + 1 < j + 1
      BY <1>3, <2>1
    <3> QED BY <1>1, <1>3, <3>1 DEF WireInv
  <2>2. ASSUME NEW i \in DOMAIN wire'
        PROVE  /\ wire'[i].id > n
               /\ \E o \in since + 1 .. Sent :
                     Numbered(o, wire'[i].id) /\ (wire'[i].data <=> lines[o].entry \in Wanted)
    <3>1. i + 1 \in DOMAIN wire /\ wire'[i] = wire[i + 1] /\ i + 1 # 1
      BY <1>3
    <3>2. wire[i + 1].id > n
      <4>1. wire[i + 1] \in [id : Nat, data : BOOLEAN]
        BY <1>1, <3>1, EachOf DEF StreamType
      <4> QED BY <1>5, <1>6, <3>1, <4>1
    <3> QED BY <1>1, <3>1, <3>2 DEF WireInv
  <2>3. ASSUME NEW o \in since + 1 .. Sent, lines[o] # Garbled, lines[o].seq > n, lines[o].entry \in Wanted
        PROVE  \E i \in DOMAIN wire' : wire'[i].id = lines[o].seq
    <3>1. lines[o].seq \in Nat
      BY <1>1, <1>8, <2>3, InOrder
    <3>2. lines[o].seq > last
      BY <1>5, <1>6, <1>10, <2>3, <3>1 DEF NoId
    <3>3. PICK i \in DOMAIN wire : wire[i].id = lines[o].seq
      BY <1>1, <1>2, <2>3, <3>2 DEF WireInv
    <3>4. i # 1
      BY <1>5, <2>3, <3>1, <3>3 DEF n
    <3> QED BY <1>3, <3>3, <3>4
  <2> QED BY <1>1, <1>2, <1>4, <2>1, <2>2, <2>3 DEF WireInv, Numbered
<1> QED BY <1>17, <1>18, <1>19, <1>20, <1>21 DEF StreamInv

LEMMA StreamStep ==
  ASSUME LedgerInv, LedgerInv', StreamInv, [RNext]_rvars
  PROVE  StreamInv'
<1>1. TypeOK /\ NumbersGrow /\ TypeOK' /\ NumbersGrow' /\ [Next]_vars
  BY ReadersRefine DEF LedgerInv
<1>2. ASSUME UNCHANGED streamVars PROVE StreamInv'
  BY <1>1, <1>2, AppendsBeside
<1>3. CASE LedgerStep \/ Note \/ Answer \/ AnswerCorrupt \/ UNCHANGED rvars
  BY <1>2, <1>3 DEF LedgerStep, Note, Answer, AnswerCorrupt, rvars
<1>4. CASE LocateFails \/ ReadFails \/ Cut \/ ReadersDie \/ Subscribe
  <2>1. UNCHANGED <<lines, at, last, got, since>>
    BY <1>4 DEF LocateFails, ReadFails, Cut, ReadersDie, Subscribe, Die, vars, fileVars
  <2>2. phase' \in {"closed", "subscribed"} /\ wire' = <<>> /\ batch' = <<>>
    BY <1>4 DEF LocateFails, ReadFails, Cut, ReadersDie, Subscribe, Close, StreamInv, BatchInv, WireInv, Streaming
  <2> QED BY <1>1, <2>1, <2>2, SamePlace
<1>5. CASE BatchDone \/ Wake
  <2>1. UNCHANGED <<lines, at, last, got, since, wire, batch>>
    BY <1>5 DEF BatchDone, Wake, vars, fileVars
  <2>2. Streaming /\ phase' \in {"reading", "sending", "waiting"} /\ (phase' # "sending" => batch = <<>>)
    BY <1>5 DEF BatchDone, Wake, Streaming, StreamInv, BatchInv
  <2> QED BY <1>1, <2>1, <2>2, SamePlace
<1>6. CASE Locate
  BY <1>1, <1>6, LocateStep
<1>7. CASE Read
  BY <1>1, <1>7, ReadStep
<1>8. CASE SendNext
  BY <1>1, <1>8, SendNextStep
<1>9. CASE Receive
  BY <1>1, <1>9, ReceiveStep
<1> QED BY <1>3, <1>4, <1>5, <1>6, <1>7, <1>8, <1>9 DEF RNext, StreamTask

\* "a browser that comes back resumes after it" (admin/audit.rs stream, read.rs
\* Follow): of a file that one gateway writes, however its writes end, the
\* browser has every wanted record from where it began to the last id it saw,
\* once each and in order, wherever its connections were lost.
THEOREM TheStreamIsExact == ASSUME OneWriter PROVE RSpec => []StreamIsExact
<1>1. RInit => LedgerInv /\ StreamInv
  <2> SUFFICES ASSUME RInit PROVE LedgerInv /\ StreamInv
    OBVIOUS
  <2>1. LedgerInv
    BY InitInv DEF RInit
  <2>2. /\ lines = <<>> /\ phase = "closed" /\ at = 0 /\ batch = <<>> /\ wire = <<>> /\ last = NoId
        /\ got = <<>> /\ since = 0
    BY DEF RInit, Init, ReadersInit
  <2>3. StreamType /\ BatchInv /\ WireInv /\ PlaceInv
    BY <2>2 DEF StreamType, BatchInv, WireInv, PlaceInv, Streaming
  <2>4. StreamIsExact
    BY <2>2 DEF StreamIsExact, ToSet
  <2> QED BY <2>1, <2>3, <2>4 DEF StreamInv
<1>2. LedgerInv /\ StreamInv /\ [RNext]_rvars => LedgerInv' /\ StreamInv'
  <2> SUFFICES ASSUME LedgerInv, StreamInv, [RNext]_rvars PROVE LedgerInv' /\ StreamInv'
    OBVIOUS
  <2>1. LedgerInv'
    BY ReadersRefine, StepInv
  <2> QED BY <2>1, StreamStep
<1>3. StreamInv => StreamIsExact
  BY DEF StreamInv
<1> QED BY <1>1, <1>2, <1>3, PTL DEF RSpec
-----------------------------------------------------------------------------
(***************************************************************************)
(* Of any files at all: what verify makes of a file that somebody changed. *)
(* A record's hash covers every record before it, so of two chains with    *)
(* the same hash at one place all before it is the same.                   *)
(***************************************************************************)
Chain(recs) == recs \in Seq(Record) /\ \A i \in DOMAIN recs : Linked(recs, i)

\* What the i-th hash of a chain covers.
Covered(recs, i) == [j \in 1 .. i |-> <<j - 1, recs[j].entry>>]

LEMMA HashCovers ==
  ASSUME NEW recs, Chain(recs), NEW n \in 1 .. Len(recs)
  PROVE  recs[n].hash = Covered(recs, n)
<1> DEFINE wrong == {i \in 1 .. Len(recs) : recs[i].hash # Covered(recs, i)}
<1>1. recs \in Seq(Record) /\ Len(recs) \in Nat /\ \A i \in 1 .. Len(recs) : Linked(recs, i) /\ recs[i] \in Record
  BY DEF Chain
<1>2. SUFFICES ASSUME wrong # {} PROVE FALSE
  OBVIOUS
<1>3. PICK i \in wrong : \A j \in wrong : i <= j
  <2>1. wrong \in SUBSET Nat /\ wrong # {}
    BY <1>1, <1>2
  <2> HIDE DEF wrong
  <2> QED BY <2>1, Least
<1>4. i \in 1 .. Len(recs) /\ Linked(recs, i) /\ recs[i].hash # Covered(recs, i)
  BY <1>1, <1>3
<1>5. recs[i].hash = Append(recs[i].prev, <<i - 1, recs[i].entry>>)
  BY <1>4 DEF Linked, Hash
<1>6. CASE i = 1
  <2>1. recs[i].hash = <<<<0, recs[i].entry>>>>
    <3>1. recs[i].prev = <<>> /\ i - 1 = 0
      BY <1>4, <1>6 DEF Linked, PrevHash, Genesis
    <3>2. \A x : Append(<<>>, x) = <<x>>
      OBVIOUS
    <3> QED BY <1>5, <3>1, <3>2
  <2>2. Covered(recs, 1) = <<<<0, recs[1].entry>>>>
    BY DEF Covered
  <2> QED BY <1>4, <1>6, <2>1, <2>2
<1>7. CASE i # 1
  <2>1. i - 1 \in 1 .. Len(recs) /\ i - 1 \notin wrong
    BY <1>1, <1>3, <1>4, <1>7
  <2>2. recs[i].prev = Covered(recs, i - 1)
    BY <1>4, <1>7, <2>1 DEF Linked, PrevHash
  <2>3. Append(Covered(recs, i - 1), <<i - 1, recs[i].entry>>) = Covered(recs, i)
    BY <1>4, <2>1 DEF Covered
  <2> QED BY <1>4, <1>5, <2>2, <2>3
<1> QED BY <1>6, <1>7

LEMMA SameBefore ==
  ASSUME NEW recs, NEW others, Chain(recs), Chain(others),
         NEW n \in 1 .. Len(recs), n \in 1 .. Len(others), recs[n].hash = others[n].hash
  PROVE  \A i \in 1 .. n : recs[i] = others[i]
<1>1. /\ Len(recs) \in Nat /\ \A i \in 1 .. Len(recs) : Linked(recs, i) /\ recs[i] \in Record
      /\ Len(others) \in Nat /\ \A i \in 1 .. Len(others) : Linked(others, i) /\ others[i] \in Record
  BY DEF Chain
<1>2. Covered(recs, n) = Covered(others, n)
  BY HashCovers
<1>3. \A j \in 1 .. n : recs[j].entry = others[j].entry
  <2> SUFFICES ASSUME NEW j \in 1 .. n PROVE recs[j].entry = others[j].entry
    OBVIOUS
  <2>1. Covered(recs, n)[j] = Covered(others, n)[j]
    BY <1>2
  <2>2. Covered(recs, n)[j] = <<j - 1, recs[j].entry>> /\ Covered(others, n)[j] = <<j - 1, others[j].entry>>
    BY DEF Covered
  <2>3. <<j - 1, recs[j].entry>>[2] = recs[j].entry /\ <<j - 1, others[j].entry>>[2] = others[j].entry
    OBVIOUS
  <2> QED BY <2>1, <2>2, <2>3
<1>4. \A i \in 1 .. n : Covered(recs, i) = Covered(others, i)
  BY <1>3 DEF Covered
<1> SUFFICES ASSUME NEW i \in 1 .. n PROVE recs[i] = others[i]
  OBVIOUS
<1>5. i \in 1 .. Len(recs) /\ i \in 1 .. Len(others)
  BY <1>1
<1>6. recs[i].hash = others[i].hash
  BY <1>4, <1>5, HashCovers
<1>7. recs[i].prev = others[i].prev
  <2>1. CASE i = 1
    BY <1>1, <1>5, <2>1 DEF Linked, PrevHash
  <2>2. CASE i # 1
    <3>1. i - 1 \in 1 .. n /\ i - 1 \in 1 .. Len(recs) /\ i - 1 \in 1 .. Len(others)
      BY <1>1, <2>2
    <3>2. recs[i - 1].hash = others[i - 1].hash
      BY <1>4, <3>1, HashCovers
    <3> QED BY <1>1, <1>5, <2>2, <3>2 DEF Linked, PrevHash
  <2> QED BY <2>1, <2>2
<1>8. recs[i].seq = others[i].seq /\ recs[i].entry = others[i].entry
  BY <1>1, <1>3, <1>5 DEF Linked
<1>9. recs[i] \in Record /\ others[i] \in Record
  BY <1>1, <1>5
<1> QED BY <1>6, <1>7, <1>8, <1>9 DEF Record

\* A file verify finds no fault with is a chain numbered from 0.
LEMMA VerifiedIsChain ==
  ASSUME NEW recs \in Seq(Record), BrokenAt(recs) = NoBreak
  PROVE  Chain(recs)
<1>1. Len(recs) \in Nat /\ \A i \in 1 .. Len(recs) : recs[i] \in Record /\ recs[i].seq \in Nat
  <2>1. Len(recs) \in Nat /\ \A i \in 1 .. Len(recs) : recs[i] \in Record
    OBVIOUS
  <2>2. \A rec \in Record : rec.seq \in Nat
    BY DEF Record
  <2> QED BY <2>1, <2>2
<1>2. Broken(recs) = {}
  <2> SUFFICES ASSUME Broken(recs) # {} PROVE FALSE
    OBVIOUS
  <2>1. Broken(recs) \in SUBSET Nat /\ Broken(recs) \subseteq 1 .. Len(recs)
    BY <1>1 DEF Broken
  <2>2. First(Broken(recs)) \in 1 .. Len(recs)
    BY <2>1, FirstIsLeast
  <2> QED BY <1>1, <2>2 DEF BrokenAt, NoBreak
<1>3. \A i \in 1 .. Len(recs) : Intact(recs, i) /\ recs[i].seq # MaxSeq
  BY <1>2 DEF Broken
<1> DEFINE wrong == {i \in 1 .. Len(recs) : recs[i].seq # i - 1}
<1>4. wrong = {}
  <2> SUFFICES ASSUME wrong # {} PROVE FALSE
    OBVIOUS
  <2>1. PICK i \in wrong : \A j \in wrong : i <= j
    <3>1. wrong \in SUBSET Nat /\ wrong # {}
      BY <1>1
    <3> HIDE DEF wrong
    <3> QED BY <3>1, Least
  <2>2. i \in 1 .. Len(recs) /\ recs[i].seq # i - 1 /\ recs[i].seq = ExpectedSeq(recs, i)
    BY <1>3 DEF Intact
  <2>3. i # 1
    BY <2>2 DEF ExpectedSeq
  <2>4. i - 1 \in 1 .. Len(recs) /\ i - 1 \notin wrong
    BY <1>1, <2>1, <2>2, <2>3
  <2>5. recs[i - 1].seq = i - 2 /\ recs[i - 1].seq # MaxSeq
    BY <1>1, <1>3, <2>4
  <2> QED BY <2>2, <2>3, <2>5 DEF ExpectedSeq
<1> QED BY <1>1, <1>3, <1>4 DEF Chain, Linked, Intact

\* verify_against: of all the files there could be, the one sealed is the only one
\* that verifies against the head and the number of records sealed elsewhere.
THEOREM SealFixesTheFile ==
  ASSUME NEW sealed, Chain(sealed), NEW recs \in Seq(Record),
         VerifyAgainst(recs, HeadHash(sealed), Len(sealed)) = NoBreak
  PROVE  recs = sealed
<1>1. sealed \in Seq(Record) /\ Len(recs) \in Nat /\ Len(sealed) \in Nat
  BY DEF Chain
<1>2. BrokenAt(recs) = NoBreak /\ Len(recs) = Len(sealed) /\ HeadHash(recs) = HeadHash(sealed)
  BY <1>1 DEF VerifyAgainst, NoBreak
<1>3. Chain(recs)
  BY <1>2, VerifiedIsChain
<1>4. CASE Len(recs) = 0
  <2>1. \A s \in Seq(Record) : Len(s) = 0 => s = <<>>
    OBVIOUS
  <2> QED BY <1>1, <1>2, <1>4, <2>1
<1>5. CASE Len(recs) # 0
  <2>1. Len(recs) \in 1 .. Len(recs) /\ Len(recs) \in 1 .. Len(sealed) /\ recs # <<>> /\ sealed # <<>>
    BY <1>1, <1>2, <1>5
  <2>2. recs[Len(recs)].hash = sealed[Len(recs)].hash
    BY <1>2, <2>1 DEF HeadHash
  <2>3. \A i \in 1 .. Len(recs) : recs[i] = sealed[i]
    BY <1>3, <2>1, <2>2, SameBefore
  <2> QED BY <1>1, <1>2, <2>3
<1> QED BY <1>4, <1>5

\* verify_marked, as the admin API uses it: a file that has grown past a point
\* passes against it only with all the records up to that point as they were.
LEMMA MarkFixesThePrefix ==
  ASSUME NEW written, Chain(written), NEW n \in 0 .. Len(written), NEW recs \in Seq(Record), NEW head,
         n > 0 => written[n].hash = head, VerifyWritten(recs, head, n) = NoBreak
  PROVE  n <= Len(recs) /\ \A i \in 1 .. n : recs[i] = written[i]
<1>1. Len(written) \in Nat /\ Len(recs) \in Nat /\ n \in Nat
  BY DEF Chain
<1>2. /\ BrokenAt(recs) = NoBreak /\ n <= Len(recs)
      /\ n > 0 => Marked(recs, n - 1) = head
  BY <1>1 DEF VerifyWritten, NoBreak
<1>3. Chain(recs)
  BY <1>2, VerifiedIsChain
<1>4. CASE n = 0
  BY <1>2, <1>4
<1>5. CASE n > 0
  <2>1. n \in 1 .. Len(recs) /\ n \in 1 .. Len(written)
    BY <1>1, <1>2, <1>5
  <2>2. \A i \in 1 .. Len(recs) : recs[i].seq = i - 1
    BY <1>3 DEF Chain, Linked
  <2>3. {i \in 1 .. Len(recs) : recs[i].seq = n - 1} = {n}
    BY <1>1, <2>1, <2>2
  <2>4. First({n}) = n
    BY <1>1 DEF First
  <2>5. recs[n].hash = head
    BY <1>2, <1>5, <2>3, <2>4 DEF Marked
  <2> QED BY <1>2, <1>3, <1>5, <2>1, <2>5, SameBefore
<1> QED BY <1>1, <1>4, <1>5

\* No file but one that begins with every record the gateway had published passes
\* the verify it answers with, however it came to be.
AlterationsShow ==
    \A g \in Gateways : \A file \in Seq(Record) :
        VerifyWritten(file, shown[g].hash, shown[g].next) = NoBreak =>
            \A i \in 1 .. shown[g].next : i \in DOMAIN file /\ i \in DOMAIN lines /\ file[i] = lines[i]

LEMMA InvShows == LedgerInv /\ WholeInv /\ VerifyInv => AlterationsShow
<1> SUFFICES ASSUME LedgerInv, WholeInv, VerifyInv, NEW g \in Gateways, NEW file \in Seq(Record),
                    VerifyWritten(file, shown[g].hash, shown[g].next) = NoBreak
             PROVE  \A i \in 1 .. shown[g].next : i \in DOMAIN file /\ i \in DOMAIN lines /\ file[i] = lines[i]
  BY DEF AlterationsShow
<1>1. lines \in Seq(Line0) /\ Whole(lines) /\ shown[g] \in Heads /\ PointOf(shown[g])
  BY DEF WholeInv, TypeOK, VerifyInv
<1>2. shown[g].next \in Nat /\ Len(lines) \in Nat /\ Len(file) \in Nat /\ DOMAIN lines = 1 .. Len(lines) /\ DOMAIN file = 1 .. Len(file)
  BY <1>1 DEF Heads
<1>3. Chain(lines)
  <2>1. \A i \in DOMAIN lines : lines[i] \in Record
    BY <1>1, WholeType
  <2>2. lines \in Seq(Record)
    BY <1>1, <2>1
  <2> QED BY <1>1, <2>2 DEF Chain, LedgerInv, ChainSoFar
<1>4. shown[g].next \in 0 .. Len(lines) /\ (shown[g].next > 0 => lines[shown[g].next].hash = shown[g].hash)
  BY <1>1, <1>2 DEF PointOf
<1>5. shown[g].next <= Len(file) /\ \A i \in 1 .. shown[g].next : file[i] = lines[i]
  BY <1>3, <1>4, MarkFixesThePrefix
<1> QED BY <1>2, <1>4, <1>5

\* GET /api/v1/audit/verify: whatever the file was replaced by, of records put in,
\* left out, changed, cut off or in another order, it passes only if all the records
\* the gateway had published when it was asked are there as it wrote them.
THEOREM NoAlterationPasses ==
  ASSUME ~Tearing, OneWriter, IsFiniteSet(Entries), Cardinality(Entries) < MaxSeq
  PROVE  RSpec => []AlterationsShow
<1> QED BY InvShows, VerifyInvariance, PTL

==============================================================================
