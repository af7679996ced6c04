----------------------------- MODULE AuditReaders -----------------------------
(***************************************************************************)
(* Those who read the ledger while it is written: the admin API's audit    *)
(* stream (admin/audit.rs `stream` over read.rs `Follow`), to a browser    *)
(* that loses its connection and comes back with the last id it saw, and   *)
(* the admin API's verify (admin/audit.rs `verify`).                       *)
(*                                                                         *)
(* Both run in the process of one gateway, beside the appends of           *)
(* AuditLedger, and go with it when it dies.                               *)
(***************************************************************************)
EXTENDS AuditLedger

CONSTANTS
    Home,    \* the gateway that serves the readers
    Wanted,  \* the entries the stream's filter takes
    Batch    \* BATCH: the most records read at once, and events on the way

ASSUME HomeAssumption == Home \in Gateways /\ Wanted \subseteq Entries /\ Batch \in Nat \ {0}

VARIABLES
    phase,   \* what the stream's task is at
    seen,    \* Appends: the head it was last woken for
    at,      \* Follow::offset, in lines
    batch,   \* the records read and not passed on
    full,    \* whether that batch came full
    wire,    \* the events sent and not received
    last,    \* the last event id the browser has; NoId if none
    got,     \* the numbers of the records the browser has, in order
    since,   \* where the browser's records begin, in lines
    noted,   \* what verify took as written, or nothing
    verdict  \* what the last verify answered

streamVars == <<phase, seen, at, batch, full, wire, last, got, since>>
verifyVars == <<noted, verdict>>
rvars == <<vars, streamVars, verifyVars>>

NoId == -1
NotNoted == [hash |-> Genesis, next |-> NoId]

ReadersInit ==
    /\ phase = "closed" /\ seen = 0 /\ at = 0 /\ batch = <<>> /\ full = FALSE
    /\ wire = <<>> /\ last = NoId /\ got = <<>> /\ since = 0
    /\ noted = NotNoted /\ verdict = NoBreak

RInit == Init /\ ReadersInit

-----------------------------------------------------------------------------
(***************************************************************************)
(* The stream: its task in the gateway.                                    *)
(***************************************************************************)

\* The task ends and its channel with it; what is on the way is lost.
Close ==
    /\ phase' = "closed"
    /\ batch' = <<>> /\ full' = FALSE /\ wire' = <<>>

\* The browser connects: the wake-ups are taken before the start is looked for.
Subscribe ==
    /\ phase = "closed" /\ proc[Home] = "running"
    /\ phase' = "subscribed"
    /\ seen' = shown[Home].next
    /\ UNCHANGED <<vars, at, batch, full, wire, last, got, since, verifyVars>>

\* first_from: where the first record numbered n or later is, or the end.
FirstFrom(n) ==
    LET at_or_after == {i \in DOMAIN lines : lines[i] # Garbled /\ lines[i].seq >= n}
    IN IF at_or_after = {} THEN Len(lines) ELSE First(at_or_after) - 1

\* Mutant: the browser starts again with the record it has.
LocateAgain ==
    /\ phase = "subscribed"
    /\ phase' = "reading"
    /\ at' = IF last = NoId THEN Len(lines) ELSE FirstFrom(last)
    /\ since' = IF last = NoId THEN at' ELSE since
    /\ UNCHANGED <<vars, seen, batch, full, wire, last, got, verifyVars>>

\* Follow::after: behind the record the browser names, or at the end.
Locate ==
    /\ phase = "subscribed"
    /\ phase' = "reading"
    /\ at' = IF last = NoId THEN Len(lines) ELSE FirstFrom(last + 1)
    /\ since' = IF last = NoId THEN at' ELSE since
    /\ UNCHANGED <<vars, seen, batch, full, wire, last, got, verifyVars>>

\* The search comes upon a line that does not parse.
LocateFails ==
    /\ phase = "subscribed" /\ ~Whole(lines)
    /\ Close
    /\ UNCHANGED <<vars, seen, at, last, got, since, verifyVars>>

\* The lines a read takes.
Chunk == SubSeq(lines, at + 1, IF Len(lines) < at + Batch THEN Len(lines) ELSE at + Batch)

\* Follow::read.
Read ==
    /\ phase = "reading" /\ Whole(Chunk)
    /\ batch' = Chunk
    /\ full' = (Len(Chunk) = Batch)
    /\ at' = at + Len(Chunk)
    /\ phase' = "sending"
    /\ UNCHANGED <<vars, seen, wire, last, got, since, verifyVars>>

\* A line that does not parse ends the stream, with what was read before it.
ReadFails ==
    /\ phase = "reading" /\ ~Whole(Chunk)
    /\ Close
    /\ UNCHANGED <<vars, seen, at, last, got, since, verifyVars>>

Event(record) == [id |-> record.seq, data |-> record.entry \in Wanted]

\* An event goes out while the channel has room.
Put(event) == Len(wire) < Batch /\ wire' = Append(wire, event)

\* A wanted record goes out; one the filter passes over only when it ends its
\* batch, as an id without data.
SendNext ==
    /\ phase = "sending" /\ batch # <<>>
    /\ batch' = Tail(batch)
    /\ IF Event(Head(batch)).data \/ Len(batch) = 1
       THEN Put(Event(Head(batch))) ELSE UNCHANGED wire
    /\ UNCHANGED <<vars, phase, seen, at, full, last, got, since, verifyVars>>

\* Mutant: what was appended while the task sent counts as seen.
BatchDoneUpToDate ==
    /\ phase = "sending" /\ batch = <<>>
    /\ phase' = IF full THEN "reading" ELSE "waiting"
    /\ seen' = shown[Home].next
    /\ UNCHANGED <<vars, at, batch, full, wire, last, got, since, verifyVars>>

\* After a full batch there may be more; after any other the task waits.
BatchDone ==
    /\ phase = "sending" /\ batch = <<>>
    /\ phase' = IF full THEN "reading" ELSE "waiting"
    /\ UNCHANGED <<vars, seen, at, batch, full, wire, last, got, since, verifyVars>>

\* Appends::wait: several appends wake it once.
Wake ==
    /\ phase = "waiting" /\ seen # shown[Home].next
    /\ seen' = shown[Home].next
    /\ phase' = "reading"
    /\ UNCHANGED <<vars, at, batch, full, wire, last, got, since, verifyVars>>

\* The browser takes the next event.
Receive ==
    /\ wire # <<>>
    /\ wire' = Tail(wire)
    /\ last' = Head(wire).id
    /\ got' = IF Head(wire).data THEN Append(got, Head(wire).id) ELSE got
    /\ UNCHANGED <<vars, phase, seen, at, batch, full, since, verifyVars>>

\* The connection is lost, or STREAM_FOR is over.
Cut ==
    /\ phase # "closed"
    /\ Close
    /\ UNCHANGED <<vars, seen, at, last, got, since, verifyVars>>

-----------------------------------------------------------------------------
(***************************************************************************)
(* Verify, one at a time.                                                  *)
(***************************************************************************)

\* What is written is taken first.
Note ==
    /\ proc[Home] = "running" /\ noted = NotNoted
    /\ noted' = shown[Home]
    /\ UNCHANGED <<vars, streamVars, verdict>>

\* Mutant: the file is compared with what is written once it has been read.
AnswerLate ==
    /\ noted # NotNoted /\ Whole(LinesRead)
    /\ \E n \in 0 .. Len(LinesRead) :
          verdict' = VerifyWritten(SubSeq(LinesRead, 1, n), shown[Home].hash, shown[Home].next)
    /\ noted' = NotNoted
    /\ UNCHANGED <<vars, streamVars>>

\* Then the file is read, to an end that was there at some time since, and
\* checked. A file with a line that does not parse is an error, not a verdict.
Answer ==
    /\ noted # NotNoted /\ Whole(LinesRead)
    /\ verdict' = VerifyWritten(LinesRead, noted.hash, noted.next)
    /\ noted' = NotNoted
    /\ UNCHANGED <<vars, streamVars>>

AnswerCorrupt ==
    /\ noted # NotNoted /\ ~Whole(LinesRead)
    /\ noted' = NotNoted
    /\ UNCHANGED <<vars, streamVars, verdict>>

-----------------------------------------------------------------------------
StreamTask ==
    Locate \/ LocateFails \/ Read \/ ReadFails \/ SendNext \/ BatchDone \/ Wake

\* The gateway's process goes with all that is in it.
ReadersDie ==
    /\ Die(Home)
    /\ Close
    /\ noted' = NotNoted
    /\ UNCHANGED <<seen, at, last, got, since, verdict>>

\* A step of the ledger that leaves the readers where they are.
LedgerStep ==
    /\ Next /\ (proc'[Home] = proc[Home] \/ proc[Home] = "stopped")
    /\ UNCHANGED <<streamVars, verifyVars>>

RNext ==
    \/ LedgerStep \/ ReadersDie
    \/ Subscribe \/ StreamTask \/ Receive \/ Cut
    \/ Note \/ Answer \/ AnswerCorrupt

RSpec == RInit /\ [][RNext]_rvars

\* Tokio polls the stream's task, and the ledger's as in AuditLedger; a browser
\* that is connected takes what it is sent.
RFairSpec ==
    /\ RSpec
    /\ WF_rvars(StreamTask) /\ WF_rvars(Receive)
    /\ \A g \in Gateways : WF_rvars(LedgerStep /\ Write(g)) /\ WF_rvars(LedgerStep /\ Publish(g))

-----------------------------------------------------------------------------
\* The lines behind where the browser began.
Behind == SubSeq(lines, since + 1, Len(lines))

\* "a browser that comes back resumes after it": however often the connection is
\* lost, with events on the way, and the gateway starts again, what the browser
\* has is every wanted record from where it began to the last id it saw, each
\* once and in order.
StreamIsExact ==
    /\ \A i, j \in DOMAIN got : i < j => got[i] < got[j]
    /\ ToSet(got) = {lines[i].seq : i \in {i \in since + 1 .. Len(lines) :
                        lines[i] # Garbled /\ lines[i].seq <= last /\ lines[i].entry \in Wanted}}

\* Each record as it is appended: no wake-up is missed, so a wanted record that
\* goes in behind the browser's start reaches it unless its connection is lost.
StreamCatchesUp ==
    \A e \in Wanted :
        (phase \notin {"closed", "subscribed"} /\ e \in {r.entry : r \in ToSet(Behind)})
            ~> (phase = "closed" \/ \E r \in ToSet(lines) : r.entry = e /\ r.seq \in ToSet(got))

\* "one that has grown since passes": a file nobody tampered with is never
\* reported broken or cut, whatever is appended between the look at what is
\* written and the reading.
NoFalseAlarm == verdict = NoBreak
==============================================================================
