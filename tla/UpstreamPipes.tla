----------------------------- MODULE UpstreamPipes -----------------------------
(***************************************************************************)
(* What carries the messages of an upstream up to its handle when it is    *)
(* not a request's own answer: the event stream of a 2024-11-05 server     *)
(* (http.rs), which breaks and is asked for again, and the pipes of a      *)
(* stdio child (mcpdef-transport/src/lib.rs), which fill.                  *)
(***************************************************************************)
EXTENDS Integers, Sequences

-----------------------------------------------------------------------------
(***************************************************************************)
(* The event stream (legacy_sse_loop): a task reads it, hands its messages *)
(* up, and asks for it again where it left off when it breaks. The server  *)
(* numbers its events, and sends them again from the last one the reader   *)
(* names, or from somewhat before.                                         *)
(***************************************************************************)
CONSTANTS MaxReconnects,  \* MAX_RECONNECTS
          MaxEvents       \* bound

ASSUME StreamAssumption == MaxReconnects \in Nat \ {0} /\ MaxEvents \in Nat \ {0}

VARIABLES
    said,     \* the server's events so far: the first is the endpoint, the others messages
    numeric,  \* its ids are numbers, and not merely different
    wire,     \* the stream: the next event to write on it, and those in flight
    reader,   \* where the task is, its `attempts`, and the ids it keeps
    inbound   \* what it handed up: recv's queue, with what recv took

streamVars == <<said, numeric, wire, reader, inbound>>

None == 0
Lost == 0   \* the error that ends what is handed up

Endpoint == 1

StreamInit ==
    /\ said = 1 /\ numeric \in BOOLEAN
    /\ wire = [next |-> 1, flight |-> <<>>]
    /\ reader = [at |-> "get", attempts |-> 0, cursor |-> None, delivered |-> None, endpoint |-> FALSE]
    /\ inbound = <<>>

Says == said < MaxEvents /\ said' = said + 1 /\ UNCHANGED <<numeric, wire, reader, inbound>>

Write ==
    /\ reader.at = "reading" /\ wire.next <= said
    /\ wire' = [next |-> wire.next + 1, flight |-> Append(wire.flight, wire.next)]
    /\ UNCHANGED <<said, numeric, reader, inbound>>

\* GET with Last-Event-ID: from the event after, from that one, or from the first.
\* Opaque ids tell a reader only the last one apart.
From(cursor) == {cursor + 1} \cup IF cursor = None THEN {} ELSE {cursor} \cup IF numeric THEN {1} ELSE {}

Get ==
    /\ reader.at = "get"
    /\ \E first \in From(reader.cursor) : wire' = [next |-> first, flight |-> <<>>]
    /\ reader' = [reader EXCEPT !.at = "reading"]
    /\ UNCHANGED <<said, numeric, inbound>>

\* It is refused, or goes nowhere.
GetFails ==
    /\ reader.at = "get"
    /\ reader' = [reader EXCEPT !.at = "ended"] /\ inbound' = Append(inbound, Lost)
    /\ UNCHANGED <<said, numeric, wire>>

\* Mutant: an event sent again from the one named is new.
StaleBelow(id) == reader.delivered # None /\ numeric /\ id < reader.delivered

\* is_stale
Stale(id) ==
    /\ reader.delivered # None
    /\ IF numeric THEN id <= reader.delivered ELSE id = reader.delivered

Read ==
    /\ reader.at = "reading" /\ wire.flight # <<>>
    /\ wire' = [wire EXCEPT !.flight = Tail(@)]
    /\ LET id == Head(wire.flight) IN
       IF id = Endpoint
       THEN reader' = [reader EXCEPT !.cursor = id, !.endpoint = TRUE] /\ UNCHANGED inbound
       ELSE IF Stale(id) THEN reader' = [reader EXCEPT !.cursor = id] /\ UNCHANGED inbound
       ELSE reader' = [reader EXCEPT !.cursor = id, !.delivered = id] /\ inbound' = Append(inbound, id)
    /\ UNCHANGED <<said, numeric>>

\* The stream ends, with what was in flight.
StreamBreaks ==
    /\ reader.at = "reading"
    /\ IF reader.endpoint /\ reader.attempts + 1 < MaxReconnects
       THEN reader' = [reader EXCEPT !.at = "get", !.attempts = @ + 1] /\ UNCHANGED inbound
       ELSE reader' = [reader EXCEPT !.at = "ended", !.attempts = @ + 1] /\ inbound' = Append(inbound, Lost)
    /\ UNCHANGED <<said, numeric, wire>>

StreamNext == Says \/ Write \/ Get \/ GetFails \/ Read \/ StreamBreaks

-----------------------------------------------------------------------------
\* Each variable has its type (legacy_sse_loop's locals).
StreamTypeOK ==
    /\ said \in 1 .. MaxEvents /\ wire.next \in 1 .. MaxEvents + 1 /\ numeric \in BOOLEAN
    /\ reader.at \in {"get", "reading", "ended"} /\ reader.attempts \in 0 .. MaxReconnects
    /\ reader.cursor \in 0 .. MaxEvents /\ reader.delivered \in 0 .. MaxEvents

\* "So recv() never sees a duplicate", nor a gap: through broken streams and what
\* a server sends again, every message is handed up once and in order; and "a
\* terminal error so recv() does not block forever" is last, and only then.
HandedUpOnce ==
    \A i \in DOMAIN inbound :
        inbound[i] = IF i = Len(inbound) /\ reader.at = "ended" THEN Lost ELSE Endpoint + i

-----------------------------------------------------------------------------
(***************************************************************************)
(* A stdio upstream's pipes (StdioChild): its handle's actor sends         *)
(* requests and receives lines in any order, over pipes that fill, to a    *)
(* child that takes one line at a time and writes every line of its answer *)
(* before it takes the next. Lines are numbered.                           *)
(***************************************************************************)
CONSTANTS PipeSize,    \* the lines a pipe holds
          ReadAhead,   \* READ_AHEAD
          Lines,       \* the lines the child writes to a request
          Outstanding, \* the requests not answered that the handle lets go
          MaxSends     \* bound

\* A child writes no more than the pipe and the lines kept take, whatever is asked of it.
ASSUME PipeAssumption ==
    /\ {PipeSize, Lines, Outstanding, MaxSends} \subseteq Nat \ {0} /\ ReadAhead \in Nat
    /\ Outstanding * Lines <= PipeSize + ReadAhead

VARIABLES
    stdin, stdout, \* the pipes
    ahead,         \* StdioChild::ahead
    writing,       \* a send waits to write its request
    sends,         \* how many there were
    received,      \* history: what recv returned
    child          \* the lines it has written, and has still to write

pipeVars == <<stdin, stdout, ahead, writing, sends, received, child>>

End == 0   \* the child closed its stdout

PipeInit ==
    /\ stdin = 0 /\ stdout = <<>> /\ ahead = <<>> /\ received = <<>>
    /\ writing = FALSE /\ sends = 0
    /\ child = [wrote |-> 0, left |-> 0, ended |-> FALSE]

\* The child.
TakeLine ==
    /\ child.left = 0 /\ stdin > 0 /\ ~child.ended
    /\ stdin' = stdin - 1 /\ child' = [child EXCEPT !.left = Lines]
    /\ UNCHANGED <<stdout, ahead, writing, sends, received>>

WriteLine ==
    /\ child.left > 0 /\ Len(stdout) < PipeSize /\ ~child.ended
    /\ stdout' = Append(stdout, child.wrote + 1)
    /\ child' = [child EXCEPT !.wrote = @ + 1, !.left = @ - 1]
    /\ UNCHANGED <<stdin, ahead, writing, sends, received>>

\* Its last line read, its stdout reads as ended.
ChildEnds ==
    /\ ~child.ended /\ Len(stdout) < PipeSize
    /\ child' = [child EXCEPT !.ended = TRUE] /\ stdout' = Append(stdout, End)
    /\ UNCHANGED <<stdin, ahead, writing, sends, received>>

\* The handle has no more than Outstanding requests whose answers it has not read.
Unanswered == sends - Len(SelectSeq(received, LAMBDA line : line # End)) \div Lines

StartSend ==
    /\ ~writing /\ sends < MaxSends /\ Unanswered < Outstanding
    /\ writing' = TRUE /\ sends' = sends + 1
    /\ UNCHANGED <<stdin, stdout, ahead, received, child>>

\* send: the write first,
Written ==
    /\ writing /\ stdin < PipeSize
    /\ stdin' = stdin + 1 /\ writing' = FALSE
    /\ UNCHANGED <<stdout, ahead, sends, received, child>>

\* or an error of it, when no one reads,
WriteFails ==
    /\ writing /\ child.ended /\ writing' = FALSE
    /\ UNCHANGED <<stdin, stdout, ahead, sends, received, child>>

\* and while it waits, what the child writes is kept, up to READ_AHEAD lines and
\* the end.
EndKept == ahead # <<>> /\ ahead[Len(ahead)] = End
Reading == ~EndKept /\ Len(ahead) < ReadAhead

KeepLine ==
    /\ writing /\ stdin = PipeSize /\ Reading
    /\ stdout # <<>> /\ ahead' = Append(ahead, Head(stdout)) /\ stdout' = Tail(stdout)
    /\ UNCHANGED <<stdin, writing, sends, received, child>>

\* recv: what is kept first, then what the child writes.
Receive ==
    /\ ~writing /\ End \notin {received[i] : i \in DOMAIN received}
    /\ \/ ahead # <<>> /\ received' = Append(received, Head(ahead))
          /\ ahead' = Tail(ahead) /\ UNCHANGED stdout
       \/ ahead = <<>> /\ stdout # <<>> /\ received' = Append(received, Head(stdout))
          /\ stdout' = Tail(stdout) /\ UNCHANGED ahead
    /\ UNCHANGED <<stdin, writing, sends, child>>

ChildStep == TakeLine \/ WriteLine
SendStep == Written \/ WriteFails \/ KeepLine
PipeNext == ChildStep \/ ChildEnds \/ StartSend \/ SendStep \/ Receive

-----------------------------------------------------------------------------
\* Each variable has its type (StdioChild).
PipeTypeOK ==
    /\ stdin \in 0 .. PipeSize /\ Len(stdout) <= PipeSize /\ Len(ahead) <= ReadAhead
    /\ writing \in BOOLEAN /\ sends \in 0 .. MaxSends /\ child.left \in 0 .. Lines

\* "The lines read meanwhile are kept, in order, for recv": what was received, is
\* kept and is in the pipe is what the child wrote, whole and in order.
LinesInOrder ==
    LET all == received \o ahead \o stdout IN
    \A i \in DOMAIN all : all[i] = IF i <= child.wrote THEN i ELSE End

\* "A send that only wrote would then wait for the child while the child waited
\* for it, once both pipes filled": every send ends, though nothing receives
\* meanwhile.
SendsEnd == writing ~> ~writing
================================================================================
