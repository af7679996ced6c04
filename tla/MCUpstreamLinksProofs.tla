------------------------ MODULE MCUpstreamLinksProofs ------------------------
(***************************************************************************)
(* Proofs about UpstreamPipes, UpstreamOpening and UpstreamToken, as       *)
(* MCUpstreamLinks runs them: for any requests, credentials, pages and     *)
(* events, any pipes, and any bounds on what happens.  And about           *)
(* UpstreamDial, which says where a client connects: of any policy, any    *)
(* URLs in any order, and any answers of the resolver.                     *)
(***************************************************************************)
EXTENDS MCUpstreamLinks, SequenceTheorems, WellFoundedInduction, TLAPS

-----------------------------------------------------------------------------
(***************************************************************************)
(* What is handed up.                                                      *)
(***************************************************************************)

\* The events in flight are those from `first` on, up to the next.
InRow(flight, next, first) ==
    /\ \A i \in DOMAIN flight : flight[i] = first + i - 1
    /\ next = first + Len(flight)

\* The last event handed up, or the endpoint.
LastUp == IF reader.delivered = None THEN Endpoint ELSE reader.delivered

StreamType ==
    /\ said \in Nat /\ numeric \in BOOLEAN
    /\ wire \in [next : Nat, flight : Seq(Nat)]
    /\ reader \in [at : {"get", "reading", "ended"}, attempts : Nat, cursor : Nat,
                   delivered : Nat, endpoint : BOOLEAN]
    /\ inbound \in Seq(Nat)

\* An event is read after the one before it, or from an earlier one on.
WireInv ==
    reader.at = "reading" =>
        \E first \in 1 .. reader.cursor + 1 :
            InRow(wire.flight, wire.next, first) /\ (numeric \/ first >= reader.cursor)

ReaderInv ==
    /\ reader.cursor <= LastUp
    /\ reader.delivered # None => reader.delivered > Endpoint
    /\ reader.cursor = None => reader.delivered = None
    /\ ~numeric => reader.cursor \in {None, LastUp}
    /\ reader.at # "ended" => Len(inbound) = LastUp - Endpoint
    /\ HandedUpOnce

StreamInv == StreamType /\ WireInv /\ ReaderInv

-----------------------------------------------------------------------------
(***************************************************************************)
(* The lines of a child, wherever they are.                                *)
(***************************************************************************)
All == received \o ahead \o stdout

PipeInv ==
    /\ received \in Seq(Nat) /\ ahead \in Seq(Nat) /\ stdout \in Seq(Nat)
    /\ child \in [wrote : Nat, left : Int, ended : BOOLEAN]
    /\ Len(All) = child.wrote + (IF child.ended THEN 1 ELSE 0)
    /\ LinesInOrder

-----------------------------------------------------------------------------
(***************************************************************************)
(* An opening.                                                             *)
(***************************************************************************)
Messages == {"initialize", "discover", "initialized", "list"}
Outcomes == {"result", "error", "modern_error", "modern", "other revisions", "last", "more", "notification"}
Word == [what : {"hello", "discovery", "page", "changed"}, is : Outcomes, tools : Nat]

OpeningType ==
    /\ opening \in [at : {"start", "hello", "greeted", "discovery", "list", "page", "opened", "failed"},
                    binding : {"init", "initialize", "discover", "streamable", "bridge"},
                    spec : {"unknown", "2025", "2026"}, page : Int, got : Seq(Nat), changed : BOOLEAN]
    /\ server \in [kind : {"stdio", "streamable", "bridge"}, speaks : SUBSET {"legacy", "modern"},
                   hellos : Nat, tools : Nat]
    /\ up \in Seq(Messages) /\ down \in Seq(Word)

\* Until a binding is settled the server has nothing, and nothing comes of it.
Settling == opening.at = "start" \/ Negotiating

SettlingInv ==
    /\ Settling => up = <<>> /\ down = <<>> /\ server.hellos = 0
    /\ opening.at = "start" => opening.binding = "init"
    /\ Negotiating => opening.at \in {"hello", "discovery"}
    /\ way.transport # "stdio" /\ opening.binding = "init" => opening.at \in {"start", "failed"}

\* The one `initialize` is the first message there is, and none came before.
HelloFirst == \A i \in DOMAIN up : up[i] = "initialize" => i = 1 /\ server.hellos = 0

\* The server's replies say truly what it speaks.
RepliesTrue ==
    \A i \in DOMAIN down :
        /\ down[i].what = "hello" /\ down[i].is = "result" => Speaks("legacy") /\ server.hellos > 0
        /\ down[i].what = "discovery" /\ down[i].is = "modern" => Speaks("modern")

EraInv ==
    /\ server.hellos <= 1
    /\ opening.spec = "2025" => Speaks("legacy") /\ server.hellos > 0
    /\ opening.at \in {"start", "hello"} => opening.spec = "unknown"
    /\ opening.at = "greeted" => opening.spec = "2025"
    /\ opening.at = "discovery" => opening.spec = "2026"
    /\ opening.at \in {"list", "page", "opened"} =>
         opening.spec = "2025" \/ (opening.spec = "2026" /\ Speaks("modern"))

\* Before the handshake there is no page, nor is one asked for.
NoPages == \A i \in DOMAIN down : down[i].what # "page"
NoneAsked == \A i \in DOMAIN up : up[i] # "list"
NoneYet == opening.at \in {"start", "hello"} => opening.got = <<>> /\ NoneAsked /\ NoPages

\* The gateway hears of tools that change from a server it greeted on a stream: a
\* page of other tools comes, and came, before the word that they changed.
Told == \E i \in DOMAIN down : down[i].what = "changed"
PagesTold ==
    \A i \in DOMAIN down :
        \/ down[i].what # "page" \/ down[i].tools = server.tools
        \/ \E j \in DOMAIN down : j > i /\ down[j].what = "changed"
GotTold == \A i \in DOMAIN opening.got : opening.got[i] = server.tools \/ opening.changed \/ Told
ToldInv ==
    opening.spec = "2025" /\ server.kind # "streamable" /\ opening.at # "failed" => PagesTold /\ GotTold

OpeningInv ==
    OpeningType /\ SettlingInv /\ HelloFirst /\ RepliesTrue /\ EraInv /\ NoneYet /\ ToldInv

-----------------------------------------------------------------------------
(***************************************************************************)
(* The credentials.                                                        *)
(***************************************************************************)
Places ==
    {"apply", "join", "line", "fetch", "read", "fetched", "send", "sent", "refused",
     "answered", "unauthorized", "credentials", "dropped"}
Requested ==
    [at : Places, for : {"apply", "refresh"}, seen : Nat, sent : Nat, again : BOOLEAN, got : Int]

TokenType ==
    /\ auth \in [kind : {"token", "static"}, latest : Nat \cup {Failed}, expires : BOOLEAN,
                 due : BOOLEAN, fetches : Nat]
    /\ line \in Seq(Requests) /\ request \in [Requests -> Requested]
    /\ source \in Nat /\ floor \in 1 .. source /\ failures \in Nat

\* A secret is kept from the start; what does not expire is never due.
AuthInv ==
    /\ auth.kind = "static" => auth.latest >= 1 /\ ~auth.expires
    /\ ~auth.expires => ~auth.due

\* Who waits for the lock is in line, and who fetches first in it.
InLine(r) == \E i \in DOMAIN line : line[i] = r
FirstIs(r) == line # <<>> /\ Head(line) = r
Holds(r) == request[r].at \in {"fetch", "read", "fetched"}
LockInv == \A r \in Requests : (request[r].at = "line" => InLine(r)) /\ (Holds(r) => FirstIs(r))

\* A request that was refused, and has not gone again.
Waits(r) == request[r].at \in {"join", "line"}
Refreshing(r) ==
    \/ request[r].at = "refused"
    \/ (Waits(r) \/ Holds(r)) /\ (auth.kind = "static" \/ request[r].for = "refresh")

\* Why a request may fetch.
Reason(r) == ~Held \/ (request[r].for = "refresh" /\ auth.latest = request[r].sent)

\* Credentials that do not expire were revoked once.
Cheap == ~auth.expires /\ floor <= 2

RequestInv(r) ==
    /\ request[r].at \in {"join", "fetch"} => auth.kind = "token"
    /\ request[r].at = "read" => auth.kind = "static"
    /\ request[r].at \in {"send", "sent"} => request[r].sent >= 1
    /\ Refreshing(r) => request[r].sent >= 1 /\ request[r].sent < floor
    /\ request[r].at = "fetched" =>
         request[r].got = Failed \/ (request[r].got >= 1 /\ (Refreshing(r) => request[r].got >= 2))
    /\ auth.kind = "token" /\ Holds(r) => Reason(r)
    /\ auth.kind = "static" /\ Holds(r) => auth.latest = request[r].sent

\* Who waits has a reason to fetch, or another has fetched since.
WaitInv(r) ==
    auth.kind = "token" /\ Waits(r) =>
        /\ request[r].seen <= auth.fetches
        /\ request[r].seen = auth.fetches => Reason(r)
        /\ Cheap /\ request[r].for = "refresh" /\ request[r].seen # auth.fetches =>
             auth.latest # request[r].sent

\* What goes again goes with a credential that is not revoked.
AgainInv(r) ==
    /\ request[r].again =>
         /\ floor >= 2
         /\ Cheap => auth.latest # 1 /\ (request[r].at \in {"send", "sent"} => request[r].sent >= 2)
    /\ Cheap => request[r].at # "unauthorized"

\* The first token is fetched before anything is sent, however late it comes.
Unsent == \A r \in Requests : request[r].sent = Nothing
FirstInv ==
    auth.kind = "token" /\ ~auth.expires =>
        /\ floor = 1 /\ auth.latest <= 0 => Unsent
        /\ (\E r \in Requests : request[r].at = "fetched" /\ request[r].got = 1) =>
             auth.latest <= 0 /\ Unsent /\ \A r \in Requests : ~request[r].again

TokenInv ==
    /\ TokenType /\ AuthInv /\ LockInv /\ FirstInv
    /\ \A r \in Requests : RequestInv(r) /\ WaitInv(r) /\ AgainInv(r)

-----------------------------------------------------------------------------
(***************************************************************************)
(* Sequences.                                                              *)
(***************************************************************************)
LEMMA SeqFacts ==
  ASSUME NEW S, NEW s \in Seq(S)
  PROVE  /\ Len(s) \in Nat /\ DOMAIN s = 1 .. Len(s)
         /\ \A i \in DOMAIN s : s[i] \in S
         /\ s = <<>> <=> Len(s) = 0
  OBVIOUS

LEMMA AppendFacts ==
  ASSUME NEW S, NEW s \in Seq(S), NEW x \in S
  PROVE  /\ Append(s, x) \in Seq(S) /\ Append(s, x) # <<>>
         /\ Len(Append(s, x)) = Len(s) + 1
         /\ DOMAIN Append(s, x) = 1 .. Len(s) + 1
         /\ Append(s, x)[Len(s) + 1] = x
         /\ \A i \in 1 .. Len(s) : Append(s, x)[i] = s[i]
<1>1. Len(s) \in Nat /\ DOMAIN s = 1 .. Len(s)
  OBVIOUS
<1>2. Append(s, x) \in Seq(S) /\ Len(Append(s, x)) = Len(s) + 1
  OBVIOUS
<1>3. Append(s, x)[Len(s) + 1] = x /\ \A i \in 1 .. Len(s) : Append(s, x)[i] = s[i]
  BY <1>1
<1>4. Append(s, x) # <<>> /\ DOMAIN Append(s, x) = 1 .. Len(s) + 1
  BY <1>1, <1>2
<1> QED
  BY <1>2, <1>3, <1>4

LEMMA TailFacts ==
  ASSUME NEW S, NEW s \in Seq(S), s # <<>>
  PROVE  /\ Tail(s) \in Seq(S) /\ Head(s) \in S /\ Head(s) = s[1]
         /\ Len(s) \in Nat \ {0} /\ Len(Tail(s)) = Len(s) - 1
         /\ DOMAIN Tail(s) = 1 .. Len(s) - 1
         /\ \A i \in 1 .. Len(s) - 1 : Tail(s)[i] = s[i + 1]
<1>1. Len(s) \in Nat \ {0} /\ DOMAIN s = 1 .. Len(s)
  OBVIOUS
<1>2. Tail(s) \in Seq(S) /\ Head(s) \in S /\ Head(s) = s[1] /\ Len(Tail(s)) = Len(s) - 1
  OBVIOUS
<1>3. DOMAIN Tail(s) = 1 .. Len(s) - 1 /\ \A i \in 1 .. Len(s) - 1 : Tail(s)[i] = s[i + 1]
  BY <1>1, <1>2
<1> QED
  BY <1>1, <1>2, <1>3

\* Three parts of a sequence, joined one after the other.
LEMMA Joined ==
  ASSUME NEW s \in Seq(Nat), NEW t \in Seq(Nat), NEW u \in Seq(Nat)
  PROVE  (s \o t) \o u = s \o (t \o u)
  OBVIOUS

-----------------------------------------------------------------------------
(***************************************************************************)
(* The event stream (legacy_sse_loop).                                     *)
(***************************************************************************)

\* What WireInv and ReaderInv say is in numbers.
LEMMA StreamNumbers ==
  ASSUME StreamType
  PROVE  /\ wire.next \in Nat /\ Len(wire.flight) \in Nat /\ reader.cursor \in Nat
         /\ reader.delivered \in Nat /\ LastUp \in Nat /\ Len(inbound) \in Nat
         /\ DOMAIN wire.flight = 1 .. Len(wire.flight) /\ DOMAIN inbound = 1 .. Len(inbound)
         /\ wire.flight = <<>> <=> Len(wire.flight) = 0
  BY SeqFacts DEF StreamType, LastUp, Endpoint

LEMMA StreamBegins == StreamInit => StreamInv
<1> SUFFICES ASSUME StreamInit PROVE StreamInv
  OBVIOUS
<1>1. StreamType
  BY DEF StreamInit, StreamType, None
<1>2. WireInv /\ ReaderInv
  BY DEF StreamInit, WireInv, ReaderInv, HandedUpOnce, LastUp, None, Endpoint
<1> QED
  BY <1>1, <1>2 DEF StreamInv

\* A step of the server, or a new stream.
LEMMA SameReader ==
  ASSUME StreamInv, StreamType', UNCHANGED <<numeric, inbound>>,
         reader' = reader \/ (reader.at # "ended" /\ reader'.at # "ended"
                              /\ reader'.cursor = reader.cursor /\ reader'.delivered = reader.delivered)
  PROVE  ReaderInv'
<1>1. LastUp' = LastUp /\ reader'.cursor = reader.cursor /\ reader'.delivered = reader.delivered
      /\ (reader'.at = "ended" <=> reader.at = "ended")
  BY DEF LastUp
<1> QED
  BY <1>1 DEF StreamInv, ReaderInv, HandedUpOnce

LEMMA SaysKeeps == ASSUME StreamInv, Says PROVE StreamInv'
<1>1. StreamType'
  BY DEF StreamInv, StreamType, Says
<1>2. WireInv'
  BY DEF StreamInv, Says, WireInv, InRow
<1> QED
  BY <1>1, <1>2, SameReader DEF StreamInv, Says

\* One more in flight, and one less.
LEMMA RowGrows ==
  ASSUME NEW f \in Seq(Nat), NEW n \in Nat, NEW h \in Nat, InRow(f, n, h)
  PROVE  /\ Append(f, n) \in Seq(Nat) /\ InRow(Append(f, n), n + 1, h)
         /\ f # <<>> => Head(f) = h /\ Tail(f) \in Seq(Nat) /\ InRow(Tail(f), n, h + 1)
<1>1. InRow(Append(f, n), n + 1, h)
  BY AppendFacts, SeqFacts DEF InRow
<1>2. ASSUME f # <<>> PROVE Head(f) = h /\ Tail(f) \in Seq(Nat) /\ InRow(Tail(f), n, h + 1)
  <2>1. /\ Tail(f) \in Seq(Nat) /\ Head(f) = f[1] /\ Len(f) \in Nat \ {0}
        /\ Len(Tail(f)) = Len(f) - 1 /\ DOMAIN Tail(f) = 1 .. Len(f) - 1 /\ DOMAIN f = 1 .. Len(f)
        /\ \A i \in 1 .. Len(f) - 1 : Tail(f)[i] = f[i + 1]
    BY <1>2, TailFacts, SeqFacts
  <2>2. \A i \in 1 .. Len(f) - 1 : i + 1 \in 1 .. Len(f)
    BY <2>1
  <2>3. ASSUME NEW i \in 1 .. Len(f) - 1 PROVE Tail(f)[i] = h + 1 + i - 1
    <3>1. Tail(f)[i] = f[i + 1] /\ i + 1 \in DOMAIN f
      BY <2>1, <2>2
    <3>2. f[i + 1] = h + (i + 1) - 1
      BY <3>1 DEF InRow
    <3>3. i \in Int
      BY <2>1
    <3> QED
      BY <3>1, <3>2, <3>3
  <2> QED
    BY <2>1, <2>3 DEF InRow
<1> QED
  BY <1>1, <1>2, AppendFacts

LEMMA WriteKeeps == ASSUME StreamInv, Write PROVE StreamInv'
<1> USE DEF StreamInv
<1>1. /\ wire.next \in Nat /\ wire.flight \in Seq(Nat) /\ reader.at = "reading"
      /\ wire'.next = wire.next + 1 /\ wire'.flight = Append(wire.flight, wire.next)
      /\ UNCHANGED <<said, numeric, reader, inbound>>
      /\ wire' = [next |-> wire.next + 1, flight |-> Append(wire.flight, wire.next)]
  BY DEF StreamType, Write
<1>2. PICK first \in 1 .. reader.cursor + 1 :
        InRow(wire.flight, wire.next, first) /\ (numeric \/ first >= reader.cursor)
  BY <1>1 DEF WireInv
<1>3. first \in Nat
  BY StreamNumbers
<1>4. Append(wire.flight, wire.next) \in Seq(Nat)
      /\ InRow(Append(wire.flight, wire.next), wire.next + 1, first)
  BY <1>1, <1>2, <1>3, RowGrows
<1>5. StreamType'
  BY <1>1, <1>4 DEF StreamType
<1>6. WireInv'
  <2>1. InRow(wire'.flight, wire'.next, first)
    BY <1>1, <1>4
  <2> QED
    BY <1>1, <1>2, <2>1 DEF WireInv
<1> QED
  BY <1>1, <1>5, <1>6, SameReader

LEMMA GetKeeps == ASSUME StreamInv, Get PROVE StreamInv'
<1> USE DEF StreamInv
<1>1. PICK first \in From(reader.cursor) : wire' = [next |-> first, flight |-> <<>>]
  BY DEF Get
<1>2. first \in Nat /\ first \in 1 .. reader.cursor + 1 /\ (numeric \/ first >= reader.cursor)
  BY StreamNumbers DEF From, None
<1>3. wire'.next = first /\ wire'.flight = <<>> /\ wire' \in [next : Nat, flight : Seq(Nat)]
  BY <1>1, <1>2
<1>4. StreamType' /\ reader'.cursor = reader.cursor /\ reader'.delivered = reader.delivered
      /\ reader.at # "ended" /\ reader'.at # "ended" /\ UNCHANGED <<numeric, inbound>>
  BY <1>3 DEF StreamType, Get
<1>5. WireInv'
  <2>1. InRow(wire'.flight, wire'.next, first)
    BY <1>2, <1>3 DEF InRow
  <2> QED
    BY <1>2, <1>4, <2>1 DEF WireInv
<1> QED
  BY <1>4, <1>5, SameReader

\* The error that ends it comes after all that was handed up.
LEMMA EndKeeps ==
  ASSUME StreamInv, reader.at # "ended", reader'.at = "ended",
         reader' \in [at : {"get", "reading", "ended"}, attempts : Nat, cursor : Nat,
                      delivered : Nat, endpoint : BOOLEAN],
         reader'.cursor = reader.cursor, reader'.delivered = reader.delivered,
         inbound' = Append(inbound, Lost), UNCHANGED <<said, numeric, wire>>
  PROVE  StreamInv'
<1> USE DEF StreamInv
<1>1. /\ inbound' \in Seq(Nat) /\ Len(inbound') = Len(inbound) + 1
      /\ DOMAIN inbound' = 1 .. Len(inbound) + 1 /\ inbound'[Len(inbound) + 1] = Lost
      /\ \A i \in 1 .. Len(inbound) : inbound'[i] = inbound[i]
  BY AppendFacts DEF StreamType, Lost
<1>2. StreamType' /\ WireInv' /\ LastUp' = LastUp
  BY <1>1 DEF StreamType, WireInv, LastUp
<1>3. HandedUpOnce'
  BY <1>1, StreamNumbers DEF ReaderInv, HandedUpOnce
<1> QED
  BY <1>2, <1>3 DEF ReaderInv

LEMMA GetFailsKeeps == ASSUME StreamInv, GetFails PROVE StreamInv'
<1>1. /\ reader.at # "ended" /\ reader'.at = "ended"
      /\ reader' \in [at : {"get", "reading", "ended"}, attempts : Nat, cursor : Nat,
                      delivered : Nat, endpoint : BOOLEAN]
      /\ reader'.cursor = reader.cursor /\ reader'.delivered = reader.delivered
  BY DEF StreamInv, StreamType, GetFails
<1> QED
  BY <1>1, EndKeeps DEF GetFails

LEMMA BreakKeeps == ASSUME StreamInv, StreamBreaks PROVE StreamInv'
<1>1. /\ reader.at # "ended" /\ reader'.at \in {"get", "ended"}
      /\ reader' \in [at : {"get", "reading", "ended"}, attempts : Nat, cursor : Nat,
                      delivered : Nat, endpoint : BOOLEAN]
      /\ reader'.cursor = reader.cursor /\ reader'.delivered = reader.delivered
  <2>1. reader \in [at : {"get", "reading", "ended"}, attempts : Nat, cursor : Nat,
                    delivered : Nat, endpoint : BOOLEAN]
        /\ reader.at = "reading" /\ reader.attempts + 1 \in Nat
    BY DEF StreamInv, StreamType, StreamBreaks
  <2>2. PICK at \in {"get", "ended"} : reader' = [reader EXCEPT !.at = at, !.attempts = @ + 1]
    BY DEF StreamBreaks
  <2> QED
    BY <2>1, <2>2
<1>2. CASE reader'.at = "ended"
  <2>1. inbound' = Append(inbound, Lost)
    BY <1>2 DEF StreamBreaks, StreamInv, StreamType
  <2> QED
    BY <1>1, <1>2, <2>1, EndKeeps DEF StreamBreaks
<1>3. CASE reader'.at = "get"
  <2>1. UNCHANGED inbound
    BY <1>3 DEF StreamBreaks, StreamInv, StreamType
  <2>2. StreamType' /\ WireInv'
    BY <1>1, <1>3, <2>1 DEF StreamInv, StreamType, WireInv, StreamBreaks
  <2> QED
    BY <1>1, <1>3, <2>1, <2>2, SameReader DEF StreamInv, StreamBreaks
<1> QED
  BY <1>1, <1>2, <1>3

LEMMA ReadKeeps == ASSUME StreamInv, Read PROVE StreamInv'
<1> USE DEF StreamInv
<1> DEFINE id == Head(wire.flight)
<1>1. /\ wire.flight \in Seq(Nat) /\ wire.flight # <<>> /\ reader.at = "reading"
      /\ wire.next \in Nat /\ wire'.next = wire.next /\ wire'.flight = Tail(wire.flight)
      /\ wire' = [wire EXCEPT !.flight = Tail(@)] /\ UNCHANGED <<said, numeric>>
  BY DEF StreamType, Read
<1>2. PICK first \in 1 .. reader.cursor + 1 :
        InRow(wire.flight, wire.next, first) /\ (numeric \/ first >= reader.cursor)
  BY <1>1 DEF WireInv
<1>3. first \in Nat /\ first >= 1 /\ first <= reader.cursor + 1
  BY StreamNumbers
<1>4. id = first /\ Tail(wire.flight) \in Seq(Nat) /\ InRow(Tail(wire.flight), wire.next, first + 1)
  BY <1>1, <1>2, <1>3, RowGrows
<1>5. \/ /\ id = Endpoint \/ Stale(id)
         /\ reader'.cursor = id /\ reader'.delivered = reader.delivered /\ inbound' = inbound
      \/ /\ id # Endpoint /\ ~Stale(id)
         /\ reader'.cursor = id /\ reader'.delivered = id /\ inbound' = Append(inbound, id)
  BY DEF Read, StreamType
<1>6. /\ reader'.cursor = id /\ reader'.at = "reading"
      /\ reader' \in [at : {"get", "reading", "ended"}, attempts : Nat, cursor : Nat,
                      delivered : Nat, endpoint : BOOLEAN]
  BY <1>1, <1>3, <1>4, ZenonT(60) DEF Read, StreamType
<1> HIDE DEF id
<1>7. StreamType'
  <2>1. inbound \in Seq(Nat) /\ id \in Nat
    BY <1>3, <1>4 DEF StreamType
  <2>2. inbound' \in Seq(Nat)
    BY <1>5, <2>1, AppendFacts
  <2>3. wire' \in [next : Nat, flight : Seq(Nat)]
    BY <1>1, <1>4 DEF StreamType
  <2> QED
    BY <1>1, <1>6, <2>2, <2>3 DEF StreamType
<1>8. WireInv'
  <2>1. InRow(wire'.flight, wire'.next, first + 1) /\ first + 1 \in 1 .. reader'.cursor + 1
    BY <1>1, <1>3, <1>4, <1>6
  <2> QED
    BY <1>3, <1>4, <1>6, <2>1 DEF WireInv
<1>9. ReaderInv'
  <2>1. /\ LastUp \in Nat /\ reader.cursor \in Nat /\ reader.delivered \in Nat
        /\ Len(inbound) \in Nat /\ DOMAIN inbound = 1 .. Len(inbound)
        /\ Len(inbound) = LastUp - 1 /\ numeric \in BOOLEAN /\ numeric' = numeric
        /\ reader.cursor <= LastUp /\ (reader.delivered # 0 => reader.delivered > 1)
        /\ reader.cursor = 0 => reader.delivered = 0
        /\ ~numeric => reader.cursor \in {0, LastUp}
        /\ LastUp = IF reader.delivered = 0 THEN 1 ELSE reader.delivered
        /\ LastUp' = IF reader'.delivered = 0 THEN 1 ELSE reader'.delivered
    BY <1>1, StreamNumbers DEF ReaderInv, StreamType, LastUp, None, Endpoint
  <2>2. Stale(id) <=> /\ reader.delivered # 0
                      /\ IF numeric THEN id <= reader.delivered ELSE id = reader.delivered
    BY DEF Stale, None
  <2>3. \A i \in 1 .. Len(inbound) : inbound[i] = 1 + i
    BY <1>1, <2>1 DEF ReaderInv, HandedUpOnce, Endpoint
  <2>4. CASE (id = Endpoint \/ Stale(id)) /\ reader'.delivered = reader.delivered
             /\ inbound' = inbound
    <3>1. LastUp' = LastUp /\ id <= LastUp /\ (~numeric => id = LastUp)
      BY <1>2, <1>3, <1>4, <2>1, <2>2, <2>4 DEF Endpoint
    <3>2. HandedUpOnce'
      BY <1>6, <2>1, <2>3, <2>4 DEF HandedUpOnce, Endpoint
    <3> QED
      BY <1>3, <1>4, <1>6, <2>1, <2>4, <3>1, <3>2 DEF ReaderInv, None, Endpoint
  <2>5. CASE id # Endpoint /\ ~Stale(id) /\ reader'.delivered = id
             /\ inbound' = Append(inbound, id)
    <3>1. id = LastUp + 1 /\ LastUp' = id /\ id > 1
      BY <1>2, <1>3, <1>4, <2>1, <2>2, <2>5 DEF Endpoint
    <3>2. inbound \in Seq(Nat) /\ id \in Nat
      BY <1>3, <1>4 DEF StreamType
    <3>3. /\ Len(inbound') = Len(inbound) + 1
          /\ DOMAIN inbound' = 1 .. Len(inbound) + 1 /\ inbound'[Len(inbound) + 1] = id
          /\ \A i \in 1 .. Len(inbound) : inbound'[i] = inbound[i]
      BY <2>5, <3>2, AppendFacts
    <3>4. HandedUpOnce'
      BY <1>6, <2>1, <2>3, <3>1, <3>3, SMTT(30) DEF HandedUpOnce, Endpoint
    <3> QED
      BY <1>6, <2>1, <2>5, <3>1, <3>2, <3>3, <3>4 DEF ReaderInv, Endpoint, None
  <2> QED
    BY <1>5, <2>4, <2>5
<1> QED
  BY <1>7, <1>8, <1>9

LEMMA StreamKept == ASSUME StreamInv, StreamNext PROVE StreamInv'
  BY SaysKeeps, WriteKeeps, GetKeeps, GetFailsKeeps, ReadKeeps, BreakKeeps DEF StreamNext

LEMMA StreamStays == ASSUME StreamInv, UNCHANGED streamVars PROVE StreamInv'
  BY DEF StreamInv, StreamType, WireInv, ReaderInv, HandedUpOnce, InRow, LastUp, streamVars

-----------------------------------------------------------------------------
(***************************************************************************)
(* The pipes of a child (StdioChild).                                      *)
(***************************************************************************)

\* The first of one part goes to the end of the one before it.
LEMMA MovesOn ==
  ASSUME NEW s \in Seq(Nat), NEW t \in Seq(Nat), t # <<>>
  PROVE  Append(s, Head(t)) \in Seq(Nat) /\ Tail(t) \in Seq(Nat)
         /\ Append(s, Head(t)) \o Tail(t) = s \o t
<1> DEFINE moved == Append(s, Head(t)) \o Tail(t)
<1>1. /\ Head(t) \in Nat /\ Head(t) = t[1] /\ Tail(t) \in Seq(Nat)
      /\ Len(s) \in Nat /\ Len(t) \in Nat \ {0} /\ Len(Tail(t)) = Len(t) - 1
      /\ \A i \in 1 .. Len(t) - 1 : Tail(t)[i] = t[i + 1]
  BY TailFacts, SeqFacts
<1>2. /\ Append(s, Head(t)) \in Seq(Nat) /\ Len(Append(s, Head(t))) = Len(s) + 1
      /\ Append(s, Head(t))[Len(s) + 1] = t[1]
      /\ \A i \in 1 .. Len(s) : Append(s, Head(t))[i] = s[i]
  BY <1>1, AppendFacts
<1>3. /\ moved \in Seq(Nat) /\ Len(moved) = Len(s) + Len(t)
      /\ \A i \in 1 .. Len(s) + Len(t) :
           moved[i] = IF i <= Len(s) + 1 THEN Append(s, Head(t))[i] ELSE Tail(t)[i - (Len(s) + 1)]
  BY <1>1, <1>2, ConcatProperties
<1>4. /\ s \o t \in Seq(Nat) /\ Len(s \o t) = Len(s) + Len(t)
      /\ \A i \in 1 .. Len(s) + Len(t) : (s \o t)[i] = IF i <= Len(s) THEN s[i] ELSE t[i - Len(s)]
  BY ConcatProperties
<1> HIDE DEF moved
<1>5. ASSUME NEW i \in 1 .. Len(s) + Len(t) PROVE moved[i] = (s \o t)[i]
  <2>1. CASE i <= Len(s)
    BY <1>1, <1>2, <1>3, <1>4, <2>1
  <2>2. CASE i = Len(s) + 1
    <3>1. i - Len(s) = 1 /\ ~(i <= Len(s)) /\ i <= Len(s) + 1
      BY <1>1, <2>2
    <3>2. moved[i] = t[1]
      BY <1>2, <1>3, <2>2, <3>1
    <3>3. (s \o t)[i] = t[1]
      BY <1>4, <3>1
    <3> QED
      BY <3>2, <3>3
  <2>3. CASE i > Len(s) + 1
    <3>1. i - (Len(s) + 1) \in 1 .. Len(t) - 1 /\ i - (Len(s) + 1) + 1 = i - Len(s)
      BY <1>1, <2>3
    <3>2. Tail(t)[i - (Len(s) + 1)] = t[i - Len(s)]
      BY <1>1, <3>1
    <3> QED
      BY <1>1, <1>3, <1>4, <2>3, <3>2
  <2> QED
    BY <1>1, <2>1, <2>2, <2>3
<1>6. moved = s \o t
  BY <1>3, <1>4, <1>5, SeqEqual
<1> QED
  BY <1>1, <1>2, <1>6 DEF moved

LEMMA PipesBegin == PipeInit => PipeInv
<1> SUFFICES ASSUME PipeInit PROVE PipeInv
  OBVIOUS
<1>1. /\ received = <<>> /\ ahead = <<>> /\ stdout = <<>> /\ All = <<>>
      /\ <<>> \in Seq(Nat)
  BY DEF PipeInit, All
<1>2. child \in [wrote : Nat, left : Int, ended : BOOLEAN] /\ child.wrote = 0 /\ ~child.ended
  BY DEF PipeInit
<1> QED
  BY <1>1, <1>2 DEF PipeInv, LinesInOrder, All

\* Lines move on, or stay, and the child has written as many.
LEMMA SameLines ==
  ASSUME PipeInv, received' \in Seq(Nat), ahead' \in Seq(Nat), stdout' \in Seq(Nat), All' = All,
         child' \in [wrote : Nat, left : Int, ended : BOOLEAN],
         child'.wrote = child.wrote, child'.ended = child.ended
  PROVE  PipeInv'
  BY SMTT(30) DEF PipeInv, LinesInOrder, All

\* The child adds to what is in its pipe: one more line, or the end.
LEMMA LineAdded ==
  ASSUME PipeInv, NEW x \in Nat, stdout' = Append(stdout, x), UNCHANGED <<received, ahead>>,
         ~child.ended, child' \in [wrote : Nat, left : Int, ended : BOOLEAN],
         \/ x = child.wrote + 1 /\ child'.wrote = child.wrote + 1 /\ ~child'.ended
         \/ x = End /\ child'.wrote = child.wrote /\ child'.ended
  PROVE  PipeInv'
<1> DEFINE n == Len(All)
<1>1. received \in Seq(Nat) /\ ahead \in Seq(Nat) /\ stdout \in Seq(Nat) /\ n = child.wrote
      /\ child.wrote \in Nat
  BY DEF PipeInv
<1>2. stdout' \in Seq(Nat) /\ All \in Seq(Nat) /\ All' = Append(All, x)
  <2>1. received \o ahead \in Seq(Nat)
    BY <1>1
  <2>2. stdout' \in Seq(Nat) /\ All \in Seq(Nat)
    BY <1>1, <2>1 DEF All
  <2>3. (received \o ahead) \o Append(stdout, x) = Append((received \o ahead) \o stdout, x)
    <3>1. Append(stdout, x) = stdout \o <<x>> /\ <<x>> \in Seq(Nat)
      BY <1>1, AppendIsConcat
    <3>2. Append((received \o ahead) \o stdout, x) = ((received \o ahead) \o stdout) \o <<x>>
      BY <1>1, <2>1, <2>2, AppendIsConcat DEF All
    <3>3. ((received \o ahead) \o stdout) \o <<x>> = (received \o ahead) \o (stdout \o <<x>>)
      BY <1>1, <2>1, <3>1, Joined
    <3> QED
      BY <3>1, <3>2, <3>3
  <2> QED
    BY <2>2, <2>3 DEF All
<1>3. /\ Len(All') = n + 1 /\ DOMAIN All' = 1 .. n + 1 /\ All'[n + 1] = x
      /\ \A i \in 1 .. n : All'[i] = All[i]
  BY <1>2, AppendFacts
<1>4. n \in Nat /\ \A i \in 1 .. n : All[i] = i
  <2>1. DOMAIN All = 1 .. n /\ n \in Nat
    BY <1>2, SeqFacts
  <2>2. \A i \in DOMAIN All : All[i] = IF i <= child.wrote THEN i ELSE End
    BY DEF PipeInv, LinesInOrder, All
  <2> HIDE DEF n
  <2>3. ASSUME NEW i \in 1 .. n PROVE All[i] = i
    <3>1. i \in DOMAIN All /\ i <= child.wrote
      BY <1>1, <2>1
    <3> QED
      BY <2>2, <3>1
  <2> QED
    BY <2>1, <2>3
<1> HIDE DEF n
<1>5. \A i \in 1 .. n + 1 : All'[i] = IF i <= child'.wrote THEN i ELSE End
  <2>1. All'[n + 1] = x /\ \A i \in 1 .. n : All'[i] = i
    BY <1>3, <1>4
  <2>2. CASE x = child.wrote + 1 /\ child'.wrote = child.wrote + 1
    BY <1>1, <1>4, <2>1, <2>2, SMTT(30)
  <2>3. CASE x = End /\ child'.wrote = child.wrote
    BY <1>1, <1>4, <2>1, <2>3
  <2> QED
    BY <2>2, <2>3
<1>6. Len(All') = child'.wrote + (IF child'.ended THEN 1 ELSE 0)
  BY <1>1, <1>3
<1> QED
  BY <1>1, <1>2, <1>3, <1>5, <1>6 DEF PipeInv, LinesInOrder, All

LEMMA PipesKept == ASSUME PipeInv, PipeNext PROVE PipeInv'
<1>1. /\ received \in Seq(Nat) /\ ahead \in Seq(Nat) /\ stdout \in Seq(Nat)
      /\ child \in [wrote : Nat, left : Int, ended : BOOLEAN] /\ Lines \in Int
  BY PipeAssumption DEF PipeInv
<1>2. CASE TakeLine
  <2>1. child' \in [wrote : Nat, left : Int, ended : BOOLEAN]
        /\ child'.wrote = child.wrote /\ child'.ended = child.ended
    BY <1>1, <1>2 DEF TakeLine
  <2> QED
    BY <1>1, <1>2, <2>1, SameLines DEF TakeLine, All
<1>3. CASE WriteLine
  <2>1. child' \in [wrote : Nat, left : Int, ended : BOOLEAN] /\ child.wrote + 1 \in Nat
        /\ child'.wrote = child.wrote + 1 /\ ~child'.ended
    <3>1. child.wrote + 1 \in Nat /\ child.left - 1 \in Int
      BY <1>1
    <3> QED
      BY <1>1, <1>3, <3>1 DEF WriteLine
  <2> QED
    BY <1>1, <1>3, <2>1, LineAdded DEF WriteLine
<1>4. CASE ChildEnds
  <2>1. child' \in [wrote : Nat, left : Int, ended : BOOLEAN] /\ End \in Nat
        /\ child'.wrote = child.wrote /\ child'.ended
    BY <1>1, <1>4 DEF ChildEnds, End
  <2> QED
    BY <1>1, <1>4, <2>1, LineAdded DEF ChildEnds
<1>5. CASE StartSend \/ Written \/ WriteFails
  BY <1>1, <1>5, SameLines DEF StartSend, Written, WriteFails, All
<1>6. CASE KeepLine
  <2>1. stdout # <<>> /\ ahead' = Append(ahead, Head(stdout)) /\ stdout' = Tail(stdout)
        /\ UNCHANGED <<received, child>>
    BY <1>6 DEF KeepLine
  <2>2. ahead' \in Seq(Nat) /\ stdout' \in Seq(Nat) /\ ahead' \o stdout' = ahead \o stdout
    BY <1>1, <2>1, MovesOn
  <2>3. All' = All
    <3>1. (received \o ahead) \o stdout = received \o (ahead \o stdout)
      BY <1>1, Joined
    <3>2. (received \o ahead') \o stdout' = received \o (ahead' \o stdout')
      BY <1>1, <2>2, Joined
    <3> QED
      BY <2>1, <2>2, <3>1, <3>2 DEF All
  <2> QED
    BY <1>1, <2>1, <2>2, <2>3, SameLines
<1>7. CASE Receive
  <2>1. child' = child
    BY <1>7 DEF Receive
  <2>2. CASE ahead # <<>> /\ received' = Append(received, Head(ahead)) /\ ahead' = Tail(ahead)
             /\ stdout' = stdout
    <3>1. received' \in Seq(Nat) /\ ahead' \in Seq(Nat) /\ received' \o ahead' = received \o ahead
      BY <1>1, <2>2, MovesOn
    <3>2. All' = All
      BY <2>2, <3>1 DEF All
    <3> QED
      BY <1>1, <2>1, <2>2, <3>1, <3>2, SameLines
  <2>3. CASE ahead = <<>> /\ stdout # <<>> /\ received' = Append(received, Head(stdout))
             /\ stdout' = Tail(stdout) /\ ahead' = ahead
    <3>1. received' \in Seq(Nat) /\ stdout' \in Seq(Nat) /\ received' \o stdout' = received \o stdout
      BY <1>1, <2>3, MovesOn
    <3>2. received \o ahead = received /\ received' \o ahead' = received'
      BY <1>1, <2>3, <3>1, ConcatEmptySeq
    <3>3. All' = All
      BY <3>1, <3>2 DEF All
    <3> QED
      BY <1>1, <2>1, <2>3, <3>1, <3>3, SameLines
  <2> QED
    BY <1>7, <2>2, <2>3 DEF Receive
<1> QED
  BY <1>2, <1>3, <1>4, <1>5, <1>6, <1>7 DEF PipeNext, ChildStep, SendStep

LEMMA PipesStay == ASSUME PipeInv, UNCHANGED pipeVars PROVE PipeInv'
  BY SameLines DEF pipeVars, PipeInv, All
-----------------------------------------------------------------------------
(***************************************************************************)
(* An opening (open_within).                                               *)
(***************************************************************************)

\* The first word that came is taken.
LEMMA WordTaken ==
  ASSUME OpeningType, down # <<>>, down' = Tail(down), UNCHANGED server
  PROVE  /\ 1 \in DOMAIN down /\ Head(down) = down[1] /\ Head(down) \in Word /\ down' \in Seq(Word)
         /\ RepliesTrue => RepliesTrue'
         /\ NoPages => NoPages'
         /\ PagesTold => PagesTold'
         /\ Told /\ Head(down).what # "changed" => Told'
<1>1. /\ 1 \in DOMAIN down /\ Head(down) = down[1] /\ Head(down) \in Word /\ down' \in Seq(Word)
      /\ Len(down) \in Nat \ {0} /\ DOMAIN down = 1 .. Len(down) /\ DOMAIN down' = 1 .. Len(down) - 1
      /\ \A i \in 1 .. Len(down) - 1 : down'[i] = down[i + 1]
  BY TailFacts, SeqFacts DEF OpeningType
<1>2. \A i \in DOMAIN down' : i \in Int /\ i + 1 \in DOMAIN down /\ down'[i] = down[i + 1]
  BY <1>1
<1>3. RepliesTrue => RepliesTrue'
  BY <1>2 DEF RepliesTrue, Speaks
<1>4. NoPages => NoPages'
  BY <1>2 DEF NoPages
<1>5. ASSUME NEW j \in DOMAIN down, j # 1
      PROVE  j - 1 \in DOMAIN down' /\ down'[j - 1] = down[j] /\ j \in Int
  <2>1. j \in Int /\ j - 1 \in 1 .. Len(down) - 1 /\ (j - 1) + 1 = j
    BY <1>1, <1>5
  <2> QED
    BY <1>1, <2>1
<1>6. ASSUME PagesTold, NEW i \in DOMAIN down', down'[i].what = "page", down'[i].tools # server'.tools
      PROVE  \E j \in DOMAIN down' : j > i /\ down'[j].what = "changed"
  <2>1. i \in Int /\ i + 1 \in DOMAIN down /\ down'[i] = down[i + 1]
    BY <1>2
  <2>2. PICK j \in DOMAIN down : j > i + 1 /\ down[j].what = "changed"
    BY <1>6, <2>1 DEF PagesTold
  <2>3. j - 1 \in DOMAIN down' /\ down'[j - 1] = down[j] /\ j - 1 > i
    <3>1. j \in Int /\ i \in Nat
      BY <1>1, <2>1
    <3>2. j # 1 /\ j - 1 > i
      BY <1>1, <2>2, <3>1
    <3> QED
      BY <1>5, <3>2
  <2> QED
    BY <2>2, <2>3
<1>7. ASSUME Told, Head(down).what # "changed" PROVE Told'
  <2>1. PICK j \in DOMAIN down : down[j].what = "changed"
    BY <1>7 DEF Told
  <2>2. j # 1
    BY <1>1, <1>7, <2>1
  <2> QED
    BY <1>5, <2>1, <2>2 DEF Told
<1>8. PagesTold => PagesTold'
  BY <1>6 DEF PagesTold
<1> QED
  BY <1>1, <1>3, <1>4, <1>7, <1>8

\* A word comes from the server, which may have been greeted or have changed.
LEMMA WordComes ==
  ASSUME OpeningType, OpeningType', NEW w \in Word, down' = Append(down, w),
         server'.speaks = server.speaks, server'.hellos >= server.hellos
  PROVE  /\ /\ RepliesTrue
            /\ w.what = "hello" /\ w.is = "result" => Speaks("legacy") /\ server'.hellos > 0
            /\ w.what = "discovery" /\ w.is = "modern" => Speaks("modern")
            => RepliesTrue'
         /\ NoPages /\ w.what # "page" => NoPages'
         /\ /\ PagesTold
            /\ server'.tools = server.tools \/ w.what = "changed"
            /\ w.what = "page" => w.tools = server'.tools
            => PagesTold'
         /\ Told \/ w.what = "changed" => Told'
<1> DEFINE n == Len(down) + 1
<1>1. /\ DOMAIN down = 1 .. Len(down) /\ DOMAIN down' = 1 .. n /\ Len(down) \in Nat
      /\ down'[n] = w /\ \A i \in 1 .. Len(down) : down'[i] = down[i]
  BY AppendFacts, SeqFacts DEF OpeningType
<1>2. n \in DOMAIN down' /\ n \in Int /\ \A i \in DOMAIN down : i \in DOMAIN down' /\ down'[i] = down[i] /\ n > i
  BY <1>1
<1>3. \A i \in DOMAIN down' : i = n \/ (i \in DOMAIN down /\ down'[i] = down[i])
  BY <1>1
<1> HIDE DEF n
<1>4. ASSUME RepliesTrue,
             w.what = "hello" /\ w.is = "result" => Speaks("legacy") /\ server'.hellos > 0,
             w.what = "discovery" /\ w.is = "modern" => Speaks("modern"), NEW i \in DOMAIN down'
      PROVE  /\ down'[i].what = "hello" /\ down'[i].is = "result" => Speaks("legacy")' /\ server'.hellos > 0
             /\ down'[i].what = "discovery" /\ down'[i].is = "modern" => Speaks("modern")'
  <2>1. server.hellos > 0 => server'.hellos > 0
    BY DEF OpeningType
  <2>2. CASE i = n
    BY <1>1, <1>4, <2>2 DEF Speaks
  <2>3. CASE i \in DOMAIN down /\ down'[i] = down[i]
    BY <1>4, <2>1, <2>3 DEF RepliesTrue, Speaks
  <2> QED
    BY <1>3, <2>2, <2>3
<1>5. NoPages /\ w.what # "page" => NoPages'
  BY <1>1, <1>3 DEF NoPages
<1>6. ASSUME PagesTold, server'.tools = server.tools \/ w.what = "changed",
             w.what = "page" => w.tools = server'.tools, NEW i \in DOMAIN down'
      PROVE  \/ down'[i].what # "page" \/ down'[i].tools = server'.tools
             \/ \E j \in DOMAIN down' : j > i /\ down'[j].what = "changed"
  <2>1. CASE i = n
    BY <1>1, <1>6, <2>1
  <2>2. CASE i \in DOMAIN down /\ down'[i] = down[i] /\ w.what = "changed"
    BY <1>1, <1>2, <2>2
  <2>3. CASE i \in DOMAIN down /\ down'[i] = down[i] /\ server'.tools = server.tools
    BY <1>2, <1>6, <2>3 DEF PagesTold
  <2> QED
    BY <1>3, <1>6, <2>1, <2>2, <2>3
<1>7. Told \/ w.what = "changed" => Told'
  BY <1>1, <1>2 DEF Told
<1> QED
  BY <1>4, <1>5, <1>6, <1>7 DEF RepliesTrue, PagesTold

\* A message goes, and is had.
LEMMA MessageGoes ==
  ASSUME OpeningType, NEW m \in Messages, up' = Append(up, m), UNCHANGED server
  PROVE  /\ up' \in Seq(Messages)
         /\ HelloFirst /\ (m = "initialize" => up = <<>> /\ server.hellos = 0) => HelloFirst'
         /\ NoneAsked /\ m # "list" => NoneAsked'
<1>1. /\ up' \in Seq(Messages) /\ DOMAIN up = 1 .. Len(up) /\ DOMAIN up' = 1 .. Len(up) + 1
      /\ Len(up) \in Nat /\ up'[Len(up) + 1] = m /\ \A i \in 1 .. Len(up) : up'[i] = up[i]
      /\ up = <<>> <=> Len(up) = 0
  BY AppendFacts, SeqFacts DEF OpeningType
<1> QED
  BY <1>1 DEF HelloFirst, NoneAsked

LEMMA MessageHad ==
  ASSUME OpeningType, HelloFirst, up # <<>>, up' = Tail(up)
  PROVE  /\ up' \in Seq(Messages) /\ Head(up) \in Messages /\ HelloFirst'
         /\ \A i \in DOMAIN up' : up'[i] # "initialize"
         /\ Head(up) = "initialize" => server.hellos = 0
         /\ NoneAsked => NoneAsked' /\ Head(up) # "list"
<1>1. /\ up' \in Seq(Messages) /\ Head(up) \in Messages /\ Head(up) = up[1] /\ 1 \in DOMAIN up
      /\ Len(up) \in Nat \ {0} /\ DOMAIN up = 1 .. Len(up) /\ DOMAIN up' = 1 .. Len(up) - 1
      /\ \A i \in 1 .. Len(up) - 1 : up'[i] = up[i + 1]
  BY TailFacts, SeqFacts DEF OpeningType
<1>2. \A i \in DOMAIN up' : i >= 1 /\ i \in Int /\ i + 1 \in DOMAIN up /\ up'[i] = up[i + 1]
  BY <1>1
<1>3. ASSUME NEW i \in DOMAIN up' PROVE up'[i] # "initialize"
  <2>1. i + 1 # 1 /\ i + 1 \in DOMAIN up /\ up'[i] = up[i + 1]
    BY <1>2
  <2> QED
    BY <2>1 DEF HelloFirst
<1> QED
  BY <1>1, <1>2, <1>3 DEF HelloFirst, NoneAsked

\* What the server answers.
LEMMA ServerCounts ==
  ASSUME OpeningType, NEW m, Counted(m)
  PROVE  /\ server' \in [kind : {"stdio", "streamable", "bridge"}, speaks : SUBSET {"legacy", "modern"},
                         hellos : Nat, tools : Nat]
         /\ server'.kind = server.kind /\ server'.speaks = server.speaks /\ server'.tools = server.tools
         /\ server'.hellos = server.hellos + (IF m = "initialize" THEN 1 ELSE 0)
<1>1. server \in [kind : {"stdio", "streamable", "bridge"}, speaks : SUBSET {"legacy", "modern"},
                  hellos : Nat, tools : Nat] /\ server.hellos + 1 \in Nat
  BY DEF OpeningType
<1>2. CASE m = "initialize"
  BY <1>1, <1>2 DEF Counted
<1>3. CASE m # "initialize"
  BY <1>1, <1>3 DEF Counted
<1> QED
  BY <1>2, <1>3

LEMMA ServerReplies ==
  ASSUME OpeningType, NEW m \in Messages, m # "initialized", NEW reply \in Replies(m), Counted(m),
         m = "initialize" => server.hellos = 0
  PROVE  /\ reply \in Word /\ reply.tools = server.tools /\ (reply.what = "page" => m = "list")
         /\ reply.what = "hello" /\ reply.is = "result" => Speaks("legacy") /\ server'.hellos > 0
         /\ reply.what = "discovery" /\ reply.is = "modern" => Speaks("modern")
<1>1. server.tools \in Nat /\ server.hellos \in Nat
  BY DEF OpeningType
<1>2. CASE m = "initialize"
  <2>1. PICK is \in HelloReplies : reply = Reply("hello", is)
    BY <1>2 DEF Replies
  <2>2. is \in Outcomes /\ (is = "result" => Speaks("legacy"))
    BY <1>2 DEF HelloReplies, Outcomes
  <2>3. server'.hellos = server.hellos + 1
    BY <1>2, ServerCounts
  <2> QED
    BY <1>1, <1>2, <2>1, <2>2, <2>3 DEF Reply, Word
<1>3. CASE m = "discover"
  <2>1. PICK is \in DiscoverReplies : reply = Reply("discovery", is)
    BY <1>3 DEF Replies
  <2>2. is \in Outcomes /\ (is = "modern" => Speaks("modern"))
    BY DEF DiscoverReplies, Outcomes
  <2> QED
    BY <1>1, <1>3, <2>1, <2>2 DEF Reply, Word
<1>4. CASE m = "list"
  <2>1. PICK is \in {"last", "more", "error"} : reply = Reply("page", is)
    BY <1>4 DEF Replies
  <2> QED
    BY <1>1, <1>4, <2>1 DEF Reply, Word, Outcomes
<1> QED
  BY <1>2, <1>3, <1>4 DEF Messages

\* Once the binding is settled, what is sent goes.
LEMMA Settled ==
  ASSUME OpeningInv, ~Settling, ~Ended, UNCHANGED way,
         opening'.binding = opening.binding, opening'.at # "start"
  PROVE  SettlingInv'
  BY DEF OpeningInv, SettlingInv, Settling, Negotiating, Ended

LEMMA SentOn ==
  ASSUME OpeningInv, ~Settling, ~Ended, NEW m, NEW at, NEW spec, SendOn(m, at, spec)
  PROVE  up' = Append(up, m) /\ opening' = [opening EXCEPT !.at = at, !.spec = spec]
  BY DEF OpeningInv, SettlingInv, Settling, Negotiating, Ended, SendOn

\* The opening fails, whatever was sent or came.
LEMMA Failing ==
  ASSUME OpeningInv, Fails, UNCHANGED way, HelloFirst', RepliesTrue', up' \in Seq(Messages), down' \in Seq(Word),
         server' \in [kind : {"stdio", "streamable", "bridge"}, speaks : SUBSET {"legacy", "modern"},
                      hellos : Nat, tools : Nat],
         server'.speaks = server.speaks, server'.hellos >= server.hellos, server'.hellos <= 1
  PROVE  OpeningInv'
<1>1. opening' = [opening EXCEPT !.at = "failed"]
  BY DEF Fails, GoesTo
<1>2. OpeningType' /\ opening'.at = "failed" /\ opening'.spec = opening.spec
  BY <1>1 DEF OpeningInv, OpeningType
<1>3. SettlingInv' /\ NoneYet' /\ ToldInv'
  BY <1>2 DEF SettlingInv, Settling, Negotiating, Ended, NoneYet, ToldInv
<1>4. EraInv'
  <2>1. server.hellos > 0 => server'.hellos > 0
    BY DEF OpeningInv, OpeningType
  <2> QED
    BY <1>2, <2>1 DEF OpeningInv, EraInv, Speaks
<1> QED
  BY <1>2, <1>3, <1>4 DEF OpeningInv

LEMMA FailsAlone == ASSUME OpeningInv, Fails, UNCHANGED <<way, server, up, down>> PROVE OpeningInv'
<1>1. HelloFirst' /\ RepliesTrue'
  BY DEF OpeningInv, HelloFirst, RepliesTrue, Speaks
<1> QED
  BY <1>1, Failing DEF OpeningInv, OpeningType, EraInv

LEMMA FailsTaking ==
  ASSUME OpeningInv, Fails, UNCHANGED <<way, server, up>>, down # <<>>, down' = Tail(down)
  PROVE  OpeningInv'
<1>1. HelloFirst' /\ RepliesTrue' /\ down' \in Seq(Word)
  BY WordTaken DEF OpeningInv, HelloFirst
<1> QED
  BY <1>1, Failing DEF OpeningInv, OpeningType, EraInv

LEMMA OpeningBegins == OpeningInit => OpeningInv
<1> SUFFICES ASSUME OpeningInit PROVE OpeningInv
  OBVIOUS
<1>1. PICK s \in Servers : server = [kind |-> s.kind, speaks |-> s.speaks, hellos |-> 0, tools |-> 0]
  <2>1. PICK s \in Servers : \E transport \in Transports(s.kind), spec \in {"auto", "2025", "2026"}, timed \in BOOLEAN :
          server = [kind |-> s.kind, speaks |-> s.speaks, hellos |-> 0, tools |-> 0]
    BY Zenon DEF OpeningInit
  <2> QED
    BY <2>1
<1>2. s.kind \in {"stdio", "streamable", "bridge"} /\ s.speaks \in SUBSET {"legacy", "modern"}
  BY DEF Servers, Eras
<1>3. /\ opening = [at |-> "start", binding |-> "init", spec |-> "unknown", page |-> 1, got |-> <<>>,
                    changed |-> FALSE]
      /\ up = <<>> /\ down = <<>>
  BY DEF OpeningInit
<1>4. OpeningType
  BY <1>1, <1>2, <1>3 DEF OpeningType
<1>5. SettlingInv /\ HelloFirst /\ RepliesTrue
  BY <1>1, <1>3 DEF SettlingInv, Settling, Negotiating, HelloFirst, RepliesTrue
<1>6. EraInv /\ NoneYet /\ ToldInv
  BY <1>1, <1>3 DEF EraInv, NoneYet, NoneAsked, NoPages, ToldInv
<1> QED
  BY <1>4, <1>5, <1>6 DEF OpeningInv

LEMMA FirstKeeps == ASSUME OpeningInv, SendFirst PROVE OpeningInv'
<1> DEFINE m == IF way.spec = "2026" THEN "discover" ELSE "initialize"
           at == IF way.spec = "2026" THEN "discovery" ELSE "hello"
           spec == IF way.spec = "2026" THEN "2026" ELSE opening.spec
<1>1. /\ opening.at = "start" /\ opening.binding = "init" /\ opening.spec = "unknown"
      /\ opening.got = <<>> /\ up = <<>> /\ down = <<>> /\ server.hellos = 0
      /\ UNCHANGED <<way, server, down>> /\ SendOn(m, at, spec)
  BY DEF OpeningInv, SettlingInv, Settling, EraInv, NoneYet, SendFirst
<1>2. m \in {"discover", "initialize"} /\ m \in Messages /\ at \in {"discovery", "hello"}
      /\ spec \in {"unknown", "2026"} /\ (at = "discovery" <=> spec = "2026")
  BY <1>1 DEF Messages
<1> HIDE DEF m, at, spec
<1>3. /\ opening'.at = at /\ opening'.spec = spec /\ opening'.got = opening.got
      /\ \/ up' = Append(up, m) /\ opening'.binding = "init" /\ way.transport = "stdio"
         \/ UNCHANGED up /\ opening'.binding = m
      /\ opening' \in [at : {"start", "hello", "greeted", "discovery", "list", "page", "opened", "failed"},
                       binding : {"init", "initialize", "discover", "streamable", "bridge"},
                       spec : {"unknown", "2025", "2026"}, page : Int, got : Seq(Nat), changed : BOOLEAN]
  BY <1>1, <1>2, ZenonT(60) DEF OpeningInv, OpeningType, SendOn
<1>4. up' \in Seq(Messages) /\ HelloFirst' /\ NoneAsked'
  <2>1. NoneAsked
    BY <1>1 DEF NoneAsked
  <2>2. CASE up' = Append(up, m)
    BY <1>1, <1>2, <2>1, <2>2, MessageGoes DEF OpeningInv
  <2>3. CASE UNCHANGED up
    BY <1>1, <2>1, <2>3 DEF OpeningInv, OpeningType, HelloFirst, NoneAsked
  <2> QED
    BY <1>3, <2>2, <2>3
<1>5. OpeningType'
  BY <1>1, <1>3, <1>4 DEF OpeningInv, OpeningType
<1>6. SettlingInv'
  BY <1>1, <1>2, <1>3 DEF SettlingInv, Settling, Negotiating
<1>7. RepliesTrue' /\ NoneYet'
  BY <1>1, <1>3, <1>4 DEF RepliesTrue, NoneYet, NoPages
<1>8. EraInv' /\ ToldInv'
  BY <1>1, <1>2, <1>3 DEF EraInv, ToldInv
<1> QED
  BY <1>4, <1>5, <1>6, <1>7, <1>8 DEF OpeningInv

LEMMA SkipKeeps == ASSUME OpeningInv, Skip PROVE OpeningInv'
<1>1. /\ down # <<>> /\ down' = Tail(down) /\ Head(down).what # opening.at /\ opening.at \in Awaits
      /\ UNCHANGED <<way, server, up>> /\ ~Settling /\ ~Ended
  BY DEF Skip, OpeningInv, SettlingInv, Settling, Ended, Awaits
<1>2. /\ opening'.at = opening.at /\ opening'.binding = opening.binding /\ opening'.spec = opening.spec
      /\ opening'.got = opening.got /\ (opening.changed => opening'.changed)
      /\ opening.at = "page" /\ Head(down).what = "changed" => opening'.changed
      /\ opening' \in [at : {"start", "hello", "greeted", "discovery", "list", "page", "opened", "failed"},
                       binding : {"init", "initialize", "discover", "streamable", "bridge"},
                       spec : {"unknown", "2025", "2026"}, page : Int, got : Seq(Nat), changed : BOOLEAN]
  BY DEF Skip, OpeningInv, OpeningType
<1>3. OpeningType' /\ HelloFirst' /\ RepliesTrue'
  BY <1>1, <1>2, WordTaken DEF OpeningInv, OpeningType, HelloFirst
<1>4. SettlingInv' /\ EraInv'
  BY <1>1, <1>2, Settled DEF OpeningInv, EraInv, Speaks, Awaits
<1>5. NoneYet'
  BY <1>1, <1>2, WordTaken DEF OpeningInv, NoneYet, NoneAsked
<1>6. ToldInv'
  <2> SUFFICES ASSUME opening.spec = "2025", server.kind # "streamable" PROVE PagesTold' /\ GotTold'
    BY <1>1, <1>2 DEF ToldInv
  <2>1. opening.at = "page" /\ PagesTold /\ GotTold
    BY <1>1 DEF OpeningInv, ToldInv, EraInv, Awaits
  <2>2. PagesTold' /\ (Told => Told' \/ opening'.changed)
    BY <1>1, <1>2, <2>1, WordTaken DEF OpeningInv
  <2> QED
    BY <1>1, <1>2, <2>1, <2>2 DEF GotTold
<1> QED
  BY <1>3, <1>4, <1>5, <1>6 DEF OpeningInv

LEMMA HelloKeeps == ASSUME OpeningInv, HelloCame PROVE OpeningInv'
<1>1. /\ opening.at = "hello" /\ down # <<>> /\ Head(down).what = "hello" /\ down' = Tail(down)
      /\ UNCHANGED <<way, server>> /\ ~Settling /\ ~Ended
  BY DEF HelloCame, Comes, OpeningInv, SettlingInv, Settling, Ended
<1>2. /\ RepliesTrue' /\ down' \in Seq(Word) /\ Head(down) = down[1] /\ 1 \in DOMAIN down
      /\ NoneAsked /\ NoPages' /\ opening.got = <<>>
  BY <1>1, WordTaken DEF OpeningInv, NoneYet
<1>3. CASE Head(down).is = "result"
  <2>1. opening' = [opening EXCEPT !.at = "greeted", !.spec = "2025"] /\ UNCHANGED up
    BY <1>3 DEF HelloCame
  <2>2. OpeningType' /\ HelloFirst' /\ opening'.at = "greeted" /\ opening'.spec = "2025"
        /\ opening'.binding = opening.binding /\ opening'.got = opening.got
    BY <1>1, <1>2, <2>1 DEF OpeningInv, OpeningType, HelloFirst
  <2>3. SettlingInv'
    BY <1>1, <2>2, Settled
  <2>4. EraInv'
    BY <1>1, <1>2, <1>3, <2>2 DEF OpeningInv, EraInv, RepliesTrue, Speaks
  <2>5. NoneYet' /\ ToldInv'
    BY <1>2, <2>2 DEF NoneYet, ToldInv, PagesTold, GotTold, NoPages
  <2> QED
    BY <1>2, <2>2, <2>3, <2>4, <2>5 DEF OpeningInv
<1>4. CASE SendOn("discover", "discovery", "2026")
  <2>1. up' = Append(up, "discover") /\ opening' = [opening EXCEPT !.at = "discovery", !.spec = "2026"]
    BY <1>1, <1>4, SentOn
  <2>2. up' \in Seq(Messages) /\ HelloFirst'
    BY <1>1, <2>1, MessageGoes DEF OpeningInv, Messages
  <2>3. OpeningType' /\ opening'.at = "discovery" /\ opening'.spec = "2026"
        /\ opening'.binding = opening.binding
    BY <1>1, <1>2, <2>1, <2>2 DEF OpeningInv, OpeningType
  <2>4. SettlingInv' /\ EraInv'
    BY <1>1, <2>3, Settled DEF OpeningInv, EraInv
  <2>5. NoneYet' /\ ToldInv'
    BY <2>3 DEF NoneYet, ToldInv
  <2> QED
    BY <1>2, <2>2, <2>3, <2>4, <2>5 DEF OpeningInv
<1>5. CASE Fails /\ UNCHANGED up
  BY <1>1, <1>5, FailsTaking
<1> QED
  BY <1>3, <1>4, <1>5 DEF HelloCame

LEMMA InitializedKeeps == ASSUME OpeningInv, SendInitialized PROVE OpeningInv'
<1>1. /\ opening.at = "greeted" /\ UNCHANGED <<way, server, down>> /\ ~Settling /\ ~Ended
      /\ SendOn("initialized", "list", opening.spec)
  BY DEF SendInitialized, OpeningInv, SettlingInv, Settling, Ended
<1>2. up' = Append(up, "initialized") /\ opening' = [opening EXCEPT !.at = "list", !.spec = opening.spec]
  BY <1>1, SentOn, ZenonT(60)
<1>3. up' \in Seq(Messages) /\ HelloFirst'
  BY <1>1, <1>2, MessageGoes DEF OpeningInv, Messages
<1>4. OpeningType' /\ opening'.at = "list" /\ opening'.spec = opening.spec
      /\ opening'.binding = opening.binding /\ opening'.got = opening.got
      /\ opening'.changed = opening.changed
  BY <1>1, <1>2, <1>3 DEF OpeningInv, OpeningType
<1>5. SettlingInv' /\ EraInv' /\ RepliesTrue'
  BY <1>1, <1>4, Settled DEF OpeningInv, EraInv, RepliesTrue, Speaks
<1>6. NoneYet' /\ ToldInv'
  BY <1>1, <1>4 DEF OpeningInv, NoneYet, ToldInv, PagesTold, GotTold, Told
<1> QED
  BY <1>3, <1>4, <1>5, <1>6 DEF OpeningInv

LEMMA DiscoveryKeeps == ASSUME OpeningInv, DiscoveryCame PROVE OpeningInv'
<1>1. /\ opening.at = "discovery" /\ down # <<>> /\ Head(down).what = "discovery" /\ down' = Tail(down)
      /\ UNCHANGED <<way, server, up>> /\ ~Settling /\ ~Ended
  BY DEF DiscoveryCame, Comes, OpeningInv, SettlingInv, Settling, Ended
<1>2. CASE Head(down).is = "modern"
  <2>1. opening' = [opening EXCEPT !.at = "list"]
    BY <1>2 DEF DiscoveryCame, GoesTo
  <2>2. RepliesTrue' /\ down' \in Seq(Word) /\ Head(down) = down[1] /\ 1 \in DOMAIN down
    BY <1>1, WordTaken DEF OpeningInv
  <2>3. OpeningType' /\ HelloFirst' /\ opening'.at = "list" /\ opening'.spec = "2026"
        /\ opening'.binding = opening.binding
    BY <1>1, <2>1, <2>2 DEF OpeningInv, OpeningType, HelloFirst, EraInv
  <2>4. SettlingInv'
    BY <1>1, <2>3, Settled
  <2>5. EraInv'
    BY <1>1, <1>2, <2>2, <2>3 DEF OpeningInv, EraInv, RepliesTrue, Speaks
  <2>6. NoneYet' /\ ToldInv'
    BY <2>3 DEF NoneYet, ToldInv
  <2> QED
    BY <2>2, <2>3, <2>4, <2>5, <2>6 DEF OpeningInv
<1>3. CASE Fails
  BY <1>1, <1>3, FailsTaking
<1> QED
  BY <1>2, <1>3 DEF DiscoveryCame

LEMMA ListKeeps == ASSUME OpeningInv, SendList PROVE OpeningInv'
<1>1. /\ opening.at = "list" /\ UNCHANGED <<way, server, down>> /\ ~Settling /\ ~Ended
      /\ SendOn("list", "page", opening.spec)
  BY DEF SendList, OpeningInv, SettlingInv, Settling, Ended
<1>2. up' = Append(up, "list") /\ opening' = [opening EXCEPT !.at = "page", !.spec = opening.spec]
  BY <1>1 DEF OpeningInv, SettlingInv, Settling, Negotiating, Ended, SendOn
<1>3. up' \in Seq(Messages) /\ HelloFirst'
  BY <1>1, <1>2, MessageGoes DEF OpeningInv, Messages
<1>4. OpeningType' /\ opening'.at = "page" /\ opening'.spec = opening.spec
      /\ opening'.binding = opening.binding /\ opening'.got = opening.got
      /\ opening'.changed = opening.changed
  BY <1>1, <1>2, <1>3 DEF OpeningInv, OpeningType
<1>5. SettlingInv' /\ EraInv' /\ RepliesTrue'
  BY <1>1, <1>4, Settled DEF OpeningInv, EraInv, RepliesTrue, Speaks
<1>6. NoneYet' /\ ToldInv'
  BY <1>1, <1>4 DEF OpeningInv, NoneYet, ToldInv, PagesTold, GotTold, Told
<1> QED
  BY <1>3, <1>4, <1>5, <1>6 DEF OpeningInv

LEMMA PageKeeps == ASSUME OpeningInv, PageCame PROVE OpeningInv'
<1> DEFINE got == Append(opening.got, Head(down).tools)
<1>1. /\ opening.at = "page" /\ down # <<>> /\ Head(down).what = "page" /\ down' = Tail(down)
      /\ UNCHANGED <<way, server, up>> /\ ~Settling /\ ~Ended
  BY DEF PageCame, Comes, OpeningInv, SettlingInv, Settling, Ended
<1>2. /\ RepliesTrue' /\ down' \in Seq(Word) /\ Head(down) = down[1] /\ 1 \in DOMAIN down
      /\ Head(down).tools \in Nat
  BY <1>1, WordTaken DEF OpeningInv, Word
<1>3. /\ got \in Seq(Nat) /\ DOMAIN opening.got = 1 .. Len(opening.got) /\ Len(opening.got) \in Nat
      /\ DOMAIN got = 1 .. Len(opening.got) + 1 /\ got[Len(opening.got) + 1] = Head(down).tools
      /\ \A i \in 1 .. Len(opening.got) : got[i] = opening.got[i]
  BY <1>2, AppendFacts, SeqFacts DEF OpeningInv, OpeningType
<1> HIDE DEF got
<1>4. CASE Fails
  BY <1>1, <1>4, FailsTaking
<1>5. CASE \/ opening' = [opening EXCEPT !.at = "list", !.page = @ + 1, !.got = got]
           \/ opening' = [opening EXCEPT !.at = "opened", !.got = got]
  <2>1. /\ opening'.at \in {"list", "opened"} /\ opening'.binding = opening.binding
        /\ opening'.spec = opening.spec /\ opening'.got = got /\ opening'.changed = opening.changed
        /\ opening' \in [at : {"start", "hello", "greeted", "discovery", "list", "page", "opened", "failed"},
                         binding : {"init", "initialize", "discover", "streamable", "bridge"},
                         spec : {"unknown", "2025", "2026"}, page : Int, got : Seq(Nat), changed : BOOLEAN]
    <3>1. opening.page + 1 \in Int
      BY DEF OpeningInv, OpeningType
    <3> QED
      BY <1>3, <1>5, <3>1 DEF OpeningInv, OpeningType
  <2>2. OpeningType' /\ HelloFirst'
    BY <1>1, <1>2, <2>1 DEF OpeningInv, OpeningType, HelloFirst
  <2>3. SettlingInv' /\ EraInv'
    BY <1>1, <2>1, Settled DEF OpeningInv, EraInv, Speaks
  <2>4. NoneYet'
    BY <2>1 DEF NoneYet
  <2>5. ToldInv'
    <3> SUFFICES ASSUME opening.spec = "2025", server.kind # "streamable" PROVE PagesTold' /\ GotTold'
      BY <1>1, <2>1 DEF ToldInv
    <3>1. PagesTold /\ GotTold /\ PagesTold' /\ (Told => Told')
      BY <1>1, WordTaken DEF OpeningInv, ToldInv
    <3>2. Head(down).tools = server.tools \/ Told
      BY <1>1, <1>2, <3>1 DEF PagesTold, Told
    <3>3. ASSUME NEW i \in DOMAIN opening'.got
          PROVE  opening'.got[i] = server'.tools \/ opening'.changed \/ Told'
      <4>1. CASE i = Len(opening.got) + 1
        BY <1>1, <1>3, <2>1, <3>1, <3>2, <4>1
      <4>2. CASE i \in 1 .. Len(opening.got)
        BY <1>1, <1>3, <2>1, <3>1, <4>2 DEF GotTold
      <4> QED
        BY <1>3, <2>1, <4>1, <4>2
    <3> QED
      BY <3>1, <3>3 DEF GotTold
  <2> QED
    BY <1>2, <2>2, <2>3, <2>4, <2>5 DEF OpeningInv
<1> QED
  BY <1>4, <1>5 DEF PageCame, got

LEMMA ProbeKeeps == ASSUME OpeningInv, ProbeTaken PROVE OpeningInv'
<1> DEFINE m == opening.binding
<1>1. /\ Negotiating /\ Counted(m) /\ UNCHANGED <<way, up>> /\ server.kind = "streamable"
      /\ up = <<>> /\ down = <<>> /\ server.hellos = 0 /\ opening.at \in {"hello", "discovery"}
  BY DEF ProbeTaken, OpeningInv, SettlingInv, Settling
<1>2. m \in Messages /\ m # "initialized" /\ m # "list"
  BY <1>1 DEF Negotiating, Messages
<1>3. PICK reply \in Replies(m) :
        \/ opening' = [opening EXCEPT !.binding = "streamable"] /\ down' = Append(down, reply)
        \/ reply.is = "error" /\ Fails /\ UNCHANGED down
  BY DEF ProbeTaken
<1> HIDE DEF m
<1>4. /\ reply \in Word /\ reply.what # "page"
      /\ reply.what = "hello" /\ reply.is = "result" => Speaks("legacy") /\ server'.hellos > 0
      /\ reply.what = "discovery" /\ reply.is = "modern" => Speaks("modern")
  BY <1>1, <1>2, ServerReplies DEF OpeningInv
<1>5. /\ server' \in [kind : {"stdio", "streamable", "bridge"}, speaks : SUBSET {"legacy", "modern"},
                      hellos : Nat, tools : Nat]
      /\ server'.kind = server.kind /\ server'.speaks = server.speaks /\ server'.hellos \in {0, 1}
      /\ server'.hellos >= server.hellos
  <2>1. server'.hellos = server.hellos + (IF m = "initialize" THEN 1 ELSE 0)
    BY <1>1, ServerCounts DEF OpeningInv
  <2> QED
    BY <1>1, <2>1, ServerCounts DEF OpeningInv
<1>6. HelloFirst' /\ NoneAsked'
  BY <1>1 DEF HelloFirst, NoneAsked
<1>7. CASE opening' = [opening EXCEPT !.binding = "streamable"] /\ down' = Append(down, reply)
  <2>1. /\ opening' \in [at : {"start", "hello", "greeted", "discovery", "list", "page", "opened", "failed"},
                         binding : {"init", "initialize", "discover", "streamable", "bridge"},
                         spec : {"unknown", "2025", "2026"}, page : Int, got : Seq(Nat), changed : BOOLEAN]
        /\ opening'.at = opening.at /\ opening'.binding = "streamable" /\ opening'.spec = opening.spec
        /\ opening'.got = opening.got
    BY <1>7 DEF OpeningInv, OpeningType
  <2>2. down' \in Seq(Word)
    BY <1>4, <1>7, AppendFacts DEF OpeningInv, OpeningType
  <2>3. OpeningType'
    BY <1>1, <1>5, <2>1, <2>2 DEF OpeningInv, OpeningType
  <2>4. SettlingInv'
    BY <1>1, <2>1 DEF SettlingInv, Settling, Negotiating
  <2>5. RepliesTrue /\ NoPages
    BY <1>1 DEF RepliesTrue, NoPages
  <2>6. RepliesTrue' /\ NoPages'
    BY <1>4, <1>5, <1>7, <2>3, <2>5, WordComes DEF OpeningInv
  <2>7. NoneYet'
    BY <1>6, <2>1, <2>6 DEF OpeningInv, NoneYet
  <2>8. EraInv' /\ ToldInv'
    BY <1>1, <1>5, <2>1 DEF OpeningInv, EraInv, ToldInv, Speaks
  <2> QED
    BY <1>6, <2>3, <2>4, <2>6, <2>7, <2>8 DEF OpeningInv
<1>8. CASE Fails /\ UNCHANGED down
  <2>1. RepliesTrue' /\ server'.hellos <= 1
    BY <1>1, <1>5, <1>8 DEF RepliesTrue
  <2> QED
    BY <1>1, <1>5, <1>6, <1>8, <2>1, Failing DEF OpeningInv, OpeningType
<1> QED
  BY <1>3, <1>7, <1>8

LEMMA ConnectKeeps == ASSUME OpeningInv, Connect PROVE OpeningInv'
<1>1. /\ Negotiating /\ UNCHANGED <<way, server, down>>
      /\ up = <<>> /\ down = <<>> /\ server.hellos = 0 /\ opening.at \in {"hello", "discovery"}
  BY DEF Connect, OpeningInv, SettlingInv, Settling
<1>2. CASE opening' = [opening EXCEPT !.binding = "bridge"] /\ up' = Append(up, opening.binding)
  <2>1. opening.binding \in Messages /\ opening.binding # "list"
    BY <1>1 DEF Negotiating, Messages
  <2>2. NoneAsked
    BY <1>1 DEF NoneAsked
  <2>3. up' \in Seq(Messages) /\ HelloFirst' /\ NoneAsked'
    BY <1>1, <1>2, <2>1, <2>2, MessageGoes DEF OpeningInv
  <2>4. OpeningType' /\ opening'.at = opening.at /\ opening'.binding = "bridge"
        /\ opening'.spec = opening.spec /\ opening'.got = opening.got
    BY <1>1, <1>2, <2>3 DEF OpeningInv, OpeningType
  <2>5. SettlingInv'
    BY <1>1, <2>4 DEF SettlingInv, Settling, Negotiating
  <2>6. RepliesTrue' /\ NoneYet'
    BY <1>1, <2>3, <2>4 DEF OpeningInv, RepliesTrue, NoneYet, NoPages
  <2>7. EraInv' /\ ToldInv'
    BY <1>1, <2>4 DEF OpeningInv, EraInv, ToldInv, Speaks
  <2> QED
    BY <2>3, <2>4, <2>5, <2>6, <2>7 DEF OpeningInv
<1>3. CASE Fails /\ UNCHANGED up
  BY <1>1, <1>3, FailsAlone
<1> QED
  BY <1>2, <1>3 DEF Connect

LEMMA ServeKeeps == ASSUME OpeningInv, Serve PROVE OpeningInv'
<1> DEFINE m == Head(up)
<1>1. up # <<>> /\ up' = Tail(up) /\ Counted(m) /\ UNCHANGED <<way, opening>> /\ ~Settling
  BY DEF Serve, OpeningInv, SettlingInv
<1>2. /\ up' \in Seq(Messages) /\ m \in Messages /\ (m = "initialize" => server.hellos = 0)
      /\ \A i \in DOMAIN up' : up'[i] # "initialize"
      /\ NoneAsked => NoneAsked' /\ m # "list"
  BY <1>1, MessageHad DEF OpeningInv
<1>3. \/ m = "initialized" /\ UNCHANGED down
      \/ m # "initialized" /\ \E reply \in Replies(m) : down' = Append(down, reply)
  BY DEF Serve
<1> HIDE DEF m
<1>4. /\ server' \in [kind : {"stdio", "streamable", "bridge"}, speaks : SUBSET {"legacy", "modern"},
                      hellos : Nat, tools : Nat]
      /\ server'.kind = server.kind /\ server'.speaks = server.speaks /\ server'.tools = server.tools
      /\ server'.hellos >= server.hellos /\ (server.hellos <= 1 => server'.hellos <= 1)
      /\ server.hellos > 0 => server'.hellos > 0
  <2>1. server.hellos \in Nat /\ server'.hellos = server.hellos + (IF m = "initialize" THEN 1 ELSE 0)
    BY <1>1, ServerCounts DEF OpeningInv, OpeningType
  <2> QED
    BY <1>1, <1>2, <2>1, ServerCounts DEF OpeningInv
<1>5. /\ down' \in Seq(Word) /\ RepliesTrue' /\ (NoPages /\ m # "list" => NoPages')
      /\ PagesTold => PagesTold'
      /\ Told => Told'
  <2>1. CASE UNCHANGED down
    BY <1>4, <2>1 DEF OpeningInv, OpeningType, RepliesTrue, NoPages, PagesTold, Told, Speaks
  <2>2. ASSUME m # "initialized", NEW reply \in Replies(m), down' = Append(down, reply)
        PROVE  /\ down' \in Seq(Word) /\ RepliesTrue' /\ (NoPages /\ m # "list" => NoPages')
               /\ PagesTold => PagesTold'
               /\ Told => Told'
    <3>1. /\ reply \in Word /\ reply.tools = server.tools /\ (reply.what = "page" => m = "list")
          /\ reply.what = "hello" /\ reply.is = "result" => Speaks("legacy") /\ server'.hellos > 0
          /\ reply.what = "discovery" /\ reply.is = "modern" => Speaks("modern")
      BY <1>1, <1>2, <2>2, ServerReplies DEF OpeningInv
    <3>2. down' \in Seq(Word)
      BY <2>2, <3>1, AppendFacts DEF OpeningInv, OpeningType
    <3>3. OpeningType'
      BY <1>1, <1>2, <1>4, <3>2 DEF OpeningInv, OpeningType
    <3> QED
      BY <1>4, <2>2, <3>1, <3>2, <3>3, WordComes DEF OpeningInv
  <2> QED
    BY <1>3, <2>1, <2>2
<1>6. OpeningType' /\ HelloFirst'
  BY <1>1, <1>2, <1>4, <1>5 DEF OpeningInv, OpeningType, HelloFirst
<1>7. SettlingInv' /\ EraInv'
  BY <1>1, <1>4 DEF OpeningInv, SettlingInv, Settling, Negotiating, Ended, EraInv, Speaks
<1>8. NoneYet' /\ ToldInv'
  BY <1>1, <1>2, <1>4, <1>5 DEF OpeningInv, NoneYet, ToldInv, GotTold
<1> QED
  BY <1>5, <1>6, <1>7, <1>8 DEF OpeningInv

LEMMA ChangeKeeps == ASSUME OpeningInv, ToolsChange PROVE OpeningInv'
<1>1. UNCHANGED <<way, opening, up>> /\ ~Ended /\ server' = [server EXCEPT !.tools = @ + 1]
  BY DEF ToolsChange
<1>2. /\ server' \in [kind : {"stdio", "streamable", "bridge"}, speaks : SUBSET {"legacy", "modern"},
                      hellos : Nat, tools : Nat]
      /\ server'.kind = server.kind /\ server'.speaks = server.speaks /\ server'.hellos = server.hellos
      /\ server.tools \in Nat
  <2>1. server.tools + 1 \in Nat /\ server.tools \in Nat
    BY DEF OpeningInv, OpeningType
  <2> QED
    BY <1>1, <2>1 DEF OpeningInv, OpeningType
<1>3. CASE ~(server.hellos > 0 /\ Speaks("legacy") /\ server.kind # "streamable")
  <2>1. UNCHANGED down
    BY <1>3 DEF ToolsChange
  <2>2. OpeningType' /\ HelloFirst' /\ RepliesTrue'
    BY <1>1, <1>2, <2>1 DEF OpeningInv, OpeningType, HelloFirst, RepliesTrue, Speaks
  <2>3. SettlingInv' /\ EraInv'
    BY <1>1, <1>2, <2>1 DEF OpeningInv, SettlingInv, Settling, Negotiating, Ended, EraInv, Speaks
  <2>4. NoneYet' /\ ToldInv'
    BY <1>1, <1>2, <1>3, <2>1 DEF OpeningInv, NoneYet, NoneAsked, NoPages, ToldInv, EraInv
  <2> QED
    BY <2>2, <2>3, <2>4 DEF OpeningInv
<1>4. CASE server.hellos > 0 /\ Speaks("legacy") /\ server.kind # "streamable"
  <2> DEFINE w == Reply("changed", "notification")
  <2>1. down' = Append(down, w)
    BY <1>4 DEF ToolsChange
  <2>2. w \in Word /\ w.what = "changed"
    BY <1>2, Zenon DEF Reply, Word, Outcomes
  <2> HIDE DEF w
  <2>3. down' \in Seq(Word)
    BY <2>1, <2>2, AppendFacts DEF OpeningInv, OpeningType
  <2>4. OpeningType' /\ HelloFirst'
    BY <1>1, <1>2, <2>3 DEF OpeningInv, OpeningType, HelloFirst
  <2>5. server'.hellos >= server.hellos
    BY <1>2 DEF OpeningInv, OpeningType
  <2>6. RepliesTrue' /\ Told' /\ (NoPages => NoPages') /\ (PagesTold => PagesTold')
    BY <1>2, <2>1, <2>2, <2>4, <2>5, WordComes DEF OpeningInv
  <2>7. ~Settling
    BY <1>4 DEF OpeningInv, OpeningType, SettlingInv
  <2>8. SettlingInv' /\ EraInv'
    BY <1>1, <1>2, <2>7 DEF OpeningInv, SettlingInv, Settling, Negotiating, Ended, EraInv, Speaks
  <2>9. NoneYet' /\ ToldInv'
    BY <1>1, <1>2, <2>6 DEF OpeningInv, NoneYet, NoneAsked, ToldInv, GotTold
  <2> QED
    BY <2>4, <2>6, <2>8, <2>9 DEF OpeningInv
<1> QED
  BY <1>3, <1>4

LEMMA OpeningKept == ASSUME OpeningInv, OpeningNext PROVE OpeningInv'
<1>1. CASE TimesOut \/ Breaks
  BY <1>1, FailsAlone DEF TimesOut, Breaks
<1> QED
  BY <1>1, FirstKeeps, SkipKeeps, HelloKeeps, InitializedKeeps, DiscoveryKeeps, ListKeeps, PageKeeps,
     ProbeKeeps, ConnectKeeps, ServeKeeps, ChangeKeeps DEF OpeningNext, OpeningStep

LEMMA OpeningStays == ASSUME OpeningInv, UNCHANGED openingVars PROVE OpeningInv'
<1>1. OpeningType' /\ SettlingInv' /\ HelloFirst' /\ RepliesTrue'
  BY DEF openingVars, OpeningInv, OpeningType, SettlingInv, Settling, Negotiating, Ended, HelloFirst,
         RepliesTrue, Speaks
<1>2. EraInv' /\ NoneYet' /\ ToldInv'
  BY DEF openingVars, OpeningInv, EraInv, Speaks, NoneYet, NoneAsked, NoPages, ToldInv, PagesTold,
         GotTold, Told
<1> QED
  BY <1>1, <1>2 DEF OpeningInv

LEMMA OpeningIsSound == OpeningInv => OpeningsHold
<1> SUFFICES ASSUME OpeningInv PROVE OpensOnceInItsEra /\ ListIsCurrentOrToldOf
  BY DEF OpeningsHold
<1>1. OpensOnceInItsEra
  BY DEF OpeningInv, EraInv, OpensOnceInItsEra, Speaks
<1>2. ListIsCurrentOrToldOf
  <2> SUFFICES ASSUME opening.at = "opened", opening.spec = "2025", server.kind # "streamable"
               PROVE  \/ \A i \in DOMAIN opening.got : opening.got[i] = server.tools
                      \/ opening.changed
                      \/ \E i \in DOMAIN down : down[i].what = "changed"
    BY DEF ListIsCurrentOrToldOf
  <2>1. GotTold
    BY DEF OpeningInv, ToldInv
  <2> QED
    BY <2>1 DEF GotTold, Told
<1> QED
  BY <1>1, <1>2

-----------------------------------------------------------------------------
(***************************************************************************)
(* The credentials of requests (send_authorized).                          *)
(***************************************************************************)

\* RemoveAt: what follows the place moves one up.
LEMMA PlaceRemoved ==
  ASSUME NEW T, NEW s \in Seq(T), NEW i \in 1 .. Len(s)
  PROVE  /\ RemoveAt(s, i) \in Seq(T) /\ Len(RemoveAt(s, i)) = Len(s) - 1
         /\ DOMAIN RemoveAt(s, i) = 1 .. Len(s) - 1
         /\ \A k \in 1 .. Len(s) - 1 : RemoveAt(s, i)[k] = s[IF k < i THEN k ELSE k + 1]
<1> DEFINE before == SubSeq(s, 1, i - 1)
           after  == SubSeq(s, i + 1, Len(s))
           t      == RemoveAt(s, i)
<1>1. before \in Seq(T) /\ Len(before) = i - 1 /\ \A k \in 1 .. i - 1 : before[k] = s[k]
  OBVIOUS
<1>2. after \in Seq(T) /\ Len(after) = Len(s) - i /\ \A k \in 1 .. Len(s) - i : after[k] = s[k + i]
  OBVIOUS
<1>3. t = before \o after
  BY DEF RemoveAt
<1> HIDE DEF before, after, t
<1>4. /\ before \o after \in Seq(T) /\ Len(before \o after) = Len(before) + Len(after)
      /\ \A k \in 1 .. Len(before) + Len(after) :
           (before \o after)[k] = IF k <= Len(before) THEN before[k] ELSE after[k - Len(before)]
  BY <1>1, <1>2, ConcatProperties, Zenon
<1>5. Len(s) \in Nat /\ i \in Int /\ Len(before) + Len(after) = Len(s) - 1
  BY <1>1, <1>2, SeqFacts
<1>6. t \in Seq(T) /\ Len(t) = Len(s) - 1 /\ DOMAIN t = 1 .. Len(s) - 1
  BY <1>3, <1>4, <1>5, SeqFacts
<1>7. ASSUME NEW k \in 1 .. Len(s) - 1 PROVE t[k] = s[IF k < i THEN k ELSE k + 1]
  <2>1. t[k] = IF k <= i - 1 THEN before[k] ELSE after[k - (i - 1)]
    BY <1>1, <1>3, <1>4, <1>5, <1>7
  <2>2. CASE k < i
    BY <1>1, <1>5, <2>1, <2>2
  <2>3. CASE ~(k < i)
    <3>1. k - (i - 1) \in 1 .. Len(s) - i /\ (k - (i - 1)) + i = k + 1 /\ ~(k <= i - 1)
      BY <1>5, <2>3
    <3> QED
      BY <1>2, <2>1, <2>3, <3>1
  <2> QED
    BY <2>2, <2>3
<1> QED
  BY <1>6, <1>7 DEF t

\* Who leaves the line leaves the others in it.
LEMMA Left ==
  ASSUME TokenType, NEW r \in Requests, Leave(r)
  PROVE  /\ line' \in Seq(Requests)
         /\ \A q \in Requests \ {r} : (InLine(q) => InLine(q)') /\ (FirstIs(q) => FirstIs(q)')
<1>1. line \in Seq(Requests) /\ Len(line) \in Nat /\ DOMAIN line = 1 .. Len(line)
      /\ (line = <<>> <=> Len(line) = 0)
  BY SeqFacts DEF TokenType
<1>2. CASE UNCHANGED line
  BY <1>1, <1>2 DEF InLine, FirstIs
<1>3. ASSUME NEW i \in DOMAIN line, line[i] = r, line' = RemoveAt(line, i)
      PROVE  /\ line' \in Seq(Requests)
             /\ \A q \in Requests \ {r} : (InLine(q) => InLine(q)') /\ (FirstIs(q) => FirstIs(q)')
  <2>1. /\ line' \in Seq(Requests) /\ DOMAIN line' = 1 .. Len(line) - 1 /\ Len(line') = Len(line) - 1
        /\ \A k \in 1 .. Len(line) - 1 : line'[k] = line[IF k < i THEN k ELSE k + 1]
    BY <1>1, <1>3, PlaceRemoved, Zenon
  <2>2. ASSUME NEW q \in Requests \ {r}, NEW j \in DOMAIN line, line[j] = q
        PROVE  InLine(q)' /\ (j = 1 => line' # <<>> /\ line'[1] = q)
    <3>1. i \in Int /\ j \in Int /\ j # i
      BY <1>1, <1>3, <2>2
    <3>2. CASE j < i
      <4>1. j \in DOMAIN line' /\ line'[j] = q
        BY <1>1, <2>1, <2>2, <3>1, <3>2
      <4> QED
        BY <2>1, <4>1 DEF InLine
    <3>3. CASE j > i
      <4>1. j - 1 \in 1 .. Len(line) - 1 /\ ~(j - 1 < i) /\ (j - 1) + 1 = j /\ j # 1
        BY <1>1, <3>1, <3>3
      <4>2. j - 1 \in DOMAIN line' /\ line'[j - 1] = q
        BY <2>1, <2>2, <4>1
      <4> QED
        BY <4>1, <4>2 DEF InLine
    <3> QED
      BY <3>1, <3>2, <3>3
  <2>3. ASSUME NEW q \in Requests \ {r}, FirstIs(q) PROVE FirstIs(q)'
    <3>1. 1 \in DOMAIN line /\ line[1] = q
      BY <1>1, <2>3, TailFacts DEF FirstIs
    <3>2. line' # <<>> /\ line'[1] = q
      BY <2>2, <3>1
    <3> QED
      BY <2>1, <3>2, TailFacts DEF FirstIs
  <2> QED
    BY <2>1, <2>2, <2>3 DEF InLine
<1> QED
  BY <1>1, <1>2, <1>3 DEF Leave

\* The lock, as one request takes a step.
LEMMA OneHolds ==
  ASSUME LockInv, NEW r \in Requests, NEW q \in Requests, Holds(r), Holds(q) \/ Turn(q)
  PROVE  q = r
  BY DEF LockInv, Turn, FirstIs

Apart(r) == \A q \in Requests \ {r} : request'[q] = request[q]

LEMMA LockLeft ==
  ASSUME TokenType, LockInv, NEW r \in Requests, Apart(r), Leave(r),
         request'[r].at \notin {"line", "fetch", "read", "fetched"}
  PROVE  LockInv'
<1> SUFFICES ASSUME NEW q \in Requests
             PROVE  (request'[q].at = "line" => InLine(q)') /\ (Holds(q)' => FirstIs(q)')
  BY DEF LockInv
<1>1. CASE q = r
  BY <1>1 DEF Holds
<1>2. CASE q # r
  BY <1>2, Left DEF Apart, LockInv, Holds
<1> QED
  BY <1>1, <1>2

LEMMA LockJoined ==
  ASSUME TokenType, LockInv, NEW r \in Requests, Apart(r), line' = Append(line, r), ~Holds(r)'
  PROVE  line' \in Seq(Requests) /\ LockInv'
<1>1. /\ line' \in Seq(Requests) /\ line' # <<>> /\ DOMAIN line = 1 .. Len(line) /\ Len(line) \in Nat
      /\ DOMAIN line' = 1 .. Len(line) + 1 /\ line'[Len(line) + 1] = r
      /\ \A i \in 1 .. Len(line) : line'[i] = line[i]
      /\ Head(line') = line'[1] /\ (line # <<>> => Head(line) = line[1] /\ Len(line) # 0)
  BY AppendFacts, SeqFacts, TailFacts DEF TokenType
<1>2. InLine(r)' /\ \A q \in Requests : (InLine(q) => InLine(q)') /\ (FirstIs(q) => FirstIs(q)')
  BY <1>1 DEF InLine, FirstIs
<1> SUFFICES ASSUME NEW q \in Requests
             PROVE  (request'[q].at = "line" => InLine(q)') /\ (Holds(q)' => FirstIs(q)')
  BY <1>1 DEF LockInv
<1>3. CASE q = r
  BY <1>2, <1>3
<1>4. CASE q # r
  BY <1>2, <1>4 DEF Apart, LockInv, Holds
<1> QED
  BY <1>3, <1>4

LEMMA LockSame ==
  ASSUME LockInv, NEW r \in Requests, Apart(r), UNCHANGED line,
         request'[r].at = "line" => request[r].at = "line", Holds(r)' => Holds(r) \/ Turn(r)
  PROVE  LockInv'
<1> SUFFICES ASSUME NEW q \in Requests
             PROVE  (request'[q].at = "line" => InLine(q)') /\ (Holds(q)' => FirstIs(q)')
  BY DEF LockInv
<1>1. CASE q = r
  BY <1>1 DEF LockInv, InLine, FirstIs, Turn
<1>2. CASE q # r
  BY <1>2 DEF Apart, LockInv, Holds, InLine, FirstIs
<1> QED
  BY <1>1, <1>2

\* A step of one request: what it becomes, and the others as they were.
LEMMA ToIs ==
  ASSUME TokenType, NEW r \in Requests, NEW at \in Places, To(r, at)
  PROVE  /\ request' \in [Requests -> Requested] /\ Apart(r) /\ request'[r].at = at
         /\ request'[r].for = request[r].for /\ request'[r].seen = request[r].seen
         /\ request'[r].sent = request[r].sent /\ request'[r].again = request[r].again
         /\ request'[r].got = request[r].got
  BY DEF TokenType, Requested, Places, To, Apart

LEMMA EndsIs ==
  ASSUME TokenType, NEW r \in Requests, NEW end \in Places, Ends(r, end)
  PROVE  /\ request' \in [Requests -> Requested] /\ Apart(r)
         /\ request'[r].at = end /\ request'[r].sent = Nothing
         /\ request'[r].again = FALSE
<1> DEFINE new == Blank(end)
<1>1. request \in [Requests -> Requested] /\ request[r] \in Requested /\ auth.fetches \in Nat
  BY DEF TokenType
<1>2. /\ new \in Requested
      /\ new.at = end /\ new.sent = Nothing /\ new.again = FALSE
  BY <1>1 DEF Requested, Places, Nothing, Blank
<1>3. request' = [request EXCEPT ![r] = new]
  BY DEF Ends
<1> HIDE DEF new
<1>4. request' \in [Requests -> Requested] /\ Apart(r) /\ request'[r] = new
  BY <1>1, <1>2, <1>3 DEF Apart
<1> QED
  BY <1>2, <1>4

LEMMA AsksIs ==
  ASSUME TokenType, NEW r \in Requests, NEW for \in {"apply", "refresh"}, Asks(r, for)
  PROVE  /\ request' \in [Requests -> Requested] /\ Apart(r)
         /\ request'[r].at = "join" /\ request'[r].for = for
         /\ request'[r].seen = auth.fetches /\ request'[r].sent = request[r].sent
         /\ request'[r].again = request[r].again
<1> DEFINE new == [request[r] EXCEPT !.at = "join", !.for = for, !.seen = auth.fetches]
<1>1. request \in [Requests -> Requested] /\ request[r] \in Requested /\ auth.fetches \in Nat
  BY DEF TokenType
<1>2. /\ new \in Requested
      /\ new.at = "join" /\ new.for = for /\ new.seen = auth.fetches
      /\ new.sent = request[r].sent /\ new.again = request[r].again
  BY <1>1 DEF Requested, Places, Nothing
<1>3. request' = [request EXCEPT ![r] = new]
  BY DEF Asks
<1> HIDE DEF new
<1>4. request' \in [Requests -> Requested] /\ Apart(r) /\ request'[r] = new
  BY <1>1, <1>2, <1>3 DEF Apart
<1> QED
  BY <1>2, <1>4

LEMMA GetsIs ==
  ASSUME TokenType, NEW r \in Requests, NEW got \in Int, Gets(r, got)
  PROVE  /\ request' \in [Requests -> Requested] /\ Apart(r)
         /\ request'[r].at = "fetched" /\ request'[r].got = got
         /\ request'[r].for = request[r].for /\ request'[r].sent = request[r].sent
         /\ request'[r].again = request[r].again
<1> DEFINE new == [request[r] EXCEPT !.at = "fetched", !.got = got]
<1>1. request \in [Requests -> Requested] /\ request[r] \in Requested /\ auth.fetches \in Nat
  BY DEF TokenType
<1>2. /\ new \in Requested
      /\ new.at = "fetched" /\ new.got = got /\ new.for = request[r].for
      /\ new.sent = request[r].sent /\ new.again = request[r].again
  BY <1>1 DEF Requested, Places, Nothing
<1>3. request' = [request EXCEPT ![r] = new]
  BY DEF Gets
<1> HIDE DEF new
<1>4. request' \in [Requests -> Requested] /\ Apart(r) /\ request'[r] = new
  BY <1>1, <1>2, <1>3 DEF Apart
<1> QED
  BY <1>2, <1>4

LEMMA SendsIs ==
  ASSUME TokenType, NEW r \in Requests, NEW credential \in Nat, Sends(r, credential)
  PROVE  /\ request' \in [Requests -> Requested] /\ Apart(r)
         /\ request'[r].at = "send" /\ request'[r].sent = credential
         /\ request'[r].again = request[r].again
<1> DEFINE half == [request[r] EXCEPT !.at = "send", !.sent = credential]
           most == [half EXCEPT !.seen = 0]
           new  == [most EXCEPT !.got = Nothing]
<1>1. request \in [Requests -> Requested] /\ request[r] \in Requested /\ auth.fetches \in Nat
  BY DEF TokenType
<1>2. half \in Requested /\ half.at = "send" /\ half.sent = credential /\ half.again = request[r].again
  BY <1>1 DEF Requested, Places
<1>3. request' = [request EXCEPT ![r] = new]
  BY DEF Sends
<1> HIDE DEF half
<1>4. most \in Requested /\ most.at = "send" /\ most.sent = credential /\ most.again = request[r].again
  BY <1>2 DEF Requested, Places
<1> HIDE DEF most
<1>5. /\ new \in Requested
      /\ new.at = "send" /\ new.sent = credential /\ new.again = request[r].again
  BY <1>4 DEF Requested, Places, Nothing
<1> HIDE DEF new
<1>6. request' \in [Requests -> Requested] /\ Apart(r) /\ request'[r] = new
  BY <1>1, <1>5, <1>3 DEF Apart
<1> QED
  BY <1>5, <1>6

LEMMA AgainIs ==
  ASSUME TokenType, NEW r \in Requests, Again(r)
  PROVE  /\ request' \in [Requests -> Requested] /\ Apart(r)
         /\ request'[r].at = "apply" /\ request'[r].again = TRUE
         /\ request'[r].sent = request[r].sent
<1> DEFINE half == [request[r] EXCEPT !.at = "apply", !.again = TRUE]
           most == [half EXCEPT !.seen = 0]
           new  == [most EXCEPT !.got = Nothing]
<1>1. request \in [Requests -> Requested] /\ request[r] \in Requested /\ auth.fetches \in Nat
  BY DEF TokenType
<1>2. half \in Requested /\ half.at = "apply" /\ half.again = TRUE /\ half.sent = request[r].sent
  BY <1>1 DEF Requested, Places
<1>3. request' = [request EXCEPT ![r] = new]
  BY DEF Again
<1> HIDE DEF half
<1>4. most \in Requested /\ most.at = "apply" /\ most.again = TRUE /\ most.sent = request[r].sent
  BY <1>2 DEF Requested, Places
<1> HIDE DEF most
<1>5. /\ new \in Requested
      /\ new.at = "apply" /\ new.again = TRUE /\ new.sent = request[r].sent
  BY <1>4 DEF Requested, Places, Nothing
<1> HIDE DEF new
<1>6. request' \in [Requests -> Requested] /\ Apart(r) /\ request'[r] = new
  BY <1>1, <1>5, <1>3 DEF Apart
<1> QED
  BY <1>5, <1>6

\* What TokenInv says is in numbers.
LEMMA TokenNumbers ==
  ASSUME TokenType, NEW r \in Requests
  PROVE  /\ auth.latest \in Int /\ auth.fetches \in Nat /\ source \in Nat /\ floor \in Nat
         /\ 1 <= floor /\ floor <= source
         /\ request[r].seen \in Nat /\ request[r].sent \in Nat /\ request[r].got \in Int
         /\ request[r].again \in BOOLEAN /\ request[r].at \in Places
         /\ request[r].for \in {"apply", "refresh"} /\ auth.kind \in {"token", "static"}
         /\ auth.due \in BOOLEAN /\ auth.expires \in BOOLEAN
  BY DEF TokenType, Requested, Failed

\* The others have what they had, of credentials as they were.
LEMMA OthersStay ==
  ASSUME TokenInv, NEW r \in Requests, Apart(r), auth' = auth, floor' = floor
  PROVE  \A q \in Requests \ {r} : RequestInv(q)' /\ WaitInv(q)' /\ AgainInv(q)'
<1> SUFFICES ASSUME NEW q \in Requests \ {r}
             PROVE  RequestInv(q)' /\ WaitInv(q)' /\ AgainInv(q)'
  OBVIOUS
<1>1. RequestInv(q) /\ WaitInv(q) /\ AgainInv(q) /\ request'[q] = request[q]
  BY DEF TokenInv, Apart
<1>2. RequestInv(q)'
  BY <1>1 DEF RequestInv, Refreshing, Waits, Holds, Reason, Held
<1>3. WaitInv(q)'
  BY <1>1 DEF WaitInv, Cheap, Waits, Reason, Held
<1>4. AgainInv(q)'
  BY <1>1 DEF AgainInv, Cheap
<1> QED
  BY <1>2, <1>3, <1>4

\* Nothing was sent before the first token, nor is now.
LEMMA FirstStays ==
  ASSUME TokenInv, NEW r \in Requests, Apart(r), auth' = auth, floor' = floor,
         ~(request'[r].at = "fetched" /\ request'[r].got = 1),
         auth.kind = "token" /\ ~auth.expires /\ auth.latest <= 0 /\ Unsent =>
             request'[r].sent = Nothing /\ (request'[r].again => request[r].again)
  PROVE  FirstInv'
<1> SUFFICES ASSUME auth.kind = "token", ~auth.expires
             PROVE  /\ floor = 1 /\ auth.latest <= 0 => Unsent'
                    /\ (\E q \in Requests : request'[q].at = "fetched" /\ request'[q].got = 1) =>
                         auth.latest <= 0 /\ Unsent' /\ \A q \in Requests : ~request'[q].again
  BY DEF FirstInv, Unsent
<1>1. /\ floor = 1 /\ auth.latest <= 0 => Unsent
      /\ (\E q \in Requests : request[q].at = "fetched" /\ request[q].got = 1) =>
           auth.latest <= 0 /\ Unsent /\ \A q \in Requests : ~request[q].again
  BY DEF TokenInv, FirstInv
<1>2. auth.latest <= 0 /\ Unsent => Unsent'
  BY DEF Unsent, Apart
<1>3. ASSUME NEW q \in Requests, request'[q].at = "fetched", request'[q].got = 1
      PROVE  auth.latest <= 0 /\ Unsent' /\ \A p \in Requests : ~request'[p].again
  <2>1. q # r /\ request'[q] = request[q]
    BY <1>3 DEF Apart
  <2>2. auth.latest <= 0 /\ Unsent /\ \A p \in Requests : ~request[p].again
    BY <1>1, <1>3, <2>1
  <2> QED
    BY <1>2, <2>2 DEF Apart
<1> QED
  BY <1>1, <1>2, <1>3

\* A request takes a step, and the credentials stay as they were.
LEMMA StepKeeps ==
  ASSUME TokenInv, NEW r \in Requests, request' \in [Requests -> Requested], Apart(r),
         UNCHANGED <<auth, source, floor>>, failures' \in Nat, line' \in Seq(Requests),
         LockInv', RequestInv(r)', WaitInv(r)', AgainInv(r)', FirstInv'
  PROVE  TokenInv'
<1>1. TokenType' /\ AuthInv'
  BY DEF TokenInv, TokenType, AuthInv
<1>2. ASSUME NEW q \in Requests PROVE RequestInv(q)' /\ WaitInv(q)' /\ AgainInv(q)'
  <2>1. CASE q = r
    BY <2>1
  <2>2. CASE q # r
    BY <2>2, OthersStay
  <2> QED
    BY <2>1, <2>2
<1> QED
  BY <1>1, <1>2 DEF TokenInv

\* It leaves the line, or has no part in it.
LEMMA LineKeeps ==
  ASSUME TokenInv, NEW r \in Requests, Apart(r), Leave(r) \/ UNCHANGED line,
         request'[r].at \notin {"line", "fetch", "read", "fetched"}
  PROVE  line' \in Seq(Requests) /\ LockInv'
<1>1. TokenType /\ LockInv /\ ~Holds(r)'
  BY DEF TokenInv, Holds
<1>2. CASE Leave(r)
  BY <1>1, <1>2, Left, LockLeft
<1>3. CASE UNCHANGED line
  BY <1>1, <1>3, LockSame DEF TokenType
<1> QED
  BY <1>2, <1>3

\* A request ends: with a second refusal, only of credentials that were revoked twice
\* or that expire.
LEMMA OverKeeps ==
  ASSUME TokenInv, NEW r \in Requests, NEW last \in Over, Ends(r, last), Leave(r) \/ UNCHANGED line,
         last = "unauthorized" => ~Cheap, UNCHANGED <<auth, source, floor>>, failures' \in Nat
  PROVE  TokenInv'
<1>1. TokenType /\ last \in Places
  BY DEF TokenInv, Over, Places
<1>2. /\ request' \in [Requests -> Requested] /\ Apart(r) /\ request'[r].at = last
      /\ request'[r].sent = Nothing /\ request'[r].again = FALSE
  BY <1>1, EndsIs
<1>3. line' \in Seq(Requests) /\ LockInv'
  BY <1>2, LineKeeps DEF Over
<1>4. RequestInv(r)' /\ WaitInv(r)'
  BY <1>2 DEF RequestInv, WaitInv, Refreshing, Waits, Holds, Over
<1>5. AgainInv(r)'
  BY <1>2 DEF AgainInv, Cheap
<1>6. FirstInv'
  BY <1>2, FirstStays DEF Over
<1> QED
  BY <1>2, <1>3, <1>4, <1>5, <1>6, StepKeeps

\* A request goes with the credential held.
LEMMA SendKeeps ==
  ASSUME TokenInv, NEW r \in Requests, Sends(r, auth.latest), auth.latest > 0,
         Leave(r) \/ UNCHANGED line, UNCHANGED <<auth, source, floor, failures>>
  PROVE  TokenInv'
<1>1. TokenType /\ auth.latest \in Nat /\ RequestInv(r) /\ AgainInv(r) /\ failures' \in Nat
  BY TokenNumbers DEF TokenInv, TokenType
<1>2. /\ request' \in [Requests -> Requested] /\ Apart(r) /\ request'[r].at = "send"
      /\ request'[r].sent = auth.latest /\ request'[r].again = request[r].again
  BY <1>1, SendsIs
<1>3. line' \in Seq(Requests) /\ LockInv'
  BY <1>2, LineKeeps
<1>4. RequestInv(r)' /\ WaitInv(r)'
  BY <1>1, <1>2 DEF RequestInv, WaitInv, Refreshing, Waits, Holds
<1>5. AgainInv(r)'
  BY <1>1, <1>2 DEF AgainInv, Cheap
<1>6. FirstInv'
  BY <1>1, <1>2, FirstStays
<1> QED
  BY <1>1, <1>2, <1>3, <1>4, <1>5, <1>6, StepKeeps

\* A request that was refused goes again.
LEMMA AgainKeeps ==
  ASSUME TokenInv, NEW r \in Requests, Again(r), Refreshing(r), Cheap => auth.latest # 1,
         Leave(r) \/ UNCHANGED line, UNCHANGED <<auth, source, floor, failures>>
  PROVE  TokenInv'
<1>1. /\ TokenType /\ failures' \in Nat /\ request[r].sent \in Nat /\ floor \in Nat
      /\ request[r].sent >= 1 /\ request[r].sent < floor
  BY TokenNumbers DEF TokenInv, TokenType, RequestInv
<1>2. /\ request' \in [Requests -> Requested] /\ Apart(r) /\ request'[r].at = "apply"
      /\ request'[r].sent = request[r].sent /\ request'[r].again = TRUE
  BY <1>1, AgainIs
<1>3. line' \in Seq(Requests) /\ LockInv'
  BY <1>2, LineKeeps
<1>4. RequestInv(r)' /\ WaitInv(r)'
  BY <1>2 DEF RequestInv, WaitInv, Refreshing, Waits, Holds
<1>5. AgainInv(r)'
  BY <1>1, <1>2 DEF AgainInv, Cheap
<1>6. FirstInv'
  <2>1. ~Unsent
    BY <1>1 DEF Unsent, Nothing
  <2> QED
    BY <1>2, <2>1, FirstStays
<1> QED
  BY <1>1, <1>2, <1>3, <1>4, <1>5, <1>6, StepKeeps

\* The source gives a newer credential.
LEMMA IssueKeeps == ASSUME TokenInv, Issue PROVE TokenInv'
<1>1. TokenType' /\ AuthInv' /\ LockInv'
  BY DEF TokenInv, Issue, TokenType, AuthInv, LockInv, InLine, FirstIs, Holds
<1>2. FirstInv'
  BY DEF TokenInv, Issue, FirstInv, Unsent
<1>3. ASSUME NEW r \in Requests PROVE RequestInv(r)' /\ WaitInv(r)' /\ AgainInv(r)'
  <2>1. RequestInv(r) /\ WaitInv(r) /\ AgainInv(r) /\ UNCHANGED <<auth, request, floor>>
    BY DEF TokenInv, Issue
  <2>2. RequestInv(r)'
    BY <2>1 DEF RequestInv, Refreshing, Waits, Holds, Reason, Held
  <2>3. WaitInv(r)'
    BY <2>1 DEF WaitInv, Cheap, Waits, Reason, Held
  <2>4. AgainInv(r)'
    BY <2>1 DEF AgainInv, Cheap
  <2> QED
    BY <2>2, <2>3, <2>4
<1> QED
  BY <1>1, <1>2, <1>3 DEF TokenInv

\* The upstream takes the older ones no more: of credentials revoked once, none went
\* again before.
LEMMA RevokeKeeps == ASSUME TokenInv, Revoke PROVE TokenInv'
<1>1. /\ floor \in Nat /\ source \in Nat /\ 1 <= floor /\ floor < source /\ floor' = source
      /\ UNCHANGED <<auth, line, request, source, failures>>
  BY DEF TokenInv, TokenType, Revoke
<1>2. TokenType' /\ AuthInv' /\ LockInv'
  BY <1>1 DEF TokenInv, TokenType, AuthInv, LockInv, InLine, FirstIs, Holds
<1>3. FirstInv'
  BY <1>1 DEF TokenInv, FirstInv, Unsent
<1>4. Cheap' => Cheap /\ floor = 1
  BY <1>1 DEF Cheap
<1>5. ASSUME NEW r \in Requests PROVE RequestInv(r)' /\ WaitInv(r)' /\ AgainInv(r)'
  <2>1. RequestInv(r) /\ WaitInv(r) /\ AgainInv(r) /\ request[r].sent \in Nat
    BY TokenNumbers DEF TokenInv
  <2>2. RequestInv(r)'
    BY <1>1, <2>1 DEF RequestInv, Refreshing, Waits, Holds, Reason, Held
  <2>3. WaitInv(r)'
    <3>1. ASSUME Cheap', auth.kind = "token", Waits(r) PROVE request[r].for # "refresh"
      BY <1>1, <1>4, <2>1, <3>1 DEF RequestInv, Refreshing
    <3> QED
      BY <1>1, <2>1, <3>1 DEF WaitInv, Waits, Reason, Held
  <2>4. AgainInv(r)'
    BY <1>1, <1>4, <2>1 DEF AgainInv
  <2> QED
    BY <2>2, <2>3, <2>4
<1> QED
  BY <1>2, <1>3, <1>5 DEF TokenInv

\* The token held comes due: who asks has a reason to.
LEMMA DueKeeps == ASSUME TokenInv, ComesDue PROVE TokenInv'
<1>1. /\ auth' = [auth EXCEPT !.due = TRUE] /\ UNCHANGED <<line, request, source, floor, failures>>
      /\ auth.expires /\ AuthInv /\ TokenType
  BY DEF TokenInv, ComesDue
<1>2. /\ auth'.kind = auth.kind /\ auth'.latest = auth.latest /\ auth'.expires = auth.expires
      /\ auth'.fetches = auth.fetches /\ auth'.due = TRUE /\ auth.kind = "token"
      /\ auth' \in [kind : {"token", "static"}, latest : Nat \cup {Failed}, expires : BOOLEAN,
                    due : BOOLEAN, fetches : Nat]
  BY <1>1 DEF TokenType, AuthInv
<1>3. TokenType' /\ AuthInv' /\ LockInv' /\ FirstInv' /\ ~Cheap' /\ ~Held'
  BY <1>1, <1>2 DEF TokenInv, TokenType, AuthInv, LockInv, InLine, FirstIs, Holds, FirstInv, Cheap, Held
<1>4. ASSUME NEW r \in Requests PROVE RequestInv(r)' /\ WaitInv(r)' /\ AgainInv(r)'
  <2>1. RequestInv(r) /\ WaitInv(r) /\ AgainInv(r)
    BY DEF TokenInv
  <2>2. RequestInv(r)'
    BY <1>1, <1>2, <1>3, <2>1 DEF RequestInv, Refreshing, Waits, Holds, Reason
  <2>3. WaitInv(r)' /\ AgainInv(r)'
    BY <1>1, <1>2, <1>3, <2>1 DEF WaitInv, AgainInv, Waits, Reason
  <2> QED
    BY <2>2, <2>3
<1> QED
  BY <1>3, <1>4 DEF TokenInv

LEMMA ApplyKeeps == ASSUME TokenInv, NEW r \in Requests, Apply(r) PROVE TokenInv'
<1>1. /\ TokenType /\ AuthInv /\ LockInv /\ RequestInv(r) /\ AgainInv(r)
      /\ UNCHANGED <<auth, line, source, floor, failures>> /\ failures' \in Nat
      /\ auth.latest \in Int /\ auth.fetches \in Nat /\ auth.kind \in {"token", "static"}
  BY TokenNumbers DEF TokenInv, Apply, TokenType
<1>2. CASE Held
  BY <1>1, <1>2, SendKeeps DEF Apply, Held
<1>3. CASE ~Held
  <2>1. /\ request' \in [Requests -> Requested] /\ Apart(r) /\ request'[r].at = "join"
        /\ request'[r].for = "apply" /\ request'[r].seen = auth.fetches
        /\ request'[r].sent = request[r].sent /\ request'[r].again = request[r].again
    BY <1>1, <1>3, AsksIs DEF Apply
  <2>2. auth.kind = "token" /\ ~Held'
    BY <1>1, <1>3 DEF AuthInv, Held
  <2>3. RequestInv(r)' /\ WaitInv(r)'
    BY <1>1, <2>1, <2>2 DEF RequestInv, WaitInv, Refreshing, Waits, Holds, Reason
  <2>4. AgainInv(r)'
    BY <1>1, <2>1 DEF AgainInv, Cheap
  <2>5. LockInv' /\ line' \in Seq(Requests)
    BY <1>1, <2>1, LineKeeps
  <2>6. FirstInv'
    BY <1>1, <2>1, FirstStays DEF Unsent
  <2> QED
    BY <1>1, <2>1, <2>3, <2>4, <2>5, <2>6, StepKeeps
<1> QED
  BY <1>2, <1>3

LEMMA JoinKeeps == ASSUME TokenInv, NEW r \in Requests, Join(r) PROVE TokenInv'
<1>1. /\ TokenType /\ LockInv /\ RequestInv(r) /\ WaitInv(r) /\ AgainInv(r)
      /\ UNCHANGED <<auth, source, floor, failures>> /\ failures' \in Nat
      /\ request[r].at = "join" /\ "line" \in Places
  BY DEF TokenInv, Join, TokenType, Places
<1>2. /\ request' \in [Requests -> Requested] /\ Apart(r) /\ request'[r].at = "line"
      /\ request'[r].for = request[r].for /\ request'[r].seen = request[r].seen
      /\ request'[r].sent = request[r].sent /\ request'[r].again = request[r].again
  BY <1>1, ToIs DEF Join
<1>3. RequestInv(r)'
  BY <1>1, <1>2 DEF RequestInv, Refreshing, Waits, Holds
<1>4. WaitInv(r)'
  BY <1>1, <1>2 DEF WaitInv, Waits, Reason, Held, Cheap
<1>5. AgainInv(r)'
  BY <1>1, <1>2 DEF AgainInv, Cheap
<1>6. LockInv' /\ line' \in Seq(Requests)
  BY <1>1, <1>2, LockJoined DEF Join, Holds
<1>7. FirstInv'
  BY <1>1, <1>2, FirstStays DEF Unsent
<1> QED
  BY <1>1, <1>2, <1>3, <1>4, <1>5, <1>6, <1>7, StepKeeps

LEMMA LatestKeeps == ASSUME TokenInv, NEW r \in Requests, TakeLatest(r) PROVE TokenInv'
<1>1. /\ TokenType /\ AuthInv /\ RequestInv(r) /\ WaitInv(r) /\ AgainInv(r)
      /\ UNCHANGED <<auth, source, floor, failures>> /\ failures' \in Nat /\ Leave(r)
      /\ auth.kind = "token" /\ request[r].at = "line" /\ auth.latest # 0
      /\ auth.fetches # request[r].seen /\ Take(r, auth.latest)
  BY DEF TokenInv, TakeLatest, Turn, FetchedSince, Nothing, TokenType, Take
<1>2. /\ auth.latest \in Nat \cup {Failed} /\ request[r].sent \in Nat /\ floor \in Nat
      /\ request[r].for \in {"apply", "refresh"}
  BY <1>1, TokenNumbers DEF TokenType
<1>3. CASE auth.latest = Failed
  BY <1>1, <1>3, OverKeeps DEF Take, Over
<1>4. CASE auth.latest # Failed /\ request[r].for = "apply"
  BY <1>1, <1>2, <1>4, SendKeeps DEF Take
<1>5. CASE auth.latest # Failed /\ request[r].for = "refresh"
  <2>1. Refreshing(r) /\ request[r].sent >= 1 /\ request[r].sent < floor
    BY <1>1, <1>5 DEF Refreshing, Waits, RequestInv
  <2>2. Cheap => auth.latest # request[r].sent /\ request[r].sent = 1
    BY <1>1, <1>2, <1>5, <2>1 DEF WaitInv, Waits, Cheap
  <2>3. CASE auth.latest = request[r].sent
    BY <1>1, <1>5, <2>2, <2>3, OverKeeps DEF Take, Over
  <2>4. CASE auth.latest # request[r].sent
    BY <1>1, <1>5, <2>1, <2>2, <2>4, AgainKeeps DEF Take
  <2> QED
    BY <2>3, <2>4
<1> QED
  BY <1>2, <1>3, <1>4, <1>5

\* A request goes on, with the credentials and the line as they are.
LEMMA OnKeeps ==
  ASSUME TokenInv, NEW r \in Requests, NEW at \in {"fetch", "read", "sent", "refused"}, To(r, at),
         UNCHANGED <<auth, line, source, floor, failures>>,
         at = "fetch" => Turn(r) /\ auth.kind = "token" /\ Reason(r),
         at = "read" => Turn(r) /\ auth.kind = "static" /\ auth.latest = request[r].sent,
         at = "sent" => request[r].at = "send",
         at = "refused" => request[r].at = "sent" /\ request[r].sent < floor
  PROVE  TokenInv'
<1>1. /\ TokenType /\ LockInv /\ RequestInv(r) /\ AgainInv(r) /\ failures' \in Nat
      /\ line' \in Seq(Requests) /\ at \in Places /\ auth.kind \in {"token", "static"}
  BY TokenNumbers DEF TokenInv, TokenType, Places
<1>2. /\ request' \in [Requests -> Requested] /\ Apart(r) /\ request'[r].at = at
      /\ request'[r].for = request[r].for /\ request'[r].sent = request[r].sent
      /\ request'[r].again = request[r].again
  BY <1>1, ToIs
<1>3. Refreshing(r)' => Refreshing(r) \/ at = "refused"
  BY <1>2 DEF Refreshing, Waits, Holds, Turn
<1>4. RequestInv(r)'
  <2>1. request'[r].at \in {"join", "fetch"} => auth.kind = "token"
    BY <1>2
  <2>2. request'[r].at = "read" => auth.kind = "static"
    BY <1>2
  <2>3. request'[r].at \in {"send", "sent"} => request'[r].sent >= 1
    BY <1>1, <1>2 DEF RequestInv
  <2>4. Refreshing(r)' => request'[r].sent >= 1 /\ request'[r].sent < floor
    BY <1>1, <1>2, <1>3 DEF RequestInv
  <2>5. request'[r].at # "fetched"
    BY <1>2
  <2>6. auth.kind = "token" /\ Holds(r)' => Reason(r)'
    BY <1>2 DEF Holds, Reason, Held
  <2>7. auth.kind = "static" /\ Holds(r)' => auth.latest = request'[r].sent
    BY <1>2 DEF Holds
  <2> QED
    BY <2>1, <2>2, <2>3, <2>4, <2>5, <2>6, <2>7 DEF RequestInv
<1>5. WaitInv(r)'
  BY <1>2 DEF WaitInv, Waits
<1>6. AgainInv(r)'
  BY <1>1, <1>2 DEF AgainInv, Cheap
<1>7. LockInv'
  BY <1>1, <1>2, LockSame DEF Holds
<1>8. FirstInv'
  BY <1>2, FirstStays DEF Unsent
<1> QED
  BY <1>1, <1>2, <1>4, <1>5, <1>6, <1>7, <1>8, StepKeeps

\* Who fetches holds none of use, or the one it was refused.
LEMMA StartHasReason == ASSUME TokenInv, NEW r \in Requests, StartFetch(r) PROVE Reason(r)
<1>1. WaitInv(r) /\ auth.latest \in Int
  BY TokenNumbers DEF TokenInv
<1> QED
  BY <1>1 DEF StartFetch, Turn, FetchedSince, WaitInv, Waits, Reason, Held, Nothing

LEMMA StartKeeps == ASSUME TokenInv, NEW r \in Requests, StartFetch(r) PROVE TokenInv'
  BY StartHasReason, OnKeeps DEF StartFetch

LEMMA PostKeeps == ASSUME TokenInv, NEW r \in Requests, Post(r) PROVE TokenInv'
  BY OnKeeps DEF Post

LEMMA AnsweredKeeps == ASSUME TokenInv, NEW r \in Requests, Answered(r) PROVE TokenInv'
<1>1. UNCHANGED <<auth, source, floor>> /\ UNCHANGED line /\ failures' \in Nat
  BY DEF TokenInv, TokenType, Answered
<1> QED
  BY <1>1, OverKeeps DEF Answered, Over

\* What went again is not refused, of credentials revoked once.
LEMMA RefusedKeeps == ASSUME TokenInv, NEW r \in Requests, Refused(r) PROVE TokenInv'
<1>1. /\ UNCHANGED <<auth, source, floor>> /\ UNCHANGED line /\ failures' \in Nat
      /\ request[r].at = "sent" /\ request[r].sent < floor /\ AgainInv(r)
      /\ request[r].sent \in Nat /\ floor \in Nat
  BY TokenNumbers DEF TokenInv, TokenType, Refused
<1>2. CASE request[r].again
  <2>1. ~Cheap
    BY <1>1, <1>2 DEF AgainInv, Cheap
  <2> QED
    BY <1>1, <1>2, <2>1, OverKeeps DEF Refused, Over
<1>3. CASE ~request[r].again
  BY <1>1, <1>3, OnKeeps DEF Refused
<1> QED
  BY <1>2, <1>3

\* The source answers, or fails: the first token there is comes before anything is sent.
LEMMA ReachedKeeps ==
  ASSUME TokenInv, NEW r \in Requests, NEW at \in {"fetch", "read"}, Reached(r, at)
  PROVE  TokenInv'
<1>1. /\ TokenType /\ AuthInv /\ LockInv /\ FirstInv /\ RequestInv(r) /\ AgainInv(r)
      /\ \A q \in Requests : AgainInv(q)
      /\ UNCHANGED <<auth, line, source, floor>> /\ line' \in Seq(Requests)
      /\ request[r].at = at /\ Holds(r)
  BY DEF TokenInv, TokenType, Reached, Holds
<1>2. /\ auth.latest \in Int /\ source \in Nat /\ floor \in Nat /\ 1 <= floor /\ floor <= source
      /\ request[r].sent \in Nat /\ Failed \in Int
  BY <1>1, TokenNumbers DEF Failed
<1>3. PICK got \in {source, Failed} : Gets(r, got) /\ failures' \in Nat
  <2>1. failures \in Nat
    BY <1>1 DEF TokenType
  <2> QED
    BY <2>1 DEF Reached
<1>4. /\ request' \in [Requests -> Requested] /\ Apart(r) /\ request'[r].at = "fetched"
      /\ request'[r].for = request[r].for /\ request'[r].got = got
      /\ request'[r].sent = request[r].sent /\ request'[r].again = request[r].again
  BY <1>1, <1>2, <1>3, GetsIs
<1>5. Refreshing(r)' <=> Refreshing(r)
  BY <1>1, <1>4 DEF Refreshing, Waits, Holds
<1>6. RequestInv(r)'
  <2>1. Refreshing(r)' => request'[r].sent >= 1 /\ request'[r].sent < floor
    BY <1>1, <1>4, <1>5 DEF RequestInv
  <2>2. got = Failed \/ (got >= 1 /\ (Refreshing(r)' => got >= 2))
    BY <1>2, <1>4, <2>1
  <2>3. auth.kind = "token" => Reason(r)'
    BY <1>1, <1>4 DEF RequestInv, Reason, Held
  <2>4. auth.kind = "static" => auth.latest = request'[r].sent
    BY <1>1, <1>4 DEF RequestInv
  <2> QED
    BY <1>1, <1>4, <2>1, <2>2, <2>3, <2>4 DEF RequestInv
<1>7. WaitInv(r)' /\ AgainInv(r)'
  BY <1>1, <1>4 DEF WaitInv, Waits, AgainInv, Cheap
<1>8. LockInv'
  BY <1>1, <1>4, LockSame DEF Holds
<1>9. FirstInv'
  <2>1. CASE got # 1
    BY <1>1, <1>4, <2>1, FirstStays DEF Unsent
  <2>2. CASE got = 1
    <3> SUFFICES ASSUME auth.kind = "token", ~auth.expires
                 PROVE  auth.latest <= 0 /\ Unsent' /\ \A q \in Requests : ~request'[q].again
      BY <1>1 DEF FirstInv, Unsent
    <3>1. floor = 1
      BY <1>2, <1>3, <2>2 DEF Failed
    <3>2. auth.latest <= 0
      <4>1. ~Refreshing(r)
        BY <1>1, <1>2, <3>1 DEF RequestInv
      <4>2. request[r].for # "refresh"
        BY <1>1, <4>1 DEF Refreshing
      <4>3. ~Held
        BY <1>1, <4>2 DEF RequestInv, Reason
      <4> QED
        BY <1>1, <1>2, <4>3 DEF Held, AuthInv
    <3>3. Unsent /\ \A q \in Requests : ~request[q].again
      BY <1>1, <3>1, <3>2 DEF FirstInv, AgainInv
    <3> QED
      BY <1>4, <3>2, <3>3 DEF Unsent, Apart
  <2> QED
    BY <2>1, <2>2
<1> QED
  BY <1>1, <1>3, <1>4, <1>6, <1>7, <1>8, <1>9, StepKeeps

\* A fetch ends, and what it gave is kept: of credentials revoked once, no one who
\* waits was refused it, nor does anyone go again with the first.
LEMMA FetchEndsKeeps == ASSUME TokenInv, NEW r \in Requests, FetchEnds(r) PROVE TokenInv'
<1> DEFINE got == request[r].got
<1>1. /\ TokenType /\ AuthInv /\ LockInv /\ FirstInv /\ RequestInv(r) /\ Holds(r)
      /\ \A q \in Requests : RequestInv(q) /\ WaitInv(q) /\ AgainInv(q)
      /\ auth.kind = "token" /\ request[r].at = "fetched" /\ Leave(r) /\ Take(r, got)
      /\ auth' = [auth EXCEPT !.latest = got, !.due = FALSE, !.fetches = @ + 1]
      /\ UNCHANGED <<source, floor, failures>>
  BY DEF TokenInv, FetchEnds, Holds, Take
<1>2. /\ got \in Nat \cup {Failed} /\ (got # Failed => got >= 1 /\ (Refreshing(r) => got >= 2))
      /\ request[r].sent \in Nat /\ floor \in Nat /\ auth.latest \in Int /\ auth.fetches \in Nat
      /\ request[r].for \in {"apply", "refresh"}
  <2>1. got \in Int /\ (got = Failed \/ (got >= 1 /\ (Refreshing(r) => got >= 2)))
    BY <1>1, TokenNumbers DEF RequestInv
  <2> QED
    BY <1>1, <2>1, TokenNumbers DEF Failed
<1>3. /\ auth'.kind = "token" /\ auth'.latest = got /\ auth'.expires = auth.expires
      /\ auth'.due = FALSE /\ auth'.fetches = auth.fetches + 1
      /\ auth' \in [kind : {"token", "static"}, latest : Nat \cup {Failed}, expires : BOOLEAN,
                    due : BOOLEAN, fetches : Nat]
  <2> DEFINE half == [auth EXCEPT !.latest = got, !.due = FALSE]
             Auths == [kind : {"token", "static"}, latest : Nat \cup {Failed}, expires : BOOLEAN,
                       due : BOOLEAN, fetches : Nat]
  <2>1. /\ half \in Auths /\ half.kind = "token" /\ half.latest = got
        /\ half.expires = auth.expires /\ half.due = FALSE
    BY <1>1, <1>2 DEF TokenType
  <2>2. auth' = [half EXCEPT !.fetches = auth.fetches + 1] /\ auth.fetches + 1 \in Nat
    BY <1>1, <1>2
  <2> HIDE DEF half
  <2> QED
    BY <2>1, <2>2
<1> HIDE DEF got
<1>4. Refreshing(r) <=> request[r].for = "refresh"
  BY <1>1 DEF Refreshing, Holds, Waits
<1>5. Refreshing(r) => request[r].sent >= 1 /\ request[r].sent < floor
  BY <1>1 DEF RequestInv
<1>6. Cheap' <=> Cheap
  BY <1>1, <1>3 DEF Cheap
<1>7. got = 1 /\ Cheap => Unsent /\ \A q \in Requests : ~request[q].again
  BY <1>1 DEF FirstInv, Cheap, got
<1>8. /\ request' \in [Requests -> Requested] /\ Apart(r)
      /\ \/ request'[r].at = "credentials" /\ ~request'[r].again /\ request'[r].sent = 0 /\ got = Failed
         \/ /\ request'[r].at = "send" /\ got # Failed
            /\ request'[r].sent = got /\ request'[r].again = request[r].again
         \/ /\ request'[r].at = "unauthorized" /\ got # Failed /\ Refreshing(r)
            /\ ~request'[r].again /\ got = request[r].sent
         \/ request'[r].at = "apply" /\ got # Failed /\ Refreshing(r) /\ request'[r].again
  <2>1. CASE got = Failed
    <3>1. Ends(r, "credentials") /\ "credentials" \in Places
      BY <1>1, <2>1 DEF Take, Places, got
    <3> QED
      BY <1>1, <2>1, <3>1, EndsIs DEF Nothing
  <2>2. CASE got # Failed /\ request[r].for = "apply"
    <3>1. Sends(r, got) /\ got \in Nat
      BY <1>1, <1>2, <2>2 DEF Take, got
    <3> QED
      BY <1>1, <2>2, <3>1, SendsIs
  <2>3. CASE got # Failed /\ request[r].for = "refresh" /\ got = request[r].sent
    <3>1. Ends(r, "unauthorized") /\ "unauthorized" \in Places
      BY <1>1, <2>3 DEF Take, Places, got
    <3> QED
      BY <1>1, <1>4, <2>3, <3>1, EndsIs
  <2>4. CASE got # Failed /\ request[r].for = "refresh" /\ got # request[r].sent
    <3>1. Again(r)
      BY <1>1, <2>4 DEF Take, got
    <3> QED
      BY <1>1, <1>4, <2>4, <3>1, AgainIs
  <2> QED
    BY <1>2, <2>1, <2>2, <2>3, <2>4
<1>9. line' \in Seq(Requests) /\ LockInv'
  BY <1>1, <1>8, LineKeeps
<1>10. TokenType' /\ AuthInv'
  BY <1>1, <1>3, <1>8, <1>9 DEF TokenType, AuthInv
<1>11. RequestInv(r)' /\ WaitInv(r)'
  BY <1>2, <1>8 DEF RequestInv, WaitInv, Refreshing, Waits, Holds
<1>12. AgainInv(r)'
  <2>1. CASE request'[r].at = "send"
    <3>1. /\ got # Failed /\ request'[r].sent = got /\ request'[r].again = request[r].again
      BY <1>8, <2>1
    <3>2. Cheap /\ request[r].again => got # 1
      BY <1>7, Zenon
    <3>3. Cheap /\ request[r].again => got >= 2
      BY <1>2, <3>1, <3>2
    <3>4. /\ request[r].again => floor >= 2
          /\ Cheap' /\ request[r].again => auth'.latest # 1 /\ request'[r].sent >= 2
      BY <1>1, <1>2, <1>3, <1>6, <3>1, <3>3 DEF AgainInv
    <3> QED
      BY <1>1, <2>1, <3>1, <3>4 DEF AgainInv
  <2>2. CASE request'[r].at = "apply"
    <3>1. got >= 2 /\ floor >= 2
      BY <1>2, <1>5, <1>8, <2>2
    <3> QED
      BY <1>1, <1>3, <2>2, <3>1 DEF AgainInv
  <2>3. CASE request'[r].at = "unauthorized"
    <3>1. ~Cheap' /\ ~request'[r].again
      BY <1>2, <1>5, <1>6, <1>8, <2>3 DEF Cheap
    <3> QED
      BY <3>1 DEF AgainInv
  <2>4. CASE request'[r].at = "credentials"
    BY <1>8, <2>4 DEF AgainInv
  <2> QED
    BY <1>8, <2>1, <2>2, <2>3, <2>4
<1>13. ASSUME NEW q \in Requests \ {r} PROVE RequestInv(q)' /\ WaitInv(q)' /\ AgainInv(q)'
  <2>1. /\ RequestInv(q) /\ WaitInv(q) /\ AgainInv(q) /\ request'[q] = request[q] /\ ~Holds(q)
        /\ request[q].seen \in Nat /\ request[q].sent \in Nat
    BY <1>1, <1>8, TokenNumbers, OneHolds DEF Apart
  <2>2. RequestInv(q)'
    BY <1>1, <1>3, <2>1 DEF RequestInv, Refreshing, Waits, Holds
  <2>3. WaitInv(q)'
    <3> SUFFICES ASSUME Waits(q)
                 PROVE  /\ request[q].seen <= auth.fetches + 1 /\ request[q].seen # auth.fetches + 1
                        /\ Cheap /\ request[q].for = "refresh" => got # request[q].sent
      BY <1>3, <1>6, <2>1 DEF WaitInv, Waits
    <3>1. request[q].seen <= auth.fetches + 1 /\ request[q].seen # auth.fetches + 1
      BY <1>1, <1>2, <2>1 DEF WaitInv
    <3>2. ASSUME Cheap, request[q].for = "refresh" PROVE got # request[q].sent
      <4>1. request[q].sent = 1
        BY <1>2, <2>1, <3>2 DEF RequestInv, Refreshing, Cheap
      <4> QED
        BY <1>7, <3>2, <4>1 DEF Unsent, Nothing
    <3> QED
      BY <3>1, <3>2
  <2>4. AgainInv(q)'
    <3>1. Cheap /\ request[q].again => got # 1
      BY <1>7
    <3> QED
      BY <1>1, <1>3, <1>6, <2>1, <3>1 DEF AgainInv
  <2> QED
    BY <2>2, <2>3, <2>4
<1>14. FirstInv'
  <2> SUFFICES ASSUME ~auth.expires
               PROVE  /\ floor = 1 /\ got <= 0 => Unsent'
                      /\ \A q \in Requests : ~(request'[q].at = "fetched" /\ request'[q].got = 1)
    BY <1>1, <1>3 DEF FirstInv
  <2>1. ASSUME floor = 1, got <= 0 PROVE Unsent'
    <3>1. ~Refreshing(r) /\ got = Failed
      BY <1>2, <1>5, <2>1
    <3>2. auth.latest <= 0
      <4>1. ~Held
        BY <1>1, <1>2, <1>4, <3>1 DEF RequestInv, Reason
      <4> QED
        BY <1>1, <1>2, <4>1 DEF Held, AuthInv
    <3>3. Unsent
      BY <1>1, <2>1, <3>2 DEF FirstInv
    <3>4. request'[r].sent = 0
      BY <1>8, <3>1
    <3> QED
      BY <1>8, <3>3, <3>4 DEF Unsent, Apart, Nothing
  <2>2. ASSUME NEW q \in Requests PROVE request'[q].at # "fetched"
    <3>1. CASE q = r
      BY <1>8, <3>1
    <3>2. CASE q # r
      BY <1>1, <1>8, <3>2, OneHolds DEF Apart, Holds
    <3> QED
      BY <3>1, <3>2
  <2> QED
    BY <2>1, <2>2
<1> QED
  BY <1>9, <1>10, <1>11, <1>12, <1>13, <1>14 DEF TokenInv

LEMMA RefreshKeeps == ASSUME TokenInv, NEW r \in Requests, Refresh(r) PROVE TokenInv'
<1>1. /\ TokenType /\ LockInv /\ RequestInv(r) /\ AgainInv(r)
      /\ UNCHANGED <<auth, line, source, floor, failures>> /\ failures' \in Nat
      /\ auth.kind = "token" /\ request[r].at = "refused" /\ auth.fetches \in Nat
      /\ request[r].sent \in Nat /\ floor \in Nat /\ auth.latest \in Int
  BY TokenNumbers DEF TokenInv, Refresh, TokenType
<1>2. Refreshing(r) /\ request[r].sent >= 1 /\ request[r].sent < floor
  BY <1>1 DEF Refreshing, RequestInv
<1>3. CASE auth.latest # request[r].sent
  <2>1. Cheap => auth.latest # 1
    BY <1>1, <1>2, <1>3 DEF Cheap
  <2> QED
    BY <1>1, <1>2, <1>3, <2>1, AgainKeeps DEF Refresh
<1>4. CASE auth.latest = request[r].sent
  <2>1. /\ request' \in [Requests -> Requested] /\ Apart(r) /\ request'[r].at = "join"
        /\ request'[r].for = "refresh" /\ request'[r].seen = auth.fetches
        /\ request'[r].sent = request[r].sent /\ request'[r].again = request[r].again
    BY <1>1, <1>4, AsksIs DEF Refresh
  <2>2. RequestInv(r)' /\ WaitInv(r)'
    BY <1>1, <1>2, <1>4, <2>1 DEF RequestInv, WaitInv, Refreshing, Waits, Holds, Reason
  <2>3. AgainInv(r)'
    BY <1>1, <2>1 DEF AgainInv, Cheap
  <2>4. LockInv' /\ line' \in Seq(Requests)
    BY <1>1, <2>1, LineKeeps
  <2>5. FirstInv'
    BY <1>1, <2>1, FirstStays DEF Unsent
  <2> QED
    BY <1>1, <2>1, <2>2, <2>3, <2>4, <2>5, StepKeeps
<1> QED
  BY <1>3, <1>4

LEMMA LockSecretKeeps == ASSUME TokenInv, NEW r \in Requests, LockSecret(r) PROVE TokenInv'
<1>1. /\ TokenType /\ LockInv /\ RequestInv(r) /\ AgainInv(r)
      /\ UNCHANGED <<auth, source, floor, failures>> /\ failures' \in Nat
      /\ auth.kind = "static" /\ request[r].at = "refused" /\ "line" \in Places
  BY DEF TokenInv, LockSecret, TokenType, Places
<1>2. /\ request' \in [Requests -> Requested] /\ Apart(r) /\ request'[r].at = "line"
      /\ request'[r].sent = request[r].sent /\ request'[r].again = request[r].again
  BY <1>1, ToIs DEF LockSecret
<1>3. RequestInv(r)' /\ WaitInv(r)'
  BY <1>1, <1>2 DEF RequestInv, WaitInv, Refreshing, Holds
<1>4. AgainInv(r)'
  BY <1>1, <1>2 DEF AgainInv, Cheap
<1>5. LockInv' /\ line' \in Seq(Requests)
  BY <1>1, <1>2, LockJoined DEF LockSecret, Holds
<1>6. FirstInv'
  BY <1>1, <1>2, FirstStays
<1> QED
  BY <1>1, <1>2, <1>3, <1>4, <1>5, <1>6, StepKeeps

LEMMA ReadSecretKeeps == ASSUME TokenInv, NEW r \in Requests, ReadSecret(r) PROVE TokenInv'
<1>1. /\ RequestInv(r) /\ UNCHANGED <<auth, source, floor, failures>>
      /\ auth.kind = "static" /\ request[r].at = "line" /\ Turn(r)
      /\ request[r].sent \in Nat /\ floor \in Nat /\ auth.latest \in Int
  BY TokenNumbers DEF TokenInv, ReadSecret, Turn
<1>2. Refreshing(r) /\ request[r].sent >= 1 /\ request[r].sent < floor
  BY <1>1 DEF Refreshing, RequestInv, Waits
<1>3. CASE auth.latest # request[r].sent
  <2>1. Cheap => auth.latest # 1
    BY <1>1, <1>2, <1>3 DEF Cheap
  <2> QED
    BY <1>1, <1>2, <1>3, <2>1, AgainKeeps DEF ReadSecret
<1>4. CASE auth.latest = request[r].sent
  BY <1>1, <1>4, OnKeeps DEF ReadSecret
<1> QED
  BY <1>3, <1>4

\* What is read of a secret that was revoked once is its successor, or not to be had.
LEMMA KeepSecretKeeps == ASSUME TokenInv, NEW r \in Requests, KeepSecret(r) PROVE TokenInv'
<1> DEFINE got == request[r].got
<1>1. /\ TokenType /\ AuthInv /\ LockInv /\ RequestInv(r) /\ Holds(r) /\ failures' \in Nat
      /\ \A q \in Requests : RequestInv(q) /\ WaitInv(q) /\ AgainInv(q)
      /\ auth.kind = "static" /\ request[r].at = "fetched" /\ Leave(r)
      /\ UNCHANGED <<source, floor, failures>>
  BY DEF TokenInv, KeepSecret, Holds, TokenType
<1>2. /\ got \in Int /\ (got # Failed => got >= 2)
      /\ request[r].sent \in Nat /\ floor \in Nat /\ auth.latest \in Int
      /\ request[r].sent >= 1 /\ request[r].sent < floor /\ auth.latest = request[r].sent
      /\ Refreshing(r)
  <2>1. Refreshing(r)
    BY <1>1 DEF Refreshing
  <2> QED
    BY <1>1, <2>1, TokenNumbers DEF RequestInv
<1> HIDE DEF got
<1>3. CASE got = Failed
  <2>1. got # auth.latest
    BY <1>1, <1>3 DEF AuthInv, Failed
  <2>2. Ends(r, "credentials") /\ UNCHANGED auth
    BY <1>3, <2>1 DEF KeepSecret, got
  <2> QED
    BY <1>1, <2>2, OverKeeps DEF Over
<1>4. CASE got # Failed /\ got = auth.latest
  <2>1. ~Cheap
    BY <1>2, <1>4 DEF Cheap
  <2>2. Ends(r, "unauthorized") /\ UNCHANGED auth
    BY <1>4 DEF KeepSecret, got
  <2> QED
    BY <1>1, <2>1, <2>2, OverKeeps DEF Over
<1>5. CASE got # Failed /\ got # auth.latest
  <2>1. auth' = [auth EXCEPT !.latest = got] /\ Again(r)
    BY <1>5 DEF KeepSecret, got
  <2>2. /\ request' \in [Requests -> Requested] /\ Apart(r) /\ request'[r].at = "apply"
        /\ request'[r].sent = request[r].sent /\ request'[r].again = TRUE
    BY <1>1, <2>1, AgainIs
  <2>3. /\ auth'.kind = "static" /\ auth'.latest = got /\ auth'.expires = auth.expires
        /\ auth'.due = auth.due /\ got \in Nat
        /\ auth' \in [kind : {"token", "static"}, latest : Nat \cup {Failed}, expires : BOOLEAN,
                      due : BOOLEAN, fetches : Nat]
    BY <1>1, <1>2, <1>5, <2>1 DEF TokenType
  <2>4. line' \in Seq(Requests) /\ LockInv'
    BY <1>1, <2>2, LineKeeps
  <2>5. TokenType' /\ AuthInv' /\ FirstInv'
    BY <1>1, <1>2, <1>5, <2>2, <2>3, <2>4 DEF TokenType, AuthInv, FirstInv
  <2>6. ASSUME NEW q \in Requests PROVE RequestInv(q)' /\ WaitInv(q)' /\ AgainInv(q)'
    <3>1. CASE q = r
      BY <1>1, <1>2, <1>5, <2>2, <2>3, <3>1 DEF RequestInv, WaitInv, AgainInv, Refreshing, Waits, Holds
    <3>2. CASE q # r
      <4>1. /\ RequestInv(q) /\ AgainInv(q) /\ request'[q] = request[q] /\ ~Holds(q)
        BY <1>1, <2>2, <3>2, OneHolds DEF Apart
      <4>2. RequestInv(q)' /\ WaitInv(q)'
        BY <1>1, <2>3, <4>1 DEF RequestInv, WaitInv, Refreshing, Waits, Holds
      <4>3. AgainInv(q)'
        BY <1>1, <1>2, <1>5, <2>3, <4>1 DEF AgainInv, Cheap
      <4> QED
        BY <4>2, <4>3
    <3> QED
      BY <3>1, <3>2
  <2> QED
    BY <2>4, <2>5, <2>6 DEF TokenInv
<1> QED
  BY <1>3, <1>4, <1>5

LEMMA DroppedKeeps == ASSUME TokenInv, NEW r \in Requests, Dropped(r) PROVE TokenInv'
<1>1. /\ UNCHANGED <<auth, source, floor>> /\ failures' \in Nat
      /\ Ends(r, "dropped") /\ Leave(r)
  BY DEF TokenInv, TokenType, Dropped
<1> QED
  BY <1>1, OverKeeps DEF Over

LEMMA TokenKept == ASSUME TokenInv, TokenNext PROVE TokenInv'
<1>1. ASSUME NEW r \in Requests, RequestStep(r) PROVE TokenInv'
  BY <1>1, ApplyKeeps, JoinKeeps, LatestKeeps, StartKeeps, ReachedKeeps, FetchEndsKeeps, PostKeeps,
     AnsweredKeeps, RefusedKeeps, RefreshKeeps, LockSecretKeeps, ReadSecretKeeps, KeepSecretKeeps
     DEF RequestStep, FetchAnswered, SecretRead
<1> QED
  BY <1>1, IssueKeeps, RevokeKeeps, DueKeeps, DroppedKeeps DEF TokenNext

LEMMA TokenStays == ASSUME TokenInv, UNCHANGED tokenVars PROVE TokenInv'
<1>1. TokenType' /\ AuthInv' /\ LockInv' /\ FirstInv'
  BY DEF tokenVars, TokenInv, TokenType, AuthInv, LockInv, InLine, FirstIs, Holds, FirstInv, Unsent
<1>2. ASSUME NEW r \in Requests PROVE RequestInv(r)' /\ WaitInv(r)' /\ AgainInv(r)'
  <2>1. RequestInv(r) /\ WaitInv(r) /\ AgainInv(r) /\ UNCHANGED <<auth, request, floor>>
    BY DEF TokenInv, tokenVars
  <2>2. RequestInv(r)'
    BY <2>1 DEF RequestInv, Refreshing, Waits, Holds, Reason, Held
  <2>3. WaitInv(r)' /\ AgainInv(r)'
    BY <2>1 DEF WaitInv, Cheap, Waits, Reason, Held, AgainInv
  <2> QED
    BY <2>2, <2>3
<1> QED
  BY <1>1, <1>2 DEF TokenInv

LEMMA TokenBegins == TokenInit => TokenInv
<1> SUFFICES ASSUME TokenInit PROVE TokenInv
  OBVIOUS
<1> DEFINE blank == Blank("apply")
<1>1. /\ blank \in Requested /\ blank.at = "apply" /\ blank.sent = 0 /\ blank.again = FALSE
  BY DEF Blank, Requested, Places, Nothing
<1>2. request = [r \in Requests |-> blank]
  BY DEF TokenInit
<1> HIDE DEF blank
<1>3. request \in [Requests -> Requested] /\ \A r \in Requests : request[r] = blank
  BY <1>1, <1>2
<1>4. /\ auth \in [kind : {"token", "static"}, latest : Nat \cup {Failed}, expires : BOOLEAN,
                   due : BOOLEAN, fetches : Nat]
      /\ auth.kind = "static" => auth.latest >= 1 /\ ~auth.expires
      /\ ~auth.due
  <2>1. ASSUME NEW expires \in BOOLEAN, auth = Kept("token", Nothing, expires)
        PROVE  /\ auth \in [kind : {"token", "static"}, latest : Nat \cup {Failed}, expires : BOOLEAN,
                            due : BOOLEAN, fetches : Nat]
               /\ auth.kind # "static" /\ ~auth.due
    BY <2>1 DEF Kept, Nothing
  <2>2. ASSUME auth = Kept("static", 1, FALSE)
        PROVE  /\ auth \in [kind : {"token", "static"}, latest : Nat \cup {Failed}, expires : BOOLEAN,
                            due : BOOLEAN, fetches : Nat]
               /\ auth.latest >= 1 /\ ~auth.expires /\ ~auth.due
    BY <2>2 DEF Kept
  <2> QED
    BY <2>1, <2>2, Zenon DEF TokenInit
<1>5. TokenType /\ AuthInv
  BY <1>3, <1>4 DEF TokenInit, TokenType, AuthInv
<1>6. LockInv /\ FirstInv
  BY <1>1, <1>3 DEF LockInv, Holds, FirstInv, Unsent, Nothing
<1>7. \A r \in Requests : RequestInv(r) /\ WaitInv(r) /\ AgainInv(r)
  BY <1>1, <1>3 DEF RequestInv, WaitInv, AgainInv, Refreshing, Waits, Holds
<1> QED
  BY <1>5, <1>6, <1>7 DEF TokenInv

\* A step of a request is of no other; and who fetches, or reads the secret, took the
\* step to do so.
LEMMA StepApart ==
  ASSUME TokenType, NEW r \in Requests, RequestStep(r) \/ Dropped(r)
  PROVE  Apart(r)
<1>1. request \in [Requests -> Requested]
  BY DEF TokenType
<1>2. ASSUME NEW x, \/ To(r, x) \/ Ends(r, x) \/ Asks(r, x) \/ Gets(r, x) \/ Sends(r, x) \/ Again(r)
      PROVE  Apart(r)
  <2>1. \E new : request' = [request EXCEPT ![r] = new]
    BY <1>2 DEF To, Ends, Asks, Gets, Sends, Again
  <2> QED
    BY <1>1, <2>1 DEF Apart
<1>3. ASSUME NEW got, Take(r, got) PROVE Apart(r)
  <2>1. request[r].for \in {"apply", "refresh"}
    BY TokenNumbers
  <2> QED
    BY <1>2, <1>3, <2>1 DEF Take
<1>4. CASE Apply(r) \/ Join(r) \/ TakeLatest(r) \/ StartFetch(r) \/ FetchAnswered(r) \/ FetchEnds(r)
  BY <1>2, <1>3, <1>4 DEF Apply, Join, TakeLatest, StartFetch, FetchAnswered, Reached, FetchEnds
<1>5. CASE Post(r) \/ Answered(r) \/ Refused(r) \/ Refresh(r) \/ LockSecret(r)
  BY <1>2, <1>5 DEF Post, Answered, Refused, Refresh, LockSecret
<1>6. CASE ReadSecret(r) \/ SecretRead(r) \/ KeepSecret(r) \/ Dropped(r)
  BY <1>2, <1>6 DEF ReadSecret, SecretRead, Reached, KeepSecret, Dropped
<1> QED
  BY <1>4, <1>5, <1>6 DEF RequestStep

LEMMA WhoFetches ==
  ASSUME TokenInv, TokenNext, NEW r \in Requests, request[r].at = "line",
         request'[r].at \in {"fetch", "read"}
  PROVE  StartFetch(r) \/ (ReadSecret(r) /\ auth.latest = request[r].sent)
<1>1. TokenType
  BY DEF TokenInv
<1>2. PICK q \in Requests : RequestStep(q) \/ Dropped(q)
  BY DEF TokenNext, Issue, Revoke, ComesDue
<1>3. q = r
  BY <1>1, <1>2, StepApart DEF Apart
<1>4. ASSUME Take(r, auth.latest) PROVE FALSE
  <2>1. CASE Ends(r, "credentials") \/ Ends(r, "unauthorized")
    BY <1>1, <2>1, EndsIs DEF Places
  <2>2. CASE Sends(r, auth.latest) /\ auth.latest # Failed
    <3>1. auth.latest \in Nat
      BY <1>1, <2>2 DEF TokenType
    <3> QED
      BY <1>1, <2>2, <3>1, SendsIs
  <2>3. CASE Again(r)
    BY <1>1, <2>3, AgainIs
  <2> QED
    BY <1>1, <1>4, <2>1, <2>2, <2>3, TokenNumbers DEF Take
<1>5. ~Dropped(r)
  BY <1>1, EndsIs DEF Dropped, Places
<1>6. TakeLatest(r) \/ StartFetch(r) \/ ReadSecret(r)
  BY <1>2, <1>3, <1>5 DEF RequestStep, Apply, Join, FetchAnswered, SecretRead, Reached, FetchEnds, Post,
     Answered, Refused, Refresh, LockSecret, KeepSecret
<1>7. CASE ReadSecret(r) /\ auth.latest # request[r].sent
  <2>1. Again(r)
    BY <1>7 DEF ReadSecret
  <2> QED
    BY <1>1, <2>1, AgainIs
<1> QED
  BY <1>4, <1>6, <1>7 DEF TakeLatest

-----------------------------------------------------------------------------
(***************************************************************************)
(* What is handed up is in order. The parts are apart: a step of one is    *)
(* none of the others.                                                     *)
(***************************************************************************)

\* What a server says comes up once and in its order, on an event stream that breaks
\* and is asked for again (legacy_sse_loop) as on the pipes of a child, which fill
\* (StdioChild).
THEOREM LinksInOrder == Spec => []MessagesInOrder
<1>1. Init => StreamInv /\ PipeInv
  BY StreamBegins, PipesBegin DEF Init
<1>2. StreamInv /\ PipeInv /\ [Next]_vars => (StreamInv /\ PipeInv)'
  <2> SUFFICES ASSUME StreamInv, PipeInv, [Next]_vars PROVE StreamInv' /\ PipeInv'
    OBVIOUS
  <2>1. CASE StreamNext /\ UNCHANGED pipeVars
    BY <2>1, StreamKept, PipesStay
  <2>2. CASE PipeNext /\ UNCHANGED streamVars
    BY <2>2, PipesKept, StreamStays
  <2>3. CASE UNCHANGED <<streamVars, pipeVars>>
    BY <2>3, StreamStays, PipesStay
  <2> QED
    BY <2>1, <2>2, <2>3 DEF Next, vars
<1>3. StreamInv /\ PipeInv => MessagesInOrder
  BY DEF StreamInv, ReaderInv, PipeInv, MessagesInOrder
<1> QED
  BY <1>1, <1>2, <1>3, PTL DEF Spec

\* Requests that need a token while one is fetched wait for it and take what it gave
\* (fetch_after, StaticAuth::refresh); and credentials revoked once cost no request,
\* when their successors can be had (send_authorized).
THEOREM FetchesNeeded == Spec => FetchesAreNeeded
<1>1. Init => TokenInv
  BY TokenBegins DEF Init
<1>2. TokenInv /\ [Next]_vars => TokenInv'
  BY TokenKept, TokenStays DEF Next, vars
<1>3. TokenInv => RevokedOnceCostsNothing
  BY DEF TokenInv, AgainInv, Cheap, RevokedOnceCostsNothing
<1>4. TokenInv /\ [Next]_vars =>
        [\A r \in Requests :
           request[r].at = "line" /\ request'[r].at \in {"fetch", "read"} =>
               ~Held \/ auth.latest = request[r].sent]_tokenVars
  <2> SUFFICES ASSUME TokenInv, TokenNext, NEW r \in Requests,
                      request[r].at = "line", request'[r].at \in {"fetch", "read"}
               PROVE  ~Held \/ auth.latest = request[r].sent
    BY DEF Next, vars, tokenVars
  <2> QED
    BY WhoFetches, StartHasReason DEF Reason
<1> QED
  BY <1>1, <1>2, <1>3, <1>4, PTL DEF Spec, FetchesAreNeeded, FetchesAreUsed

\* A server gets one `initialize`, of the probe, the handshake and the choice of a
\* binding, and is opened in an era it speaks (probe_opening, HttpClient::send); and
\* its list is what it lists, or word of a change is read or to come (list_tools).
THEOREM OpeningsSound == Spec => []OpeningsHold
<1>1. Init => OpeningInv
  BY OpeningBegins DEF Init
<1>2. OpeningInv /\ [Next]_vars => OpeningInv'
  BY OpeningKept, OpeningStays DEF Next, vars
<1> QED
  BY <1>1, <1>2, OpeningIsSound, PTL DEF Spec

-----------------------------------------------------------------------------
(***************************************************************************)
(* Where a client dials (UpstreamDial), whatever it is asked for, whatever *)
(* a name resolves to each time, and whatever is in the addresses: a visit *)
(* is a URL the client is asked for and what its name resolves to then.    *)
(***************************************************************************)
CONSTANTS Bundled, System, MAX_BYTES, Ips
Dial == INSTANCE UpstreamDial

Hosts == [name : STRING, ip : Ips]
Urls == {url \in [reads : BOOLEAN, scheme : STRING, host : SUBSET Hosts] : \A a, b \in url.host : a = b}
Policies == [allowPrivate : BOOLEAN, httpsForPublic : BOOLEAN]
ConnectTo == {ips \in SUBSET Ips : \A a, b \in ips : a = b}
Visits == [url : Urls, resolved : SUBSET Ips]
Clients == [origin : Urls, policy : Policies, connectTo : ConnectTo, pins : SUBSET (Hosts \X SUBSET Ips)]

\* The client of each visit, one after another from a new one's.
FollowsVisits(client, visits, origin, policy, connectTo) ==
    /\ client[0] = Dial!NewClient(origin, policy, connectTo)
    /\ \A n \in Nat :
          client[n + 1] = Dial!GuardAndPin(client[n], visits[n].url, visits[n].resolved).client

Passed(client, visit) == Dial!GuardAndPin(client, visit.url, visit.resolved).ok

Checked(ips, policy) == ips # {} /\ \A ip \in ips : Dial!CheckIp(ip, policy) # "refused"

\* What is pinned to a name is what it may go to.
PinsGood(client) ==
    \A pin \in client.pins :
        /\ pin[1].name # "" /\ Checked(pin[2], client.policy)
        /\ client.connectTo # {} /\ client.origin.reads /\ client.origin.host = {pin[1]} =>
              pin[2] = client.connectTo

\* A client as it was new but for its pins, each of a host of a visit before the n-th.
Grown(client, n, visits, origin, policy, connectTo) ==
    /\ client \in Clients /\ PinsGood(client)
    /\ client.origin = origin /\ client.policy = policy /\ client.connectTo = connectTo
    /\ \A pin \in client.pins : \E m \in 0 .. n - 1 : visits[m].url.host = {pin[1]}

LEMMA HostIsOne ==
  ASSUME NEW url \in Urls, url.host # {}
  PROVE  Dial!Host(url) \in Hosts /\ url.host = {Dial!Host(url)} /\ Dial!Host(url).name \in STRING
<1>1. url.host \in SUBSET Hosts /\ \A a, b \in url.host : a = b
  BY DEF Urls
<1>2. Dial!Host(url) \in url.host
  BY DEF Dial!Host, Dial!TheOne
<1> QED BY <1>1, <1>2 DEF Hosts

\* What guard_and_pin takes: of the client's own host the address it is set to, of
\* another every one of its addresses.
LEMMA TakenIsChecked ==
  ASSUME NEW client \in Clients, NEW visit \in Visits, Passed(client, visit),
         NEW valid, valid = (IF client.connectTo # {} /\ Dial!SameHost(visit.url, client.origin)
                             THEN Dial!ValidateAt(visit.url, Dial!TheOne(client.connectTo), client.policy)
                             ELSE Dial!Validate(visit.url, client.policy, visit.resolved))
  PROVE  /\ valid.ok /\ visit.url.reads /\ visit.url.host # {} /\ valid.host = Dial!Host(visit.url)
         /\ valid.addrs \in SUBSET Ips /\ Checked(valid.addrs, client.policy)
         /\ ~Dial!InClear(visit.url, valid.addrs, client.policy)
         /\ ~Dial!IsDomain(visit.url) => valid.addrs = {Dial!Host(visit.url).ip}
         /\ client.connectTo # {} /\ Dial!SameHost(visit.url, client.origin) =>
               Dial!IsDomain(visit.url) /\ valid.addrs = client.connectTo
<1> DEFINE url == visit.url
<1>1. url \in Urls /\ visit.resolved \in SUBSET Ips /\ client.connectTo \in ConnectTo
  BY DEF Visits, Clients
<1>2. valid.ok
  BY DEF Passed, Dial!GuardAndPin, Dial!Guarded
<1>3. CASE client.connectTo # {} /\ Dial!SameHost(url, client.origin)
  <2>1. valid = Dial!ValidateAt(url, Dial!TheOne(client.connectTo), client.policy)
    BY <1>3
  <2>2. PICK ip \in Ips : client.connectTo = {ip}
    BY <1>1, <1>3 DEF ConnectTo
  <2>3. Dial!TheOne(client.connectTo) = ip
    BY <2>2 DEF Dial!TheOne
  <2>4. /\ Dial!Target(url) /\ Dial!IsDomain(url) /\ Dial!CheckIp(ip, client.policy) # "refused"
        /\ ~Dial!InClear(url, {ip}, client.policy)
        /\ valid = [ok |-> TRUE, host |-> Dial!Host(url), addrs |-> {ip}]
    <3> DEFINE taken == /\ Dial!Target(url) /\ Dial!IsDomain(url) /\ Dial!CheckIp(ip, client.policy) # "refused"
                        /\ ~Dial!InClear(url, {ip}, client.policy)
               made == [ok |-> TRUE, host |-> Dial!Host(url), addrs |-> {ip}]
    <3>1. valid = IF taken THEN made ELSE Dial!NotOk
      BY <2>1, <2>3 DEF Dial!ValidateAt
    <3> HIDE DEF taken, made
    <3>2. taken
      BY <1>2, <3>1 DEF Dial!NotOk
    <3>3. valid = made
      BY <3>1, <3>2
    <3> QED BY <3>2, <3>3 DEF taken, made
  <2> QED BY <2>2, <2>4 DEF Dial!Target, Checked
<1>4. CASE ~(client.connectTo # {} /\ Dial!SameHost(url, client.origin))
  <2>1. valid = Dial!Validate(url, client.policy, visit.resolved)
    BY <1>4
  <2> DEFINE ips == IF Dial!IsDomain(url) THEN visit.resolved ELSE {Dial!Host(url).ip}
  <2>2. /\ Dial!Target(url) /\ ips # {} /\ (\A ip \in ips : Dial!CheckIp(ip, client.policy) # "refused")
        /\ ~Dial!InClear(url, ips, client.policy)
        /\ valid = [ok |-> TRUE, host |-> Dial!Host(url), addrs |-> ips]
    <3> DEFINE taken == /\ Dial!Target(url) /\ ips # {} /\ (\A ip \in ips : Dial!CheckIp(ip, client.policy) # "refused")
                        /\ ~Dial!InClear(url, ips, client.policy)
               made == [ok |-> TRUE, host |-> Dial!Host(url), addrs |-> ips]
    <3>1. valid = IF taken THEN made ELSE Dial!NotOk
      BY <2>1 DEF Dial!Validate
    <3> HIDE DEF taken, made
    <3>2. taken
      BY <1>2, <3>1 DEF Dial!NotOk
    <3>3. valid = made
      BY <3>1, <3>2
    <3> QED BY <3>2, <3>3 DEF taken, made
  <2>3. Dial!Host(url) \in Hosts
    BY <1>1, <2>2, HostIsOne DEF Dial!Target
  <2>4. ips \in SUBSET Ips
    BY <1>1, <2>3 DEF Hosts
  <2> QED BY <1>4, <2>2, <2>4, SMTT(30) DEF Dial!Target, Checked
<1> QED BY <1>3, <1>4

\* A visit, and what of the next is kept.
LEMMA VisitKeeps ==
  ASSUME NEW n \in Nat, NEW visits \in [Nat -> Visits], NEW client, NEW origin, NEW policy, NEW connectTo,
         Grown(client, n, visits, origin, policy, connectTo)
  PROVE  Grown(Dial!GuardAndPin(client, visits[n].url, visits[n].resolved).client, n + 1, visits, origin, policy, connectTo)
<1> DEFINE url == visits[n].url
           valid == IF client.connectTo # {} /\ Dial!SameHost(url, client.origin)
                    THEN Dial!ValidateAt(url, Dial!TheOne(client.connectTo), client.policy)
                    ELSE Dial!Validate(url, client.policy, visits[n].resolved)
           to == Dial!GuardAndPin(client, url, visits[n].resolved)
           pin == <<valid.host, valid.addrs>>
<1>1. /\ client \in Clients /\ PinsGood(client)
      /\ client.origin = origin /\ client.policy = policy /\ client.connectTo = connectTo
      /\ \A p \in client.pins : \E m \in 0 .. n - 1 : visits[m].url.host = {p[1]}
      /\ visits[n] \in Visits /\ url \in Urls
  BY DEF Grown, Visits
<1>2. to.ok = valid.ok /\
      to.client = IF ~valid.ok \/ valid.host.name = "" \/ (\E p \in client.pins : p[1] = valid.host) THEN client
                  ELSE [client EXCEPT !.pins = @ \cup {pin}]
  BY DEF Dial!GuardAndPin, Dial!Guarded
<1>3. ASSUME to.client = client PROVE Grown(to.client, n + 1, visits, origin, policy, connectTo)
  <2> HIDE DEF to
  <2>1. \A p \in client.pins : \E m \in 0 .. (n + 1) - 1 : visits[m].url.host = {p[1]}
    BY <1>1
  <2> QED BY <1>1, <1>3, <2>1 DEF Grown
<1>4. ASSUME to.client # client PROVE Grown(to.client, n + 1, visits, origin, policy, connectTo)
  <2>1. valid.ok /\ valid.host.name # "" /\ to.client = [client EXCEPT !.pins = @ \cup {pin}]
    BY <1>2, <1>4
  <2>2. Passed(client, visits[n])
    BY <1>2, <2>1 DEF Passed
  <2>3. /\ valid.host = Dial!Host(url) /\ url.reads /\ url.host # {}
        /\ valid.addrs \in SUBSET Ips /\ Checked(valid.addrs, client.policy)
        /\ client.connectTo # {} /\ Dial!SameHost(url, client.origin) => valid.addrs = client.connectTo
    <3> HIDE DEF valid
    <3> QED BY <1>1, <2>2, TakenIsChecked DEF valid
  <2>4. valid.host \in Hosts /\ url.host = {valid.host}
    BY <1>1, <2>3, HostIsOne
  <2> HIDE DEF to
  <2>5. PICK host \in Hosts, addrs \in SUBSET Ips : host = valid.host /\ addrs = valid.addrs
    BY <2>3, <2>4
  <2> DEFINE made == <<host, addrs>>
  <2>6. made \in Hosts \X SUBSET Ips /\ made[1] = host /\ made[2] = addrs /\ pin = made
    BY <2>5
  <2> HIDE DEF valid, made
  <2>7. to.client \in Clients /\ to.client.pins = client.pins \cup {made}
        /\ to.client.origin = origin /\ to.client.policy = policy /\ to.client.connectTo = connectTo
    <3> DEFINE pins == client.pins \cup {made}
    <3>1. client.pins \in SUBSET (Hosts \X SUBSET Ips)
      BY <1>1 DEF Clients
    <3>2. pins \in SUBSET (Hosts \X SUBSET Ips)
      BY <2>6, <3>1
    <3>3. to.client = [client EXCEPT !.pins = pins]
      BY <2>1, <2>6
    <3> HIDE DEF pins
    <3>4. to.client \in Clients /\ to.client.pins = pins
          /\ to.client.origin = origin /\ to.client.policy = policy /\ to.client.connectTo = connectTo
      BY <1>1, <3>2, <3>3 DEF Clients
    <3> QED BY <3>4 DEF pins
  <2>8. client.connectTo # {} /\ client.origin.reads /\ client.origin.host = {host} => addrs = client.connectTo
    <3>1. client.origin.reads /\ client.origin.host = {host} => Dial!SameHost(url, client.origin)
      BY <2>3, <2>4, <2>5 DEF Dial!SameHost
    <3> QED BY <2>3, <2>5, <3>1
  <2>9. host.name # "" /\ Checked(addrs, client.policy)
    BY <2>1, <2>3, <2>5
  <2>10. PinsGood(to.client)
    <3> SUFFICES ASSUME NEW p \in to.client.pins
                 PROVE  /\ p[1].name # "" /\ Checked(p[2], policy)
                        /\ connectTo # {} /\ origin.reads /\ origin.host = {p[1]} => p[2] = connectTo
      BY <2>7 DEF PinsGood
    <3>1. CASE p \in client.pins
      BY <1>1, <3>1 DEF PinsGood
    <3>2. CASE p = made
      BY <1>1, <2>6, <2>8, <2>9, <3>2
    <3> QED BY <2>7, <3>1, <3>2
  <2>11. \A p \in to.client.pins : \E m \in 0 .. (n + 1) - 1 : visits[m].url.host = {p[1]}
    BY <1>1, <2>4, <2>5, <2>6, <2>7
  <2> QED BY <2>7, <2>10, <2>11, SMTT(30) DEF Grown
<1> HIDE DEF to
<1> QED BY <1>3, <1>4 DEF to

\* A set of numbers has a least one.
LEMMA Least ==
  ASSUME NEW T \in SUBSET Nat, T # {}
  PROVE  \E m \in T : \A j \in T : m <= j
<1> DEFINE before == {ss \in Nat \X Nat : ss[1] < ss[2]}
<1>1. IsWellFoundedOn(before, Nat)
  BY NatLessThanWellFounded DEF OpToRel
<1>2. PICK m \in T : \A j \in T : ~(<<j, m>> \in before)
  <2> HIDE DEF before
  <2> QED BY <1>1, WFMin
<1>3. ASSUME NEW j \in T PROVE m <= j
  <2>1. m \in Nat /\ j \in Nat
    OBVIOUS
  <2>2. ASSUME j < m PROVE <<j, m>> \in before
    <3>1. <<j, m>>[1] = j /\ <<j, m>>[2] = m /\ <<j, m>> \in Nat \X Nat
      BY <2>1
    <3> QED BY <2>2, <3>1
  <2>3. ~(j < m)
    <3> HIDE DEF before
    <3> QED BY <1>2, <2>2
  <2> QED BY <2>1, <2>3
<1> QED BY <1>3

LEMMA ClientsGrow ==
  ASSUME NEW visits \in [Nat -> Visits], NEW origin \in Urls, NEW policy \in Policies, NEW connectTo \in ConnectTo,
         NEW client, FollowsVisits(client, visits, origin, policy, connectTo)
  PROVE  \A n \in Nat : Grown(client[n], n, visits, origin, policy, connectTo)
<1> DEFINE wrong == {n \in Nat : ~Grown(client[n], n, visits, origin, policy, connectTo)}
<1>1. SUFFICES ASSUME wrong # {} PROVE FALSE
  OBVIOUS
<1>2. PICK n \in wrong : \A j \in wrong : n <= j
  <2>1. wrong \in SUBSET Nat /\ wrong # {}
    BY <1>1
  <2> HIDE DEF wrong
  <2> QED BY <2>1, Least
<1>3. n \in Nat /\ ~Grown(client[n], n, visits, origin, policy, connectTo)
  BY <1>2
<1>4. CASE n = 0
  <2>1. client[0] = [origin |-> origin, policy |-> policy, connectTo |-> connectTo, pins |-> {}]
    BY DEF FollowsVisits, Dial!NewClient
  <2>2. client[0] \in Clients /\ client[0].pins = {}
        /\ client[0].origin = origin /\ client[0].policy = policy /\ client[0].connectTo = connectTo
    BY <2>1 DEF Clients
  <2> HIDE DEF wrong
  <2>3. Grown(client[0], 0, visits, origin, policy, connectTo)
    BY <2>2 DEF Grown, PinsGood
  <2> QED BY <1>3, <1>4, <2>3
<1>5. CASE n # 0
  <2>1. n - 1 \in Nat /\ n = (n - 1) + 1 /\ n - 1 \notin wrong
    BY <1>2, <1>3, <1>5
  <2>2. Grown(client[n - 1], n - 1, visits, origin, policy, connectTo)
    BY <2>1
  <2>3. Grown(client[(n - 1) + 1], (n - 1) + 1, visits, origin, policy, connectTo)
    BY <2>1, <2>2, VisitKeeps DEF FollowsVisits
  <2> QED BY <1>3, <2>1, <2>3
<1> QED BY <1>4, <1>5

\* HttpClient::guard_and_pin and build_client: whatever URLs a client was asked for
\* before, and whatever their names resolve to now or by the time it connects, a URL it
\* lets pass is dialled at addresses that pass the policy, its own host at the address
\* it is set to; and the first it lets pass of a host is not asked for in the clear at
\* a public address, where the policy wants https.
THEOREM DialledIsChecked ==
  ASSUME NEW visits \in [Nat -> Visits], NEW origin \in Urls, NEW policy \in Policies, NEW connectTo \in ConnectTo,
         NEW client, FollowsVisits(client, visits, origin, policy, connectTo),
         NEW n \in Nat, Passed(client[n], visits[n]), NEW later \in SUBSET Ips
  PROVE  LET url == visits[n].url  dialled == Dial!Dialled(client[n + 1], url, later)
         IN /\ Checked(dialled, policy)
            /\ connectTo # {} /\ Dial!SameHost(url, origin) => dialled = connectTo
            /\ (/\ \A m \in 0 .. n - 1 : visits[m].url.host # url.host
                /\ url.scheme = "http" /\ policy.httpsForPublic) =>
                   \A ip \in dialled : Dial!CheckIp(ip, policy) # "public"
<1> DEFINE now == client[n]
           url == visits[n].url
           valid == IF now.connectTo # {} /\ Dial!SameHost(url, now.origin)
                    THEN Dial!ValidateAt(url, Dial!TheOne(now.connectTo), now.policy)
                    ELSE Dial!Validate(url, now.policy, visits[n].resolved)
           next == client[n + 1]
           dialled == Dial!Dialled(next, url, later)
<1>1. Grown(now, n, visits, origin, policy, connectTo) /\ Grown(next, n + 1, visits, origin, policy, connectTo)
  BY ClientsGrow
<1>2. /\ now \in Clients /\ now.policy = policy /\ now.origin = origin /\ now.connectTo = connectTo
      /\ next \in Clients /\ next.policy = policy /\ next.origin = origin /\ next.connectTo = connectTo
      /\ PinsGood(next) /\ visits[n] \in Visits /\ url \in Urls
      /\ \A pin \in now.pins : \E m \in 0 .. n - 1 : visits[m].url.host = {pin[1]}
  BY <1>1 DEF Grown, Visits
<1>3. /\ valid.ok /\ url.reads /\ url.host # {} /\ valid.host = Dial!Host(url)
      /\ Checked(valid.addrs, policy) /\ ~Dial!InClear(url, valid.addrs, policy)
      /\ ~Dial!IsDomain(url) => valid.addrs = {Dial!Host(url).ip}
      /\ connectTo # {} /\ Dial!SameHost(url, origin) => Dial!IsDomain(url) /\ valid.addrs = connectTo
  <2> HIDE DEF valid
  <2> QED BY <1>2, TakenIsChecked, SMTT(40) DEF valid
<1>4. next = IF valid.host.name = "" \/ (\E p \in now.pins : p[1] = valid.host) THEN now
             ELSE [now EXCEPT !.pins = @ \cup {<<valid.host, valid.addrs>>}]
  <2>1. next = Dial!Guarded(now, valid).client
    BY DEF FollowsVisits, Dial!GuardAndPin
  <2> QED BY <1>3, <2>1 DEF Dial!Guarded
<1> HIDE DEF valid, now, next
<1> SUFFICES /\ Checked(dialled, policy)
             /\ connectTo # {} /\ Dial!SameHost(url, origin) => dialled = connectTo
             /\ (/\ \A m \in 0 .. n - 1 : visits[m].url.host # url.host
                 /\ url.scheme = "http" /\ policy.httpsForPublic) =>
                    \A ip \in dialled : Dial!CheckIp(ip, policy) # "public"
  BY DEF next
<1>5. url.host = {Dial!Host(url)} /\ Dial!Host(url).name \in STRING
  BY <1>2, <1>3, HostIsOne
<1>6. CASE ~Dial!IsDomain(url)
  <2>1. dialled = valid.addrs
    BY <1>3, <1>6 DEF Dial!Dialled
  <2> HIDE DEF dialled
  <2>2. (url.scheme = "http" /\ policy.httpsForPublic) => \A ip \in dialled : Dial!CheckIp(ip, policy) # "public"
    BY <1>3, <2>1 DEF Dial!InClear
  <2> QED BY <1>3, <1>6, <2>1, <2>2
<1>7. CASE Dial!IsDomain(url)
  <2>1. Dial!Host(url).name # ""
    BY <1>7 DEF Dial!IsDomain
  <2>2. \E pin \in next.pins : pin[1] = Dial!Host(url)
    <3>1. CASE \E p \in now.pins : p[1] = valid.host
      BY <1>3, <1>4, <3>1
    <3>2. CASE ~\E p \in now.pins : p[1] = valid.host
      <4>1. next.pins = now.pins \cup {<<valid.host, valid.addrs>>}
        BY <1>2, <1>3, <1>4, <2>1, <3>2 DEF Clients
      <4>2. <<valid.host, valid.addrs>>[1] = valid.host
        OBVIOUS
      <4> QED BY <1>3, <4>1, <4>2
    <3> QED BY <3>1, <3>2
  <2> DEFINE pinned == CHOOSE pin \in next.pins : pin[1] = Dial!Host(url)
  <2>3. pinned \in next.pins /\ pinned[1] = Dial!Host(url)
    BY <2>2
  <2>4. dialled = pinned[2]
    BY <1>7, <2>2 DEF Dial!Dialled
  <2> HIDE DEF pinned
  <2>5. Checked(dialled, policy)
    BY <1>2, <2>3, <2>4 DEF PinsGood
  <2>6. ASSUME connectTo # {}, Dial!SameHost(url, origin) PROVE dialled = connectTo
    <3>1. origin.reads /\ origin.host = {pinned[1]}
      BY <1>5, <2>3, <2>6 DEF Dial!SameHost
    <3> QED BY <1>2, <2>3, <2>4, <2>6, <3>1 DEF PinsGood
  <2>7. ASSUME \A m \in 0 .. n - 1 : visits[m].url.host # url.host, url.scheme = "http", policy.httpsForPublic
        PROVE  \A ip \in dialled : Dial!CheckIp(ip, policy) # "public"
    <3>1. ~\E p \in now.pins : p[1] = valid.host
      BY <1>2, <1>3, <1>5, <2>7
    <3>2. next.pins = now.pins \cup {<<valid.host, valid.addrs>>}
      BY <1>2, <1>3, <1>4, <2>1, <3>1 DEF Clients
    <3>3. pinned = <<valid.host, valid.addrs>>
      BY <1>3, <2>3, <3>1, <3>2
    <3>4. dialled = valid.addrs
      BY <2>4, <3>3
    <3> QED BY <1>3, <2>7, <3>4 DEF Dial!InClear
  <2> HIDE DEF dialled
  <2> QED BY <2>5, <2>6, <2>7
<1> QED BY <1>6, <1>7

===============================================================================
