---------------------------- MODULE UpstreamOpening ----------------------------
(***************************************************************************)
(* The opening of an upstream (open_within and what it calls, gateway.rs): *)
(* which revision of MCP it speaks, the handshake that revision has, and   *)
(* its tools, page by page.  Over HTTP the first message also settles the  *)
(* binding (HttpClient::send, http.rs): Streamable HTTP, or the two        *)
(* streams of a 2024-11-05 server.                                         *)
(*                                                                         *)
(* The two directions of a connection are sequences of messages: a pipe's  *)
(* lines, or requests POSTed and what comes back for them in order.        *)
(***************************************************************************)
EXTENDS Integers, Sequences

CONSTANTS MaxPages,   \* lists::MAX_PAGES
          MaxChanges  \* bound: how often the server's tools change

ASSUME OpeningAssumption == MaxPages \in Nat \ {0} /\ MaxChanges \in Nat

VARIABLES
    way,     \* its settings: `spec`, the transport, and whether a timeout is set
    server,  \* what it speaks, how many `initialize` it has had, its tools' version
    opening, \* where open_upstream is, and what it knows
    up,      \* messages on their way to the server
    down     \* messages on their way to MCPdef

openingVars == <<way, server, opening, up, down>>

\* The eras a server may speak, and how it may be reached.
Eras == {{"legacy"}, {"modern"}, {"legacy", "modern"}}
Servers ==
    [kind : {"stdio", "streamable"}, speaks : Eras] \cup [kind : {"bridge"}, speaks : {{"legacy"}}]

\* A server reached over HTTP is configured `streamable-http`, or as the bridge it is.
Transports(kind) == IF kind = "stdio" THEN {"stdio"} ELSE {"auto", "sse"}

OpeningInit ==
    /\ \E s \in Servers : \E transport \in Transports(s.kind), spec \in {"auto", "2025", "2026"},
                             timed \in BOOLEAN :
         /\ server = [kind |-> s.kind, speaks |-> s.speaks, hellos |-> 0, tools |-> 0]
         /\ way = [transport |-> transport, spec |-> spec, timed |-> timed]
    /\ opening = [at |-> "start", binding |-> "init", spec |-> "unknown", page |-> 1, got |-> <<>>,
                  changed |-> FALSE]
    /\ up = <<>> /\ down = <<>>

GoesTo(at) == opening' = [opening EXCEPT !.at = at]
Fails == GoesTo("failed")
Ended == opening.at \in {"opened", "failed"}
\* One message at a time: `at` says which reply is awaited.
Awaits == {"hello", "discovery", "page"}

-----------------------------------------------------------------------------
(***************************************************************************)
(* The server.                                                             *)
(***************************************************************************)

Speaks(era) == era \in server.speaks

\* What it answers `initialize`: a result, another error, or, when the method is
\* gone, one of the codes initialize_proves_modern knows.  A session has one.
HelloReplies ==
    IF ~Speaks("legacy") THEN {"modern_error"}
    ELSE IF server.hellos = 0 THEN {"result", "error"} ELSE {"error"}

\* server/discover: the revisions it speaks, or no such method.
DiscoverReplies == IF Speaks("modern") THEN {"modern", "other revisions"} ELSE {"modern_error"}

Reply(to, is) == [what |-> to, is |-> is, tools |-> server.tools]

\* The reply to message m, of which the server may have several to choose from.
Replies(m) ==
    CASE m = "initialize" -> {Reply("hello", is) : is \in HelloReplies}
      [] m = "discover"   -> {Reply("discovery", is) : is \in DiscoverReplies}
      [] m = "list"       -> {Reply("page", is) : is \in {"last", "more", "error"}}

Counted(m) == server' = IF m = "initialize" THEN [server EXCEPT !.hellos = @ + 1] ELSE server

Serve ==
    /\ up # <<>> /\ up' = Tail(up) /\ Counted(Head(up))
    /\ IF Head(up) = "initialized" THEN UNCHANGED down
       ELSE \E reply \in Replies(Head(up)) : down' = Append(down, reply)
    /\ UNCHANGED <<way, opening>>

\* Its tools change, and a 2025-11-25 server says so to a client that greeted it,
\* where there is a stream to say it on.
ToolsChange ==
    /\ server.tools < MaxChanges /\ ~Ended
    /\ server' = [server EXCEPT !.tools = @ + 1]
    /\ down' = IF server.hellos > 0 /\ Speaks("legacy") /\ server.kind # "streamable"
               THEN Append(down, Reply("changed", "notification")) ELSE down
    /\ UNCHANGED <<way, opening, up>>

-----------------------------------------------------------------------------
(***************************************************************************)
(* HttpClient::send.                                                       *)
(***************************************************************************)

\* The message is on its way, over the binding settled, or waits for one; the
\* opening goes on.
SendOn(m, at, spec) ==
    IF way.transport = "stdio" \/ opening.binding # "init"
    THEN up' = Append(up, m) /\ opening' = [opening EXCEPT !.at = at, !.spec = spec]
    ELSE UNCHANGED up /\ opening' = [opening EXCEPT !.at = at, !.spec = spec, !.binding = m]

Negotiating == opening.binding \in {"initialize", "discover"} /\ ~Ended

\* The probe of a `streamable-http` upstream: a Streamable-HTTP server takes the
\* message.  A success, or an error only a modern server makes, whatever the
\* status, is its answer; another status settles neither binding.
ProbeTaken ==
    /\ Negotiating /\ way.transport = "auto" /\ server.kind = "streamable"
    /\ Counted(opening.binding)
    /\ \E reply \in Replies(opening.binding) :
         \/ opening' = [opening EXCEPT !.binding = "streamable"] /\ down' = Append(down, reply)
         \/ reply.is = "error" /\ Fails /\ UNCHANGED down
    /\ UNCHANGED <<way, up>>

\* 400, 404 or 405 with no MCP body: it took nothing, and may have the old streams.
\* connect_legacy waits for the `endpoint` event; with it the binding is settled,
\* and the message goes to that endpoint.  A Streamable-HTTP server has no such event.
Connect ==
    /\ Negotiating /\ (way.transport = "sse" \/ server.kind = "bridge")
    /\ IF server.kind = "bridge"
       THEN opening' = [opening EXCEPT !.binding = "bridge"] /\ up' = Append(up, opening.binding)
       ELSE Fails /\ UNCHANGED up
    /\ UNCHANGED <<way, server, down>>

-----------------------------------------------------------------------------
(***************************************************************************)
(* open_upstream.                                                          *)
(***************************************************************************)

\* `spec = "auto"` asks with an `initialize`, which is also how 2025-11-25 opens.
SendFirst ==
    /\ opening.at = "start"
    /\ IF way.spec = "2026" THEN SendOn("discover", "discovery", "2026")
       ELSE SendOn("initialize", "hello", opening.spec)
    /\ UNCHANGED <<way, server, down>>


\* recv_noting takes messages until the reply awaited.
Comes(what) == opening.at = what /\ down # <<>> /\ Head(down).what = what /\ down' = Tail(down)
\* Mutant: pages are read with recv_response, which forgets what it skips.
SkipUnnoted ==
    /\ down # <<>> /\ opening.at \in Awaits /\ Head(down).what # opening.at
    /\ down' = Tail(down) /\ UNCHANGED <<way, server, opening, up>>

\* What is not the reply is skipped; of tools that change only list_tools takes note.
Skip ==
    /\ down # <<>> /\ opening.at \in Awaits /\ Head(down).what # opening.at
    /\ down' = Tail(down)
    /\ opening' = IF opening.at = "page" /\ Head(down).what = "changed"
                   THEN [opening EXCEPT !.changed = TRUE] ELSE opening
    /\ UNCHANGED <<way, server, up>>

\* probe_opening, initialize, and reject_error of the reply.
HelloCame ==
    /\ Comes("hello")
    /\ IF Head(down).is = "result"
       THEN opening' = [opening EXCEPT !.at = "greeted", !.spec = "2025"] /\ UNCHANGED up
       ELSE IF Head(down).is = "modern_error" /\ way.spec = "auto"
       THEN SendOn("discover", "discovery", "2026")
       ELSE Fails /\ UNCHANGED up
    /\ UNCHANGED <<way, server>>
\* finish_handshake, with the reply in hand.
SendInitialized ==
    /\ opening.at = "greeted"
    /\ SendOn("initialized", "list", opening.spec)
    /\ UNCHANGED <<way, server, down>>

DiscoveryCame ==
    /\ Comes("discovery")
    /\ IF Head(down).is = "modern" THEN GoesTo("list") ELSE Fails
    /\ UNCHANGED <<way, server, up>>

\* list_tools: a page is asked for,
SendList ==
    /\ opening.at = "list"
    /\ SendOn("list", "page", opening.spec)
    /\ UNCHANGED <<way, server, down>>

\* and comes; the next one is asked for if there is one, up to MAX_PAGES.
PageCame ==
    /\ Comes("page")
    /\ LET got == Append(opening.got, Head(down).tools) IN
       IF Head(down).is = "error" THEN Fails
       ELSE IF Head(down).is = "more" /\ opening.page < MaxPages
       THEN opening' = [opening EXCEPT !.at = "list", !.page = @ + 1, !.got = got]
       ELSE opening' = [opening EXCEPT !.at = "opened", !.got = got]
    /\ UNCHANGED <<way, server, up>>

\* PROBE_TIMEOUT runs over the probe, and Budget's limit, if there is one, over
\* it all.
TimesOut ==
    /\ ~Ended /\ (way.timed \/ (way.spec = "auto" /\ opening.at = "hello"))
    /\ Fails /\ UNCHANGED <<way, server, up, down>>

\* The connection breaks, or the server refuses a POST.
Breaks ==
    /\ ~Ended /\ opening.at # "start"
    /\ Fails /\ UNCHANGED <<way, server, up, down>>

OpeningStep ==
    \/ SendFirst \/ Skip \/ HelloCame \/ SendInitialized \/ DiscoveryCame \/ SendList \/ PageCame
    \/ ProbeTaken \/ Connect

OpeningNext == OpeningStep \/ Serve \/ ToolsChange \/ TimesOut \/ Breaks

-----------------------------------------------------------------------------
\* Each variable has its type (Listed, HttpClient's State).
OpeningTypeOK ==
    /\ opening.at \in {"start", "hello", "greeted", "discovery", "list", "page", "opened", "failed"}
    /\ opening.page \in 1 .. MaxPages /\ Len(opening.got) <= MaxPages
    /\ opening.changed \in BOOLEAN /\ opening.spec \in {"unknown", "2025", "2026"}
    /\ server.hellos \in Nat /\ server.tools \in 0 .. MaxChanges

\* "A second `initialize` on an already-initialized session is an error in
\* 2025-11-25 implementations": of the probe, the handshake and the choice of a
\* binding, a server gets one; and it is opened in an era it speaks.
OpensOnceInItsEra ==
    /\ server.hellos <= 1
    /\ opening.at = "opened" => Speaks(IF opening.spec = "2026" THEN "modern" ELSE "legacy")

\* Listed::changed: when its tools are listed, and every page of them was read
\* before they changed, the word that they did was read by the opening or is left
\* for the notifications taken from it. So of a server that says so on a stream.
ListIsCurrentOrToldOf ==
    opening.at = "opened" /\ opening.spec = "2025" /\ server.kind # "streamable" =>
        \/ \A i \in DOMAIN opening.got : opening.got[i] = server.tools
        \/ opening.changed
        \/ \E i \in DOMAIN down : down[i].what = "changed"

\* An upstream that answers is opened or is not, with no timeout to end it, even
\* when each page names another.
OpeningEnds == <>Ended
===============================================================================
