---------------------------- MODULE MCUpstreamLinks ----------------------------
(***************************************************************************)
(* What carries an upstream's messages, each part on its own: `part` says  *)
(* which one this behaviour is of, and the others stay as they began.      *)
(***************************************************************************)
EXTENDS UpstreamToken, UpstreamOpening, UpstreamPipes

CONSTANTS r1, r2, r3
ThreeRequests == {r1, r2, r3}

VARIABLE part

vars == <<part, tokenVars, openingVars, streamVars, pipeVars>>

\* One start of each part but the one under way.
TokenRest == IF part = "token" THEN TRUE ELSE auth = Kept("static", 1, FALSE)
OpeningRest ==
    IF part = "opening" THEN TRUE
    ELSE way.spec = "auto" /\ ~way.timed /\ server.kind = "stdio" /\ server.speaks = {"legacy"}
StreamRest == IF part = "stream" THEN TRUE ELSE numeric

Init ==
    /\ part \in {"token", "opening", "stream", "pipe"}
    /\ TokenInit /\ OpeningInit /\ StreamInit /\ PipeInit
    /\ TokenRest /\ OpeningRest /\ StreamRest

Next ==
    \/ part = "token"   /\ TokenNext   /\ UNCHANGED <<part, openingVars, streamVars, pipeVars>>
    \/ part = "opening" /\ OpeningNext /\ UNCHANGED <<part, tokenVars, streamVars, pipeVars>>
    \/ part = "stream"  /\ StreamNext  /\ UNCHANGED <<part, tokenVars, openingVars, pipeVars>>
    \/ part = "pipe"    /\ PipeNext    /\ UNCHANGED <<part, tokenVars, openingVars, streamVars>>

\* The steps of MCPdef's own tasks, and of servers that read, answer and write.
Spec ==
    /\ Init /\ [][Next]_vars
    /\ \A r \in Requests :
         WF_vars(part = "token" /\ RequestStep(r) /\ UNCHANGED <<part, openingVars, streamVars, pipeVars>>)
    /\ WF_vars(part = "opening" /\ OpeningStep /\ UNCHANGED <<part, tokenVars, streamVars, pipeVars>>)
    /\ WF_vars(part = "opening" /\ Serve /\ UNCHANGED <<part, tokenVars, streamVars, pipeVars>>)
    /\ WF_vars(part = "pipe" /\ ChildStep /\ UNCHANGED <<part, tokenVars, openingVars, streamVars>>)
    /\ WF_vars(part = "pipe" /\ SendStep /\ UNCHANGED <<part, tokenVars, openingVars, streamVars>>)

\* An opening is one handshake, and its list is what the server lists, or word of a
\* change is with the gateway (open_upstream).
OpeningsHold == OpensOnceInItsEra /\ ListIsCurrentOrToldOf

\* What a server says comes up once and in its order, on an event stream that breaks
\* (legacy_sse_loop) as on pipes that fill (StdioChild).
MessagesInOrder == HandedUpOnce /\ LinesInOrder

\* What ends, of the part under way: every request (send_authorized), every opening
\* (open_upstream) and every send (StdioChild::send).
LinksEnd == (part = "token" => RequestsEnd) /\ (part = "opening" => OpeningEnds) /\ SendsEnd
===============================================================================
