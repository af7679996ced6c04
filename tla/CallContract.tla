---------------------------- MODULE CallContract ----------------------------
(***************************************************************************)
(* What `UpstreamHandle::call` (mcpdef-transport/src/mux.rs) promises the  *)
(* gateway, with no queue, actor or connection in sight: a call takes at   *)
(* most one of Limit slots, once; its request goes out only while it has   *)
(* one, at most once; it ends once, and with a reply only if its request   *)
(* went out and its slot is back.                                          *)
(***************************************************************************)
EXTENDS Naturals, FiniteSets

CONSTANTS Calls, Limit

VARIABLES
    stage,   \* idle, open, or done
    busy,    \* the calls that have a slot
    sent,    \* the calls whose request went out
    result   \* how each call ended

contractVars == <<stage, busy, sent, result>>

Init ==
    /\ stage = [c \in Calls |-> "idle"]
    /\ busy = {}
    /\ sent = {}
    /\ result = [c \in Calls |-> "none"]

Start(c) ==
    /\ stage[c] = "idle"
    /\ stage' = [stage EXCEPT ![c] = "open"]
    /\ UNCHANGED <<busy, sent, result>>

\* A call that finds the upstream down fails without ever taking a slot.
Refuse(c) ==
    /\ stage[c] = "idle"
    /\ stage' = [stage EXCEPT ![c] = "done"]
    /\ result' = [result EXCEPT ![c] = "no reply"]
    /\ UNCHANGED <<busy, sent>>

Take(c) ==
    /\ stage[c] = "open" /\ c \notin busy \cup sent
    /\ Cardinality(busy) < Limit
    /\ busy' = busy \cup {c}
    /\ UNCHANGED <<stage, sent, result>>

\* A request already going out when its caller gives up cannot be taken back.
Transmit(c) ==
    /\ c \in busy \ sent
    /\ sent' = sent \cup {c}
    /\ UNCHANGED <<stage, busy, result>>

\* Slots are given back, several at once when the connection is lost.
GiveBack ==
    /\ \E gone \in SUBSET busy : busy' = busy \ gone
    /\ UNCHANGED <<stage, sent, result>>

\* An upstream whose reply comes with the write: see InlineRun.
TransmitAndGiveBack(c) ==
    /\ c \in busy \ sent
    /\ sent' = sent \cup {c} /\ busy' = busy \ {c}
    /\ UNCHANGED <<stage, result>>

Finish(c, how) ==
    /\ stage[c] = "open"
    /\ how = "reply" => c \in sent
    /\ stage' = [stage EXCEPT ![c] = "done"]
    /\ result' = [result EXCEPT ![c] = how]
    /\ \/ busy' = busy \ {c}
       \/ how = "no reply" /\ UNCHANGED busy
    /\ UNCHANGED sent

Next ==
    \/ \E c \in Calls :
          \/ Start(c) \/ Refuse(c) \/ Take(c) \/ Transmit(c) \/ TransmitAndGiveBack(c)
          \/ \E how \in {"reply", "no reply"} : Finish(c, how)
    \/ GiveBack

Spec == Init /\ [][Next]_contractVars
=============================================================================
