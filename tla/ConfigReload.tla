------------------------------ MODULE ConfigReload ------------------------------
(***************************************************************************)
(* Hot reload (reload.rs): the config and the files it names are read      *)
(* again on a SIGHUP, when the admin API asks, or when the watch sees that *)
(* they changed, and applied by one task, whole or not at all, while       *)
(* whoever writes them writes on.  A config is known by its edition, and   *)
(* what it says by what a reload tells apart: what only a restart can      *)
(* apply, how an upstream is reached, and the rest.  Of the files, there   *)
(* is one an upstream's opening reads, and the pair a listener serves.     *)
(***************************************************************************)
EXTENDS Integers, Sequences, FiniteSets, TLC

CONSTANTS Askers,                 \* callers of the admin API
          Waiting,                \* how many asks the channel holds
          MaxEdits                \* a bound: edits of the config and its files

ASSUME ReloadAssumption ==
    /\ Waiting \in Nat \ {0}
    /\ MaxEdits \in Nat

VARIABLES
    text,      \* the config on disk
    files,     \* the upstream's file, the listener's certificate, and its key
    edits,     \* so many yet
    applied,   \* Reloader::applied: the config, and the snapshot it was read as
    seen,      \* Reloader::seen
    reload,    \* the reload under way, and how far it is
    inForce,   \* the edition each part of the gateway runs
    link,      \* the upstream's connection: its settings, and its file as it was read
    retrying,  \* the settings its keeper still tries to open, if any
    cert,      \* the pair the listener serves
    hangup,    \* whether a SIGHUP waits
    asker, queue, \* each caller; those waiting in the channel
    watched    \* history: the last snapshot the watch acted on

reloadVars == <<text, files, edits, applied, seen, reload, inForce,
                link, retrying, cert, hangup, asker, queue, watched>>
outside == <<text, files, edits>>
inside == <<applied, seen, inForce, link, retrying, cert, watched>>

\* What a text is: one that does not parse names no files; one that does not pass `check`
\* does; a good one says what only a restart can apply, and how the upstream is reached.
Text(n, kind, start, reach) == [n |-> n, kind |-> kind, start |-> start, reach |-> reach]
Editions(t) ==
    {Text(t.n + 1, kind, 0, t.reach) : kind \in {"unparsed", "invalid"}}
    \cup {Text(t.n + 1, "good", start, t.reach + more) : start, more \in 0..1}
Unread(t) == [text |-> t, module |-> -1, crt |-> -1, key |-> -1]
Parts == {"policy", "keys", "admin"}

First == [text |-> Text(0, "good", 0, 0), module |-> 0, crt |-> 0, key |-> 0]
NoSnapshot == Unread(Text(-1, "good", 0, 0))
Under(pc, by) == [pc |-> pc, by |-> by, new |-> First, crt |-> 0, opened |-> <<>>]
AtRest == Under("idle", "none")
NoRetry == -1

ReloadInit ==
    /\ text = First.text /\ files = [module |-> 0, crt |-> 0, key |-> 0]
    /\ edits = 0
    /\ applied = First /\ seen = First /\ reload = AtRest
    /\ inForce = [p \in Parts |-> 0] /\ link = [reach |-> 0, module |-> 0] /\ retrying = NoRetry
    /\ cert = 0 /\ hangup = FALSE
    /\ asker = [a \in Askers |-> "away"] /\ queue = <<>> /\ watched = NoSnapshot

-----------------------------------------------------------------------------
\* The operator edits the config, or a file; a pair is written a file at a time.  No
\* content comes back once it is gone.
Edit ==
    /\ edits < MaxEdits /\ edits' = edits + 1
    /\ \/ text' \in Editions(text) /\ UNCHANGED files
       \/ files' = [files EXCEPT !.module = @ + 1] /\ UNCHANGED text
       \/ files.key = files.crt /\ files' = [files EXCEPT !.crt = @ + 1] /\ UNCHANGED text
    /\ UNCHANGED <<inside, reload, hangup, asker, queue>>

PairCompleted ==
    /\ files.key # files.crt /\ files' = [files EXCEPT !.key = files.crt]
    /\ UNCHANGED <<text, edits, inside, reload, hangup, asker, queue>>

Signal ==
    /\ hangup' = TRUE
    /\ UNCHANGED <<outside, inside, reload, asker, queue>>

\* Reloads::reload: the ask waits for room in the channel, then for its answer; a caller
\* may leave, and its ask stays in the channel.
AskFor(a) ==
    /\ asker[a] = "away" /\ asker' = [asker EXCEPT ![a] = "sending"]
    /\ UNCHANGED <<outside, inside, reload, hangup, queue>>

Send(a) ==
    /\ asker[a] = "sending" /\ Len(queue) < Waiting
    /\ asker' = [asker EXCEPT ![a] = "waiting"] /\ queue' = Append(queue, a)
    /\ UNCHANGED <<outside, inside, reload, hangup>>

GivesUp(a) ==
    /\ asker[a] \in {"sending", "waiting"} /\ asker' = [asker EXCEPT ![a] = "done"]
    /\ UNCHANGED <<outside, inside, reload, hangup, queue>>

-----------------------------------------------------------------------------
\* The loop takes what waits, one reload at a time.
Begin(by) == reload' = Under("read", by)
TakeSignal ==
    /\ reload.pc = "idle" /\ hangup /\ hangup' = FALSE /\ Begin("signal")
    /\ UNCHANGED <<outside, inside, asker, queue>>

TakeAsk ==
    /\ reload.pc = "idle" /\ queue # <<>> /\ queue' = Tail(queue) /\ Begin(Head(queue))
    /\ UNCHANGED <<outside, inside, hangup, asker>>

\* A tick of the watch: first what is due of the listener's certificate is built again,
\* from the config in effect and the files as they are.
TakeTick ==
    /\ reload.pc = "idle" /\ Begin("watch")
    /\ \/ UNCHANGED cert
       \/ files.key = files.crt /\ cert' = files.crt
    /\ UNCHANGED <<outside, applied, seen, inForce, link, retrying, watched, hangup, asker, queue>>

OnlyReload == UNCHANGED <<outside, inside, hangup, asker, queue>>

\* read: the text, then the hash of each file it names; one that does not parse names none.
ReadText ==
    /\ reload.pc = "read" /\ OnlyReload
    /\ reload' = [reload EXCEPT !.pc = "module", !.new = Unread(text)]

Names(new) == new.text.kind # "unparsed"
HashModule ==
    /\ reload.pc = "module" /\ OnlyReload
    /\ reload' = [reload EXCEPT !.pc = "pair", !.new.module = IF Names(reload.new) THEN files.module ELSE @]

HashPair ==
    /\ reload.pc = "pair" /\ OnlyReload
    /\ reload' = [reload EXCEPT !.pc = "decide",
         !.new.crt = IF Names(reload.new) THEN files.crt ELSE @,
         !.new.key = IF Names(reload.new) THEN files.key ELSE @]

\* The watch acts on what it has not seen yet.
NothingNew ==
    /\ reload.pc = "decide" /\ reload.by = "watch" /\ reload.new = seen
    /\ reload' = AtRest /\ OnlyReload

\* What refuses a config as it is read: `check`, restart_required.
Taken(new) == new.text.kind = "good" /\ new.text.start = applied.text.start

\* Mutant: what was refused is not seen.
DecideUnseen ==
    /\ reload.pc = "decide" /\ (reload.by = "watch" => reload.new # seen)
    /\ seen' = IF Taken(reload.new) THEN reload.new ELSE seen
    /\ reload' = (IF Taken(reload.new) THEN [reload EXCEPT !.pc = "tls"]
                  ELSE [reload EXCEPT !.pc = "audit"])
    /\ UNCHANGED <<outside, applied, inForce, link, retrying, cert, watched, hangup, asker, queue>>

Decide ==
    /\ reload.pc = "decide" /\ (reload.by = "watch" => reload.new # seen)
    /\ seen' = reload.new
    /\ reload' = (IF Taken(reload.new) THEN [reload EXCEPT !.pc = "tls"]
                  ELSE [reload EXCEPT !.pc = "audit"])
    /\ UNCHANGED <<outside, applied, inForce, link, retrying, cert, watched, hangup, asker, queue>>

\* build_tls, from the files as they are now.
BuildTls ==
    /\ reload.pc = "tls" /\ OnlyReload
    /\ reload' = (IF files.key = files.crt THEN [reload EXCEPT !.pc = "open", !.crt = files.crt]
                  ELSE [reload EXCEPT !.pc = "audit"])

\* Mutant: since the last config taken up to here.
ChangedSince(new) == new.text.reach # applied.text.reach \/ new.module # seen.module

\* plan: whether the upstream changed since what is applied was read.
Changed(new) == new.text.reach # applied.text.reach \/ new.module # applied.module

\* Gateway::reconfigure opens what changed before anything changes; it may not open.
OpenChanged ==
    /\ reload.pc = "open"
    /\ \/ /\ ~Changed(reload.new)
          /\ reload' = [reload EXCEPT !.pc = "govern"]
       \/ /\ Changed(reload.new)
          /\ reload' = [reload EXCEPT !.pc = "govern",
               !.opened = << [reach |-> reload.new.text.reach, module |-> files.module] >>]
       \/ /\ Changed(reload.new)
          /\ reload' = [reload EXCEPT !.pc = "govern"]
    /\ UNCHANGED <<outside, applied, seen, inForce, link, retrying, cert, watched, hangup, asker, queue>>

\* Its one step for every call after it; a changed upstream that did not open is retried.
Govern ==
    /\ reload.pc = "govern"
    /\ inForce' = [inForce EXCEPT !["policy"] = reload.new.text.n]
    /\ link' = (IF reload.opened = <<>> THEN link ELSE reload.opened[1])
    /\ retrying' = (IF ~Changed(reload.new) THEN retrying
                    ELSE IF reload.opened = <<>> THEN reload.new.text.reach ELSE NoRetry)
    /\ reload' = [reload EXCEPT !.pc = "install"]
    /\ UNCHANGED <<outside, applied, seen, cert, watched, hangup, asker, queue>>

\* set_keys, install_tls, on_applied, and what is applied now.
Install ==
    /\ reload.pc = "install"
    /\ inForce' = [inForce EXCEPT !["keys"] = reload.new.text.n, !["admin"] = reload.new.text.n]
    /\ cert' = reload.crt /\ applied' = reload.new
    /\ reload' = [reload EXCEPT !.pc = "audit"]
    /\ UNCHANGED <<outside, seen, link, retrying, watched, hangup, asker, queue>>

\* audit_reload, and the answer to who asked, if anyone still waits for it.
Audit ==
    /\ reload.pc = "audit" /\ reload' = AtRest
    /\ watched' = (IF reload.by = "watch" THEN reload.new ELSE watched)
    /\ asker' = [a \in Askers |-> IF reload.by = a THEN "done" ELSE asker[a]]
    /\ UNCHANGED <<outside, applied, seen, inForce, link, retrying, cert, hangup, queue>>

\* The upstream's keeper opens it again: new settings that did not open, or after it died.
Reopens ==
    /\ link' = [reach |-> IF retrying = NoRetry THEN link.reach ELSE retrying, module |-> files.module]
    /\ link' # link /\ retrying' = NoRetry
    /\ UNCHANGED <<outside, applied, seen, inForce, cert, watched, reload, hangup, asker, queue>>

LoopStep ==
    \/ ReadText \/ HashModule \/ HashPair \/ NothingNew \/ Decide \/ BuildTls \/ OpenChanged
    \/ Govern \/ Install \/ Audit

ReloadNext ==
    \/ Edit \/ PairCompleted \/ Signal \/ TakeSignal \/ TakeAsk \/ TakeTick \/ LoopStep \/ Reopens
    \/ \E a \in Askers : AskFor(a) \/ Send(a) \/ GivesUp(a)

-----------------------------------------------------------------------------
\* Between reloads, every part of the gateway runs the one config that is applied, which
\* no restart was needed for; the listener serves a pair; and the upstream is reached as
\* that config says, or still tried so (Reloader::apply: whole or not at all).
WholeOrNot ==
    /\ reload.pc \in {"idle", "audit"} =>
         /\ \A p \in Parts : inForce[p] = applied.text.n
         /\ applied.text.kind = "good" /\ applied.text.start = First.text.start
         /\ link.reach = applied.text.reach \/ retrying = applied.text.reach
    /\ reload.pc \in {"idle", "read", "module", "pair", "decide", "tls", "open"} =>
         \A p, q \in Parts : inForce[p] = inForce[q]

\* The watch acts on what it reads once: what it refused it does not refuse again until it
\* has changed (Reloader::seen).
WatchActsOnce == reload.pc = "audit" /\ reload.by = "watch" => reload.new # watched

\* With the watch on, what is on disk comes to be what runs once it stands still: a config
\* that can be taken, its upstream's file as it is now, its pair; and otherwise the last
\* that was (Snapshot, run).
OnDisk == files @@ [text |-> text]
Settled ==
    /\ seen = (IF Names(OnDisk) THEN OnDisk ELSE Unread(text))
    /\ IF text.kind = "good" /\ text.start = First.text.start
       THEN /\ inForce = [p \in Parts |-> text.n] /\ cert = files.crt
            /\ link = [reach |-> text.reach, module |-> files.module]
       ELSE applied.text.n < text.n
Settles == <>[]Settled

\* Whoever asks is answered, or gives up (Reloads::reload).
AsksEnd == \A a \in Askers : (asker[a] = "sending") ~> (asker[a] \notin {"sending", "waiting"})
================================================================================
