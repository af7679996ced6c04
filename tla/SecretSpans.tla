------------------------------ MODULE SecretSpans ------------------------------
(***************************************************************************)
(* The rule pack's matches in a text (inspect lib.rs): which rule finds it *)
(* first, and where each match is.  A text is a sequence of characters; a  *)
(* span is <<start, end>>, the places start + 1 .. end of it.  Each kind   *)
(* of rule is here once: private keys, a token with a prefix, an           *)
(* operator's secret, and a phrase.                                        *)
(***************************************************************************)
EXTENDS Integers, Sequences, SequencesExt, FiniteSets, FiniteSetsExt

\* In the order they are tried: every secret before any injection.
Rules == 1 .. 4
PrivateKey == 1
AccessKey == 2
CustomSecret == 3
Phrase == 4
IsSecret(rule) == rule # Phrase

PemBegin == <<"-", "B">>
PemEnd == <<"-", "E">>
PemDashes == <<"-">>
KeyWord == <<"KEY">>
LabelChars == {"B", "E", "KEY", "AK"}

TokenPrefix == <<"AK">>
TokenMin == 2
TokenBody == {"AK", "KEY", "B"}

Operators == <<"a">>
SecretTail == {"-", "a", "B", "E", "AK"}   \* not KEY: it has a space in it

Phrases == {<<"a", "AK">>}

-----------------------------------------------------------------------------
StartsAt(text, needle, at) ==
    at + Len(needle) <= Len(text) /\ SubSeq(text, at + 1, at + Len(needle)) = needle
Occurrences(text, needle) == {at \in 0 .. Len(text) : StartsAt(text, needle, at)}

\* find_from: the first place at or after `from`, or None.
None == -1
FindFrom(text, needle, from) ==
    LET places == {at \in Occurrences(text, needle) : at >= from} IN
    IF places = {} THEN None ELSE Min(places)

RunEnd(text, from, allowed) ==
    LET stops == {i \in from + 1 .. Len(text) : text[i] \notin allowed} IN
    IF stops = {} THEN Len(text) ELSE Min(stops) - 1

Tokens(text) ==
    {<<at, RunEnd(text, at + Len(TokenPrefix), TokenBody)>> :
        at \in {at \in Occurrences(text, TokenPrefix) :
                  RunEnd(text, at + Len(TokenPrefix), TokenBody) - (at + Len(TokenPrefix)) >= TokenMin}}

Customs(text) ==
    {<<at, RunEnd(text, at + Len(Operators), SecretTail)>> : at \in Occurrences(text, Operators)}

PhraseSpans(text) == UNION {{<<at, at + Len(p)>> : at \in Occurrences(text, p)} : p \in Phrases}

\* Where the trailer at `at` ends: its label, then its dashes if it has them.
TrailerEnd(text, at) ==
    LET end == RunEnd(text, at + Len(PemEnd), LabelChars) IN
    IF StartsAt(text, PemDashes, end) THEN end + Len(PemDashes) ELSE end

\* One block: to its trailer, or else to the next header, or the end.
EndOf(text, next, trailer) ==
    IF trailer # None /\ (next = None \/ trailer < next)
    THEN Min({TrailerEnd(text, trailer), IF next = None THEN Len(text) ELSE next})
    ELSE IF next = None THEN Len(text) ELSE next
BlockEnd(text, body) == EndOf(text, FindFrom(text, PemBegin, body), FindFrom(text, PemEnd, body))
BlockAt(text, at) == IF at = None THEN {} ELSE {<<at, BlockEnd(text, at + Len(PemBegin))>>}

RECURSIVE PemBlocksFrom(_, _)
PemBlocksFrom(text, from) ==
    UNION {{block} \cup PemBlocksFrom(text, block[2]) : block \in BlockAt(text, FindFrom(text, PemBegin, from))}

Keyed(text, blocks) == {b \in blocks : Occurrences(SubSeq(text, b[1] + 1, b[2]), KeyWord) # {}}
KeyedOrAll(blocks, keyed) == IF keyed = {} THEN blocks ELSE keyed
KeysAmong(text, blocks) == KeyedOrAll(blocks, Keyed(text, blocks))
PrivateKeys(text) ==
    IF Occurrences(text, KeyWord) = {} THEN {} ELSE KeysAmong(text, PemBlocksFrom(text, 0))

Spans(rule, text) ==
    CASE rule = PrivateKey   -> PrivateKeys(text)
      [] rule = AccessKey    -> Tokens(text)
      [] rule = CustomSecret -> Customs(text)
      [] rule = Phrase       -> PhraseSpans(text)

\* scan: the first rule that matches, or None.
FirstOf(rules) == IF rules = {} THEN None ELSE Min(rules)
Scan(text) == FirstOf({rule \in Rules : Spans(rule, text) # {}})

-----------------------------------------------------------------------------
\* paint: a sweep over the places where a span opens or closes.  After the edges at
\* a place are counted, the stretch to the next goes to the first rule open there.
Edges(spans) ==
    SetToSortSeq({s[2][1] : s \in spans} \cup {s[2][2] : s \in spans}, <)

OpenAt(spans, at) == {s[1] : s \in {s \in spans : s[2][1] <= at /\ at < s[2][2]}}

Paint(spans) ==
    LET places == Edges(spans) IN
    FoldLeft(LAMBDA painted, i :
                LET open == OpenAt(spans, places[i])
                    at   == places[i]
                    next == places[i + 1]
                IN IF open = {} THEN painted
                   ELSE IF painted # <<>> /\ Last(painted)[1] = Min(open) /\ Last(painted)[2][2] = at
                   THEN Append(Front(painted), <<Min(open), <<Last(painted)[2][1], next>>>>)
                   ELSE Append(painted, <<Min(open), <<at, next>>>>),
             <<>>, [i \in 1 .. Len(places) - 1 |-> i])

\* find_all: every match, in the order of the text.
FindAll(text) == Paint(UNION {{<<rule, span>> : span \in Spans(rule, text)} : rule \in Rules})
===============================================================================
