------------------------------- MODULE GlobsAndUris -------------------------------
(***************************************************************************)
(* The glob engine (policy glob.rs): names against patterns with stars,    *)
(* paths against patterns with `**`, and whether two patterns overlap; and *)
(* the normal form of a resource URI (policy uri.rs): the text an          *)
(* allowlist judges, and the one the upstream is sent. A text is a         *)
(* sequence of characters, a path of a pattern a sequence of segments.     *)
(***************************************************************************)
EXTENDS Integers, Sequences, SequencesExt, FiniteSetsExt, TLC

Star == "*"
Wild == <<Star, Star>>   \* a segment that is `**` alone

\* The pieces of seq between the elements that are `at`.
PiecesAt(seq, at) ==
    FoldLeft(LAMBDA pieces, c :
                IF c = at THEN Append(pieces, <<>>)
                ELSE [pieces EXCEPT ![Len(pieces)] = Append(@, c)],
             << <<>> >>, seq)

Drop(seq, n) == SubSeq(seq, n + 1, Len(seq))

-----------------------------------------------------------------------------
(***************************************************************************)
(* Names.                                                                  *)
(***************************************************************************)

\* Where piece is found in text: str::find.
Finds(text, piece) == {i \in 0 .. Len(text) - Len(piece) : SubSeq(text, i + 1, i + Len(piece)) = piece}

\* The pieces between the first star and the last, each at its leftmost match.
PiecesInOrder(pieces, text) ==
    LET After(rest, piece) ==
            IF rest[1] = 0 \/ Finds(rest[2], piece) = {} THEN <<0, <<>>>>
            ELSE <<1, Drop(rest[2], Min(Finds(rest[2], piece)) + Len(piece))>>
    IN FoldLeft(After, <<1, text>>, pieces)[1] = 1

Between(first, middle, last, name) ==
    /\ Len(name) >= Len(first) + Len(last)
    /\ IsPrefix(first, name) /\ IsSuffix(last, name)
    /\ PiecesInOrder(middle, SubSeq(name, Len(first) + 1, Len(name) - Len(last)))

PiecesMatch(pieces, name) ==
    IF Len(pieces) = 1 THEN pieces[1] = name
    ELSE Between(Head(pieces), SubSeq(pieces, 2, Len(pieces) - 1), Last(pieces), name)
Names(pattern, name) == PiecesMatch(PiecesAt(pattern, Star), name)

\* The pairs of positions patterns_overlap comes to from <<i, j, taken>>.
NameSteps(p, q, at) ==
    LET i == at[1]  j == at[2]
        a == IF i < Len(p) THEN p[i + 1] ELSE "end"
        b == IF j < Len(q) THEN q[j + 1] ELSE "end"
    IN (IF a = Star THEN {<<i + 1, j, at[3]>>} ELSE {}) \cup
       (IF b = Star THEN {<<i, j + 1, at[3]>>} ELSE {}) \cup
       (IF a = Star /\ b = Star THEN {<<i, j, TRUE>>} ELSE {}) \cup
       (IF a = Star /\ b \notin {Star, "end"} THEN {<<i, j + 1, TRUE>>} ELSE {}) \cup
       (IF b = Star /\ a \notin {Star, "end"} THEN {<<i + 1, j, TRUE>>} ELSE {}) \cup
       (IF a = b /\ a \notin {Star, "end"} THEN {<<i + 1, j + 1, TRUE>>} ELSE {})

RECURSIVE NameReach(_, _, _)
NameReach(p, q, seen) ==
    LET more == seen \cup UNION {NameSteps(p, q, at) : at \in seen} IN
    IF more = seen THEN seen ELSE NameReach(p, q, more)

PatternsOverlap(p, q, nonempty) ==
    \E taken \in {TRUE, nonempty} : <<Len(p), Len(q), taken>> \in NameReach(p, q, {<<0, 0, FALSE>>})

NamesOverlap(p, q) == PatternsOverlap(p, q, TRUE)

-----------------------------------------------------------------------------
(***************************************************************************)
(* Paths.                                                                  *)
(***************************************************************************)

SegmentMatches(pattern, segment) ==
    IF segment = <<>> THEN pattern = <<>> ELSE Names(pattern, segment)

RunAt(run, start, path) == \A i \in DOMAIN run : SegmentMatches(run[i], path[start + i])

\* Where run may lie within path[from + 1 .. to].
Places(run, from, to, path) == {start \in from .. to - Len(run) : RunAt(run, start, path)}

\* path_matches: the first run at the start, the last at the end, and each between
\* at its leftmost place.
Behind(places, run) == IF places = {} THEN -1 ELSE Min(places) + Len(run)
RunsInOrder(runs, from, tail, path) ==
    FoldLeft(LAMBDA at, run : IF at = -1 THEN -1 ELSE Behind(Places(run, at, tail, path), run), from, runs) # -1
RunsMatch(runs, path, tail) ==
    IF Len(runs) = 1 THEN tail = 0 /\ RunAt(runs[1], 0, path)
    ELSE /\ Len(path) >= Len(runs[1]) + Len(Last(runs))
         /\ RunAt(runs[1], 0, path) /\ RunAt(Last(runs), tail, path)
         /\ RunsInOrder(SubSeq(runs, 2, Len(runs) - 1), Len(runs[1]), tail, path)
PathRuns(runs, path) == RunsMatch(runs, path, Len(path) - Len(Last(runs)))
PathMatches(pattern, path) == PathRuns(PiecesAt(pattern, Wild), path)

SegmentsOverlap(a, b) == IF a = <<>> \/ b = <<>> THEN a = b ELSE PatternsOverlap(a, b, TRUE)

PathSteps(p, q, at) ==
    LET i == at[1]  j == at[2]
        a == IF i < Len(p) THEN <<p[i + 1]>> ELSE <<>>
        b == IF j < Len(q) THEN <<q[j + 1]>> ELSE <<>>
        One(s) == s # <<>> /\ s # <<Wild>>
    IN (IF a = <<Wild>> THEN {<<i + 1, j>>} ELSE {}) \cup
       (IF b = <<Wild>> THEN {<<i, j + 1>>} ELSE {}) \cup
       (IF a = <<Wild>> /\ One(b) THEN {<<i, j + 1>>} ELSE {}) \cup
       (IF One(a) /\ b = <<Wild>> THEN {<<i + 1, j>>} ELSE {}) \cup
       (IF One(a) /\ One(b) /\ SegmentsOverlap(a[1], b[1]) THEN {<<i + 1, j + 1>>} ELSE {})

RECURSIVE PathReach(_, _, _)
PathReach(p, q, seen) ==
    LET more == seen \cup UNION {PathSteps(p, q, at) : at \in seen} IN
    IF more = seen THEN seen ELSE PathReach(p, q, more)

PathsOverlap(p, q) == <<Len(p), Len(q)>> \in PathReach(p, q, {<<0, 0>>})

-----------------------------------------------------------------------------
(***************************************************************************)
(* Whole patterns: what comes before the path, the path, and a query that  *)
(* both have or neither.  A fragment is judged as a query is.              *)
(***************************************************************************)

Absent == <<"absent">>
AnyUri == [prefix |-> Absent, path |-> <<>>, query |-> Absent]

Optional(pattern, part) ==
    IF pattern = Absent \/ part = Absent THEN pattern = part ELSE Names(pattern, part)

OptionalOverlap(p, q) ==
    IF p = Absent \/ q = Absent THEN p = q ELSE PatternsOverlap(p, q, FALSE)

UriMatches(glob, uri) ==
    \/ glob = AnyUri
    \/ /\ Names(glob.prefix, uri.prefix)
       /\ Optional(glob.query, uri.query)
       /\ PathMatches(glob.path, uri.path)

UrisOverlap(p, q) ==
    \/ AnyUri \in {p, q}
    \/ /\ PatternsOverlap(p.prefix, q.prefix, FALSE)
       /\ OptionalOverlap(p.query, q.query)
       /\ PathsOverlap(p.path, q.path)

-----------------------------------------------------------------------------
\* The two hex digits of an escape, and the character they spell.
Spelt ==
    <<"2", "e">> :> "." @@ <<"2", "E">> :> "." @@ <<"2", "f">> :> "/" @@ <<"2", "F">> :> "/" @@
    <<"2", "5">> :> "%" @@ <<"5", "c">> :> "backslash" @@ <<"5", "C">> :> "backslash" @@
    <<"0", "0">> :> "NUL" @@ <<"3", "2">> :> "2" @@ <<"6", "5">> :> "e" @@ <<"6", "6">> :> "f" @@
    <<"6", "1">> :> "a" @@ <<"3", "a">> :> ":" @@ <<"3", "A">> :> ":"

Unreserved == {".", "2", "e", "f", "a"}
Upper == [c \in {"a", "e", "f", "c"} |-> CASE c = "a" -> "A" [] c = "e" -> "E" [] c = "f" -> "F" [] c = "c" -> "C"]
UpperOf(c) == IF c \in DOMAIN Upper THEN Upper[c] ELSE c

From(s, i) == SubSeq(s, i, Len(s))
StartsWith(s, prefix) == IsPrefix(prefix, s)

Refuse(why) == [refused |-> why, text |-> <<>>]
Take(text) == [refused |-> "no", text |-> text]

-----------------------------------------------------------------------------
(***************************************************************************)
(* unescape: escapes of unreserved characters are decoded, the others      *)
(* written one way.                                                        *)
(***************************************************************************)

EscapeAt(s, i) == s[i] = "%" /\ i + 2 <= Len(s) /\ <<s[i + 1], s[i + 2]>> \in DOMAIN Spelt
SpeltAt(s, i) == Spelt[<<s[i + 1], s[i + 2]>>]

\* escaped_twice: `%25` before an escape of what a path must not hide.
EscapedTwice(s) ==
    \E i \in 1 .. Len(s) - 4 :
        /\ EscapeAt(s, i) /\ SpeltAt(s, i) = "%"
        /\ <<s[i + 3], s[i + 4]>> \in DOMAIN Spelt
        /\ Spelt[<<s[i + 3], s[i + 4]>>] \in {"NUL", ".", "/", "backslash", "%"}

RECURSIVE Unescaped(_, _)
Unescaped(s, inPath) ==
    IF s = <<>> THEN Take(<<>>)
    ELSE IF s[1] # "%"
    THEN LET rest == Unescaped(Tail(s), inPath) IN
         IF rest.refused # "no" THEN rest ELSE Take(<<s[1]>> \o rest.text)
    ELSE IF ~EscapeAt(s, 1) THEN Refuse("bad-escape")
    ELSE LET c == SpeltAt(s, 1)  rest == Unescaped(From(s, 4), inPath) IN
         IF c = "NUL" THEN Refuse("nul")
         ELSE IF inPath /\ c \in {"/", "backslash"} THEN Refuse("encoded-separator")
         ELSE IF rest.refused # "no" THEN rest
         ELSE Take((IF c \in Unreserved THEN <<c>> ELSE <<"%", UpperOf(s[2]), UpperOf(s[3])>>) \o rest.text)

Unescape(s, inPath) ==
    LET done == Unescaped(s, inPath) IN
    IF done.refused = "no" /\ inPath /\ EscapedTwice(done.text) THEN Refuse("double-encoded") ELSE done

-----------------------------------------------------------------------------
(***************************************************************************)
(* remove_dot_segments, as RFC 3986 writes it.                             *)
(***************************************************************************)

Slash == "/"
Dot == "."

UpTo(s, n) == SubSeq(s, 1, n)

\* The last output segment, and the slash before it, go.
DropLast(output) ==
    LET slashes == {i \in DOMAIN output : output[i] = Slash} IN
    IF slashes = {} THEN <<>> ELSE UpTo(output, Max(slashes) - 1)

RECURSIVE DotSteps(_, _)
DotSteps(input, output) ==
    IF input = <<>> THEN output
    ELSE IF StartsWith(input, <<Dot, Dot, Slash>>) THEN DotSteps(From(input, 4), output)
    ELSE IF StartsWith(input, <<Dot, Slash>>) THEN DotSteps(From(input, 3), output)
    ELSE IF StartsWith(input, <<Slash, Dot, Slash>>) THEN DotSteps(From(input, 3), output)
    ELSE IF input = <<Slash, Dot>> THEN DotSteps(<<Slash>>, output)
    ELSE IF StartsWith(input, <<Slash, Dot, Dot, Slash>>) THEN DotSteps(From(input, 4), DropLast(output))
    ELSE IF input = <<Slash, Dot, Dot>> THEN DotSteps(<<Slash>>, DropLast(output))
    ELSE IF input \in {<<Dot>>, <<Dot, Dot>>} THEN output
    ELSE LET ends == {i \in 2 .. Len(input) : input[i] = Slash}
             end  == IF ends = {} THEN Len(input) ELSE Min(ends) - 1
         IN DotSteps(From(input, end + 1), output \o UpTo(input, end))

RemoveDotSegments(path) == DotSteps(path, <<>>)

Segments(path) == PiecesAt(path, Slash)

EmptyInside(path) ==
    \E i \in 2 .. Len(Segments(path)) - 1 : Segments(path)[i] = <<>>

-----------------------------------------------------------------------------
(***************************************************************************)
(* The authority, and the whole.                                           *)
(***************************************************************************)

HostCaseInsensitive == {"http", "file"}
DefaultPort(scheme) == IF scheme = "http" THEN <<"80">> ELSE <<"no default">>

\* normal_authority: the host in lower case, its default port gone.
LowerOf(c) == IF c = "H" THEN "h" ELSE c
NormalAuthority(authority, scheme) ==
    LET ats    == {i \in DOMAIN authority : authority[i] = "@"}
        user   == IF ats = {} THEN <<>> ELSE UpTo(authority, Max(ats))
        rest   == From(authority, Len(user) + 1)
        colons == {i \in DOMAIN rest : rest[i] = ":"}
        host   == IF colons = {} THEN rest ELSE UpTo(rest, Max(colons) - 1)
        port   == From(rest, Len(host) + 2)
        lower  == [i \in DOMAIN host |-> LowerOf(host[i])]
    IN user \o lower \o
       (IF colons = {} \/ port \in {<<>>, DefaultPort(scheme)} THEN <<>> ELSE <<":">> \o port)

NoAuthority == <<"none">>
Localhost == <<"localhost">>

\* normalize: the text of a URI, or why it has none.  `authority` is NoAuthority, or
\* what follows `//`; the query and the fragment are unescaped as other parts are.
Known(scheme) == scheme \in HostCaseInsensitive
AuthorityOf(uri) ==
    IF Known(uri.scheme) /\ uri.authority # NoAuthority THEN NormalAuthority(uri.authority, uri.scheme)
    ELSE uri.authority
\* A file's, which may be left out, of this machine.
Local(scheme, authority, path) ==
    IF scheme = "file" /\ (authority = Localhost \/ (authority = NoAuthority /\ StartsWith(path, <<Slash>>)))
    THEN <<>> ELSE authority
Rooted(scheme, authority, path) ==
    IF Known(scheme) /\ authority # NoAuthority /\ path = <<>> THEN <<Slash>> ELSE path
NormalOf(scheme, authority, removed, rooted, query) ==
    IF EmptyInside(rooted) THEN [refused |-> "empty-segment"]
    ELSE IF query.refused # "no" THEN [refused |-> query.refused]
    ELSE [refused |-> "no", scheme |-> scheme, authority |-> Local(scheme, authority, removed), path |-> rooted,
          query |-> query.text]
NormalWith(uri, authority, removed) ==
    NormalOf(uri.scheme, authority, removed, Rooted(uri.scheme, authority, removed), Unescape(uri.query, FALSE))
NormalFrom(uri, path) ==
    IF path.refused # "no" THEN [refused |-> path.refused]
    ELSE NormalWith(uri, AuthorityOf(uri), RemoveDotSegments(path.text))
Normal(uri) == NormalFrom(uri, Unescape(uri.path, TRUE))

-----------------------------------------------------------------------------
(***************************************************************************)
(* What a server may make of a path.                                       *)
(***************************************************************************)

\* Every escape decoded once, as a server that decodes does.
RECURSIVE Decoded(_)
Decoded(s) ==
    IF s = <<>> THEN <<>>
    ELSE IF EscapeAt(s, 1) THEN <<SpeltAt(s, 1)>> \o Decoded(From(s, 4))
    ELSE <<Head(s)>> \o Decoded(Tail(s))

\* Where a path leads from the root, a segment at a time.
Walk(path) ==
    FoldLeft(LAMBDA at, segment :
                CASE segment = <<Dot, Dot>> -> UpTo(at, IF at = <<>> THEN 0 ELSE Len(at) - 1)
                  [] segment \in {<<>>, <<Dot>>} -> at
                  [] OTHER -> Append(at, segment),
             <<>>, Segments(path))
===================================================================================
