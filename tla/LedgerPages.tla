------------------------------ MODULE LedgerPages ------------------------------
(***************************************************************************)
(* Reading a ledger's file a part at a time (mcpdef-audit/src/read.rs): a  *)
(* page of records backward from a cursor, one record by its number, the   *)
(* records from a point on; and what the admin API asks of them            *)
(* (admin/audit.rs).                                                       *)
(*                                                                         *)
(* A file is a sequence of bytes, an offset how many come before.  Of a    *)
(* record its line shows the number, a digit with spaces around it; what   *)
(* else the record says is Attributes of that number.  A file is read at   *)
(* one instant: it only grows, behind every line that has its newline.     *)
(***************************************************************************)
EXTENDS Integers, Sequences, FiniteSets, FiniteSetsExt, SequencesExt, Functions

CONSTANTS
    CHUNK,       \* how much of the file a backward read takes at a time
    Attributes,  \* of each number: its record's time, and its fields
    PAGE, PAGE_MAX,   \* a page's records, and the most it may have
    LIST, LIST_MAX,   \* the bare list's
    SCAN_BUDGET       \* the most records a page reads

Newline == "\n"
NumberOf == [digit \in {"0", "1", "2", "3"} |-> CASE digit = "0" -> 0 [] digit = "1" -> 1 [] digit = "2" -> 2 [] OTHER -> 3]

Blank(line) == Range(line) \subseteq {" "}
Words(line) == SelectSeq(line, LAMBDA c : c # " ")

\* parse, of a line that is not blank: a record is one value.
Parses(line) == Len(Words(line)) = 1 /\ Words(line)[1] \in DOMAIN NumberOf
Parse(line) == NumberOf[Words(line)[1]]

\* Filter::matches. A governed call's record leaves its kind out.
Field(n, name) ==
    LET fields == Attributes[n].fields IN
    IF name \in DOMAIN fields THEN {fields[name]} ELSE IF name = "kind" THEN {"call"} ELSE {}
Wants(filter, n) ==
    /\ \A name \in DOMAIN filter.is : Field(n, name) = {filter.is[name]}
    /\ filter.since <= Attributes[n].ts /\ Attributes[n].ts < filter.until

-----------------------------------------------------------------------------
(***************************************************************************)
(* Forward, and by search.                                                 *)
(***************************************************************************)

\* complete_end, a chunk at a time from the end.
RECURSIVE EndBefore(_, _)
EndBefore(file, pos) ==
    LET from == IF pos < CHUNK THEN 0 ELSE pos - CHUNK
        ends == {i \in from + 1 .. pos : file[i] = Newline}
    IN IF ends # {} THEN Max(ends) ELSE IF from = 0 THEN 0 ELSE EndBefore(file, from)
CompleteEnd(file) == EndBefore(file, Len(file))

\* Where the line around `at` ends, behind its newline.
Ends(file, at) == {i \in at + 1 .. Len(file) : file[i] = Newline}

\* The first line at or after `at` that is not blank and begins before `end`: {} if none.
RECURSIVE LineAt(_, _, _)
LineAt(file, at, end) ==
    IF at >= end \/ Ends(file, at) = {} THEN {}
    ELSE LET next == Min(Ends(file, at))  line == SubSeq(file, at + 1, next - 1) IN
         IF Blank(line) THEN LineAt(file, next, end) ELSE {[at |-> at, line |-> line, next |-> next]}

\* Mutant: a line that begins exactly at `pos` is passed over.
LineFromPast(file, pos, end) ==
    IF pos = 0 THEN LineAt(file, 0, end)
    ELSE IF Ends(file, pos) = {} THEN {} ELSE LineAt(file, Min(Ends(file, pos)), end)

\* line_from: read from the byte before `pos`, so that a line that begins exactly
\* there is taken and one that began before it is not.
LineFrom(file, pos, end) ==
    IF pos = 0 THEN LineAt(file, 0, end)
    ELSE IF Ends(file, pos - 1) = {} THEN {} ELSE LineAt(file, Min(Ends(file, pos - 1)), end)

Corrupt == -1

\* first_from: a binary search over the bytes.
RECURSIVE Search(_, _, _, _, _, _)
Search(file, end, n, lo, hi, found) ==
    IF lo >= hi THEN found
    ELSE LET mid == lo + ((hi - lo) \div 2)
             inside == {l \in LineFrom(file, mid, end) : l.at < hi}
         IN IF inside = {} THEN Search(file, end, n, lo, mid, found)
            ELSE LET l == CHOOSE l \in inside : TRUE IN
                 IF ~Parses(l.line) THEN Corrupt
                 ELSE IF Parse(l.line) >= n THEN Search(file, end, n, lo, mid, l.at)
                 ELSE Search(file, end, n, l.next, hi, found)
FirstFrom(file, end, n) == Search(file, end, n, 0, end, end)

\* find: what it answers, and the record.
FindSeq(file, n) ==
    LET end == CompleteEnd(file)  offset == FirstFrom(file, end, n)  there == LineFrom(file, offset, end) IN
    IF offset = Corrupt \/ \E l \in there : ~Parses(l.line) THEN "corrupt"
    ELSE IF \E l \in there : Parse(l.line) = n THEN "found" ELSE "none"

\* Follow::after: the offset it begins at.
FollowAfter(file, after) ==
    LET end == CompleteEnd(file) IN IF after = {} THEN end ELSE FirstFrom(file, end, Max(after) + 1)

\* Follow::read: whole lines only.
FollowRead(file, offset, most) ==
    LET RECURSIVE Take(_, _)
        Take(at, out) ==
            IF Len(out) = most \/ Ends(file, at) = {} THEN [offset |-> at, records |-> out, refused |-> "no"]
            ELSE LET next == Min(Ends(file, at))  line == SubSeq(file, at + 1, next - 1) IN
                 IF Blank(line) THEN Take(next, out)
                 ELSE IF ~Parses(line) THEN [offset |-> next, records |-> <<>>, refused |-> "corrupt"]
                 ELSE Take(next, Append(out, Parse(line)))
    IN IF Len(file) < offset THEN [offset |-> offset, records |-> <<>>, refused |-> "shrunk"] ELSE Take(offset, <<>>)

\* export: read in batches, until one comes back empty or is not to be read.
RECURSIVE ExportFrom(_, _, _, _)
ExportFrom(file, offset, filter, batch) ==
    LET read == FollowRead(file, offset, batch)
        wanted == SelectSeq(read.records, LAMBDA n : Wants(filter, n))
    IN IF read.refused # "no" THEN [records |-> <<>>, whole |-> FALSE]
       ELSE IF read.records = <<>> THEN [records |-> <<>>, whole |-> TRUE]
       ELSE LET more == ExportFrom(file, read.offset, filter, batch) IN [more EXCEPT !.records = wanted \o @]
ExportAll(file, filter, batch) == ExportFrom(file, 0, filter, batch)

-----------------------------------------------------------------------------
(***************************************************************************)
(* Backward: `buf` holds the bytes from `start` to `end`.                  *)
(***************************************************************************)
Back(end, start, buf) == [end |-> end, start |-> start, buf |-> buf]

\* fill: the chunk before `start`.
Fill(file, b) ==
    LET from == IF b.start < CHUNK THEN 0 ELSE b.start - CHUNK IN
    Back(b.end, from, SubSeq(file, from + 1, b.start) \o b.buf)

Newlines(buf) == {i \in DOMAIN buf : buf[i] = Newline}
FirstPart(buf, n) == SubSeq(buf, 1, n)

\* at_end: back from behind the last newline.
RECURSIVE SeekEnd(_, _)
SeekEnd(file, b) ==
    IF Newlines(b.buf) # {} THEN Back(b.start + Max(Newlines(b.buf)), b.start, FirstPart(b.buf, Max(Newlines(b.buf))))
    ELSE IF b.start = 0 THEN Back(0, 0, <<>>)
    ELSE SeekEnd(file, Fill(file, b))
AtEnd(file) == SeekEnd(file, Back(Len(file), Len(file), <<>>))

\* prev: the line before the last one returned; more is read until its start is held.
Inner(buf) == {i \in Newlines(buf) : i < Len(buf)}
LineBegins(buf) == IF Inner(buf) = {} THEN 0 ELSE Max(Inner(buf))
RECURSIVE Hold(_, _)
Hold(file, b) ==
    IF b.start = b.end \/ (Inner(b.buf) = {} /\ b.start > 0) THEN Hold(file, Fill(file, b)) ELSE b
CutAt(full, begins) ==
    [back |-> Back(full.start + begins, full.start, FirstPart(full.buf, begins)),
     at |-> full.start + begins, line |-> SubSeq(full.buf, begins + 1, Len(full.buf) - 1)]
LastLine(full) == CutAt(full, LineBegins(full.buf))
PrevLine(file, b) == IF b.end = 0 THEN [back |-> b, at |-> Corrupt, line |-> <<>>] ELSE LastLine(Hold(file, b))

RECURSIVE PastBlank(_, _)
PastBlank(file, p) ==
    IF p.at # Corrupt /\ Blank(p.line) THEN PastBlank(file, PrevLine(file, p.back)) ELSE p
Prev(file, b) == PastBlank(file, PrevLine(file, b))

\* at_line: the offset a cursor names begins a line.
AtLine(file, offset) == offset = 0 \/ (offset <= Len(file) /\ file[offset] = Newline)

\* page.
NoPage(why) == [refused |-> why, records |-> <<>>, next |-> {}, scanned |-> 0]

Taken(page, p, n, filter) ==
    [page EXCEPT !.scanned = @ + 1,
                 !.next = IF p.at > 0 THEN {[seq |-> n, offset |-> p.at]} ELSE {},
                 !.records = IF Wants(filter, n) THEN Append(@, n) ELSE @]
Full(page, limit, budget) == Len(page.records) >= limit \/ page.scanned >= budget

\* `p` is the line before what was read so far.
RECURSIVE PageFrom(_, _, _, _, _, _, _)
PageFrom(file, before, p, limit, filter, budget, page) ==
    IF Full(page, limit, budget) THEN page
    ELSE IF p.at = Corrupt THEN [page EXCEPT !.next = {}]
    ELSE IF ~Parses(p.line) THEN NoPage("corrupt")
    ELSE IF page.scanned = 0 /\ \E c \in before : Parse(p.line) >= c.seq THEN NoPage("cursor")
    ELSE IF Attributes[Parse(p.line)].ts < filter.since THEN [page EXCEPT !.next = {}, !.scanned = @ + 1]
    ELSE PageFrom(file, before, Prev(file, p.back), limit, filter, budget, Taken(page, p, Parse(p.line), filter))

StartOf(file, before) ==
    IF before = {} THEN AtEnd(file) ELSE LET c == CHOOSE c \in before : TRUE IN Back(c.offset, c.offset, <<>>)
ReadPage(file, before, limit, filter, budget) ==
    IF \E c \in before : ~AtLine(file, c.offset) THEN NoPage("cursor")
    ELSE PageFrom(file, before, Prev(file, StartOf(file, before)), limit, filter, budget, NoPage("no"))

-----------------------------------------------------------------------------
(***************************************************************************)
(* The admin API (admin/audit.rs `list`, `one`). A query gives each of its *)
(* members as a set of at most one value; Unread is a number that is none. *)
(***************************************************************************)
Unread == -1
EmptyCursor == [seq |-> Unread, offset |-> 0]    \* `cursor=`, for the first page
BadCursor == [seq |-> Unread, offset |-> Unread]
Everything == [is |-> <<>>, since |-> 0, until |-> 100]

\* With a cursor or a filter, a page; else the bare list.
Paged(query) == query.cursor # {} \/ query.filter # Everything

\* The limit, {} when it is refused.
LimitOf(query) ==
    IF query.limit = {} THEN {IF Paged(query) THEN PAGE ELSE LIST}
    ELSE {IF Paged(query) \/ n < LIST_MAX THEN n ELSE LIST_MAX :
             n \in {n \in query.limit : n # Unread /\ (Paged(query) => n \in 1 .. PAGE_MAX)}}

FilterRead(filter) ==
    /\ "decision" \in DOMAIN filter.is => filter.is["decision"] \in {"allow", "deny"}
    /\ filter.since # Unread /\ filter.until # Unread

StatusOf(refused) == CASE refused = "no" -> 200 [] refused = "cursor" -> 400 [] OTHER -> 500

Answer(page, query) ==
    [status |-> StatusOf(page.refused), records |-> page.records, next |-> IF Paged(query) THEN page.next ELSE {}]
Listing(file, query) ==
    IF LimitOf(query) = {} \/ BadCursor \in query.cursor \/ ~FilterRead(query.filter)
    THEN [status |-> 400, records |-> <<>>, next |-> {}]
    ELSE Answer(ReadPage(file, query.cursor \ {EmptyCursor}, Max(LimitOf(query)), query.filter, SCAN_BUDGET), query)

One(file, n) == CASE FindSeq(file, n) = "found" -> 200 [] FindSeq(file, n) = "none" -> 404 [] OTHER -> 500
================================================================================
