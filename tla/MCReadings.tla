------------------------------ MODULE MCReadings ------------------------------
(***************************************************************************)
(* What reads a ledger's file, what an upstream is reached by and what is  *)
(* read of it, on small inputs: each is a kind of MCTexts, with its pieces *)
(* and what is to hold of them.                                            *)
(***************************************************************************)
EXTENDS Integers, Sequences, FiniteSets, SequencesExt

File == INSTANCE LedgerPages WITH
    CHUNK <- 3, PAGE <- 2, PAGE_MAX <- 3, LIST <- 3, LIST_MAX <- 3, SCAN_BUDGET <- 2,
    Attributes <- [n \in 0 .. 3 |->
        [ts |-> n, fields |-> IF n = 1 THEN [f \in {"kind", "decision"} |-> IF f = "kind" THEN "admin" ELSE "deny"]
                              ELSE [f \in {"decision"} |-> "allow"]]]

Record == INSTANCE LedgerRecords WITH
    MsgIdMost <- 3, LatBuckets <- <<1, 4>>, TrendMinutes <- 2, TopTools <- 1,
    Peers <- [peer \in {<<"a">>, <<"b">>} |-> [v4 |-> peer = <<"a">>, ip |-> peer, port |-> IF peer = <<"a">> THEN {<<"n">>} ELSE {}]]

Dial == INSTANCE UpstreamDial WITH Bundled <- {"bundled"}, System <- {"system"}, MAX_BYTES <- 3
BareHost == INSTANCE UpstreamDial WITH Bundled <- {"bundled"}, System <- {}, MAX_BYTES <- 3
Read == INSTANCE UpstreamReads WITH MAX_SECRET <- 3

-----------------------------------------------------------------------------
\* Lines shorter and longer than a chunk, blank ones, two a reader cannot parse, and
\* the beginning of one.
Lines == {<<"0", "\n">>, <<"1", " ", " ", " ", "\n">>, <<" ", "2", "\n">>, <<"\n">>, <<" ", "\n">>,
          <<"x", "\n">>, <<"1">>}

Is(name, value) == [File!Everything EXCEPT !.is = [f \in {name} |-> value]]
Filters == {File!Everything, Is("kind", "call"), Is("kind", "admin"), Is("tool", "t"),
            [File!Everything EXCEPT !.since = 1], [File!Everything EXCEPT !.until = 2]}

\* Where in a sequence something is.
Places(seq, Test(_)) == SelectSeq([i \in DOMAIN seq |-> i], LAMBDA i : Test(seq[i]))

\* The whole lines of a file that are not blank, first to last, with where each begins.
Whole(file) ==
    LET ends == Places(file, LAMBDA c : c = "\n")
        all == [k \in DOMAIN ends |-> LET at == IF k = 1 THEN 0 ELSE ends[k - 1] IN
                                      [at |-> at, line |-> SubSeq(file, at + 1, ends[k] - 1)]]
    IN SelectSeq(all, LAMBDA l : ~File!Blank(l.line))
Good(file) == \A i \in DOMAIN Whole(file) : File!Parses(Whole(file)[i].line)
Numbers(file) == [i \in DOMAIN Whole(file) |-> File!Parse(Whole(file)[i].line)]
InOrder(ns) == \A i, j \in DOMAIN ns : i < j => ns[i] < ns[j]
Wanted(ns, filter) == SelectSeq(ns, LAMBDA n : File!Wants(filter, n))

\* The pages of a reader that asks until there is no next one, the first of `file` and
\* the others of what it has grown to.
RECURSIVE WalkOn(_, _, _, _)
WalkOn(page, grown, limit, filter) ==
    IF page.refused # "no" THEN [records |-> <<>>, refused |-> page.refused]
    ELSE IF page.next = {} THEN [records |-> page.records, refused |-> "no"]
    ELSE LET rest == WalkOn(File!ReadPage(grown, page.next, limit, filter, 2), grown, limit, filter) IN
         [rest EXCEPT !.records = page.records \o @]
Walk(file, grown, limit, filter) == WalkOn(File!ReadPage(file, {}, limit, filter, 2), grown, limit, filter)

\* Whatever is appended while they are asked for, the pages of a ledger are its wanted
\* records, each once, newest first, from the newest there was; a line that does not
\* parse is an error and never passed over.
IsRead(walk, wanted) == walk.refused = "no" /\ walk.records = Reverse(wanted)
OneByOneHolds(file, refused) ==
    IF Good(file) THEN refused = "corrupt" => ~InOrder(Numbers(file)) ELSE refused # "no"
WalkHolds(file, more) ==
    /\ Good(file \o more) /\ InOrder(Numbers(file \o more)) =>
          \A filter \in Filters, limit \in 1 .. 2 :
              IsRead(Walk(file, file \o more, limit, filter), Wanted(Numbers(file), filter))
    /\ OneByOneHolds(file, Walk(file, file, 1, File!Everything).refused)

\* Any cursor at all gets the records before the line it names, none from its own
\* number on, or is refused.
NumbersBefore(file, offset) ==
    LET before == SelectSeq(Whole(file), LAMBDA l : l.at + Len(l.line) < offset) IN
    [i \in DOMAIN before |-> File!Parse(before[i].line)]
CursorReads(file, c, page) ==
    /\ page.refused = "no" =>
          /\ IsPrefix(page.records, Reverse(NumbersBefore(file, c.offset)))
          /\ \A i \in DOMAIN page.records : page.records[i] < c.seq
    /\ (\E l \in Range(Whole(file)) : l.at = c.offset /\ File!Parse(l.line) = c.seq) => page.refused = "no"
CursorHolds(file) ==
    Good(file) /\ InOrder(Numbers(file)) =>
        \A c \in [seq : 0 .. 3, offset : 0 .. Len(file) + 1] :
            CursorReads(file, c, File!ReadPage(file, {c}, 2, File!Everything, 2))

\* The search by number finds the first record numbered at least so much, and find
\* answers for each number whether the ledger has it.
SearchHolds(file) ==
    Good(file) /\ InOrder(Numbers(file)) =>
        \A n \in 0 .. 3 :
            LET from == {l.at : l \in {l \in Range(Whole(file)) : File!Parse(l.line) >= n}} IN
            /\ File!FirstFrom(file, File!CompleteEnd(file), n) =
                   (IF from = {} THEN File!CompleteEnd(file) ELSE CHOOSE at \in from : \A other \in from : at <= other)
            /\ File!One(file, n) = IF n \in Range(Numbers(file)) THEN 200 ELSE 404

\* What a follower reads until there is no more.
RECURSIVE ReadOn(_, _, _)
ReadOn(file, offset, most) ==
    LET read == File!FollowRead(file, offset, most) IN
    IF read.refused # "no" \/ read.records = <<>> THEN read
    ELSE LET rest == ReadOn(file, read.offset, most) IN [rest EXCEPT !.records = read.records \o @]

\* Wherever the file had been written to when it was first read, in the middle of a
\* line too, a follower has every record behind where it began, each once and in order.
FollowHolds(file) ==
    Good(file) /\ InOrder(Numbers(file)) =>
        \A k \in 0 .. Len(file), most \in 1 .. 2, after \in {{}, {0}, {1}} :
            LET short == SubSeq(file, 1, k)
                start == IF after = {} THEN 0 ELSE File!FollowAfter(short, after)
                first == ReadOn(short, start, most)
                then == ReadOn(file, first.offset, most)
                behind == SelectSeq(Whole(file), LAMBDA l : l.at >= start)
            IN /\ first.refused = "no" /\ then.refused = "no"
               /\ first.records \o then.records = [i \in DOMAIN behind |-> File!Parse(behind[i].line)]
               /\ after = {0} /\ 0 \in Range(Numbers(short)) =>
                     first.records \o then.records = SelectSeq(Numbers(file), LAMBDA n : n > 0)

\* An export is every wanted record there is, first to last.
ExportHolds(file) ==
    \A filter \in Filters :
        LET export == File!ExportAll(file, filter, 2) IN
        IF Good(file) THEN export = [records |-> Wanted(Numbers(file), filter), whole |-> TRUE] ELSE ~export.whole

Cursors == {{}, {File!EmptyCursor}, {File!BadCursor}, {[seq |-> 1, offset |-> 2]}}
Queries == [cursor : Cursors, limit : {{}, {File!Unread}, {0}, {1}, {3}, {4}},
            filter : {File!Everything, Is("kind", "call"), [File!Everything EXCEPT !.since = 1], Is("decision", "maybe")}]

\* A page never has more than PAGE_MAX records, the bare list no cursor; a query that is
\* not one is told so, whatever the ledger holds.
Listed(file, query, list) ==
    /\ Len(list.records) <= 3
    /\ query.filter = Is("decision", "maybe") => list.status = 400
    /\ query.cursor = {} /\ query.filter = File!Everything => list.next = {}
    /\ Good(file) /\ InOrder(Numbers(file)) /\ list.status = 200 => InOrder(Reverse(list.records))
ListHolds(file) == \A query \in Queries : Listed(file, query, File!Listing(file, query))

PagesHold(file, more) ==
    /\ WalkHolds(file, more)
    /\ more = <<>> => CursorHolds(file) /\ SearchHolds(file) /\ FollowHolds(file)
                   /\ ExportHolds(file) /\ ListHolds(file)

-----------------------------------------------------------------------------
\* Records as a file may hold them, with a separator in any field that is a text.
Members == {<<<<"kind">>, Record!JsonString(<<"a">>)>>, <<<<"b">>, Record!JsonString(<<"a", "us", "\"">>)>>,
            <<<<"b">>, Record!JsonNull>>,
            <<<<"b">>, Record!JsonObject(<<<<<<"a">>, Record!JsonNull>>, <<<<"b">>, Record!JsonList(<<Record!JsonNull>>)>>>>)>>,
            <<<<"b">>, Record!JsonObject(<<<<<<"b">>, Record!JsonList(<<Record!JsonNull>>)>>, <<<<"a">>, Record!JsonNull>>>>)>>,
            <<<<"b">>, Record!JsonObject(<<<<<<"b">>, Record!JsonNull>>, <<<<"b">>, Record!JsonNull>>>>)>>,
            <<<<"a", "b">>, Record!JsonString(<<>>)>>}
Laters == {m \in UNION {[1 .. n -> Members] : n \in 0 .. 2} : Record!NamedOnce(Record!JsonObject(m))}
OnFile(method, tool, decision, rule, later) ==
    [v1 |-> [field \in Range(Record!V1) |->
                CASE field = "method" -> method [] field = "tool" -> tool [] field = "decision" -> decision
                  [] field = "rule" -> rule [] field = "prev" -> {<<"h">>} [] OTHER -> {<<"n">>}],
     later |-> later]
Records ==
    {OnFile(method, tool, decision, rule, later) :
        method \in {{}, {<<"a">>}}, tool \in {{}, {<<>>}, {<<"b">>}, {<<"b", "us", "n">>}},
        decision \in {{<<"allow">>}, {<<"b">>}, {<<"allow", "us", "b">>}}, rule \in {{}, {<<"b">>}, {<<"n", "us", "h">>}},
        later \in {<<>>, <<<<<<"b">>, Record!JsonNull>>>>, <<<<<<"kind">>, Record!JsonString(<<"a">>)>>>>}}
    \cup {OnFile({}, {}, {<<"allow">>}, {}, later) : later \in Laters}
HashedOf == [record \in Records |-> Record!Hashed(record)]

\* What a value says: an object's members in no order.
RECURSIVE Said(_)
Said(value) ==
    CASE value.kind = "list" -> [list |-> [i \in DOMAIN value.values |-> Said(value.values[i])]]
      [] value.kind = "object" -> [members |-> {<<value.members[i][1], Said(value.members[i][2])>> : i \in DOMAIN value.members}]
      [] OTHER -> [value |-> value]
Says(record) ==
    [v1 |-> [field \in DOMAIN record.v1 |-> Record!TextOr(record.v1[field])],
     later |-> {<<m[1], Said(m[2])>> : m \in Range(Record!Later(record))}]

\* The hash pins what a record says, in whatever order its line lists its members, and
\* nothing else: of any two whose texts hold no separator, or whose given fields do not,
\* what is hashed is the same just if they say the same.
HashPins(record) ==
    ~Record!HasSeparator(record) =>
        \A other \in Records :
            ~Record!HasSeparator(other) => (HashedOf[record] = HashedOf[other] <=> Says(record) = Says(other))

\* No entry, whatever its caller called things, makes a record whose fields run into
\* each other, or another decision than was made; a record says its entry was plain just
\* if it was.
EntryHolds(text, deny) ==
    LET entry == [agent |-> {text}, server |-> {text}, method |-> {text}, tool |-> {text}, kind |-> "call", uri |-> {},
                  deny |-> IF deny THEN {text} ELSE {}, rule |-> {}, transforms |-> <<>>, actor |-> {}, peer |-> {}, configFrom |-> {}, configTo |-> {},
              toolChanges |-> {}]
        record == Record!RecordOf(entry, <<"n">>, <<"h">>)
    IN /\ ~Record!HasSeparator(record) /\ Record!Later(record) = <<>>
       /\ Record!IsDeny(record) <=> deny
       /\ Len(SelectSeq(Record!Hashed(record), LAMBDA c : c = "us")) = 9

-----------------------------------------------------------------------------
\* What a reader of a line takes its characters for: those behind a `\` as themselves.
RECURSIVE Scan(_)
Scan(text) ==
    IF text = <<>> THEN <<>>
    ELSE IF Head(text) = "\\" /\ Len(text) > 1 THEN <<[c |-> text[2], escaped |-> TRUE]>> \o Scan(SubSeq(text, 3, Len(text)))
    ELSE <<[c |-> Head(text), escaped |-> FALSE]>> \o Scan(Tail(text))
Chars(scanned) == [i \in DOMAIN scanned |-> scanned[i].c]
Bare(scanned, c) == Places(scanned, LAMBDA read : read = [c |-> c, escaped |-> FALSE])

\* Every key of a CEF line's extension is the word before a bare `=`.
CefRead(line) ==
    LET scanned == Scan(line)  bars == Bare(scanned, "|")  ext == SubSeq(scanned, bars[7] + 1, Len(scanned))  eqs == Bare(ext, "=") IN
    [k \in DOMAIN eqs |-> <<ext[eqs[k] - 1].c, Chars(SubSeq(ext, eqs[k] + 1, IF k = Len(eqs) THEN Len(ext) ELSE eqs[k + 1] - 3))>>]

\* A syslog line's parameters, each quoted, up to the bare `]` outside them.
RECURSIVE SdRead(_, _)
SdRead(scanned, i) ==
    IF scanned[i] = [c |-> "]", escaped |-> FALSE] THEN <<>>
    ELSE LET quotes == SelectSeq(Bare(scanned, "\""), LAMBDA q : q > i)
         IN <<<<scanned[i + 1].c, Chars(SubSeq(scanned, quotes[1] + 1, quotes[2] - 1))>>>> \o SdRead(scanned, quotes[2] + 1)
SyslogRead(line) ==
    LET sixth == Places(line, LAMBDA c : c = " ")[6] IN SdRead(Scan(SubSeq(line, sixth + 1, Len(line))), 3)

Full(text, decision) ==
    OnFile({text}, {text}, {decision}, {text},
           <<<<<<"kind">>, Record!JsonString(text)>>, <<<<"uri">>, Record!JsonString(text)>>,
             <<<<"transforms">>, Record!JsonList(<<Record!JsonString(text)>>)>>, <<<<"peer">>, Record!JsonString(text)>>,
             <<<<"later">>, Record!JsonString(text)>>>>)

\* Whatever a caller called things, an export is one line, of which a reader of its
\* format reads the pairs that were written and no others, each value whole but for its
\* line ends; and every later member is in the exports that have a place for any.
CefReadsBack(cef, pairs) ==
    "\n" \notin Range(cef) /\ CefRead(cef) = [i \in DOMAIN pairs |-> <<pairs[i][1], Chars(Scan(pairs[i][2]))>>]
SyslogReadsBack(syslog, params, summary) ==
    /\ "\n" \notin Range(syslog)
    /\ SyslogRead(syslog) = [i \in DOMAIN params |-> <<params[i][1], Record!OneLine(params[i][2])>>]
    /\ IsSuffix(<<" ">> \o Record!OneLine(summary), syslog)
ExportsReadBack(text) ==
    /\ Chars(Scan(Record!CefExtEscape(text))) = Record!OneLine(text)
    /\ \A record \in {Full(text, <<"allow">>), Full(text, <<"deny">>)} :
          /\ CefReadsBack(Record!Cef(record), Record!CefPairs(record))
          /\ SyslogReadsBack(Record!Syslog(record), Record!SdParams(record), Record!Summary(record))
          /\ DOMAIN Record!Ocsf(record).unmapped = {m[1] : m \in Range(record.later)}
          /\ (Record!Ocsf(record).status = "Failure") <=> Record!IsDeny(record)

\* Days are counted as the calendar has them.
Leap(year) == year % 4 = 0 /\ (year % 100 # 0 \/ year % 400 = 0)
DaysIn(year, month) == CASE month = 2 -> (IF Leap(year) THEN 29 ELSE 28) [] month \in {4, 6, 9, 11} -> 30 [] OTHER -> 31
NextDate(date) ==
    IF date[3] < DaysIn(date[1], date[2]) THEN <<date[1], date[2], date[3] + 1>>
    ELSE IF date[2] < 12 THEN <<date[1], date[2] + 1, 1>> ELSE <<date[1] + 1, 1, 1>>
DatesHold(year) ==
    /\ Record!DateOf(0) = <<1970, 1, 1>>
    /\ \A day \in (year * 365) .. ((year * 365) + 364) : Record!DateOf(day + 1) = NextDate(Record!DateOf(day))

\* And back: before 1970 too.
DaysHold(year) ==
    \A day \in ((year - 225) * 365) .. (((year - 225) * 365) + 364) :
        LET date == Read!CivilFromDays(day) IN
        Read!CivilFromDays(day + 1) = NextDate(date) /\ Read!DaysFromCivil(date) = day

-----------------------------------------------------------------------------
\* The blocks of addresses that are not public, as the registries have them: how many
\* of the first bits, and what for.
Padded(words, n) == words \o [i \in 1 .. n - Len(words) |-> 0]
Block4(words, bits, class) == [at |-> Padded(words, 4), bits |-> bits, class |-> class]
Block6(words, bits, class) == [at |-> Padded(words, 8), bits |-> bits, class |-> class]
Blocks4 ==
    {Block4(<<>>, 32, "unspecified"), Block4(<<>>, 8, "special"), Block4(<<127>>, 8, "loopback"),
     Block4(<<169, 254>>, 16, "linkLocal"), Block4(<<255, 255, 255, 255>>, 32, "linkLocal"),
     Block4(<<10>>, 8, "private"), Block4(<<172, 16>>, 12, "private"), Block4(<<192, 168>>, 16, "private"),
     Block4(<<100, 64>>, 10, "private"), Block4(<<192, 0, 0>>, 24, "special"), Block4(<<192, 0, 2>>, 24, "special"),
     Block4(<<198, 18>>, 15, "special"), Block4(<<198, 51, 100>>, 24, "special"), Block4(<<203, 0, 113>>, 24, "special"),
     Block4(<<224>>, 4, "special"), Block4(<<240>>, 4, "special")}
Blocks6 ==
    {Block6(<<>>, 128, "unspecified"), Block6(<<0, 0, 0, 0, 0, 0, 0, 1>>, 128, "loopback"),
     Block6(<<65152>>, 10, "linkLocal"), Block6(<<64512>>, 7, "private"), Block6(<<65280>>, 8, "special"),
     Block6(<<8193, 3512>>, 32, "special"), Block6(<<16383>>, 20, "special"), Block6(<<8193, 2>>, 48, "special"),
     Block6(<<24320>>, 16, "special"), Block6(<<256>>, 48, "special"), Block6(<<100, 65435, 1>>, 48, "special")}
Mapped(block) ==
    LET a == block.at IN
    Block6(<<0, 0, 0, 0, 0, 65535, (a[1] * 256) + a[2], (a[3] * 256) + a[4]>>, 96 + block.bits, block.class)
Blocks == Blocks4 \cup Blocks6 \cup {Mapped(block) : block \in Blocks4}

Size(ip) == IF Len(ip) = 4 THEN 8 ELSE 16
Within(least, n, most) == IF n < least THEN least ELSE IF n > most THEN most ELSE n
\* What a word of an address counts in the block: the value of the bits behind it.
Behind(block, i) == 2 ^ Within(0, (Size(block.at) * i) - block.bits, Size(block.at))
InBlock(ip, block) ==
    Len(ip) = Len(block.at) /\ \A i \in DOMAIN ip : ip[i] \div Behind(block, i) = block.at[i] \div Behind(block, i)
LastOf(block) == [i \in DOMAIN block.at |-> block.at[i] + Behind(block, i) - 1]

\* The address behind and before one, round the ends.
RECURSIVE Stepped(_, _, _)
Stepped(ip, i, by) ==
    LET most == (2 ^ Size(ip)) - 1
        over == ip[i] = (IF by = 1 THEN most ELSE 0)
        set  == [j \in DOMAIN ip |-> IF j # i THEN ip[j] ELSE IF ~over THEN ip[i] + by ELSE IF by = 1 THEN 0 ELSE most]
    IN IF over /\ i > 1 THEN Stepped(set, i - 1, by) ELSE set
Edges == UNION {{block.at, LastOf(block), Stepped(block.at, Len(block.at), -1), Stepped(LastOf(block), Len(block.at), 1)} : block \in Blocks}

\* An address is of the class of the smallest block that has it, public in none.
AddressHolds(ip) ==
    LET having == {block \in Blocks : InBlock(ip, block)}
        smallest == CHOOSE block \in having : \A other \in having : other.bits <= block.bits
    IN Dial!Classify(ip) = IF having = {} THEN "public" ELSE smallest.class

Public == <<8, 8, 8, 8>>
Inside == <<10, 0, 0, 1>>
Local == <<169, 254, 0, 1>>
Resolutions == {{}, {Public}, {Inside}, {Public, Inside}, {Public, Local}}
Hosts == {[name |-> name, ip |-> <<>>] : name \in {"h", "g"}} \cup {[name |-> "", ip |-> ip] : ip \in {Public, Inside, Local}}
Urls == [reads : {TRUE}, scheme : {"http", "https"}, host : {{host} : host \in Hosts}]
        \cup {[reads |-> FALSE, scheme |-> "", host |-> {}], [reads |-> TRUE, scheme |-> "https", host |-> {}],
              [reads |-> TRUE, scheme |-> "ftp", host |-> {[name |-> "h", ip |-> <<>>]}]}
Named(url) == url.host # {} /\ \A host \in url.host : host.name # ""
Guards == {guard \in [url : Urls, resolved : Resolutions] : Named(guard.url) \/ guard.resolved = {}}
Clients == {Dial!NewClient([reads |-> TRUE, scheme |-> "https", host |-> {[name |-> "h", ip |-> <<>>]}], policy, connectTo) :
               policy \in [allowPrivate : BOOLEAN, httpsForPublic : BOOLEAN], connectTo \in {{}, {Public}, {Inside}, {Local}}}

\* Whatever a client was pointed at before, and whatever a name resolves to by the time
\* it connects: a URL it let pass is dialled at addresses that pass the policy, those
\* its name was pinned to, its own host at connect_to; the first it let pass of a host
\* is not asked in the clear at a public address.
DialledWell(client, url, first, dialled) ==
    /\ dialled # {} /\ dialled # Resolutions
    /\ \A ip \in dialled : Dial!CheckIp(ip, client.policy) # "refused"
    /\ client.connectTo # {} /\ url.host = client.origin.host => dialled = client.connectTo
    /\ first /\ url.scheme = "http" /\ client.policy.httpsForPublic =>
          \A ip \in dialled : Dial!CheckIp(ip, client.policy) # "public"
StepsHold(guards, client, steps) ==
    \A i \in DOMAIN guards : steps[i].ok =>
        DialledWell(client, guards[i].url, \A j \in 1 .. i - 1 : guards[j].url.host # guards[i].url.host,
                    Dial!Dialled(steps[i].client, guards[i].url, Resolutions))
DialHolds(guards, client) ==
    LET Step(steps, guard) ==
            Append(steps, Dial!GuardAndPin(IF steps = <<>> THEN client ELSE Last(steps).client, guard.url, guard.resolved))
    IN StepsHold(guards, client, FoldLeft(Step, <<>>, guards))

-----------------------------------------------------------------------------
\* The files an upstream's settings may name: of a CA, of a CRL, of an identity.
Section(kind, holds, good) == [kind |-> kind, holds |-> holds, good |-> good, key |-> "k1"]
Pem(sections) == [reads |-> TRUE, begins |-> TRUE, encrypted |-> FALSE, wellFormed |-> TRUE, sections |-> sections]
OwnCa == Pem(<<Section("certificate", "own", TRUE)>>)
Spoiled(file) == {[file EXCEPT !.reads = FALSE], [file EXCEPT !.begins = FALSE], [file EXCEPT !.encrypted = TRUE],
                  [file EXCEPT !.wellFormed = FALSE]}
CaFiles == {<<>>, <<OwnCa>>, <<Pem(<<Section("certificate", "own", TRUE), Section("certificate", "leaf", FALSE)>>)>>,
            <<OwnCa, Pem(<<Section("crl", "c", TRUE)>>)>>} \cup {<<file>> : file \in Spoiled(OwnCa)}
CrlFiles == {<<>>, <<Pem(<<Section("crl", "c", TRUE)>>)>>, <<Pem(<<Section("crl", "c", FALSE)>>)>>, <<Pem(<<>>)>>}
KeyFile(kinds) == Pem([i \in DOMAIN kinds |-> Section(kinds[i], "k1", TRUE)])
ChainFile == Pem(<<Section("pkcs8", "k1", TRUE), Section("certificate", "me", TRUE), [Section("certificate", "over me", TRUE) EXCEPT !.key = "k2"]>>)
Identities == {{}, {[cert |-> ChainFile, key |-> KeyFile(<<"certificate", "sec1">>)]},
               {[cert |-> ChainFile, key |-> KeyFile(<<"pkcs8", "pkcs1">>)]},
               {[cert |-> ChainFile, key |-> Pem(<<Section("pkcs8", "k2", TRUE)>>)]}}
Profiles == [roots : {"bundled", "system", "both"}, ca : CaFiles, crl : CrlFiles, identity : Identities,
             pins : {<<>>, <<"k1">>, <<"k2", "bad">>}, skip : BOOLEAN, min : {12, 13}]
Servers == [root : {"bundled", "system", "own", "none"}, named : BOOLEAN, covered : {{}, {"c"}}, revoked : {{}, {"c"}},
            key : {"k1", "k2"}, version : {12, 13}, signs : {TRUE}]

\* Settings that load are verified by as they say they are, and take just the servers
\* they name; check passes what load will, on a host whose store may be another, and
\* stops what it will not, but for what pins make of no use.
ProfileHolds(settings) ==
    LET loaded == Dial!Load(settings)
        Root(server) == \/ server.root = "bundled" /\ settings.roots # "system"
                        \/ server.root = "system" /\ settings.roots # "bundled"
                        \/ server.root = "own" /\ settings.ca # <<>>
        Takes(server) ==
            IF settings.pins # <<>> THEN \E i \in DOMAIN settings.pins : settings.pins[i] = server.key
            ELSE settings.skip \/ (/\ Root(server) /\ server.named
                                   /\ settings.crl # <<>> => server.covered # {} /\ server.revoked = {})
    IN /\ loaded.ok =>
             /\ Dial!ProfileVerification(loaded) = Dial!SettingsVerification(settings)
             /\ \A server \in Servers : Dial!Accepts(loaded, server) <=> Takes(server) /\ server.version >= settings.min
             /\ \A identity \in loaded.identity : identity.key = identity.chain[1].key
             /\ (loaded.identity = {}) <=> (settings.identity = {})
             /\ settings.pins = <<>> \/ ~settings.skip
             /\ settings.pins = <<>> => Dial!Check(settings)
       /\ Dial!Check(settings) => loaded.ok \/ (settings.pins # <<>> /\ settings.skip)
       /\ BareHost!Load(settings).ok <=> loaded.ok /\ (settings.pins # <<>> \/ settings.roots = "bundled")

-----------------------------------------------------------------------------
\* Certificates as they are written: each element its tag, the length of what it holds,
\* and that.
LengthOf(n) == IF n < 128 THEN <<n>> ELSE IF n < 256 THEN <<129, n>> ELSE <<130, n \div 256, n % 256>>
Tlv(tag, contents) == <<tag>> \o LengthOf(Len(contents)) \o contents
Sequence(parts) == Tlv(Read!SEQUENCE, FlattenSeq(parts))
Attribute(oid, tag, text) == Tlv(Read!SET, Sequence(<<Tlv(Read!OID, oid), Tlv(tag, text)>>))
NameOf(attributes) == Sequence([i \in DOMAIN attributes |-> Attribute(attributes[i][1], attributes[i][2], attributes[i][3])])
Extension(oid, critical, value) ==
    Sequence(<<Tlv(Read!OID, oid), IF critical THEN Tlv(Read!BOOL, <<255>>) ELSE <<>>, Tlv(Read!OCTET_STRING, value)>>)
Written(c) ==
    Sequence(<<Sequence(<<
        IF c.version THEN Tlv(Read!VERSION, Tlv(Read!INTEGER, <<2>>)) ELSE <<>>,
        Tlv(Read!INTEGER, c.serial), Sequence(<<[i \in 1 .. c.pad |-> 5]>>), NameOf(c.issuer),
        Sequence(<<Tlv(Read!UTC_TIME, <<50>>), Tlv(c.notAfter.tag, c.notAfter.text)>>), NameOf(c.subject), Sequence(<<>>),
        IF c.unique THEN Tlv(129, <<0>>) ELSE <<>>,
        IF c.extensions = {} THEN <<>> ELSE
            Tlv(Read!EXTENSIONS, Sequence([i \in DOMAIN Read!TheOf(c.extensions) |->
                LET e == Read!TheOf(c.extensions)[i] IN Extension(e.oid, e.critical, e.value)]))>>), Sequence(<<>>)>>)

Digits(digits) == [i \in DOMAIN digits |-> 48 + digits[i]] \o <<90>>
TimesGiven ==
    {[tag |-> Read!UTC_TIME, text |-> Digits(<<4, 9, 0, 2, 2, 8, 2, 3, 5, 9, 5, 8>>), is |-> {<<2049, 2, 28, 86398>>}],
     [tag |-> Read!UTC_TIME, text |-> Digits(<<5, 0, 0, 2, 2, 8, 0, 0, 0, 0, 0, 0>>), is |-> {<<1950, 2, 28, 0>>}],
     [tag |-> Read!UTC_TIME, text |-> Digits(<<0, 0, 0, 2, 2, 9, 0, 0, 0, 0, 0, 1>>), is |-> {<<2000, 2, 29, 1>>}],
     [tag |-> Read!UTC_TIME, text |-> Digits(<<3, 1, 0, 2, 0, 3, 2, 4, 0, 0, 0, 0>>), is |-> {}],
     [tag |-> Read!GENERALIZED_TIME, text |-> Digits(<<2, 1, 0, 0, 0, 2, 2, 8, 0, 1, 0, 0, 0, 0>>), is |-> {<<2100, 2, 28, 3600>>}],
     [tag |-> Read!GENERALIZED_TIME, text |-> Digits(<<2, 1, 0, 0, 0, 2, 2, 9, 0, 1, 0, 0, 0, 0>>), is |-> {}],
     [tag |-> Read!GENERALIZED_TIME, text |-> Digits(<<4, 9, 0, 2, 2, 8, 2, 3, 5, 9, 5, 8>>), is |-> {}],
     [tag |-> 12, text |-> Digits(<<0, 0, 0, 2, 2, 9, 0, 0, 0, 0, 0, 1>>), is |-> {}]}
Unit == <<85, 4, 11>>
NamesGiven ==
    {<<>>, <<<<Unit, 12, <<97>>>>>>, <<<<Read!COMMON_NAME, 12, <<97, 98>>>>>>, <<<<Read!COMMON_NAME, 30, <<97>>>>, <<Read!COMMON_NAME, 12, <<97>>>>>>,
     <<<<Unit, 30, <<97>>>>, <<Read!COMMON_NAME, 19, <<98>>>>, <<Read!COMMON_NAME, 12, <<97>>>>>>}
AltsGiven == {<<>>, <<<<130, <<97>>>>, <<135, <<10, 0, 0, 1>>>>>>, <<<<160, <<97>>>>, <<134, <<98>>>>, <<129, <<>>>>>>, <<<<130, <<97>>>>, <<135, <<1>>>>>>}
Sans == {[oid |-> Read!SUBJECT_ALT_NAME, critical |-> critical, alts |-> alts, value |-> Sequence([i \in DOMAIN alts |-> Tlv(alts[i][1], alts[i][2])])] :
            critical \in BOOLEAN, alts \in AltsGiven}
Other == [oid |-> Unit, critical |-> FALSE, alts |-> <<>>, value |-> <<>>]
Plain == [version |-> TRUE, serial |-> <<1>>, pad |-> 1, issuer |-> <<>>, subject |-> <<>>, unique |-> FALSE, extensions |-> {},
          notAfter |-> CHOOSE t \in TimesGiven : t.is # {}]
Certificates ==
    {[Plain EXCEPT !.version = version, !.serial = serial, !.pad = pad, !.notAfter = notAfter] :
        version \in BOOLEAN, serial \in {<<1, 35>>, <<0>>, <<0, 127>>, <<0, 128>>, <<>>}, pad \in {1, 130, 300}, notAfter \in TimesGiven}
    \cup {[Plain EXCEPT !.issuer = issuer, !.subject = subject, !.unique = unique, !.extensions = extensions] :
            issuer \in NamesGiven, subject \in NamesGiven, unique \in BOOLEAN,
            extensions \in {{}, {<<>>}} \cup {{<<san>>} : san \in Sans} \cup {{<<Other, san>>} : san \in Sans}}

\* The first common name among attributes, of a kind that is read, and the names of an
\* extension that a client matches, all of them or none.
CommonNameOf(attributes) ==
    LET named == Places(attributes, LAMBDA a : a[1] = Read!COMMON_NAME) IN
    IF named = <<>> \/ attributes[named[1]][2] = 30 THEN {} ELSE {attributes[named[1]][3]}
AltNamesOf(alts) ==
    IF \E i \in DOMAIN alts : alts[i] = <<135, <<1>>>> THEN <<>>
    ELSE LET kept == Places(alts, LAMBDA a : a[1] # 160) IN [k \in DOMAIN kept |-> <<Read!AltKinds[alts[kept[k]][1]], alts[kept[k]][2]>>]

\* What is shown of a certificate is what is in it, however long its parts are and
\* whichever it has; of one that is cut short nothing is.
SansOf(c) == {e \in UNION {Range(list) : list \in c.extensions} : e.oid = Read!SUBJECT_ALT_NAME}
CutHolds(cut) == Read!NotAfter(cut) = {} /\ Read!Serial(cut) = {} /\ Read!Named(cut) = {}
WrittenHolds(c, der) ==
    /\ Read!NotAfter(der) = {[day |-> Read!DaysFromCivil(<<t[1], t[2], t[3]>>), second |-> t[4]] : t \in c.notAfter.is}
    /\ Read!Serial(der) = {IF serial = <<0, 128>> THEN <<128>> ELSE serial : serial \in {c.serial} \ {<<>>}}
    /\ Read!NamesRead(der) =
          [subject |-> CommonNameOf(c.subject), issuer |-> CommonNameOf(c.issuer),
           altNames |-> IF SansOf(c) = {} THEN <<>> ELSE AltNamesOf((CHOOSE e \in SansOf(c) : TRUE).alts)]
    /\ Len(der) < 100 => \A k \in 0 .. Len(der) - 1 : CutHolds(SubSeq(der, 1, k))
CertificateHolds(c) == WrittenHolds(c, Written(c))

\* Whatever bytes there are, an element is the first that they write out.
DerHolds(der) ==
    Read!Element(der) =
        {[tag |-> der[1], contents |-> SubSeq(der, 3 + n, 2 + n + len), rest |-> SubSeq(der, 3 + n + len, Len(der))] :
            <<n, len>> \in {form \in (0 .. 3) \X (0 .. Len(der)) :
                /\ 2 + form[1] + form[2] <= Len(der)
                /\ IF form[1] = 0 THEN der[2] = form[2] /\ form[2] < 128
                   ELSE /\ der[2] = 128 + form[1]
                        /\ form[2] = FoldLeft(LAMBDA sum, i : sum + (der[i + 2] * (256 ^ (form[1] - i))), 0, [i \in 1 .. form[1] |-> i])}}

-----------------------------------------------------------------------------
\* A text cut at each of some places.
CutAt(text, cuts) ==
    LET places == SetToSortSeq(cuts \cup {0, Len(text)}, <) IN
    [k \in 1 .. Len(places) - 1 |-> SubSeq(text, places[k] + 1, places[k + 1])]

\* The runs of lines that are not blank, whatever ends them, and the event of one that
\* is more than comments: its fields' last values, and its data joined line by line
\* from the first that is not empty.
RECURSIVE RunsOf(_, _)
RunsOf(lines, run) ==
    IF lines = <<>> THEN <<run>>
    ELSE IF Head(lines) = <<>> THEN <<run>> \o RunsOf(Tail(lines), <<>>) ELSE RunsOf(Tail(lines), Append(run, Head(lines)))
Joined(values) ==
    LET full == Places(values, LAMBDA value : value # <<>>)
        from == IF full = <<>> THEN <<>> ELSE SubSeq(values, full[1], Len(values))
    IN FlattenSeq([i \in DOMAIN from |-> (IF i = 1 THEN <<>> ELSE <<"\n">>) \o from[i]])
EventOf(run) ==
    LET fields == [i \in DOMAIN run |-> Read!FieldOf(run[i])]
        Values(name) == LET at == Places(fields, LAMBDA f : f.name = name) IN [k \in DOMAIN at |-> fields[at[k]].value]
        LastValue(name) == IF Values(name) = <<>> THEN {} ELSE {Last(Values(name))}
    IN [event |-> LastValue(<<"event">>), data |-> Joined(Values(<<"data">>)), id |-> LastValue(<<"id">>)]
EventsWritten(text) ==
    LET runs == RunsOf(Read!LinesOf(Read!Normalized(text)), <<>>)
        bare == [i \in DOMAIN runs |-> SelectSeq(runs[i], LAMBDA line : line[1] # ":")]
        kept == Places(bare, LAMBDA run : run # <<>>)
    IN [k \in DOMAIN kept |-> EventOf(bare[kept[k]])]

\* However a stream arrives, its events are the ones that were written; the two
\* characters of a line's end are in one chunk.
StreamHolds(text) ==
    LET between == {i \in 1 .. Len(text) - 1 : ~(text[i] = "\r" /\ text[i + 1] = "\n")} IN
    \A cuts \in SUBSET between : Cardinality(cuts) <= 2 => Read!EventsOf(CutAt(text, cuts)) = EventsWritten(text)

\* The value of a secret: less the end of its last line, if it is text and not too much.
Chomped(text) ==
    IF IsSuffix(<<"\r", "\n">>, text) THEN SubSeq(text, 1, Len(text) - 2)
    ELSE IF IsSuffix(<<"\n">>, text) THEN SubSeq(text, 1, Len(text) - 1) ELSE text
ValueOf(text) == IF Len(text) > 3 \/ "not text" \in Range(text) THEN {} ELSE {Chomped(text)}

\* What is read of a file is all of it, whatever it was taken to be as long as and
\* however much a read gives; of one with more than may be read, or that was not a file
\* at one look, nothing.
FileHolds(text) ==
    \A cuts \in SUBSET (1 .. Len(text) - 1), size \in {0, 1, 2, 5}, before, after \in BOOLEAN :
        Read!ReadFile([before |-> before, after |-> after, size |-> size, chunks |-> CutAt(text, cuts)])
            = IF before /\ after THEN ValueOf(text) ELSE {}

\* A command gives a value if it wrote it all and ended well before its time was up, and
\* whatever it did it is not left to run on.
Orderly(does) ==
    /\ \A i, j \in DOMAIN does : i # j => does[i] # does[j] \/ does[i] \in {"a", "\n"}
    /\ ~({"exit 0", "exit 1"} \subseteq Range(does))
    /\ \A i, j \in DOMAIN does : does[i] = "close" /\ i < j => does[j] \notin {"a", "\n"}
CommandHolds(does) ==
    LET wrote == SelectSeq(does, LAMBDA d : d \in {"a", "\n"})
        ran == Read!RunCommand(does)
        InTime(what) == \E i \in DOMAIN does : does[i] = what /\ \A j \in 1 .. i : does[j] # "deadline"
    IN Orderly(does) =>
          /\ ran.value = IF InTime("close") /\ InTime("exit 0") THEN ValueOf(wrote) ELSE {}
          /\ ~ran.stopped => InTime("exit 0") \/ InTime("exit 1")
          /\ ran.stopped => ran.value = {}

\* A secret's table, a key at a time, and what the places hold that it may name.
Keys == {<<"env", <<"a">>>>, <<"env", <<"=">>>>, <<"env", <<>>>>, <<"file", <<"p">>>>, <<"file", <<>>>>,
         <<"exec", <<<<"c">>, <<"w">>>>>>, <<"exec", <<<<>>>>>>, <<"exec", <<<<"c">>, <<"NUL">>>>>>, <<"other", <<"a">>>>}
Texts == {<<"a">>, <<"b", "\n">>, <<"not text">>}
FileOf(text) == [before |-> TRUE, after |-> TRUE, chunks |-> <<text>>, size |-> Len(text)]
PlacesHeld == [env : {<<>>} \cup [{<<"a">>} -> Texts], file : {FileOf(text) : text \in Texts},
               does : {text \o <<"close", exit>> : text \in Texts, exit \in {"exit 0", "exit 1"}}]

\* A setting that is taken names one place, and its value is what that place holds,
\* whatever the others do.  No permission that a file gives besides makes less to be said
\* of it, and nothing is said only of a file no one else reads, or that root lets
\* MCPdef's group read.
RefHolds(keys) ==
    LET named == Read!SecretRef([kind |-> "table", keys |-> keys])
        Held(places) ==
            CASE keys[1][1] = "env" ->
                    IF places.env = <<>> \/ "not text" \in Range(places.env[<<"a">>]) THEN {} ELSE {places.env[<<"a">>]}
              [] keys[1][1] = "file" -> ValueOf(places.file.chunks[1])
              [] keys[1][1] = "exec" ->
                    IF Last(places.does) = "exit 0" THEN ValueOf(SelectSeq(places.does, LAMBDA d : d \notin {"close", "exit 0"}))
                    ELSE {}
    IN /\ named # {} => Len(keys) = 1
       /\ \A secret \in named, places \in PlacesHeld : Read!Resolve(secret, places) = Held(places)
SaidHolds ==
    \A owner, me \in {"root", "someone", "unknown"}, group, everyone \in BOOLEAN :
        LET said == Read!Exposed(group, everyone, owner, me) IN
        /\ \A more \in BOOLEAN : said \subseteq Read!Exposed(group \/ more, everyone, owner, me)
                                               \cap Read!Exposed(group, everyone \/ more, owner, me)
        /\ said = {} <=> ~everyone /\ (group => owner = "root" /\ me = "someone")

-----------------------------------------------------------------------------
\* What is sent to a Streamable-HTTP server, and what it replies.
Part(is, version) == [is |-> is, version |-> version]
Answer == Part("answer", {"v"})
Bodies == {<<>>, <<Answer>>, <<Part("answer", {"unsafe"})>>, <<Part("noise", {})>>, <<Part("other", {})>>}
Reply(status, streams, session, says, taken) ==
    [status |-> status, streams |-> streams, session |-> session, says |-> says, taken |-> taken]
Replies ==
    {Reply(200, FALSE, session, says, TRUE) : session \in {{}, {1}, {2}}, says \in Bodies}
    \cup {Reply(200, TRUE, session, says, taken) :
             session \in {{}, {1}, {2}}, taken \in BOOLEAN,
             says \in {<<Part("noise", {}), Answer>>, <<Part("ask", {}), Answer>>}}
    \cup {Reply(404, FALSE, session, says, TRUE) : session \in {{}, {1}}, says \in Bodies}
    \cup {Reply(202, FALSE, {1}, <<>>, TRUE), Reply(500, FALSE, {1}, <<Answer>>, TRUE)}
Sendings == [method : {"initialize", "tools/call"}, declares : {{}, {"m"}}] \ {[method |-> "initialize", declares |-> {"m"}]}
Talks == [msg : Sendings, reply : Replies]

\* A session named to the server, with a message or an answer to what it asks, is one it
\* gave, with its last success; a revision named is one the message declares, or one the
\* server answered the latest initialize with, that a header can carry.  An answer is
\* handed up, whatever its status, unless it says that the session has ended; and what is
\* no message fails no message that the server refused.
TalkedHolds(talk, conn, done) ==
    LET n == Len(talk)
        heard(i) == Read!Replied(talk[i].reply) # {}
        gave(i) == heard(i) /\ Read!Succeeded(talk[i].reply) /\ talk[i].reply.session # {}
        begun(i) == heard(i) /\ talk[i].msg.method = "initialize"
        says(i) == UNION {part.version : part \in {part \in Range(talk[i].reply.says) : part.is = "answer"}}
        answered == \E part \in Range(talk[n].reply.says) : part.is = "answer"
    IN /\ \A msg \in Sendings :
            LET sent == Read!PostHeaders(done.conn, msg) IN
            /\ \A i \in 1 .. n : gave(i) /\ (\A j \in (i + 1) .. n : ~gave(j)) => sent.session = talk[i].reply.session
            /\ sent.session # {} => \E i \in 1 .. n : gave(i) /\ talk[i].reply.session = sent.session
            /\ sent.version # msg.declares =>
                  /\ msg.method # "initialize" /\ msg.declares = {} /\ sent.version # {"unsafe"}
                  /\ \E i \in 1 .. n : begun(i) /\ sent.version \subseteq says(i) /\ \A j \in (i + 1) .. n : ~begun(j)
       /\ LET named == Read!AnswerHeaders(conn, talk[n].reply).session IN
          /\ talk[n].reply.session # {} => named = talk[n].reply.session
          /\ named # {} => \E i \in 1 .. n : talk[i].reply.session = named /\ (i = n \/ gave(i))
       /\ talk[n].reply.status \in {200, 404} /\ answered /\ heard(n) =>
             IF talk[n].reply.status = 404 /\ conn.session # {} THEN done.how = "expired"
             ELSE \E i \in DOMAIN done.messages : done.messages[i].is = "answer"
       /\ talk[n].reply.status = 404 => heard(n)
       /\ done.how = "answered" /\ ~Read!Succeeded(talk[n].reply) => done.messages # <<>>
LastHolds(talk, conn) == TalkedHolds(talk, conn, Read!Exchanged(conn, Last(talk).msg, Last(talk).reply))
TalkHolds(talk) ==
    LastHolds(talk, FoldLeft(LAMBDA conn, turn : Read!Exchanged(conn, turn.msg, turn.reply).conn,
                             Read!Connection, SubSeq(talk, 1, Len(talk) - 1)))

-----------------------------------------------------------------------------
\* Calls, each some minutes after the one before it.
Outcomes == {<<"t", "allow", "">>, <<"u", "allow", "">>, <<"t", "deny", "rate-limited">>, <<"u", "deny", "injection">>,
             <<"u", "deny", "">>}
Calls == {[key |-> [server |-> <<"a">>, tool |-> <<o[1]>>, decision |-> o[2], rule |-> o[3]], latency |-> l[1], wait |-> l[2]] :
             o \in Outcomes, l \in {<<0, 0>>, <<3, 0>>, <<4, 1>>, <<5, 2>>}}
MinuteOf(calls, n) == SumFunction([i \in 1 .. n |-> calls[i].wait])
FiguresOf(calls) ==
    LET of[n \in 0 .. Len(calls)] ==
            IF n = 0 THEN Record!NoFigures
            ELSE Record!RecordCall(of[n - 1], calls[n].key, calls[n].latency, MinuteOf(calls, n))
    IN of[Len(calls)]
TheOne(set) == CHOOSE value \in set : TRUE
HowMany(calls, Test(_)) == Len(SelectSeq(calls, Test))

\* What is shown of the calls, some minutes after the last, is what was recorded: the
\* totals, each bucket with those under it, the refusals of a kind, a tool no other
\* tool was called more than, and each of the last minutes; and what is said to be the
\* latency that so many calls kept under is of the bucket that call was in.
ShownHolds(calls, now, figures, shown, snapshot, sums) ==
    LET allowed(c) == c.key.decision = "allow"
        of(tool) == HowMany(calls, LAMBDA c : <<c.key.server, c.key.tool>> = tool)
        numbered == [i \in DOMAIN calls |-> [minute |-> MinuteOf(calls, i), allow |-> allowed(calls[i])]]
        trueOf(percent) == CHOOSE v \in {c.latency : c \in Range(calls)} :
            /\ 100 * HowMany(calls, LAMBDA c : c.latency <= v) >= percent * Len(calls)
            /\ 100 * HowMany(calls, LAMBDA c : c.latency < v) < percent * Len(calls)
    IN /\ \A i \in 1 .. 2 : sums[i] = HowMany(calls, LAMBDA c : c.latency <= <<1, 4>>[i])
       /\ sums[3] = figures.total /\ figures.total = Len(calls)
       /\ shown.allow = HowMany(calls, allowed) /\ shown.allow + shown.deny = Len(calls)
       /\ shown.limited = HowMany(calls, LAMBDA c : c.key.rule = "rate-limited")
       /\ shown.blocked = HowMany(calls, LAMBDA c : c.key.rule = "injection")
       /\ <<snapshot.allow, snapshot.deny>> = <<shown.allow, shown.deny>>
       /\ \A server \in DOMAIN snapshot.servers : snapshot.servers[server] = [allow |-> shown.allow, deny |-> shown.deny]
       /\ \A rule \in DOMAIN snapshot.rules : rule # "" /\ snapshot.rules[rule] = HowMany(calls, LAMBDA c : c.key.rule = rule)
       /\ \A c \in Range(calls) : Len(shown.top) = 1 /\ of(<<c.key.server, c.key.tool>>) <= of(shown.top[1])
       /\ \A i \in 1 .. 2 :
             LET minute == (now - 2) + i
                 count(allow) == HowMany(numbered, LAMBDA n : n.minute = minute /\ n.allow = allow)
             IN shown.trend[i] = [minute |-> minute, allow |-> count(TRUE), deny |-> count(FALSE)]
       /\ \A percent \in {50, 95, 99} :
             IF calls = <<>> THEN shown.latency[percent] = {}
             ELSE LET said == TheOne(shown.latency[percent])  true == trueOf(percent) IN
                  CASE true <= 1 -> said \in 0 .. 10 [] true \in 2 .. 4 -> said \in 10 .. 40 [] OTHER -> said = 40
       /\ calls # <<>> => /\ TheOne(shown.latency[50]) <= TheOne(shown.latency[95])
                          /\ TheOne(shown.latency[95]) <= TheOne(shown.latency[99])
FiguresAt(calls, now, figures) ==
    ShownHolds(calls, now, figures, Record!Console(figures, now), Record!Snapshot(figures), Record!Cumulative(figures))
FiguresHold(calls, later) == FiguresAt(calls, MinuteOf(calls, Len(calls)) + later, FiguresOf(calls))

-----------------------------------------------------------------------------
Pieces ==
    [file |-> <<Lines, 4, {<<"3", "\n">>}, 1>>,
     record |-> <<Records, 1, {}, 0>>,
     written |-> <<{"a", " ", "=", "\\", "|", "\"", "]", "\n", "act", "us"}, 3, {}, 0>>,
     year |-> <<0 .. 450, 1, {}, 0>>,
     address |-> <<Edges, 1, {}, 0>>,
     dial |-> <<Guards, 2, Clients, 1>>,
     profile |-> <<Profiles, 1, {}, 0>>,
     certificate |-> <<Certificates, 1, {}, 0>>,
     der |-> <<{0, 1, 2, 48, 128, 129, 130, 131, 133}, 5, {}, 0>>,
     table |-> <<Keys, 2, {}, 0>>,
     talk |-> <<Talks, 2, {}, 0>>,
     stream |-> <<{"\n", "\r", ":", "data", " "}, 5, {}, 0>>,
     figures |-> <<Calls, 3, {0, 1}, 1>>,
     secret |-> <<{"a", "\n", "\r", "not text"}, 4, {}, 0>>,
     command |-> <<{"a", "\n", "close", "deadline", "exit 0", "exit 1"}, 5, {}, 0>>]

\* What is read of a ledger is what is in it.
ReadingsHold(kind, left, right) ==
    /\ kind = "file" => PagesHold(FlattenSeq(left), FlattenSeq(right))
    /\ kind = "record" /\ left # <<>> => HashPins(left[1])
    /\ kind = "written" => EntryHolds(left, TRUE) /\ EntryHolds(left, FALSE) /\ ExportsReadBack(left)
    /\ kind = "year" /\ left # <<>> => DatesHold(left[1])
    /\ kind = "figures" => FiguresHold(left, IF right = <<>> THEN 0 ELSE 1 + right[1])

\* What an upstream is reached by is what its settings and the guard say.
DialsHold(kind, left, right) ==
    /\ kind = "address" /\ left # <<>> => AddressHolds(left[1])
    /\ kind = "dial" /\ right # <<>> => DialHolds(left, right[1])
    /\ kind = "profile" /\ left # <<>> => ProfileHolds(left[1])
    /\ kind = "certificate" /\ left # <<>> => CertificateHolds(left[1])
    /\ kind = "der" => DerHolds(left)
    /\ kind = "stream" => StreamHolds(left)
    /\ kind = "table" => IF left = <<>> THEN SaidHolds ELSE RefHolds(left)
    /\ kind = "talk" /\ left # <<>> => TalkHolds(left)
    /\ kind = "secret" => FileHolds(left)
    /\ kind = "command" => CommandHolds(left)
    /\ kind = "year" /\ left # <<>> => DaysHold(left[1])
================================================================================
