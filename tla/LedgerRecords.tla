----------------------------- MODULE LedgerRecords -----------------------------
(***************************************************************************)
(* What a record of the ledger says and in what texts (mcpdef-audit/src/   *)
(* lib.rs): the entry it is made of, the text its hash is of, what a line  *)
(* may name, and the lines exported of it; and the figures kept of the     *)
(* calls that are recorded (mcpdef/src/metrics.rs).                        *)
(*                                                                         *)
(* A text is a sequence of characters, some of them whole words.  A record *)
(* is its v1 fields, each {} or {text}, and its later members, JSON values *)
(* by name.  The prefix Json is of values that say their kind.             *)
(***************************************************************************)
EXTENDS Integers, Sequences, FiniteSets, SequencesExt, Functions

CONSTANTS
    Peers,        \* the texts that are addresses: [v4, ip, port]
    MsgIdMost,    \* the most characters of a syslog MSGID: 32
    LatBuckets,   \* the bounds of the latency buckets, rising: 1 .. 5000 ms
    TrendMinutes, \* how many minutes back the trend goes: 60
    TopTools      \* how many tools are ranked: 10

US == "us"
Symbol == "symbol"    \* U+241F, which stands for it in what is stored
Quote == "\""
Slash == "\\"

TextOr(option) == IF option = {} THEN <<>> ELSE CHOOSE text \in option : TRUE
JoinedBy(texts, by) == FlattenSeq([i \in DOMAIN texts |-> IF i = 1 THEN texts[i] ELSE <<by>> \o texts[i]])

-----------------------------------------------------------------------------
(***************************************************************************)
(* JSON: a value is a string, a number, null, a list, or an object, whose  *)
(* members are a sequence of name and value as its line lists them.        *)
(***************************************************************************)
JsonString(text) == [kind |-> "string", text |-> text]
JsonNull == [kind |-> "null"]
JsonList(values) == [kind |-> "list", values |-> values]
JsonObject(members) == [kind |-> "object", members |-> members]

\* collect_members, by Strict at any depth: no member twice.
RECURSIVE NamedOnce(_)
NamedOnce(value) ==
    CASE value.kind = "list" -> \A i \in DOMAIN value.values : NamedOnce(value.values[i])
      [] value.kind = "object" ->
             /\ \A i, j \in DOMAIN value.members : value.members[i][1] = value.members[j][1] => i = j
             /\ \A i \in DOMAIN value.members : NamedOnce(value.members[i][2])
      [] OTHER -> TRUE

\* json_str.
JsonStr(text) ==
    LET escaped(c) == CASE c \in {Quote, Slash} -> <<Slash, c>> [] c = US -> <<Slash, "u001f">>
                        [] c = "\n" -> <<Slash, "n">> [] OTHER -> <<c>>
    IN <<Quote>> \o FlattenSeq([i \in DOMAIN text |-> escaped(text[i])]) \o <<Quote>>

\* By code point.
Codes == <<US, "\n", " ", Quote, "=", "a", "b", "n", Slash, "]", "|", Symbol>>
Code(c) == IF c \in Range(Codes) THEN CHOOSE i \in DOMAIN Codes : Codes[i] = c ELSE 0
Before(a, b) ==
    \/ IsStrictPrefix(a, b)
    \/ \E i \in DOMAIN a \cap DOMAIN b :
          Code(a[i]) < Code(b[i]) /\ SubSeq(a, 1, i - 1) = SubSeq(b, 1, i - 1)

Sorted(members) == SortSeq(members, LAMBDA m, n : Before(m[1], n[1]))

\* write_canonical: compact, members sorted by name at every level.
RECURSIVE Canonical(_)
Canonical(value) ==
    CASE value.kind = "string" -> JsonStr(value.text)
      [] value.kind = "number" -> value.text
      [] value.kind = "null" -> <<"null">>
      [] value.kind = "list" ->
             <<"[">> \o JoinedBy([i \in DOMAIN value.values |-> Canonical(value.values[i])], ",") \o <<"]">>
      [] OTHER ->
             LET members == Sorted(value.members) IN
             <<"{">> \o JoinedBy([i \in DOMAIN members |->
                                     JsonStr(members[i][1]) \o <<":">> \o Canonical(members[i][2])], ",") \o <<"}">>

-----------------------------------------------------------------------------
(***************************************************************************)
(* A record and its hash.                                                  *)
(***************************************************************************)
V1 == <<"seq", "ts", "agent", "server", "method", "tool", "decision", "rule", "latency", "prev">>
Given == {"agent", "server", "method", "tool", "rule"}

\* The later members; one that is null is one that is not there.
Later(record) == SelectSeq(record.later, LAMBDA m : m[2] # JsonNull)

\* compute_hash: what it is the SHA-256 of.
Hashed(record) ==
    JoinedBy([i \in DOMAIN V1 |-> TextOr(record.v1[V1[i]])], US)
    \o IF Later(record) = <<>> THEN <<>> ELSE <<US>> \o Canonical(JsonObject(Later(record)))

HasSeparator(record) == \E field \in Given : \E text \in record.v1[field] : Contains(text, US)

\* without_separator.
WithoutSeparator(text) == [i \in DOMAIN text |-> IF text[i] = US THEN Symbol ELSE text[i]]

Stored(option) == {WithoutSeparator(text) : text \in option}

\* Ledger::append: the record of an entry. A denial's rule is its decision's, and a
\* plain call has no later member.
RecordOf(entry, seq, prev) ==
    LET only(name, option) == [i \in 1 .. Cardinality(option) |-> <<<<name>>, CHOOSE value \in option : TRUE>>]
        strings(name, option) == only(name, {JsonString(text) : text \in option})
    IN [v1 |-> [field \in Range(V1) |->
                   CASE field = "seq" -> {seq} [] field = "prev" -> {prev} [] field \in {"ts", "latency"} -> {<<"n">>}
                     [] field = "decision" -> {IF entry.deny = {} THEN <<"allow">> ELSE <<"deny">>}
                     [] field = "rule" -> Stored(IF entry.deny = {} THEN entry.rule ELSE entry.deny)
                     [] OTHER -> Stored(entry[field])],
        later |-> strings("kind", {<<k>> : k \in {entry.kind} \ {"call"}}) \o strings("uri", entry.uri)
                  \o only("transforms", {JsonList([i \in DOMAIN t |-> JsonString(t[i])]) : t \in {entry.transforms} \ {<<>>}})
                  \o strings("actor", entry.actor) \o strings("peer", entry.peer)
                  \o strings("config_from", entry.configFrom) \o strings("config_to", entry.configTo)
                  \o only("tool_changes", entry.toolChanges)]

-----------------------------------------------------------------------------
(***************************************************************************)
(* Exports.                                                                *)
(***************************************************************************)
IsDeny(record) == record.v1["decision"] = {<<"deny">>}
Member(record, name) == {m[2] : m \in {m \in Range(record.later) : m[1] = <<name>> /\ m[2] # JsonNull}}
TextOf(value) == IF value.kind = "string" THEN value.text ELSE Canonical(value)
MemberText(record, name) == {TextOf(value) : value \in Member(record, name)}

OneLine(text) == [i \in DOMAIN text |-> IF text[i] = "\n" THEN " " ELSE text[i]]
Escape(text, chars) ==
    LET line == OneLine(text) IN
    FlattenSeq([i \in DOMAIN line |-> IF line[i] \in chars THEN <<Slash, line[i]>> ELSE <<line[i]>>])
CefHeaderEscape(text) == Escape(text, {Slash, "|"})

CefExtEscape(text) == Escape(text, {Slash, "="})
SdEscape(text) == Escape(text, {Slash, Quote, "]"})

Summary(record) ==
    LET method == IF record.v1["method"] = {} THEN {<<"?">>} ELSE record.v1["method"]
        tool == IF record.v1["tool"] = {} THEN <<>> ELSE <<".">> \o TextOr(record.v1["tool"])
    IN TextOr(record.v1["decision"]) \o <<" ">> \o TextOr(method) \o <<" ">> \o TextOr(record.v1["server"]) \o tool

\* parse_peer, and where each format puts an address.
PeerPairs(peer) ==
    IF peer \notin DOMAIN Peers THEN <<<<"shost", CefExtEscape(peer)>>>>
    ELSE LET address == Peers[peer] IN
         (IF address.v4 THEN <<<<"src", address.ip>>>>
          ELSE <<<<"c6a2Label", <<"Source IPv6 Address">>>>, <<"c6a2", address.ip>>>>)
         \o (IF address.port = {} THEN <<>> ELSE <<<<"spt", TextOr(address.port)>>>>)
OcsfEndpoint(peer) ==
    IF peer \notin DOMAIN Peers THEN [name |-> peer] ELSE [ip |-> Peers[peer].ip, port |-> Peers[peer].port]

\* to_cef. A member's keys in the extension, in their order.
CefKeys == <<<<"kind", "cs3">>, <<"actor", "cs4">>, <<"transforms", "cs5">>, <<"tool_changes", "cs6">>,
             <<"uri", "request">>, <<"config_from", "oldFileHash">>, <<"config_to", "fileHash">>>>
Labels == [cs1 |-> "cs1Label", cs2 |-> "cs2Label", cs3 |-> "cs3Label", cs4 |-> "cs4Label", cs5 |-> "cs5Label", cs6 |-> "cs6Label"]
CefName(name) == IF name = "tool_changes" THEN "toolChanges" ELSE name
CefPairs(record) ==
    LET v1 == record.v1
        labelled(key, name, option) ==
            (IF option # {} /\ key \in DOMAIN Labels THEN <<<<Labels[key], <<CefName(name)>>>>>> ELSE <<>>)
            \o [i \in 1 .. Cardinality(option) |-> <<key, CefExtEscape(TextOr(option))>>]
    IN <<<<"rt", TextOr(v1["ts"])>>, <<"suser", CefExtEscape(TextOr(v1["agent"]))>>,
         <<"dvchost", CefExtEscape(TextOr(v1["server"]))>>, <<"act", CefExtEscape(TextOr(v1["decision"]))>>,
         <<"externalId", TextOr(v1["seq"])>>, <<"cn1Label", <<"latencyMs">>>>, <<"cn1", TextOr(v1["latency"])>>>>
       \o labelled("cs1", "tool", v1["tool"]) \o labelled("cs2", "rule", v1["rule"])
       \o FlattenSeq([i \in DOMAIN CefKeys |-> labelled(CefKeys[i][2], CefKeys[i][1], MemberText(record, CefKeys[i][1]))])
       \o FlattenSeq([i \in 1 .. Cardinality(Member(record, "peer")) |-> PeerPairs(TextOr(MemberText(record, "peer")))])
Cef(record) ==
    LET pairs == CefPairs(record) IN
    JoinedBy(<<<<"CEF:0">>, <<"mcpdef">>, <<"mcpdef">>, <<"version">>, CefHeaderEscape(TextOr(record.v1["decision"])),
               CefHeaderEscape(Summary(record)), <<IF IsDeny(record) THEN "7" ELSE "2">>>>, "|")
    \o <<"|">> \o JoinedBy([i \in DOMAIN pairs |-> <<pairs[i][1], "=">> \o pairs[i][2]], " ")

\* to_syslog.
Graphic(c) == c \notin {" ", "\n", US, Symbol}
SyslogMsgId(method) ==
    LET text == TextOr(method)  id == SubSeq(text, 1, IF Len(text) < MsgIdMost THEN Len(text) ELSE MsgIdMost) IN
    IF id = <<>> THEN <<"-">> ELSE [i \in DOMAIN id |-> IF Graphic(id[i]) THEN id[i] ELSE "_"]
SdParams(record) ==
    LET v1 == record.v1
        given == <<"kind", "uri", "actor", "peer", "config_from", "config_to", "transforms", "tool_changes">>
    IN <<<<"seq", TextOr(v1["seq"])>>, <<"server", TextOr(v1["server"])>>, <<"tool", TextOr(v1["tool"])>>,
         <<"decision", TextOr(v1["decision"])>>, <<"rule", TextOr(v1["rule"])>>, <<"latencyMs", TextOr(v1["latency"])>>>>
       \o FlattenSeq([i \in DOMAIN given |->
              [k \in 1 .. Cardinality(Member(record, given[i])) |-> <<given[i], TextOr(MemberText(record, given[i]))>>]])
       \o <<<<"hash", <<"hash">>>>>>
Syslog(record) ==
    LET params == SdParams(record) IN
    JoinedBy(<<<<IF IsDeny(record) THEN "<84>1" ELSE "<86>1">>, <<"time">>, <<"-">>, <<"mcpdef">>, <<"-">>,
               SyslogMsgId(record.v1["method"])>>, " ")
    \o <<" ", "[", "mcpdef@0">>
    \o FlattenSeq([i \in DOMAIN params |-> <<" ", params[i][1], "=", Quote>> \o SdEscape(params[i][2]) \o <<Quote>>])
    \o <<"]", " ">> \o OneLine(Summary(record))

\* to_ocsf: the members it has no place for.
OcsfUnmapped(record) == [name \in {m[1] : m \in Range(Later(record))} |-> (CHOOSE m \in Range(Later(record)) : m[1] = name)[2]]
Ocsf(record) ==
    [status |-> IF IsDeny(record) THEN "Failure" ELSE "Success", user |-> TextOr(record.v1["agent"]),
     endpoint |-> {OcsfEndpoint(peer) : peer \in MemberText(record, "peer")},
     resources |-> MemberText(record, "uri"), unmapped |-> OcsfUnmapped(record)]

\* rfc3339_utc: the date of a day since 1970-01-01, by civil_from_days.
DateOf(days) ==
    LET z == days + 719468
        era == z \div 146097
        doe == z - (era * 146097)
        yoe == (((doe - (doe \div 1460)) + (doe \div 36524)) - (doe \div 146096)) \div 365
        doy == doe - (((365 * yoe) + (yoe \div 4)) - (yoe \div 100))
        mp == ((5 * doy) + 2) \div 153
        month == IF mp < 10 THEN mp + 3 ELSE mp - 9
    IN <<yoe + (era * 400) + (IF month <= 2 THEN 1 ELSE 0), month, doy - (((153 * mp) + 2) \div 5) + 1>>

-----------------------------------------------------------------------------
(***************************************************************************)
(* The figures kept of the calls as each is recorded, in memory alone      *)
(* (metrics.rs): how many there were of each server, tool, decision and    *)
(* rule, how many fell in each bucket of milliseconds, the last one of     *)
(* those over every bound, and each minute's.                              *)
(***************************************************************************)
NoFigures == [calls |-> <<>>, buckets |-> [i \in 1 .. Len(LatBuckets) + 1 |-> 0], sum |-> 0, total |-> 0, minutes |-> <<>>]

SumAt(figures, Counts(_)) == MapThenSumSet(LAMBDA key : figures.calls[key], {key \in DOMAIN figures.calls : Counts(key)})
IsAllowed(key) == key.decision = "allow"

BucketOf(latency) == Min({i \in DOMAIN LatBuckets : latency <= LatBuckets[i]} \cup {Len(LatBuckets) + 1})

\* The minutes there are counts of, with this one last: those an hour old go.
MinutesWith(minutes, minute) ==
    IF minutes # <<>> /\ Last(minutes).minute = minute THEN minutes
    ELSE LET all == Append(minutes, [minute |-> minute, allow |-> 0, deny |-> 0])
         IN SubSeq(all, Min({i \in DOMAIN all : all[i].minute + TrendMinutes > minute}), Len(all))

RecordCall(figures, key, latency, minute) ==
    LET minutes == MinutesWith(figures.minutes, minute) IN
    [calls   |-> [k \in DOMAIN figures.calls \cup {key} |->
                     (IF k \in DOMAIN figures.calls THEN figures.calls[k] ELSE 0) + (IF k = key THEN 1 ELSE 0)],
     buckets |-> [figures.buckets EXCEPT ![BucketOf(latency)] = @ + 1],
     sum     |-> figures.sum + latency,
     total   |-> figures.total + 1,
     minutes |-> IF IsAllowed(key) THEN [minutes EXCEPT ![Len(minutes)].allow = @ + 1]
                 ELSE [minutes EXCEPT ![Len(minutes)].deny = @ + 1]]

\* render_prometheus: the buckets, each with those under it.
Cumulative(figures) == [i \in DOMAIN figures.buckets |-> SumFunction(SubSeq(figures.buckets, 1, i))]

\* snapshot_json.
Snapshot(figures) ==
    LET keys == DOMAIN figures.calls IN
    [allow |-> SumAt(figures, IsAllowed),
     deny  |-> SumAt(figures, LAMBDA k : ~IsAllowed(k)),
     servers |-> [server \in {k.server : k \in keys} |->
                     [allow |-> SumAt(figures, LAMBDA k : k.server = server /\ IsAllowed(k)),
                      deny  |-> SumAt(figures, LAMBDA k : k.server = server /\ ~IsAllowed(k))]],
     rules |-> [rule \in {k.rule : k \in {k \in keys : ~IsAllowed(k) /\ k.rule # ""}} |->
                   SumAt(figures, LAMBDA k : ~IsAllowed(k) /\ k.rule = rule)]]

\* quantile: {} of no calls, else in tenths of a millisecond, the nearest one, for so
\* many of a hundred calls.
Quantile(figures, percent) ==
    LET rank == percent * figures.total    \* in hundredths, as `seen` is
        seen(i) == 100 * SumFunction(SubSeq(figures.buckets, 1, i))
        in == {i \in DOMAIN LatBuckets : figures.buckets[i] > 0 /\ seen(i) >= rank}
        i == Min(in)
        lower == IF i = 1 THEN 0 ELSE LatBuckets[i - 1]
        whole == 100 * figures.buckets[i]
        within == IF rank > seen(i - 1) THEN rank - seen(i - 1) ELSE 0
        tenths == 10 * ((lower * whole) + ((LatBuckets[i] - lower) * within))
    IN IF figures.total = 0 THEN {}
       ELSE IF in = {} THEN {10 * Last(LatBuckets)}
       ELSE {((2 * tenths) + whole) \div (2 * whole)}

\* console_json, at a minute.
TopOf(figures) ==
    LET of(tool) == SumAt(figures, LAMBDA k : <<k.server, k.tool>> = tool)
        byName(a, b) == Before(a[1], b[1]) \/ (a[1] = b[1] /\ Before(a[2], b[2]))
        tools == SetToSortSeq({<<k.server, k.tool>> : k \in DOMAIN figures.calls},
                              LAMBDA a, b : of(a) > of(b) \/ (of(a) = of(b) /\ byName(a, b)))
    IN SubSeq(tools, 1, Min({TopTools, Len(tools)}))
CountOf(minutes, minute) ==
    LET those == SelectSeq(minutes, LAMBDA m : m.minute = minute)
    IN IF those = <<>> THEN [minute |-> minute, allow |-> 0, deny |-> 0] ELSE Head(those)
Console(figures, now) ==
    LET denied(rules) == SumAt(figures, LAMBDA k : ~IsAllowed(k) /\ k.rule \in rules) IN
    [allow |-> SumAt(figures, IsAllowed), deny |-> SumAt(figures, LAMBDA k : ~IsAllowed(k)),
     limited |-> denied({"rate-limited"}), blocked |-> denied({"injection", "secret-exfil"}),
     latency |-> [percent \in {50, 95, 99} |-> Quantile(figures, percent)],
     top |-> TopOf(figures),
     trend |-> [i \in 1 .. TrendMinutes |-> CountOf(figures.minutes, (now - TrendMinutes) + i)]]
================================================================================
