------------------------------ MODULE UpstreamReads -----------------------------
(***************************************************************************)
(* What is read a byte at a time: the certificate an upstream presents     *)
(* (mcpdef-transport/src/cert.rs), the events it streams and its replies   *)
(* (http.rs), and the value of a secret (mcpdef-secrets/src/lib.rs).       *)
(*                                                                         *)
(* Of a certificate the bytes are numbers, and what is not there or does   *)
(* not read is {}.  A text is a sequence of characters, some of them whole *)
(* words.                                                                  *)
(***************************************************************************)
EXTENDS Integers, Sequences, FiniteSets, FiniteSetsExt, SequencesExt

CONSTANT MAX_SECRET   \* MAX_FILE_BYTES, MAX_OUTPUT_BYTES

TheOf(option) == CHOOSE value \in option : TRUE
Then(option, Of(_)) == UNION {Of(value) : value \in option}
FromByte(bytes, n) == SubSeq(bytes, n, Len(bytes))

-----------------------------------------------------------------------------
(***************************************************************************)
(* DER.                                                                    *)
(***************************************************************************)
SEQUENCE == 48
INTEGER == 2
VERSION == 160
UTC_TIME == 23
GENERALIZED_TIME == 24
OID == 6
OCTET_STRING == 4
BOOL == 1
SET == 49
EXTENSIONS == 163
COMMON_NAME == <<85, 4, 3>>
SUBJECT_ALT_NAME == <<85, 29, 17>>

\* element: the length in one byte, or in as many of the next as it says.
Element(der) ==
    IF Len(der) < 2 THEN {}
    ELSE LET more == IF der[2] \in 129 .. 132 THEN der[2] - 128 ELSE 0
             from == 2 + more
             len  == IF more = 0 THEN der[2] ELSE FoldLeft(LAMBDA n, byte : (n * 256) + byte, 0, SubSeq(der, 3, from))
         IN IF der[2] = 128 \/ der[2] > 132 \/ Len(der) < from \/ Len(der) < from + len THEN {}
            ELSE {[tag |-> der[1], contents |-> SubSeq(der, from + 1, from + len), rest |-> FromByte(der, from + len + 1)]}

Expect(der, tag) == {e \in Element(der) : e.tag = tag}

\* What follows elements of these tags, in order.
RECURSIVE After(_, _)
After(der, tags) ==
    IF tags = <<>> THEN {der} ELSE Then(Expect(der, Head(tags)), LAMBDA e : After(e.rest, Tail(tags)))

\* The fields of a certificate, less its version.
Fields(der) ==
    {IF Expect(tbs.contents, VERSION) = {} THEN tbs.contents ELSE TheOf(Element(tbs.contents)).rest :
        tbs \in Then(Expect(der, SEQUENCE), LAMBDA certificate : Expect(certificate.contents, SEQUENCE))}

-----------------------------------------------------------------------------
(***************************************************************************)
(* Times: a day since 1970-01-01, and the second of it.                    *)
(***************************************************************************)
Number(digits) ==
    IF \E i \in DOMAIN digits : digits[i] \notin 48 .. 57 THEN {}
    ELSE {FoldLeft(LAMBDA n, digit : (n * 10) + (digit - 48), 0, digits)}

DaysInMonth(year, month) ==
    CASE month = 2 -> (IF year % 4 = 0 /\ (year % 100 # 0 \/ year % 400 = 0) THEN 29 ELSE 28)
      [] month \in {4, 6, 9, 11} -> 30 [] OTHER -> 31

DaysFromCivil(date) ==
    LET year == IF date[2] <= 2 THEN date[1] - 1 ELSE date[1]
        era  == year \div 400
        ofEra == year % 400
        ofYear == ((((153 * ((date[2] + 9) % 12)) + 2) \div 5) + date[3]) - 1
    IN ((era * 146097) + (ofEra * 365) + (ofEra \div 4) - (ofEra \div 100) + ofYear) - 719468

CivilFromDays(days) ==
    LET z == days + 719468
        ofEra == z % 146097
        years == (((ofEra - (ofEra \div 1460)) + (ofEra \div 36524)) - (ofEra \div 146096)) \div 365
        ofYear == ofEra - (((365 * years) + (years \div 4)) - (years \div 100))
        shifted == ((5 * ofYear) + 2) \div 153
        month == IF shifted < 10 THEN shifted + 3 ELSE shifted - 9
    IN <<years + ((z \div 146097) * 400) + (IF month <= 2 THEN 1 ELSE 0), month,
         ofYear - (((153 * shifted) + 2) \div 5) + 1>>

\* time: MMDDHHMMSSZ of a year.
Time(year, text) ==
    LET field(at) == Number(SubSeq(text, at, at + 1))
        fields == [i \in 1 .. 5 |-> TheOf(field((2 * i) - 1))]
    IN IF Len(text) # 11 \/ text[11] # 90 \/ (\E i \in 1 .. 5 : field((2 * i) - 1) = {}) THEN {}
       ELSE IF fields[1] \notin 1 .. 12 \/ fields[2] \notin 1 .. DaysInMonth(year, fields[1])
               \/ fields[3] >= 24 \/ fields[4] >= 60 \/ fields[5] >= 60 THEN {}
       ELSE {[day |-> DaysFromCivil(<<year, fields[1], fields[2]>>),
              second |-> (fields[3] * 3600) + (fields[4] * 60) + fields[5]]}

\* utc_time and generalized_time.
UtcTime(text) ==
    IF Len(text) < 2 THEN {}
    ELSE Then(Number(SubSeq(text, 1, 2)), LAMBDA yy : Time((IF yy < 50 THEN 2000 ELSE 1900) + yy, FromByte(text, 3)))
GeneralizedTime(text) ==
    IF Len(text) < 4 THEN {} ELSE Then(Number(SubSeq(text, 1, 4)), LAMBDA year : Time(year, FromByte(text, 5)))

NotAfter(der) ==
    LET behind   == Then(Fields(der), LAMBDA fields : After(fields, <<INTEGER, SEQUENCE, SEQUENCE>>))
        validity == Then(behind, LAMBDA fields : Expect(fields, SEQUENCE))
        second   == Then(Then(validity, LAMBDA v : Element(v.contents)), LAMBDA notBefore : Element(notBefore.rest))
    IN Then(second, LAMBDA e : CASE e.tag = UTC_TIME -> UtcTime(e.contents)
                                 [] e.tag = GENERALIZED_TIME -> GeneralizedTime(e.contents)
                                 [] OTHER -> {})

-----------------------------------------------------------------------------
(***************************************************************************)
(* Names.                                                                  *)
(***************************************************************************)

\* A byte that no text in UTF-8 has stands for all that is not one.
IsText(bytes) == 255 \notin Range(bytes)

\* certificate_serial: less the zero in front of a first bit that is set.
Serial(der) ==
    {IF s.contents[1] = 0 /\ Len(s.contents) > 1 /\ s.contents[2] >= 128 THEN Tail(s.contents) ELSE s.contents :
        s \in {e \in Then(Fields(der), LAMBDA fields : Expect(fields, INTEGER)) : e.contents # <<>>}}

\* The contents of the extensions among what comes after the key, the last of them; one
\* that does not read makes the whole certificate unnamed.
RECURSIVE Extensions(_, _)
Extensions(fields, found) ==
    IF Element(fields) = {} THEN {found}
    ELSE LET e == TheOf(Element(fields)) IN
         IF e.tag # EXTENSIONS THEN Extensions(e.rest, found)
         ELSE Then(Expect(e.contents, SEQUENCE), LAMBDA list : Extensions(e.rest, {list.contents}))

\* named.
Named(der) ==
    LET issuers == Then(Then(Fields(der), LAMBDA fields : After(fields, <<INTEGER, SEQUENCE>>)),
                        LAMBDA behind : Expect(behind, SEQUENCE))
        OfBoth(issuer, subject) ==
            {[issuer |-> issuer.contents, subject |-> subject.contents, extensions |-> found] :
                found \in Then(After(subject.rest, <<SEQUENCE>>), LAMBDA behind : Extensions(behind, {}))}
    IN Then(issuers, LAMBDA issuer :
           Then(Then(After(issuer.rest, <<SEQUENCE>>), LAMBDA behind : Expect(behind, SEQUENCE)),
                LAMBDA subject : OfBoth(issuer, subject)))

\* The elements, up to one that is not `tag`, and that there was one.
RECURSIVE Upto(_, _)
Upto(der, tag) ==
    IF der = <<>> THEN [list |-> <<>>, broken |-> FALSE]
    ELSE IF Expect(der, tag) = {} THEN [list |-> <<>>, broken |-> TRUE]
    ELSE LET e == TheOf(Expect(der, tag)) IN [Upto(e.rest, tag) EXCEPT !.list = <<e.contents>> \o @]

\* common_name: the first attribute of that type, in a kind of string that is read; one
\* that does not read before it makes it none.
InOrder(inner) ==
    FlattenSeq([i \in DOMAIN inner |-> IF \E b \in 1 .. i - 1 : inner[b].broken THEN <<>> ELSE inner[i].list])
Attributes(rdns) == InOrder([i \in DOMAIN Upto(rdns, SET).list |-> Upto(Upto(rdns, SET).list[i], SEQUENCE)])
Stops(attribute) == \A oid \in Expect(attribute, OID) : oid.contents = COMMON_NAME
FirstName(stopping) ==
    IF stopping = <<>> THEN {}
    ELSE {e.contents : e \in {v \in Then(Expect(stopping[1], OID), LAMBDA oid : Element(oid.rest)) :
                                  v.tag \in {12, 19, 22} /\ IsText(v.contents)}}
CommonName(rdns) == FirstName(SelectSeq(Attributes(rdns), Stops))

\* alt_names: of the first extension of that type; the kinds of name a TLS client
\* matches.
AltKinds == [tag \in {129, 130, 134, 135} |->
                CASE tag = 129 -> "email" [] tag = 130 -> "DNS" [] tag = 134 -> "URI" [] OTHER -> "IP"]
RECURSIVE GeneralNames(_)
GeneralNames(der) ==
    IF der = <<>> THEN {<<>>}
    ELSE Then(Element(der), LAMBDA e :
             LET names == GeneralNames(e.rest) IN
             IF e.tag \notin DOMAIN AltKinds THEN names
             ELSE IF ~(IF AltKinds[e.tag] = "IP" THEN Len(e.contents) \in {4, 16} ELSE IsText(e.contents)) THEN {}
             ELSE {<<<<AltKinds[e.tag], e.contents>>>> \o more : more \in names})
RECURSIVE AltNames(_)
AltNames(extensions) ==
    IF extensions = <<>> THEN {}
    ELSE Then(Expect(extensions, SEQUENCE), LAMBDA extension :
         Then(Expect(extension.contents, OID), LAMBDA oid :
             IF oid.contents # SUBJECT_ALT_NAME THEN AltNames(extension.rest)
             ELSE LET value == IF Expect(oid.rest, BOOL) = {} THEN oid.rest ELSE TheOf(Element(oid.rest)).rest
                      names == Then(Expect(value, OCTET_STRING), LAMBDA octets : Expect(octets.contents, SEQUENCE))
                  IN Then(names, LAMBDA list : GeneralNames(list.contents))))

\* CertificateNames::read.
NamesIn(n, found) ==
    [subject |-> CommonName(n.subject), issuer |-> CommonName(n.issuer), altNames |-> IF found = {} THEN <<>> ELSE TheOf(found)]
NamesRead(der) ==
    IF Named(der) = {} THEN [subject |-> {}, issuer |-> {}, altNames |-> <<>>]
    ELSE TheOf({NamesIn(n, Then(n.extensions, LAMBDA extensions : AltNames(extensions))) : n \in Named(der)})

-----------------------------------------------------------------------------
(***************************************************************************)
(* Server-sent events.                                                     *)
(***************************************************************************)
LF == "\n"
CR == "\r"

\* The line ends of one chunk.
Normalized(chunk) ==
    LET kept == SelectSeq([i \in DOMAIN chunk |-> i], LAMBDA i : ~(chunk[i] = LF /\ i > 1 /\ chunk[i - 1] = CR)) IN
    [k \in DOMAIN kept |-> IF chunk[kept[k]] = CR THEN LF ELSE chunk[kept[k]]]

RECURSIVE LinesOf(_)
LinesOf(raw) ==
    IF ~Contains(raw, LF) THEN <<raw>>
    ELSE LET end == Min({i \in DOMAIN raw : raw[i] = LF}) IN <<SubSeq(raw, 1, end - 1)>> \o LinesOf(FromByte(raw, end + 1))

\* A line's field and its value.
FieldOf(line) ==
    IF ~Contains(line, ":") THEN [name |-> line, value |-> <<>>]
    ELSE LET at    == Min({i \in DOMAIN line : line[i] = ":"})
             value == FromByte(line, at + 1)
         IN
         [name |-> SubSeq(line, 1, at - 1), value |-> IF value # <<>> /\ value[1] = " " THEN Tail(value) ELSE value]

NoEvent == [event |-> {}, data |-> <<>>, id |-> {}]

\* parse_event: {} when no line has a field.
ParseEvent(raw) ==
    LET lines == SelectSeq(LinesOf(raw), LAMBDA line : line # <<>> /\ line[1] # ":")
        Add(ev, line) ==
            LET field == FieldOf(line) IN
            CASE field.name = <<"event">> -> [ev EXCEPT !.event = {field.value}]
              [] field.name = <<"id">>    -> [ev EXCEPT !.id = {field.value}]
              [] field.name = <<"data">>  -> [ev EXCEPT !.data = (IF @ = <<>> THEN <<>> ELSE @ \o <<LF>>) \o field.value]
              [] OTHER -> ev
    IN IF lines = <<>> THEN {} ELSE {FoldLeft(Add, NoEvent, lines)}

\* The events a buffer has whole, and what is left of it.
RECURSIVE Drain(_)
Drain(buf) ==
    LET ends == {i \in 1 .. Len(buf) - 1 : buf[i] = LF /\ buf[i + 1] = LF} IN
    IF ends = {} THEN [events |-> <<>>, buf |-> buf]
    ELSE LET raw == SubSeq(buf, 1, Min(ends) - 1) IN
         [Drain(FromByte(buf, Min(ends) + 2)) EXCEPT !.events = SetToSeq(ParseEvent(raw)) \o @]

\* SseParser: what its chunks give, fed in order and finished.
Feed(parser, chunk) ==
    LET done == Drain(parser.buf \o Normalized(chunk)) IN [events |-> parser.events \o done.events, buf |-> done.buf]
Finish(parser) == parser.events \o SetToSeq(ParseEvent(parser.buf))
EventsOf(chunks) == Finish(FoldLeft(Feed, [events |-> <<>>, buf |-> <<>>], chunks))

-----------------------------------------------------------------------------
(***************************************************************************)
(* The replies of a Streamable-HTTP server.  A connection keeps a session  *)
(* and a revision, either of them {} while there is none.  A message sent  *)
(* has its method and the revision its own _meta declares; a reply says, a *)
(* part at a time, the answer, the answer to another request, something it *)
(* asks, or noise.                                                         *)
(***************************************************************************)
Connection == [session |-> {}, version |-> {}]

\* post_headers: the mirrored revision, or else the one the handshake settled on.
PostHeaders(conn, msg) ==
    [session |-> conn.session,
     version |-> IF msg.declares # {} \/ msg.method = "initialize" THEN msg.declares ELSE conn.version]

Succeeded(reply) == reply.status \in 200 .. 299
CarriesBody(reply) == (Succeeded(reply) /\ reply.status # 202) \/ reply.status \in {400, 404, 405}

\* push_message: what is no message is passed over.
Messages(reply) == SelectSeq(reply.says, LAMBDA part : part.is # "noise")
Asks(reply) == {i \in DOMAIN reply.says : reply.says[i].is = "ask"}

\* answer_request: what a stream asks is answered at once, in the session it is part of.
AnswerHeaders(conn, reply) ==
    PostHeaders([conn EXCEPT !.session = IF reply.session # {} THEN reply.session ELSE @],
                [method |-> "answer", declares |-> {}])

\* post_to: an answer the server does not take, or a body that is no message, fails it;
\* the body of an error may be anything.
Replied(reply) ==
    CASE ~CarriesBody(reply) -> {<<>>}
      [] CarriesBody(reply) /\ reply.streams -> IF Asks(reply) = {} \/ reply.taken THEN {Messages(reply)} ELSE {}
      [] CarriesBody(reply) /\ ~reply.streams ->
            IF Succeeded(reply) /\ Messages(reply) # reply.says THEN {} ELSE {Messages(reply)}

\* negotiated_version: of the answer, if a header can carry it.
NegotiatedVersion(messages) ==
    LET answers == SelectSeq(messages, LAMBDA part : part.is = "answer") IN
    IF answers = <<>> THEN {} ELSE answers[1].version \ {"unsafe"}

\* Streamable::post: what is kept of a reply, and what becomes of the message.
Exchanged(conn, msg, reply) ==
    LET messages == TheOf(Replied(reply))
        settled == [conn EXCEPT !.version = IF msg.method = "initialize" THEN NegotiatedVersion(messages) ELSE @]
        Ends(now, how) == [conn |-> now, how |-> how, messages |-> IF how = "answered" THEN messages ELSE <<>>]
    IN CASE Replied(reply) = {} -> Ends(conn, "failed")
         [] Replied(reply) # {} /\ reply.status = 404 /\ conn.session # {} -> Ends(settled, "expired")
         [] Replied(reply) # {} /\ ~Succeeded(reply) /\ (reply.status # 404 \/ conn.session = {}) ->
               Ends(settled, IF \E i \in DOMAIN messages : messages[i].is \in {"answer", "other"} THEN "answered"
                             ELSE "failed")
         [] Replied(reply) # {} /\ Succeeded(reply) ->
               Ends([settled EXCEPT !.session = IF reply.session # {} THEN reply.session ELSE @], "answered")

-----------------------------------------------------------------------------
(***************************************************************************)
(* Secrets.                                                                *)
(***************************************************************************)

\* read_capped: reads into a buffer that starts with room for `size` and one more, and
\* doubles; what a read takes is what is there and fits.
RECURSIVE ReadInto(_, _, _)
ReadInto(chunks, room, got) ==
    IF Len(got) = room
    THEN IF room > MAX_SECRET THEN got
         ELSE ReadInto(chunks, IF 2 * room < MAX_SECRET + 1 THEN 2 * room ELSE MAX_SECRET + 1, got)
    ELSE IF chunks = <<>> THEN got
    ELSE LET most == room - Len(got) IN
         IF Len(Head(chunks)) <= most THEN ReadInto(Tail(chunks), room, got \o Head(chunks))
         ELSE ReadInto(<<FromByte(Head(chunks), most + 1)>> \o Tail(chunks), room, got \o SubSeq(Head(chunks), 1, most))
ReadCapped(chunks, size) == ReadInto(chunks, (IF size < MAX_SECRET THEN size ELSE MAX_SECRET) + 1, <<>>)

\* text: less one line end, of what is text.
SecretText(bytes) ==
    IF Contains(bytes, "not text") THEN {}
    ELSE IF bytes = <<>> \/ Last(bytes) # LF THEN {bytes}
    ELSE LET line == Front(bytes) IN {IF line # <<>> /\ Last(line) = CR THEN Front(line) ELSE line}

\* read_file, of a path that is a file at each of the two looks, one before it is opened
\* and one after; `size` is what the second says.
ReadFile(file) ==
    LET bytes == ReadCapped(file.chunks, file.size) IN
    IF ~file.before \/ ~file.after \/ Len(bytes) > MAX_SECRET THEN {} ELSE SecretText(bytes)

\* run: what a command does, in order, with the deadline among it; the last writer
\* closes its output, then or not at all.
\* The reader ends at the close, or past the cap; the command is looked at after that.
RunCommand(does) ==
    LET At(what) == {i \in DOMAIN does : does[i] = what}
        chunks == SelectSeq(does, LAMBDA d : d \notin {"close", "deadline", "exit 0", "exit 1"})
        \* The writes that came before the i-th thing.
        written(i) == ReadCapped([k \in 1 .. Len(SelectSeq(SubSeq(does, 1, i), LAMBDA d : d \in Range(chunks))) |-> <<chunks[k]>>], 1)
        ends == At("close") \cup {i \in DOMAIN does : Len(written(i)) > MAX_SECRET}
        late(set) == set = {} \/ \E d \in At("deadline") : d < Min(set)
        exits == At("exit 0") \cup At("exit 1")
        stopped == [value |-> {}, stopped |-> TRUE]
    IN IF late(ends) \/ Len(written(Min(ends))) > MAX_SECRET \/ late(exits) THEN stopped
       ELSE [value |-> IF does[Min(exits)] = "exit 0" THEN SecretText(written(Min(ends))) ELSE {}, stopped |-> FALSE]

\* SecretRefVisitor: a string is the value; a table names one place, with what it holds.
SecretRef(given) ==
    IF given.kind = "string" THEN {[scheme |-> "literal", of |-> given.text]}
    ELSE {[scheme |-> key[1], of |-> key[2]] :
             key \in {key \in Range(given.keys) :
                 /\ Len(given.keys) = 1
                 /\ CASE key[1] = "env" -> key[2] # <<>> /\ Range(key[2]) \cap {"=", "NUL"} = {}
                      [] key[1] = "file" -> key[2] # <<>>
                      [] key[1] = "exec" -> /\ key[2] # <<>> /\ key[2][1] # <<>>
                                            /\ \A i \in DOMAIN key[2] : ~Contains(key[2][i], "NUL")
                      [] OTHER -> FALSE}}

\* resolve, of what each place holds: the variables that are set, a file, a command.
Resolve(secret, places) ==
    CASE secret.scheme = "literal" -> {secret.of}
      [] secret.scheme = "env" ->
            IF secret.of \in DOMAIN places.env /\ ~Contains(places.env[secret.of], "not text")
            THEN {places.env[secret.of]} ELSE {}
      [] secret.scheme = "file" -> ReadFile(places.file)
      [] secret.scheme = "exec" -> RunCommand(places.does).value

\* exposed: who besides its owner reads a file, of its mode's group and others' bits,
\* for MCPdef running as `me`, when that is known.
Exposed(group, everyone, owner, me) ==
    LET granted == owner = "root" /\ ~everyone /\ me \notin {"root", "unknown"} IN
    (IF group /\ ~granted THEN {"group"} ELSE {}) \cup (IF everyone THEN {"everyone"} ELSE {})
================================================================================
