-------------------------------- MODULE MCTexts --------------------------------
(***************************************************************************)
(* The algorithms on texts, each against what it is meant to compute.  The *)
(* inputs are grown a piece at a time, so that every input up to its bound *)
(* is a state; kind says which algorithm they are inputs of.               *)
(***************************************************************************)
EXTENDS GlobsAndUris, WireHeaders

Json == INSTANCE ValueEdits
Pack == INSTANCE SecretSpans
Ledger == INSTANCE LedgerChain WITH Entries <- {"a", "b"}, MaxSeq <- 2
Doors == INSTANCE MCDoors
Config == INSTANCE MCConfig
Readings == INSTANCE MCReadings

VARIABLES kind, left, right

vars == <<kind, left, right>>

-----------------------------------------------------------------------------
\* The pieces of each kind's two inputs, and how many there may be.
NameChars == {"a", "b"}
Segs == {<<>>, <<"a">>, <<"a", "b">>}
SegPatterns == {<<>>, <<"a">>, <<Star>>, Wild, <<"a", Star>>}
PathWords == {<<"a">>, <<".">>, <<"/">>, <<"%", "2", "e">>, <<"%", "2", "F">>, <<"%", "2", "5">>, <<"%", "0", "0">>,
              <<"2", "e">>, <<"%", "3", "2">>, <<"%", "6", "5">>}
HostWords == {<<"h">>, <<"H">>, <<":">>, <<"80">>, <<"81">>, <<"@">>, Localhost}

UriPrefixes == {<<"f">>, <<"f", Star>>, <<Star, "g">>}
UriGlobs == {AnyUri} \cup
    [prefix : UriPrefixes, path : UNION {[1 .. n -> {<<"a">>, <<Star>>, Wild}] : n \in 1 .. 2},
     query : {Absent, <<>>, <<Star, "b">>}]
Uris == [prefix : {<<"f">>, <<"g">>, <<"f", "g">>}, path : UNION {[1 .. n -> {<<"a">>, <<"b">>}] : n \in 0 .. 2},
         query : {Absent, <<>>, <<"a">>, <<"b">>}]

Annotated(header, type) == [header |-> header, type |-> type, properties |-> <<>>, elsewhere |-> {}]
Leaves == {Annotated(header, type) : header \in {No, "Region", "region", "Zone", "bad name"},
                                     type \in {"string", "number"}}
Schemas ==
    [header : {No}, type : {"object"}, properties : [{"a", "b"} -> Leaves],
     elsewhere : {{}, {Annotated("Zone", "string")}, {Annotated(No, "string")}}]
    \cup {[header |-> header, type |-> "string", properties |-> [p \in {"o"} |-> inner], elsewhere |-> {}] :
             header \in {No, "Zone"},
             inner \in [header : {No, "Zone"}, type : {"string"}, properties : [{"a"} -> Leaves], elsewhere : {{}}]}

Strings == {<<>>, << <<" ">>, <<"a">> >>, << <<"ctl">> >>, << <<"int", 4>> >>}
Values ==
    [kind : {"string"}, text : Strings] \cup [kind : {"integer"}, n : {3, 4, 5}]
    \cup [kind : {"double"}, halves : {1, 6, 8}] \cup {[kind |-> "object"]}
Arguments == UNION {[paths -> Values] : paths \in {{}, {<<"a">>}, {<<"o", "a">>}}}
             \cup [{<<"a">>, <<"b">>} -> [kind : {"integer"}, n : {3, 5}]]

Metas ==
    {No, NotAnObject} \cup UNION {
        {"progressToken" :> "p",
         Version :> version,
         Version :> version @@ "progressToken" :> "p" @@ Capabilities :> capabilities} :
            version \in {Modern, "2099-01-01"},
            capabilities \in UNION {{[c \in declared |-> IF c = "elicitation" THEN modes ELSE {}] : modes \in SUBSET {"url", "form"}} :
                                       declared \in SUBSET {"elicitation", "roots", "other"}}}
Requests ==
    [request : BOOLEAN, method : {No, "tools/call", "tools/list", "initialize"}, name : {No, << <<" ">>, <<"ctl">> >>},
     params : {Object, No, NotAnObject}, meta : Metas]
Asks == [method : {"elicitation/create"}, url : BOOLEAN]
        \cup [method : {"sampling/createMessage", "roots/list", "tools/call"}, url : {FALSE}]
Results ==
    [type : {"input_required", "complete"}, state : {No, "s", NotAString},
     requests : {No, NotAnObject} \cup {asks \in SUBSET Asks : Cardinality(asks) <= 2}]
TextWords == {<<"=?base64">>, <<"?">>, <<"=">>, <<"a">>, <<" ">>, <<"ctl">>, <<"b64", <<<<"a">>>> >>}

Str(words) == Json!String(words)
Args == {Json!NoJson, <<>> :> Json!Null, <<>> :> Json!Array} \cup
    {<<>> :> Json!Object @@ <<"a">> :> a @@ b :
        a \in {Json!Object, Json!Null, Json!Number(1), Json!Number(5), Str(<<"x">>)},
        b \in {<<>>, <<"b">> :> Json!Number(2), <<"b">> :> Json!Object @@ <<"b", "a">> :> Json!Number(3)}}
    \cup {<<>> :> Json!Object @@ <<"a">> :> Json!Object @@ <<"a", "b">> :> b :
             b \in {Json!Null, Json!Number(0), Json!Object}}
ArgEdits == [op : {"set", "default", "remove", "clamp"}, path : {<<"a">>, <<"a", "b">>, <<"b", "a">>}, n : {1},
             min : {1}, max : {3}]

SomeTexts == {<<"x">>, <<"secret", "x">>, <<"half", "half", "secret">>, <<"half", "half", "half", "secret">>, <<"unsafe">>}
Structures == {Json!NoJson} \cup
    {<<>> :> Json!Object @@ <<"a">> :> a : a \in {Str(t) : t \in SomeTexts} \cup {Json!Null, Json!Number(1)}}
    \cup {<<>> :> Json!Object @@ <<"a">> :> holder @@ <<"a", "1">> :> Str(t) @@ <<"a", "2">> :> Str(<<"x">>) :
             holder \in {Json!Object, Json!Array}, t \in {<<"x">>, <<"secret">>}}
    \cup {<<>> :> Json!Object @@ <<"a">> :> Str(<<"x">>) @@ <<key>> :> Str(<<"secret">>) : key \in {"b", "secret"}}
BlocksFor(structure) ==
    LET texts == [where : {"content"}, json : {Json!NoJson}, text : {<<"x", "x">>, <<"secret", "x">>}]
        jsons == [where : {"content", "embedded"}, text : {<<>>},
                  json : {structure, <<>> :> Json!Object @@ <<"a">> :> Str(<<"secret", "x">>)} \ {Json!NoJson}]
    IN {<<>>} \cup {<<block>> : block \in texts \cup jsons}
       \cup {<<a, b>> : a \in texts, b \in {j \in jsons : j.json = structure}}
ResultsOf == UNION {[structured : {structure}, blocks : BlocksFor(structure), other : {<<"x">>, <<"secret">>},
                     data : {<<"secret">>}] : structure \in Structures}
ResultEdits ==
    {[op |-> "redact", path |-> <<>>, max |-> 0], [op |-> "truncate", path |-> <<>>, max |-> 1]}
    \cup [op : {"mask"}, path : {<<"a">>, <<"*">>, <<"a", "*">>}, max : {0}]
    \cup [op : {"remove"}, path : {<<"a">>, <<"*", "1">>}, max : {0}]

Plain == Json!Plain
Of(type) == [Plain EXCEPT !.types = {type}]
Having(a) == [Of("object") EXCEPT !.properties = [key \in {"a"} |-> a]]
StringSchemas ==
    {Plain, Of("string"), Of("null"), [Of("string") EXCEPT !.valued = TRUE], [Of("string") EXCEPT !.minLength = 2],
     [Plain EXCEPT !.union = {Of("string"), Of("array")}],
     [Plain EXCEPT !.union = {[Of("string") EXCEPT !.valued = TRUE], Of("null")}],
     [Plain EXCEPT !.union = {[Of("string") EXCEPT !.minLength = 3], Of("string")}, !.exclusive = TRUE],
     [Of("array") EXCEPT !.items = [Of("string") EXCEPT !.valued = TRUE]], [Of("array") EXCEPT !.items = Json!Nothing]}
OutputSchemas ==
    {Json!Anything, [Plain EXCEPT !.unfollowed = TRUE], [Plain EXCEPT !.minProperties = 1], [Plain EXCEPT !.required = {"a"}],
     [Having(Plain) EXCEPT !.rest = Json!Nothing], [Plain EXCEPT !.patterned = TRUE],
     [Plain EXCEPT !.union = {Having(Of("string")), [Of("object") EXCEPT !.minProperties = 2]}],
     [Plain EXCEPT !.union = {[Having(Plain) EXCEPT !.required = {"a"}], Of("array")}],
     Having([Of("object") EXCEPT !.required = {"1"}])}
    \cup {Having(a) : a \in StringSchemas}

\* The chain a ledger writes for these numbers and entries, from the first record on.
ChainOf(numbered) ==
    LET hash[i \in 0 .. Len(numbered)] ==
            IF i = 0 THEN Ledger!Genesis ELSE Ledger!Hash(numbered[i][1], numbered[i][2], hash[i - 1])
    IN [i \in 1 .. Len(numbered) |->
           [seq |-> numbered[i][1], entry |-> numbered[i][2], prev |-> hash[i - 1], hash |-> hash[i]]]
Written(entries) == ChainOf([i \in DOMAIN entries |-> <<i - 1, entries[i]>>])

\* The files of at most two records with any numbers, links and hashes of some real
\* chain, and those of up to four records linked as a chain is but numbered anyhow.
ShortChains == {Written(entries) : entries \in UNION {[1 .. n -> {"a", "b"}] : n \in 0 .. 2}}
SomeHashes == {Ledger!Genesis} \cup UNION {{chain[i].hash : i \in {i \in DOMAIN chain : chain[1].entry = "a"}} : chain \in ShortChains}
SomeRecords == [seq : 0 .. 2, entry : {"a", "b"}, prev : SomeHashes, hash : SomeHashes]
LedgerFiles ==
    UNION {[1 .. n -> SomeRecords] : n \in 0 .. 2}
    \cup {ChainOf(list) : list \in UNION {[1 .. n -> (0 .. 2) \X {"a", "b"}] : n \in 3 .. 4}}

\* Each kind's pieces for the left input and their most, then for the right.
TextPieces ==
    [names    |-> <<NameChars \cup {Star}, 4, NameChars, 4>>,
     overlap  |-> <<NameChars \cup {Star}, 3, NameChars \cup {Star}, 3>>,
     paths    |-> <<SegPatterns, 3, Segs, 3>>,
     pathsOverlap |-> <<SegPatterns, 3, SegPatterns, 2>>,
     globs    |-> <<UriGlobs, 1, UriGlobs, 1>>,
     uri      |-> <<PathWords, 4, {}, 0>>,
     host     |-> <<HostWords, 4, {}, 0>>,
     header   |-> <<TextWords, 5, {}, 0>>,
     request  |-> <<Requests, 1, Results, 1>>,
     schema   |-> <<Schemas, 1, {}, 0>>,
     scan     |-> <<{"-", "B", "E", "KEY", "AK", "a"}, 6, {}, 0>>,
     args     |-> <<Args, 1, ArgEdits, 2>>,
     edits    |-> <<ResultsOf, 1, ResultEdits, 2>>,
     ledger   |-> <<LedgerFiles, 1, {chain \in ShortChains : chain = <<>> \/ chain[1].entry = "a"}, 1>>,
     params   |-> <<{schema \in Schemas : ParamHeaders(schema) # Refused}, 1, Arguments, 2>>]

Pieces == TextPieces @@ Doors!Pieces @@ Config!Pieces @@ Readings!Pieces

Kinds == DOMAIN Pieces

Init == kind \in Kinds /\ left = <<>> /\ right = <<>>

GrowLeft ==
    /\ Len(left) < Pieces[kind][2]
    /\ \E piece \in Pieces[kind][1] : left' = Append(left, piece)
    /\ UNCHANGED <<kind, right>>

GrowRight ==
    /\ Len(right) < Pieces[kind][4]
    /\ \E piece \in Pieces[kind][3] : right' = Append(right, piece)
    /\ UNCHANGED <<kind, left>>

Next == GrowLeft \/ GrowRight

Spec == Init /\ [][Next]_vars

-----------------------------------------------------------------------------
Texts(alphabet, n) == UNION {[1 .. k -> alphabet] : k \in 0 .. n}

Flat(words) == FlattenSeq(words)

\* What it is to match: a star takes any run of characters.
RECURSIVE MatchesName(_, _)
MatchesName(pattern, name) ==
    IF pattern = <<>> THEN name = <<>>
    ELSE IF Head(pattern) = Star
         THEN MatchesName(Tail(pattern), name) \/ (name # <<>> /\ MatchesName(pattern, Tail(name)))
         ELSE name # <<>> /\ Head(name) = Head(pattern) /\ MatchesName(Tail(pattern), Tail(name))

\* What it is to match: `**` takes any run of segments, and a `*` within a segment
\* what the names dialect says, of one that is not empty.
RECURSIVE MatchesPath(_, _)
MatchesPath(pattern, path) ==
    IF pattern = <<>> THEN path = <<>>
    ELSE IF Head(pattern) = Wild
         THEN MatchesPath(Tail(pattern), path) \/ (path # <<>> /\ MatchesPath(pattern, Tail(path)))
         ELSE /\ path # <<>> /\ MatchesPath(Tail(pattern), Tail(path))
              /\ MatchesName(Head(pattern), Head(path)) /\ (Head(path) = <<>> => Head(pattern) = <<>>)

\* A name or a path matches a pattern exactly when some reading of its stars makes
\* it so, and two patterns overlap exactly when something matches both: what an
\* allowlist lets through, and what a shadowed server is found by.
GlobsAgree ==
    CASE kind = "names" -> Names(left, right) <=> MatchesName(left, right)
      [] kind = "paths" -> PathMatches(left, right) <=> MatchesPath(left, right)
      [] kind = "overlap" ->
            NamesOverlap(left, right) <=>
                \E name \in Texts(NameChars, 5) \ {<<>>} : MatchesName(left, name) /\ MatchesName(right, name)
      [] kind = "pathsOverlap" ->
            PathsOverlap(left, right) <=>
                \E path \in Texts(Segs, 4) : MatchesPath(left, path) /\ MatchesPath(right, path)
      [] kind = "globs" ->
            left # <<>> /\ right # <<>> =>
                (UrisOverlap(left[1], right[1]) <=>
                    \E uri \in Uris : UriMatches(left[1], uri) /\ UriMatches(right[1], uri))
      [] OTHER -> TRUE

\* The URIs whose path, or whose host, is the input.
UrisWith(path) ==
    [scheme : {"http", "file", "test"}, path : {path}, query : {<<>>, <<"%", "3", "a">>},
     authority : IF path = <<>> \/ Head(path) = "/"
                 THEN {NoAuthority, <<>>, <<"H">>, Localhost} ELSE {NoAuthority}]
UrisAt(host) == [scheme : {"http", "file", "test"}, authority : {host}, path : {<<"/">>}, query : {<<>>}]

\* `n` is its own normal form.
Settled(n) == n.refused = "no" => Normal(n) = n

Colons(host) == Cardinality({i \in DOMAIN host : host[i] = ":"})

\* No decoding of it, up to three of them, makes another path of a normal one: the
\* segments stay as many, none becomes a dot segment, none holds a separator or a NUL.
ReadsOneWay(path) ==
    \A text \in {path, Decoded(path), Decoded(Decoded(path)), Decoded(Decoded(Decoded(path)))} :
        /\ Len(Segments(text)) = Len(Segments(path))
        /\ \A i \in DOMAIN Segments(text) : Segments(text)[i] \notin {<<".">>, <<".", ".">>}
        /\ \A i \in DOMAIN text : text[i] \notin {"NUL", "backslash"}

\* What the allowlist judged is what any server reads: the normal form of a URI is
\* its own, leads where the text given led, and is read one way however often its
\* escapes are decoded.
LeadsWhere(uri, n) ==
    n.refused = "no" =>
        /\ n.authority = NoAuthority => ~IsPrefix(<<"/", "/">>, n.path)
        /\ ReadsOneWay(n.path)
        /\ IsPrefix(<<"/">>, uri.path) => Walk(n.path) = Walk(Unescape(uri.path, TRUE).text)
UrisOf(text) ==
    CASE kind = "uri" -> UrisWith(text) [] kind = "host" /\ Colons(text) <= 1 -> UrisAt(text) [] OTHER -> {}
NormalFormHolds ==
    kind \in {"uri", "host"} =>
        \A uri \in UrisOf(Flat(left)) : \A n \in {Normal(uri)} :
            Settled(n) /\ (kind = "uri" => LeadsWhere(uri, n))

\* Every text goes through a header and back as it was, and a request relayed to
\* an upstream goes with headers that a server which checks them takes: on the
\* modern wire whenever the request has the name its method needs, on the legacy
\* wire with no claim about a revision at all.  What else its _meta held stays.
Relayed(msg, era) == StampOffering(msg, era, Offered(msg))
KeepsTheRest(msg, sent) ==
    msg.params = Object /\ IsObject(msg.meta) =>
        \A key \in DOMAIN msg.meta \ ModernKeys : MetaOf(sent, key) = msg.meta[key]
HeadersAreTaken ==
    /\ kind = "header" =>
          /\ HeaderSafe(Encode(left)) /\ Decode(Encode(left)) = <<Ok, left>>
          /\ Encode(left) # <<>> => Blank \cap {Head(Encode(left)), Last(Encode(left))} = {}
    /\ kind = "request" /\ left # <<>> =>
          LET msg == left[1]  sent == Relayed(msg, Modern)  legacy == Relayed(msg, Legacy) IN
          /\ KeepsTheRest(msg, sent) /\ KeepsTheRest(msg, legacy)
          /\ MirroredHeaders(legacy) = <<>> /\ EraOf(legacy) # Modern
          /\ /\ msg.request /\ msg.method # No
             /\ msg.params # NotAnObject /\ (msg.params = Object => msg.meta # NotAnObject)
             /\ msg.method \in NamedMethods => NameOf(msg) # No
             => /\ ValidateHeaders(sent, MirroredHeaders(sent), {Modern}) = Ok
                /\ \A mode \in {"modern", "dual"} : WireCheck(mode, sent, MirroredHeaders(sent)) = Ok
                /\ WireCheck("legacy", legacy, <<>>) = Ok

\* A client is passed only what it declared it can answer, and a server that asks
\* for what the relayed request offered it is never refused for that.
ClientsCanAnswer ==
    kind = "request" /\ left # <<>> /\ right # <<>> =>
        LET msg     == left[1]
            result  == right[1]
            verdict == Interim(result, EraOf(msg), Offered(msg))
            asks    == IF result.requests \in {No, NotAnObject} THEN {} ELSE result.requests
            own     == MetaOf(msg, Capabilities)
        IN /\ verdict = "relay" =>
                 /\ EraOf(msg) = Modern
                 /\ asks # {} => own # No /\ \A ask \in asks : Declared(ask, own)
           /\ verdict = "refuse" /\ EraOf(msg) = Modern /\ msg.request /\ asks # {} =>
                 \/ result.state = NotAString
                 \/ \E ask \in asks : ~Declared(ask, MetaOf(Relayed(msg, Modern), Capabilities))

\* The number a header says, in halves, as it is written.
Said(text) == IF IsWhole(text) THEN 2 * text[1][2] ELSE text[1][2]
Safe(value) == value.kind = "integer" => value.n <= MaxSafeInteger
Numeric(value) == value # No /\ value.kind \in {"integer", "double"}

\* Every annotation of a served tool, wherever in its schema, has a header of its
\* own; the headers made of one body are taken with another exactly when each says
\* what that body does, two numbers past a double's precision told apart.
ParamsAgree ==
    /\ kind = "schema" /\ left # <<>> =>
          LET all == WalkSchema(left[1], <<>>, TRUE)  made == ParamHeaders(left[1]) IN
          made # Refused =>
              /\ Cardinality({Folded(a[1]) : a \in made}) = Cardinality(all)
              /\ \A found \in all : found[2] /\ found[3].type \in Primitives /\ <<found[3].header, found[1]>> \in made
    /\ kind = "params" /\ left # <<>> /\ Len(right) = 2 =>
          LET made    == ParamHeaders(left[1])
              taken   == ValidateParamHeaders(right[1], ParamHeaderValues(right[2], made), made)
              Text(i, a)  == WireValue(ValueIn(right[i], a[2]))
              Body(a)     == ValueIn(right[1], a[2])
              SameText(a) == Text(1, a) = Text(2, a)
              SameNumbers(a) ==
                  /\ Text(1, a) # No /\ Text(2, a) # No
                  /\ Numeric(Body(a)) /\ IsNumber(Text(2, a))
                  /\ Said(Text(1, a)) = Said(Text(2, a))
          IN /\ (\A a \in made : SameText(a) \/ (SameNumbers(a) /\ Safe(Body(a)))) => taken
             /\ taken => \A a \in made :
                   SameText(a) \/ SameNumbers(a) \/ (Body(a).kind = "double" /\ Body(a).halves > 2 * MaxSafeInteger)

-----------------------------------------------------------------------------
\* An edit of arguments does what its rule says at its path and nothing anywhere
\* else, and one that reports no change made none.
AppliedArgs(args, edits) ==
    FoldLeft(LAMBDA done, edit :
                LET step == Json!EditArgs(done.json, edit) IN
                IF done.ok /\ step.ok THEN Json!Did(step.json, done.changed \/ step.changed)
                ELSE Json!CannotApply(done.json),
             Json!Did(args, FALSE), edits)

ArgumentsAreEdited ==
    kind = "args" /\ left # <<>> =>
        LET args == left[1]  done == AppliedArgs(args, right) IN
        done.ok =>
            /\ ~done.changed => done.json = args
            /\ \A i \in DOMAIN right :
                  LET edit == right[i]
                      at   == IF edit.path \in DOMAIN done.json THEN done.json[edit.path] ELSE Json!Null
                  IN i = Len(right) =>
                        CASE edit.op = "set"     -> at = Json!Number(edit.n)
                          [] edit.op = "default" -> at # Json!Null
                          [] edit.op = "remove"  -> at = Json!Null
                          [] edit.op = "clamp"   -> at = Json!Null \/ at.n \in edit.min .. edit.max
            /\ \A p \in DOMAIN args :
                  \/ \E edit \in {right[i] : i \in DOMAIN right} : IsPrefix(edit.path, p) \/ IsPrefix(p, edit.path)
                  \/ p \in DOMAIN done.json /\ done.json[p] = args[p]

\* What it is to conform, for a value none of whose marks a constrained string allows.
Sub(json, path) ==
    [p \in {SubSeq(q, Len(path) + 1, Len(q)) : q \in Json!Under(json, path)} |-> json[path \o p]]
Marked(json) == \E t \in Json!Texts(json) : \E i \in DOMAIN t : t[i] \in {Json!Redacted, Json!Masked}
RECURSIVE Conforms(_, _)
Conforms(json, schema) ==
    CASE schema.kind = "anything" -> TRUE
      [] schema.kind = "nothing" -> FALSE
      [] OTHER ->
         LET root == json[<<>>]
             children == Json!ChildrenOf(json, <<>>)
             count == Cardinality({b \in schema.union : Conforms(json, b)})
         IN /\ root.t \in schema.types
            /\ schema.unfollowed => ~Marked(json)
            /\ schema.union # {} => count >= 1 /\ (schema.exclusive => count = 1)
            /\ root.t = "string" => Len(root.text) >= schema.minLength /\ (schema.valued => ~Marked(json))
            /\ root.t = "array" => \A p \in children : Conforms(Sub(json, p), schema.items)
            /\ root.t = "object" =>
                  /\ {<<key>> : key \in schema.required} \subseteq children
                  /\ Cardinality(children) >= schema.minProperties
                  /\ \A p \in children :
                        IF Last(p) \in DOMAIN schema.properties THEN Conforms(Sub(json, p), schema.properties[Last(p)])
                        ELSE IF schema.patterned THEN ~Marked(Sub(json, p))
                        ELSE Conforms(Sub(json, p), schema.rest)

Jsons(result) == {result.structured} \cup {result.blocks[i].json : i \in DOMAIN result.blocks}
MirrorsHold(was, result) ==
    \A i \in Json!Mirrors(was) : result.blocks[i].json = result.structured
KeepsTo(schema, was, result) ==
    was.structured # Json!NoJson /\ Conforms(was.structured, schema) => Conforms(result.structured, schema)

\* What a rule leaves of a result is what it says: every place it masks shows only
\* the mask, what it removes is gone, no secret it redacts is found; a mirror still
\* mirrors the structure, the structure keeps to the outputSchema, and a result
\* reported unchanged is.  A result redacted whole holds nothing the detector finds,
\* and is refused only for what redaction cannot reach.
RedactableOnly(result) ==
    /\ ~Json!HasSecret(result.data)
    /\ \A json \in Jsons(result) :
          /\ \A key \in Json!KeyTexts(json) : ~Json!HasSecret(key)
          /\ \A text \in Json!Texts(json) : ~Json!IsUnsafe(text) /\ ~Json!HasSecret(Json!RedactText(text))
EditsHold(was, edits, schema, done) ==
    done.ok =>
        /\ MirrorsHold(was, done.json) /\ KeepsTo(schema, was, done.json)
        /\ ~done.changed => done.json = was
        /\ \A edit \in edits : \A json \in Jsons(done.json) :
              CASE edit.op = "mask"   -> \A p \in Json!Places(json, edit.path) : json[p] \in {Json!Null, Str(<<Json!Masked>>)}
                [] edit.op = "remove" -> Json!Places(json, edit.path) \cap Json!KeysOf(json) = {}
                [] edit.op = "redact" -> \A text \in Json!Texts(json) : ~Json!HasSecret(text)
                [] OTHER -> TRUE
RedactionHolds(was, schema, done) ==
    /\ done.ok => MirrorsHold(was, done.json) /\ KeepsTo(schema, was, done.json) /\ ~Json!LeftIn(done.json)
    /\ schema = Json!Anything /\ RedactableOnly(was) => done.ok
ResultsAreEdited ==
    kind = "edits" /\ left # <<>> =>
        \A schema \in OutputSchemas :
            /\ EditsHold(left[1], Range(right), schema, Json!Apply(right, left[1], schema))
            /\ right = <<>> => RedactionHolds(left[1], schema, Json!RedactResult(left[1], schema))

-----------------------------------------------------------------------------
\* Every character of a span is in one match, of the first rule that has it in a
\* span; the matches come in order, two of one rule never touch, and the finding
\* that blocks a text is the first rule among those that redaction is given.  A text
\* with a key's header and its name has a match.
HasIt(span, i) == i \in span[1] + 1 .. span[2]
LeastOf(rules) == {rule \in rules : \A r \in rules : r >= rule}
Matched(text, found, scanned) ==
    /\ \A i \in DOMAIN text :
          {match[1] : match \in {m \in Range(found) : HasIt(m[2], i)}} =
          LeastOf({rule \in Pack!Rules : \E span \in Pack!Spans(rule, text) : HasIt(span, i)})
    /\ \A k \in 2 .. Len(found) :
          /\ found[k - 1][2][2] <= found[k][2][1]
          /\ found[k - 1][1] = found[k][1] => found[k - 1][2][2] < found[k][2][1]
    /\ scanned = IF found = <<>> THEN Pack!None ELSE Min({match[1] : match \in Range(found)})
    /\ Pack!Occurrences(text, Pack!PemBegin) # {} /\ Pack!Occurrences(text, Pack!KeyWord) # {} =>
          scanned = Pack!PrivateKey
MatchesCover == kind = "scan" => Matched(left, Pack!FindAll(left), Pack!Scan(left))

-----------------------------------------------------------------------------
\* A ledger file that verifies is a chain numbered from 0; one that verifies against
\* a seal is the file that was sealed, which does verify unless a number has no next;
\* one that verifies against how far the gateway had written still begins with it.
VerifyTellsTheTruth ==
    kind = "ledger" /\ left # <<>> /\ right # <<>> =>
        LET file == left[1]  written == right[1]
            plain  == Ledger!BrokenAt(file)
            sealed == Ledger!VerifyAgainst(file, Ledger!HeadHash(written), Len(written))
            admin  == Ledger!VerifyWritten(file, Ledger!HeadHash(written), Len(written))
        IN /\ plain = Ledger!NoBreak => file = Written([i \in DOMAIN file |-> file[i].entry])
           /\ sealed = Ledger!NoBreak => file = written
           /\ file = written /\ (\A i \in DOMAIN file : file[i].seq < 2) => sealed = Ledger!NoBreak
           /\ admin = Ledger!NoBreak => IsPrefix(written, file)
           /\ plain = Ledger!NoBreak /\ IsPrefix(written, file) => admin = Ledger!NoBreak

-----------------------------------------------------------------------------
\* What an upstream is sent, and what a client is sent of its answer, each can take,
\* and the headers of a call say what its body does.
WireHolds == HeadersAreTaken /\ ClientsCanAnswer /\ ParamsAgree

\* What a rule does is what it says: its allowlist lets through what its patterns mean,
\* of the one text that the upstream is sent, and its edits do that and nothing else, of
\* arguments and of results, of every secret there is.
RulesHold == GlobsAgree /\ NormalFormHolds /\ ArgumentsAreEdited /\ ResultsAreEdited /\ MatchesCover

\* What a verifier, a reader and an export say of a ledger is what its file holds.
LedgersHold == VerifyTellsTheTruth /\ Readings!ReadingsHold(kind, left, right)

\* Whoever a listener serves is who they are served as, by a credential that is theirs
\* and is taken there.
CallersHold == Doors!CallersHold(kind, left, right) /\ Doors!ConsoleHolds(kind, left, right)

\* A configuration that is not refused does what it says.
ConfigsHold == Config!ConfigsHold(kind, left, right)

\* An upstream is reached only by what its settings and the guard say, and what is read
\* of it is what was written.
DialsHold == Readings!DialsHold(kind, left, right)
===============================================================================
