------------------------------ MODULE WireHeaders ------------------------------
(***************************************************************************)
(* The 2026-07-28 wire (core wire.rs; gateway.rs, gateway/input.rs,        *)
(* gateway/mirror.rs and listener.rs where they use it): the metadata a    *)
(* request carries and the headers that mirror it.  A text is a sequence   *)
(* of tokens, each a tuple, and a JSON value a record.                     *)
(***************************************************************************)
EXTENDS Integers, Sequences, FiniteSets, SequencesExt, Functions, TLC

CONSTANTS No, NotAnObject, NotAString   \* model values: absent, or not what it should be

Ok == "ok"
Modern == "2026-07-28"
Legacy == "2025-11-25"

-----------------------------------------------------------------------------
(***************************************************************************)
(* Values in headers.                                                      *)
(***************************************************************************)

Word(w) == << <<w>> >>
SentinelOpen == << <<"=?base64">>, <<"?">> >>
SentinelClose == << <<"?">>, <<"=">> >>

\* A control character stands for every one a header cannot carry.
HeaderSafe(text) == \A i \in DOMAIN text : text[i] # <<"ctl">>
Blank == {<<" ">>}

NeedsEncoding(text) ==
    \/ ~HeaderSafe(text)
    \/ text # <<>> /\ (Head(text) \in Blank \/ Last(text) \in Blank)
    \/ IsPrefix(SentinelOpen, text) /\ IsSuffix(SentinelClose, text)

\* Base64 of a text is one token here; what is not such a token does not decode.
Base64(text) == IF text = <<>> THEN <<>> ELSE << <<"b64", text>> >>

Encode(text) == IF NeedsEncoding(text) THEN SentinelOpen \o Base64(text) \o SentinelClose ELSE text

\* strip_prefix, then strip_suffix of what that leaves.
Wrapped(text) ==
    /\ IsPrefix(SentinelOpen, text)
    /\ IsSuffix(SentinelClose, SubSeq(text, Len(SentinelOpen) + 1, Len(text)))

Inner(text) == SubSeq(text, Len(SentinelOpen) + 1, Len(text) - Len(SentinelClose))

Bad == <<"bad", <<>> >>
Decode(text) ==
    IF ~Wrapped(text) THEN <<Ok, text>>
    ELSE IF Inner(text) = <<>> THEN <<Ok, <<>> >>
    ELSE IF Len(Inner(text)) = 1 /\ Inner(text)[1][1] = "b64" THEN <<Ok, Inner(text)[1][2]>>
    ELSE Bad

-----------------------------------------------------------------------------
(***************************************************************************)
(* A request: its method, the field its name is in, and its params._meta,  *)
(* which is No, not an object, or a function on the keys it has.           *)
(***************************************************************************)

NamedMethods == {"tools/call", "prompts/get", "resources/read"}
Version == "protocolVersion"
Client == "clientInfo"
Capabilities == "clientCapabilities"
ModernKeys == {Version, Client, Capabilities}

Object == "object"
IsObject(meta) == meta \notin {No, NotAnObject}
MetaOf(msg, key) ==
    IF msg.params = Object /\ IsObject(msg.meta) /\ key \in DOMAIN msg.meta THEN msg.meta[key] ELSE No

ProtocolVersion(msg) == MetaOf(msg, Version)
NameOf(msg) == IF msg.method \in NamedMethods /\ msg.params = Object THEN msg.name ELSE No

EraOf(msg) ==
    IF ProtocolVersion(msg) # No THEN Modern ELSE IF msg.method = "initialize" THEN Legacy ELSE No

\* What a client of a modern request can be asked for.
InputCapabilities == {"elicitation", "sampling", "roots"}
Offered(msg) ==
    IF ProtocolVersion(msg) = No \/ MetaOf(msg, Capabilities) = No THEN <<>>
    ELSE Restrict(MetaOf(msg, Capabilities), InputCapabilities \cap DOMAIN MetaOf(msg, Capabilities))

\* stamp_request_offering: nothing is changed where there is no object to stamp.
Stamp(msg, offered) ==
    LET stamp == Version :> Modern @@ Client :> "MCPdef" @@ Capabilities :> offered
        had   == IF IsObject(msg.meta) THEN msg.meta ELSE <<>>
    IN IF \/ ~msg.request \/ msg.params = NotAnObject
          \/ msg.params = Object /\ msg.meta = NotAnObject
       THEN msg
       ELSE [msg EXCEPT !.params = Object, !.meta = stamp @@ had]

\* strip_modern_meta: a _meta left empty goes.
Strip(msg) ==
    IF msg.params # Object \/ ~IsObject(msg.meta) THEN msg
    ELSE LET left == Restrict(msg.meta, DOMAIN msg.meta \ ModernKeys)
         IN [msg EXCEPT !.meta = IF DOMAIN left = {} THEN No ELSE left]

\* Upstream::stamp_offering: a request fitted to the wire an upstream speaks.
StampOffering(msg, era, offered) == IF era = Modern THEN Stamp(msg, offered) ELSE Strip(msg)

-----------------------------------------------------------------------------
(***************************************************************************)
(* The standard headers: those a request goes with, and the check of those *)
(* it came with.  Headers are a function on the names that are there.      *)
(***************************************************************************)

HeaderIn(headers, name) == IF name \in DOMAIN headers THEN headers[name] ELSE No

MirroredHeaders(msg) ==
    IF ProtocolVersion(msg) = No THEN <<>>
    ELSE "version" :> Word(ProtocolVersion(msg))
         @@ (IF msg.method = No THEN <<>> ELSE "method" :> Word(msg.method))
         @@ (IF NameOf(msg) = No THEN <<>> ELSE "name" :> Encode(NameOf(msg)))

Missing(headers, name) == HeaderIn(headers, name) = No \/ ~HeaderSafe(HeaderIn(headers, name))

ValidateHeaders(msg, headers, served) ==
    CASE ProtocolVersion(msg) = No \/ Missing(headers, "version")
         \/ HeaderIn(headers, "version") # Word(ProtocolVersion(msg)) -> "header mismatch"
      [] OTHER ->
         IF ProtocolVersion(msg) \notin served THEN "unsupported version"
         ELSE IF \/ msg.method = No \/ Missing(headers, "method")
                 \/ HeaderIn(headers, "method") # Word(msg.method)
                 \/ /\ msg.method \in NamedMethods
                    /\ \/ NameOf(msg) = No \/ Missing(headers, "name")
                       \/ Decode(headers["name"]) # <<Ok, NameOf(msg)>>
         THEN "header mismatch"
         ELSE Ok

Served(mode) == CASE mode = "legacy" -> {Legacy} [] mode = "modern" -> {Modern} [] mode = "dual" -> {Legacy, Modern}

\* listener::wire_check.
WireCheck(mode, msg, headers) ==
    CASE EraOf(msg) = Modern /\ mode \in {"dual", "modern"} -> ValidateHeaders(msg, headers, Served(mode))
      [] EraOf(msg) = Modern /\ mode = "legacy" -> "unsupported version"
      [] EraOf(msg) # Modern /\ mode \in {"legacy", "dual"} -> Ok
      [] OTHER -> "header mismatch"

-----------------------------------------------------------------------------
(***************************************************************************)
(* Interim results: what a server may ask a client for.                    *)
(***************************************************************************)

\* A request for input: its method, and the mode of an elicitation.  Capabilities
\* are a function on those declared, elicitation's value the set of its modes.
Declared(ask, capabilities) ==
    CASE ask.method = "elicitation/create" ->
            /\ "elicitation" \in DOMAIN capabilities
            /\ LET modes == capabilities["elicitation"] IN
               IF ask.url THEN "url" \in modes ELSE "form" \in modes \/ "url" \notin modes
      [] ask.method = "sampling/createMessage" -> "sampling" \in DOMAIN capabilities
      [] ask.method = "roots/list" -> "roots" \in DOMAIN capabilities
      [] OTHER -> FALSE

\* Mutant: a mode is not looked at.
UnanswerableInputAnyMode(result, capabilities) ==
    \/ result.state = NotAString
    \/ result.requests = No /\ result.state = No
    \/ result.requests = NotAnObject
    \/ \E ask \in (IF result.requests \in {No, NotAnObject} THEN {} ELSE result.requests) :
          ~Declared([ask EXCEPT !.url = FALSE], capabilities)

UnanswerableInput(result, capabilities) ==
    \/ result.state = NotAString
    \/ result.requests = No /\ result.state = No
    \/ result.requests = NotAnObject
    \/ \E ask \in (IF result.requests \in {No, NotAnObject} THEN {} ELSE result.requests) :
          ~Declared(ask, capabilities)

\* gateway/input.rs interim.
Interim(result, era, offered) ==
    IF result.type # "input_required" THEN "final"
    ELSE IF era # Modern \/ UnanswerableInput(result, offered) THEN "refuse" ELSE "relay"

-----------------------------------------------------------------------------
(***************************************************************************)
(* Annotated parameters.  A schema is its x-mcp-header, its type, its      *)
(* properties, and the subschemas it has in any other place; arguments are *)
(* a function on the paths that carry a value.                             *)
(***************************************************************************)

FieldTokens == {"Region", "region", "Zone"}
Folded(name) == IF name = "Region" THEN "region" ELSE IF name = "Zone" THEN "zone" ELSE name
Primitives == {"string", "integer", "boolean"}

\* Every annotation of a schema: <<path, reachable, the annotated schema>>.
RECURSIVE WalkSchema(_, _, _)
WalkSchema(schema, path, reachable) ==
    (IF schema.header = No THEN {} ELSE {<<path, reachable, schema>>})
    \cup UNION {WalkSchema(schema.properties[prop], Append(path, prop), reachable) :
                   prop \in DOMAIN schema.properties}
    \cup UNION {WalkSchema(sub, path, FALSE) : sub \in schema.elsewhere}

\* A tool with any other annotation is not served.
WellPlaced(found) ==
    /\ found[3].header \in FieldTokens
    /\ found[2] /\ found[1] # <<>>
    /\ found[3].type \in Primitives

Refused == {<<"refused", <<>> >>}

ParamHeaders(schema) ==
    LET all == WalkSchema(schema, <<>>, TRUE) IN
    IF \/ \E found \in all : ~WellPlaced(found)
       \/ \E a, b \in all : a # b /\ Folded(a[3].header) = Folded(b[3].header)
    THEN Refused ELSE {<<found[3].header, found[1]>> : found \in all}

\* The largest integer below which a double holds every one; a double is its halves.
MaxSafeInteger == 3
Rounded(n) == IF n <= MaxSafeInteger + 1 THEN n ELSE n - (n % 2) + (IF n % 4 = 3 THEN 2 ELSE 0)

ValueIn(arguments, path) == IF path \in DOMAIN arguments THEN arguments[path] ELSE No

\* wire_value: No for an object, an array, and what is not there.
WireValue(value) ==
    CASE value = No -> No
      [] value # No /\ value.kind = "string" -> value.text
      [] value # No /\ value.kind = "integer" -> << <<"int", value.n>> >>
      [] value # No /\ value.kind = "double" ->
            IF value.halves % 2 = 0 /\ value.halves <= 2 * MaxSafeInteger
            THEN << <<"int", value.halves \div 2>> >> ELSE << <<"float", value.halves>> >>
      [] OTHER -> No

IsWhole(text) == Len(text) = 1 /\ text[1][1] = "int"
IsNumber(text) == Len(text) = 1 /\ text[1][1] \in {"int", "float"}
AsHalves(text) == IF IsWhole(text) THEN 2 * Rounded(text[1][2]) ELSE text[1][2]

SameNumber(text, value) ==
    IF value.kind = "integer"
    THEN IF IsWhole(text) THEN text[1][2] = value.n
         ELSE value.n <= MaxSafeInteger /\ IsNumber(text) /\ AsHalves(text) = 2 * value.n
    ELSE IsNumber(text) /\ AsHalves(text) = value.halves

SameValue(text, value) ==
    IF value.kind \in {"integer", "double"} THEN SameNumber(text, value) ELSE text = WireValue(value)

\* param_header_values: the headers a modern tools/call goes with.
ParamHeaderValues(arguments, annotations) ==
    LET sent == {a \in annotations : WireValue(ValueIn(arguments, a[2])) # No} IN
    [name \in {Folded(a[1]) : a \in sent} |->
        Encode(WireValue(ValueIn(arguments, (CHOOSE a \in sent : Folded(a[1]) = name)[2])))]

\* validate_param_headers.
ValidateParamHeaders(arguments, headers, annotations) ==
    \A a \in annotations :
        LET raw     == HeaderIn(headers, Folded(a[1]))
            value   == ValueIn(arguments, a[2])
        IN IF raw = No THEN WireValue(value) = No
           ELSE /\ HeaderSafe(raw) /\ Decode(raw)[1] = Ok
                /\ WireValue(value) # No /\ SameValue(Decode(raw)[2], value)
===============================================================================
