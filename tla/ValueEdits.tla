------------------------------ MODULE ValueEdits -------------------------------
(***************************************************************************)
(* What `transform` rules make of JSON (policy transform.rs, result.rs):   *)
(* edits of a call's arguments, and of its result, kept to the tool's      *)
(* outputSchema.  A JSON value is a function from the paths it has to what *)
(* is there; an array's steps are "1", "2".  A text is a sequence of       *)
(* words; of them a detector finds secrets, and what is unsafe.            *)
(***************************************************************************)
EXTENDS Integers, Sequences, FiniteSets, SequencesExt, Functions, TLC

Object == [t |-> "object"]
Array == [t |-> "array"]
Null == [t |-> "null"]
String(text) == [t |-> "string", text |-> text]
Number(n) == [t |-> "number", n |-> n]
NoJson == <<>>

Under(json, path) == {p \in DOMAIN json : IsPrefix(path, p)}
Without(json, path) == Restrict(json, DOMAIN json \ Under(json, path))
Holds(json, path) == path \in DOMAIN json /\ json[path] # Null
Put(json, path, node) == path :> node @@ Without(json, path)
StringsOf(json) == {p \in DOMAIN json : json[p].t = "string"}
KeysOf(json) == {p \in DOMAIN json : p # <<>> /\ json[Front(p)] = Object}
ChildrenOf(json, path) == {p \in DOMAIN json : p # <<>> /\ Front(p) = path}

-----------------------------------------------------------------------------
(***************************************************************************)
(* Edits of arguments.  Each gives the arguments, whether they changed,    *)
(* and whether it could apply.                                             *)
(***************************************************************************)

Prefixed(path) == {SubSeq(path, 1, n) : n \in 0 .. Len(path) - 1}

\* holder: a step through anything but an object cannot apply, and one through
\* nothing makes an object where the edit adds a value.
Stuck(args, path) == \E p \in Prefixed(path) : Holds(args, p) /\ args[p] # Object
Made(args, path) ==
    LET missing == {p \in Prefixed(path) : ~Holds(args, p)} IN
    [p \in missing |-> Object] @@ args

Did(json, changed) == [ok |-> TRUE, json |-> json, changed |-> changed]
CannotApply(json) == [ok |-> FALSE, json |-> json, changed |-> FALSE]

EditArgs(args, edit) ==
    IF Stuck(args, edit.path) THEN CannotApply(args)
    ELSE LET set == Put(Made(args, edit.path), edit.path, Number(edit.n)) IN
         CASE edit.op = "set"     -> Did(set, set # args)
           [] edit.op = "default" -> IF Holds(args, edit.path) THEN Did(args, FALSE) ELSE Did(set, TRUE)
           [] edit.op = "remove"  -> Did(Without(args, edit.path), edit.path \in DOMAIN args)
           [] edit.op = "clamp"   ->
                IF ~Holds(args, edit.path) THEN Did(args, FALSE)
                ELSE IF args[edit.path].t # "number" THEN CannotApply(args)
                ELSE LET n == args[edit.path].n
                         held == IF n < edit.min THEN edit.min ELSE IF n > edit.max THEN edit.max ELSE n
                     IN Did(Put(args, edit.path, Number(held)), held # n)

-----------------------------------------------------------------------------
(***************************************************************************)
(* The outputSchema, as far as an edit is checked against it.              *)
(***************************************************************************)

Anything == [kind |-> "anything"]
Nothing == [kind |-> "nothing"]
Unknown == [kind |-> "unknown"]
AllTypes == {"object", "array", "string", "number", "null"}

\* A schema that says nothing yet.  `valued` stands for enum, const, pattern and
\* format; `unfollowed` for allOf, not, if and the others; `union` holds the
\* branches of anyOf, or of oneOf when `exclusive`.
Plain == [kind |-> "schema", types |-> AllTypes, valued |-> FALSE, minLength |-> 0, properties |-> <<>>,
          patterned |-> FALSE, rest |-> Anything, items |-> Anything, required |-> {}, minProperties |-> 0,
          unfollowed |-> FALSE, union |-> {}, exclusive |-> FALSE]

Shaped(schema) ==
    \/ schema.properties # <<>> \/ schema.rest # Anything
    \/ schema.required # {} \/ schema.items # Anything

\* The one branch that could be a value of this type; Unknown when it cannot tell.
RECURSIVE Container(_, _)
Container(schema, type) ==
    IF schema.kind # "schema" THEN schema
    ELSE IF schema.unfollowed THEN Unknown
    ELSE IF schema.union = {} THEN schema
    ELSE LET fits == {b \in schema.union : b.kind = "schema" /\ type \in b.types} IN
         IF Shaped(schema) \/ Cardinality(fits) # 1 THEN Unknown
         ELSE Container(CHOOSE b \in fits : TRUE, type)

Child(schema, type, step) ==
    CASE schema.kind = "anything" -> Anything
      [] schema.kind \in {"nothing", "unknown"} -> Unknown
      [] schema.kind = "schema" /\ type = "array" -> IF schema.items = Nothing THEN Unknown ELSE schema.items
      [] OTHER -> IF step \in DOMAIN schema.properties THEN schema.properties[step]
                  ELSE IF schema.patterned \/ schema.rest = Nothing THEN Unknown
                  ELSE schema.rest

\* schema_at: the schema of what is at path in json.
SchemaAt(schema, json, path) ==
    FoldLeft(LAMBDA at, i : Child(Container(at, json[SubSeq(path, 1, i - 1)].t), json[SubSeq(path, 1, i - 1)].t, path[i]),
             schema, [i \in 1 .. Len(path) |-> i])

RECURSIVE AllowsString(_, _)
AllowsString(schema, text) ==
    IF schema.kind = "unknown" THEN "unknown"
    ELSE IF schema.kind # "schema" THEN (IF schema = Anything THEN "yes" ELSE "no")
    ELSE IF schema.unfollowed THEN "unknown"
    ELSE LET verdicts == {<<AllowsString(b, text), b>> : b \in schema.union}
             Some(v)  == \E verdict \in verdicts : verdict[1] = v
             allow    == {verdict \in verdicts : verdict[1] = "yes"}
         IN CASE schema.union # {} /\ ~schema.exclusive /\ allow = {} -> IF Some("unknown") THEN "unknown" ELSE "no"
              [] schema.union # {} /\ schema.exclusive /\ Some("unknown") -> "unknown"
              [] schema.union # {} /\ schema.exclusive /\ ~Some("unknown") /\ Cardinality(allow) # 1 -> "no"
              [] OTHER ->
                 IF "string" \in schema.types /\ ~schema.valued /\ Len(text) >= schema.minLength THEN "yes" ELSE "no"

\* removal_at: the object at the key's parent may do without it.
AllowsRemoval(schema, json, path, left) ==
    LET holder == Container(SchemaAt(schema, json, Front(path)), "object") IN
    CASE holder = Anything -> "yes"
      [] holder.kind \in {"unknown", "nothing"} -> IF holder = Unknown THEN "unknown" ELSE "yes"
      [] OTHER -> IF Last(path) \notin holder.required /\ left >= holder.minProperties THEN "yes" ELSE "no"

\* checked: every place an edit touched, judged in what it left.
Checked(was, json, schema, changes) ==
    \A change \in changes :
        IF change[1] = "replaced"
        THEN AllowsString(SchemaAt(schema, was, change[2]), change[3]) = "yes"
        ELSE AllowsRemoval(schema, was, change[2], Cardinality(ChildrenOf(json, Front(change[2])))) = "yes"

-----------------------------------------------------------------------------
(***************************************************************************)
(* What the detector finds, and redaction.                                 *)
(***************************************************************************)

Redacted == "[REDACTED]"
Masked == "[MASKED]"
Rounds == 3

\* A secret is a word, or the half of one that what follows it completes: a
\* redaction beside it can.
SecretAt(text, i) ==
    text[i] = "secret" \/ (text[i] = "half" /\ i < Len(text) /\ text[i + 1] = Redacted)
HasSecret(text) == \E i \in DOMAIN text : SecretAt(text, i)
IsUnsafe(text) == \E i \in DOMAIN text : text[i] = "unsafe"

ReplaceSecrets(text) ==
    FlattenSeq([i \in DOMAIN text |->
        IF SecretAt(text, i) THEN <<Redacted>>
        ELSE IF i > 1 /\ text[i] = Redacted /\ text[i - 1] = "half" THEN <<>>
        ELSE <<text[i]>>])

RedactText(text) == FoldLeft(LAMBDA t, i : ReplaceSecrets(t), text, [i \in 1 .. Rounds |-> i])

Found(text, strict) == HasSecret(text) \/ (strict /\ IsUnsafe(text))

\* Why a text, or a key, cannot be redacted: "none", or the fault.
TextFault(text, strict) ==
    CASE strict /\ IsUnsafe(text) -> "unsafe"
      [] ~(strict /\ IsUnsafe(text)) /\ HasSecret(RedactText(text)) -> "kept"
      [] OTHER -> "none"

Texts(json) == {json[p].text : p \in StringsOf(json)}
KeyTexts(json) == {<<Last(p)>> : p \in KeysOf(json)}

JsonFaults(json, strict) ==
    {TextFault(text, strict) : text \in Texts(json)}
    \cup {IF strict /\ IsUnsafe(key) THEN "unsafe" ELSE "kept" : key \in {k \in KeyTexts(json) : Found(k, strict)}}

RedactJson(json) ==
    [p \in DOMAIN json |-> IF json[p].t = "string" THEN String(RedactText(json[p].text)) ELSE json[p]]

-----------------------------------------------------------------------------
(***************************************************************************)
(* Results: the structuredContent, if any, the text blocks, every other    *)
(* string as one, and the base64 that redaction passes over.  A block      *)
(* holds JSON, or a text.                                                  *)
(***************************************************************************)

Mirrors(result) ==
    {i \in DOMAIN result.blocks :
        /\ result.structured # NoJson /\ result.blocks[i].where = "content"
        /\ result.blocks[i].json = result.structured}

WriteMirrors(result, mirrors) ==
    [result EXCEPT !.blocks = [i \in DOMAIN @ |->
        IF i \in mirrors THEN [@[i] EXCEPT !.json = result.structured] ELSE @[i]]]

\* An edit of every text block that is not a mirror, by JSON or text of it.
Replacements(was, json) == {<<"replaced", p, json[p].text>> : p \in {p \in StringsOf(json) : json[p] # was[p]}}

Step(result, changes, fault) == [result |-> result, changes |-> changes, fault |-> fault]

Redact(result, mirrors, strict) ==
    LET others == {i \in DOMAIN result.blocks : i \notin mirrors}
        faults == JsonFaults(result.structured, strict)
                  \cup UNION {JsonFaults(result.blocks[i].json, strict) : i \in others}
                  \cup {TextFault(result.blocks[i].text, strict) : i \in others}
                  \cup {TextFault(result.other, strict)}
        clean  == RedactJson(result.structured)
    IN IF faults # {"none"} THEN Step(result, {}, CHOOSE f \in faults \ {"none"} : TRUE)
       ELSE Step([result EXCEPT !.structured = clean, !.other = RedactText(@),
                     !.blocks = [i \in DOMAIN @ |->
                        IF i \in mirrors THEN @[i]
                        ELSE [@[i] EXCEPT !.json = RedactJson(@), !.text = RedactText(@)]]],
                 Replacements(result.structured, clean), "none")

\* places_in.
Places(json, steps) ==
    {p \in DOMAIN json :
        /\ Len(p) = Len(steps)
        /\ \A i \in DOMAIN steps :
              \/ steps[i] = "*"
              \/ p[i] = steps[i] /\ json[SubSeq(p, 1, i - 1)] = Object}

MaskJson(json, steps) ==
    [p \in DOMAIN json |->
        IF p \in Places(json, steps) /\ json[p].t = "string" THEN String(<<Masked>>) ELSE json[p]]
MaskFault(json, steps) == \E p \in Places(json, steps) : json[p].t \notin {"string", "null"}

RemoveJson(json, steps) ==
    LET gone == {p \in Places(json, steps) : p \in KeysOf(json)} IN
    Restrict(json, {p \in DOMAIN json : \A g \in gone : ~IsPrefix(g, p)})

\* paths: an edit at a path of all the JSON a result carries.
EditPaths(result, mirrors, edit) ==
    LET Edited(json) == IF edit.op = "mask" THEN MaskJson(json, edit.path) ELSE RemoveJson(json, edit.path)
        jsons == {result.structured} \cup {result.blocks[i].json : i \in DOMAIN result.blocks \ mirrors}
        left  == Edited(result.structured)
    IN IF edit.op = "mask" /\ \E json \in jsons : MaskFault(json, edit.path)
       THEN Step(result, {}, "cannot")
       ELSE Step([result EXCEPT !.structured = left,
                     !.blocks = [i \in DOMAIN @ |->
                        IF i \in mirrors THEN @[i] ELSE [@[i] EXCEPT !.json = Edited(@)]]],
                 IF edit.op = "mask" THEN Replacements(result.structured, left)
                 ELSE {<<"removed", p, <<>> >> : p \in Places(result.structured, edit.path) \cap KeysOf(result.structured)},
                 "none")

\* A block's text, and the text of one cut short, which holds no JSON any more.
Written(block) ==
    IF block.json = NoJson THEN block.text
    ELSE FlattenSeq(SetToSeq({block.json[p].text : p \in StringsOf(block.json)}))

Truncate(result, mirrors, max) ==
    Step([result EXCEPT !.blocks = [i \in DOMAIN @ |->
            IF i \in mirrors \/ Len(Written(@[i])) <= max THEN @[i]
            ELSE [@[i] EXCEPT !.json = NoJson, !.text = Append(SubSeq(Written(result.blocks[i]), 1, max), "[CUT]")]]],
         {}, "none")

EditResult(result, mirrors, edit) ==
    CASE edit.op = "redact"   -> Redact(result, mirrors, FALSE)
      [] edit.op = "truncate" -> Truncate(result, mirrors, edit.max)
      [] OTHER                -> EditPaths(result, mirrors, edit)

\* Mutant: the mirrors are left as they were.
ApplyKeepingMirrors(edits, result, schema) ==
    FoldLeft(LAMBDA done, edit :
                LET step == EditResult(done.json, Mirrors(result), edit) IN
                IF ~done.ok \/ step.fault # "none"
                   \/ ~Checked(done.json.structured, step.result.structured, schema, step.changes)
                THEN CannotApply(done.json)
                ELSE Did(step.result, done.changed \/ step.result # done.json),
             Did(result, FALSE), edits)

\* apply: each edit on what the one before it left, and the mirrors at the end,
\* if the structure changed.
Apply(edits, result, schema) ==
    LET mirrors == Mirrors(result)
        done == FoldLeft(LAMBDA done, edit :
                    LET step == EditResult(done.json, mirrors, edit) IN
                    IF ~done.ok \/ step.fault # "none"
                       \/ ~Checked(done.json.structured, step.result.structured, schema, step.changes)
                    THEN CannotApply(done.json)
                    ELSE Did(step.result, done.changed \/ step.result # done.json),
                 Did(result, FALSE), edits)
    IN IF done.ok THEN Did(WriteMirrors(done.json, mirrors), done.changed) ELSE done

\* What the detector finds in the result written out.
LeftIn(result) ==
    \/ \E json \in {result.structured} \cup {result.blocks[i].json : i \in DOMAIN result.blocks} :
          \E text \in Texts(json) \cup KeyTexts(json) : Found(text, TRUE)
    \/ \E text \in {result.other, result.data} \cup {result.blocks[i].text : i \in DOMAIN result.blocks} :
          Found(text, TRUE)

\* redact_result: what the detector finds is redacted, or the result is refused.
RedactResult(result, schema) ==
    LET mirrors == Mirrors(result)
        step    == Redact(result, mirrors, TRUE)
        written == WriteMirrors(step.result, mirrors)
    IN IF \/ step.fault # "none"
          \/ ~Checked(result.structured, step.result.structured, schema, step.changes)
          \/ LeftIn(written)
       THEN CannotApply(result) ELSE Did(written, written # result)
===============================================================================
