------------------------------ MODULE BearerToken ------------------------------
(***************************************************************************)
(* A bearer token checked and read (auth lib.rs Verifier, identity.rs):    *)
(* the order of its refusals, what jsonwebtoken checks and what it passes  *)
(* over, the subject and the roles its claims name, and what an ID token   *)
(* needs besides.  A text is a sequence of words, a claim's name one of    *)
(* segments; a claim's value is a record by its kind.                      *)
(***************************************************************************)
EXTENDS Integers, Sequences, FiniteSets, SequencesExt

CONSTANTS Leeway,   \* the clock skew allowed either way
          U64Most   \* the greatest whole time jsonwebtoken reads

Nothing == [kind |-> "nothing"]
Str(text) == [kind |-> "string", text |-> text]
Num(n) == [kind |-> "number", n |-> n]
List(values) == [kind |-> "list", values |-> values]
Obj(fields) == [kind |-> "object", fields |-> fields]

Get(fields, name) == IF name \in DOMAIN fields THEN fields[name] ELSE Nothing

-----------------------------------------------------------------------------
(***************************************************************************)
(* identity.rs.  A model is the subject's path, the roles' paths, and the  *)
(* mappings of a claim's value to roles.                                   *)
(***************************************************************************)

\* claim: the one of that very name, else the walk down its segments.
Claim(claims, path) ==
    IF path \in DOMAIN claims THEN claims[path]
    ELSE FoldLeft(LAMBDA v, segment : IF v.kind = "object" THEN Get(v.fields, <<segment>>) ELSE Nothing,
                  Get(claims, <<Head(path)>>), Tail(path))

\* strings: itself, or each string of an array.
Strings(value) ==
    CASE value.kind = "string" -> {value.text}
      [] value.kind = "list"   -> {v.text : v \in {w \in Range(value.values) : w.kind = "string"}}
      [] OTHER -> {}

HowMany(value) ==
    CASE value.kind = "string" -> 1
      [] value.kind = "list"   -> Len(SelectSeq(value.values, LAMBDA v : v.kind = "string"))
      [] OTHER -> 0

NoSubject == Str(<<>>)
Subject(model, claims) ==
    LET value == Claim(claims, model.subject) IN IF value.kind = "string" THEN value ELSE NoSubject

RolesOf(model, claims) ==
    UNION {Strings(Claim(claims, path)) : path \in model.roles}
    \cup UNION {m.roles : m \in {m \in model.map : m.value \in Strings(Claim(claims, m.claim))}}

-----------------------------------------------------------------------------
(***************************************************************************)
(* Verifier::verify_claims.  A verifier holds its resource, the audiences  *)
(* besides it, its issuer, its identity model and its keys, each a family; *)
(* a token its form, algorithm, key's name, the key that signed it, and    *)
(* its claims.                                                             *)
(***************************************************************************)

NoKid == "none"
Family(alg) == CASE alg \in {"RS256", "RS384", "RS512", "PS256"} -> "RSA"
                 [] alg \in {"ES256", "ES384"} -> "EC"
                 [] OTHER -> "none"
AllowedAlgs == {"RS256", "RS384", "RS512", "PS256", "ES256", "ES384"}

Standard(token, name) == Get(token.claims, <<name>>)
Words(value) == UNION {Range(text) : text \in Strings(value)}

\* What jsonwebtoken reads of a time: one of another type, or past a u64, as absent.
Parsed(value) == IF value.kind = "number" /\ value.n <= U64Most THEN value ELSE Nothing

\* set_required_spec_claims.
Required == {"exp", "iss", "aud", "sub"}

AreStrings(value) == value.kind = "string" \/ (value.kind = "list" /\ \A v \in Range(value.values) : v.kind = "string")

\* A required time is one it reads, a subject or issuer a string, an audience strings.
Carries(token) ==
    \A name \in Required :
        CASE name = "exp" -> Parsed(Standard(token, name)) # Nothing
          [] name = "aud" -> AreStrings(Standard(token, name))
          [] OTHER -> Standard(token, name).kind = "string"

Audiences(verifier) == {verifier.resource} \cup verifier.audiences

\* jsonwebtoken::decode: what the token carries must be there, and what is there
\* must check out.
Decodes(verifier, token, now) ==
    LET exp == Parsed(Standard(token, "exp"))  nbf == Parsed(Standard(token, "nbf"))
        iss == Standard(token, "iss")  aud == Strings(Standard(token, "aud"))
    IN /\ token.signedBy = token.kid
       /\ Carries(token)
       /\ exp # Nothing => exp.n >= now - Leeway
       /\ nbf # Nothing => nbf.n <= now + Leeway
       /\ iss.kind = "string" => iss.text = verifier.issuer
       /\ AreStrings(Standard(token, "aud")) => aud \cap Audiences(verifier) # {}

\* The Claims it deserializes into: each of its type, or the token is refused.
Deserializes(token) ==
    /\ \A name \in {"sub", "iss"} : Standard(token, name).kind = "string"
    /\ Standard(token, "exp").kind = "number"
    /\ Standard(token, "nbf").kind \in {"nothing", "number"}
    /\ \A name \in {"scope", "client_id", "azp"} : Standard(token, name).kind \in {"nothing", "null", "string"}

\* check_times, of the claims as deserialized.
TimesHold(token, now) ==
    LET nbf == Standard(token, "nbf") IN
    /\ Standard(token, "exp").n >= now - Leeway
    /\ nbf # Nothing => nbf.n <= now + Leeway

Scopes(token) ==
    LET scp == Standard(token, "scp") IN
    IF scp.kind \notin {"nothing", "null"} THEN Words(scp) ELSE Words(Standard(token, "scope"))

SubOf(verifier, token) ==
    IF verifier.model.subject = <<"sub">> THEN Standard(token, "sub") ELSE Subject(verifier.model, token.claims)

Refused(why) == [refused |-> why]

VerifyClaims(verifier, token, now) ==
    IF token.form = "empty" THEN Refused("missing")
    ELSE IF token.form = "garbled" THEN Refused("malformed")
    ELSE IF token.alg \notin AllowedAlgs THEN Refused("invalid")
    ELSE IF token.kid = NoKid THEN Refused("malformed")
    ELSE IF token.kid \notin DOMAIN verifier.keys THEN Refused("unknown key")
    ELSE IF \/ Family(token.alg) # verifier.keys[token.kid]
            \/ ~Decodes(verifier, token, now) \/ ~Deserializes(token) \/ ~TimesHold(token, now)
            \/ verifier.model.subject # <<"sub">> /\ SubOf(verifier, token) = NoSubject
         THEN Refused("invalid")
    ELSE [refused |-> "no", subject |-> SubOf(verifier, token).text, scopes |-> Scopes(token),
          roles |-> RolesOf(verifier.model, token.claims)]

\* verify_id_token: an ID token, its audience the client.
VerifyIdToken(verifier, token, nonce, now) ==
    LET verdict == VerifyClaims(verifier, token, now)
        azp == Standard(token, "azp")  iat == Standard(token, "iat")
    IN IF \/ verdict.refused # "no"
          \/ /\ Standard(token, "nonce") = Str(nonce)
             /\ IF azp.kind = "string" THEN azp.text = verifier.resource ELSE HowMany(Standard(token, "aud")) <= 1
             /\ iat.kind = "number" /\ iat.n <= now + Leeway
       THEN verdict ELSE Refused("invalid")
================================================================================
