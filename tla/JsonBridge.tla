----------------------------- MODULE JsonBridge -----------------------------
(***************************************************************************)
(* The JSON bridge of the generated code: X.fromJSON and X.toJSON of       *)
(* action.ts, super_node.ts and params.ts, the enum name maps of           *)
(* action_type.ts and action_state.ts, and the base64 helpers.             *)
(*                                                                         *)
(* A JS value handed to or built by the bridge is a record with a single  *)
(* field naming its type: [string |-> s], [number |-> n], [boolean |-> b], *)
(* [array |-> seq], [object |-> o] or [null |-> TRUE]; an object o is a    *)
(* function from its present keys to values, and an absent key reads as    *)
(* Undefined.  Strings, in JSON as in records, are sequences of code       *)
(* points.  Numbers are integers, NaN, or the one fractional value 1.5    *)
(* (OnePointFive), the case Math.round changes.                            *)
(*                                                                         *)
(* The symbolic enum names matter to no property by their letters, only by *)
(* being distinct strings; each is modelled as a one-character string of  *)
(* the private-use area (see EnumName).                                    *)
(***************************************************************************)
EXTENDS WireFormat, LumeraSchema

CONSTANTS
  NaN,          \* the Number NaN
  OnePointFive, \* the Number 1.5: the one fractional number of the model
  JsonError     \* the outcome of a fromJSON call that throws

Str(s)  == [string |-> s]
Num(n)  == [number |-> n]
Bool(b) == [boolean |-> b]
Arr(s)  == [array |-> s]
Obj(o)  == [object |-> o]
JNull   == [null |-> TRUE]

Is(t, v) == v # Undefined /\ t \in DOMAIN v

\* object.k: Undefined when the key is absent.
Get(o, k) == IF k \in DOMAIN o THEN o[k] ELSE Undefined

\* isSet(value): value !== null && value !== undefined.
IsSetJS(v) == v # Undefined /\ ~Is("null", v)

-----------------------------------------------------------------------------
(* Conversions                                                             *)

RECURSIVE Digits(_)
\* The decimal digits of n >= 0, as code points.
Digits(n) == IF n < 10 THEN <<48 + n>> ELSE Digits(n \div 10) \o <<48 + (n % 10)>>

\* "NaN", "null", "true", "false", "[object Object]".
NaNText    == <<78, 97, 78>>
NullText   == <<110, 117, 108, 108>>
TrueText   == <<116, 114, 117, 101>>
FalseText  == <<102, 97, 108, 115, 101>>
ObjectText == <<91, 111, 98, 106, 101, 99, 116, 32, 79, 98, 106, 101, 99, 116, 93>>

NumberText(n) == CASE n = NaN -> NaNText
                   [] n = OnePointFive -> <<49, 46, 53>>
                   [] n < 0   -> <<45>> \o Digits(-n)
                   [] OTHER   -> Digits(n)

RECURSIVE StringOf(_)
\* globalThis.String(v); an array joins its elements' strings with ","
\* (null and undefined elements give "").  No model value is undefined.
StringOf(v) ==
  CASE Is("null", v)    -> NullText
    [] Is("string", v)  -> v.string
    [] Is("number", v)  -> NumberText(v.number)
    [] Is("boolean", v) -> IF v.boolean THEN TrueText ELSE FalseText
    [] Is("array", v)   ->
         LET el(i) == IF IsSetJS(v.array[i]) THEN StringOf(v.array[i]) ELSE <<>>
         IN  FlattenSeq([i \in DOMAIN v.array |->
                           IF i = 1 THEN el(i) ELSE <<44>> \o el(i)])
    [] OTHER            -> ObjectText

IsDigit(c) == c \in 48..57

\* Number(s) for a string: "" is 0; an optional "-" and decimal digits
\* are their value; any other text is NaN.  (The model's strings have no
\* whitespace, fraction, exponent, sign "+" or radix prefix.)
ParseNumber(s) ==
  LET neg  == Len(s) > 0 /\ s[1] = 45
      body == IF neg THEN Tail(s) ELSE s
      val  == FoldLeft(LAMBDA acc, c : 10 * acc + c - 48, 0, body)
  IN  CASE s = <<>>                                         -> 0
        [] body # <<>> /\ \A i \in DOMAIN body : IsDigit(body[i]) -> IF neg THEN -val ELSE val
        [] OTHER                                            -> NaN

\* globalThis.Number(v): a primitive by its type, an array or object by
\* its string.
NumberOf(v) ==
  CASE Is("number", v)  -> v.number
    [] Is("boolean", v) -> IF v.boolean THEN 1 ELSE 0
    [] OTHER            -> ParseNumber(StringOf(v))

\* globalThis.Boolean(v): "", 0 and NaN are false, objects and arrays true.
BooleanOf(v) ==
  CASE Is("string", v)  -> v.string # <<>>
    [] Is("number", v)  -> v.number \notin {0, NaN}
    [] Is("boolean", v) -> v.boolean
    [] OTHER            -> TRUE

-----------------------------------------------------------------------------
(* Base64 (base64FromBytes / bytesFromBase64)                              *)

\* The code point of sextet i in the base64 alphabet.
B64Char(i) == CASE i < 26 -> 65 + i
                [] i < 52 -> 71 + i
                [] i < 62 -> i - 4
                [] i = 62 -> 43
                [] OTHER  -> 47

\* The sextet of an alphabet character; Buffer also reads the URL-safe
\* "-" and "_" as 62 and 63.
B64Index(c) == CASE c \in 65..90    -> c - 65
                 [] c \in 97..122   -> c - 71
                 [] c \in 48..57    -> c + 4
                 [] c \in {43, 45}  -> 62
                 [] OTHER           -> 63

\* The standard alphabet: A-Z a-z 0-9 + /.
B64Alphabet == (65..90) \cup (97..122) \cup (48..57) \cup {43, 47}

Pad == 61   \* "="

RECURSIVE Base64FromBytes(_)
\* btoa of the bytes as characters (Buffer.toString("base64") alike):
\* each 3 bytes give 4 characters; a final 1 or 2 bytes give 2 or 3
\* characters and "=" padding.
Base64FromBytes(bs) ==
  IF bs = <<>> THEN <<>>
  ELSE LET k  == IF Len(bs) < 3 THEN Len(bs) ELSE 3
           n  == 65536 * bs[1] + 256 * ByteAt(bs, 1) + ByteAt(bs, 2)
           cs == [i \in 1..4 |-> IF i <= k + 1
                                 THEN B64Char((n \div (2 ^ (6 * (4 - i)))) % 64)
                                 ELSE Pad]
       IN  cs \o Base64FromBytes(SubSeq(bs, k + 1, Len(bs)))

RECURSIVE Base64Decode(_)
\* Sextets to bytes: each 4 characters give 3 bytes, a final 2 or 3 give
\* 1 or 2, a final single one gives none (leftover bits are dropped).
Base64Decode(cs) ==
  IF cs = <<>> THEN <<>>
  ELSE LET k  == IF Len(cs) < 4 THEN Len(cs) ELSE 4
           x(i) == IF i <= k THEN B64Index(cs[i]) ELSE 0
           n  == 262144 * x(1) + 4096 * x(2) + 64 * x(3) + x(4)
           bs == <<n \div 65536, (n \div 256) % 256, n % 256>>
       IN  SubSeq(bs, 1, k - 1) \o Base64Decode(SubSeq(cs, k + 1, Len(cs)))

\* Buffer.from(b64, "base64") (Node): decoding stops at the first "=";
\* characters outside the standard and URL-safe alphabets are skipped.
BufferDecode(s) ==
  LET stop == IF \E i \in DOMAIN s : s[i] = Pad
              THEN CHOOSE i \in DOMAIN s : s[i] = Pad /\ \A j \in 1..(i - 1) : s[j] # Pad
              ELSE Len(s) + 1
  IN  Base64Decode(SelectSeq(SubSeq(s, 1, stop - 1), LAMBDA c : c \in B64Alphabet \cup {45, 95}))

\* atob (forgiving-base64 decode, on text without white space): one or two
\* final "=" are dropped when the length is a multiple of 4; a remaining
\* length of 4k+1 or any character outside the standard alphabet throws.
AtobDecode(s) ==
  LET n == Len(s)
      t == CASE n % 4 = 0 /\ n >= 2 /\ s[n] = Pad /\ s[n - 1] = Pad -> SubSeq(s, 1, n - 2)
             [] n % 4 = 0 /\ n >= 1 /\ s[n] = Pad                  -> SubSeq(s, 1, n - 1)
             [] OTHER                                              -> s
  IN  IF Len(t) % 4 = 1 \/ \E i \in DOMAIN t : t[i] \notin B64Alphabet
      THEN JsonError ELSE Base64Decode(t)

\* A Number stored into a Uint8Array: ToNumber, then modulo 2^8 (NaN
\* gives 0, 1.5 gives 1).
ToUint8(n) == CASE n = NaN -> 0 [] n = OnePointFive -> 1 [] OTHER -> n % 256

\* Buffer.from(value, "base64"): a string is decoded; an array is copied
\* element by element (the encoding is ignored); a boolean, a number or an
\* object with no length throws a TypeError.
BufferFrom(v) ==
  CASE Is("string", v) -> BufferDecode(v.string)
    [] Is("array", v)  -> [i \in DOMAIN v.array |-> ToUint8(NumberOf(v.array[i]))]
    [] OTHER           -> JsonError

\* bytesFromBase64(b64) on whatever value fromJSON found under the key:
\* Buffer when the host has it, else atob, which takes String(b64), and a
\* copy of each character code.  A throw is JsonError.
BytesFromBase64(host, v) ==
  IF host = "node" THEN BufferFrom(v) ELSE AtobDecode(StringOf(v))

-----------------------------------------------------------------------------
(* Enums (actionTypeFromJSON / ToJSON, actionStateFromJSON / ToJSON)       *)

\* The symbolic name of ordinal k of enum t, or of UNRECOGNIZED (k = -1).
EnumName(t, k) == <<57344 + 16 * (IF t = "ActionType" THEN 0 ELSE 1) + k + 1>>

\* Mutant: the switch compares with loose equality (==), which converts
\* a string, boolean or array to a Number before comparing with a case.
EnumFromJSONLoose(t, v) ==
  LET hits == {k \in EnumValues[t] \cup {UNRECOGNIZED} :
                 v = Str(EnumName(t, k)) \/ (~Is("null", v) /\ NumberOf(v) = k)}
  IN  IF hits = {} THEN UNRECOGNIZED ELSE CHOOSE k \in hits : TRUE

\* `switch (object)`: a declared ordinal, -1, or their exact names map to
\* that member; anything else falls to `default` (UNRECOGNIZED).
EnumFromJSON(t, v) ==
  LET hits == {k \in EnumValues[t] \cup {UNRECOGNIZED} : v = Num(k) \/ v = Str(EnumName(t, k))}
  IN  IF hits = {} THEN UNRECOGNIZED ELSE CHOOSE k \in hits : TRUE

\* Mutant: the `default` of the switch names the zero member.
EnumToJSONDefaultZero(t, k) == EnumName(t, IF k \in EnumValues[t] THEN k ELSE 0)

\* A declared ordinal's name; any other ordinal gives "UNRECOGNIZED".
EnumToJSON(t, k) == EnumName(t, IF k \in EnumValues[t] THEN k ELSE UNRECOGNIZED)

-----------------------------------------------------------------------------
(* X.fromJSON and X.toJSON                                                 *)

RECURSIVE FromJSON(_, _, _), FromJSONValue(_, _, _)

\* The conversion each field's line of fromJSON applies to a set value, on
\* a host with (host = "node") or without Buffer.
FromJSONValue(host, f, v) ==
  CASE f.kind = "string"            -> StringOf(v)
    [] f.kind = "bytes"             -> BytesFromBase64(host, v)
    [] f.kind = "enum"              -> EnumFromJSON(f.type, v)
    [] f.kind \in {"int64", "uint64"} -> NumberOf(v)
    [] f.kind = "bool"              -> BooleanOf(v)
    [] f.kind = "message"           -> FromJSON(host, f.type, v.object)

\* X.fromJSON(object): a repeated field maps the array when
\* Array.isArray(object?.x), else []; a singular one converts the value
\* when isSet(object.x), else takes the default.  If one conversion
\* throws, the call throws (JsonError).
FromJSON(host, m, o) ==
  LET r == [n \in DOMAIN DefaultRecord(m) |->
              LET f == FieldNamed(m, n)
                  v == Get(o, n)
              IN  IF f.rep
                  THEN IF Is("array", v)
                       THEN [i \in DOMAIN v.array |-> FromJSONValue(host, f, v.array[i])]
                       ELSE <<>>
                  ELSE IF IsSetJS(v) THEN FromJSONValue(host, f, v) ELSE DefaultValue(f)]
      threw(n) == IF FieldNamed(m, n).rep THEN \E i \in DOMAIN r[n] : r[n][i] = JsonError
                  ELSE r[n] = JsonError
  IN  IF \E n \in DOMAIN r : threw(n) THEN JsonError ELSE r

\* The guard of each `if` of toJSON: `!== ""`, `!== 0`, `.length !== 0`,
\* `!== false`, `!== undefined`, and `?.length` for a repeated field.
\* NaN !== 0, so a NaN is written.
JsonPresent(f, v) ==
  IF f.rep THEN Len(v) > 0
  ELSE CASE f.kind \in {"string", "bytes"} -> v # <<>>
         [] f.kind = "message"            -> v # Undefined
         [] OTHER                         -> v # DefaultValue(f)

RECURSIVE ToJSON(_, _), ToJSONValue(_, _)

\* Math.round: 1.5 rounds to 2; integers and NaN are unchanged.
MathRound(n) == IF n = OnePointFive THEN 2 ELSE n

\* What toJSON stores for a value.
ToJSONValue(f, v) ==
  CASE f.kind = "string"            -> Str(v)
    [] f.kind = "bytes"             -> Str(Base64FromBytes(v))
    [] f.kind = "enum"              -> Str(EnumToJSON(f.type, v))
    [] f.kind \in {"int64", "uint64"} -> Num(MathRound(v))
    [] f.kind = "bool"              -> Bool(v)
    [] f.kind = "message"           -> Obj(ToJSON(f.type, v))

\* X.toJSON(message): an object with a key for each present field.
ToJSON(m, r) ==
  [n \in {f.name : f \in {g \in FieldSet(m) : JsonPresent(g, r[g.name])}} |->
     LET f == FieldNamed(m, n)
     IN  IF f.rep THEN Arr([i \in DOMAIN r[n] |-> ToJSONValue(f, r[n][i])])
         ELSE ToJSONValue(f, r[n])]
=============================================================================
