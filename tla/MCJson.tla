------------------------------- MODULE MCJson -------------------------------
(***************************************************************************)
(* X.toJSON and X.fromJSON of each message in JsonMessages, one call per  *)
(* step.  A behaviour starts either from a record, to check                *)
(* fromJSON(toJSON(r)) = r, or from a JS object handed to fromJSON: every  *)
(* object with at most two keys, each holding a value of the right type,   *)
(* of another type, null, an array or an object.  From an object it       *)
(* checks that toJSON and fromJSON give back the record fromJSON built.    *)
(* The host has Buffer or not, chosen in the initial state: the two       *)
(* branches of bytesFromBase64.                                            *)
(***************************************************************************)
EXTENDS JsonBridge, TLC

CONSTANTS
  JsonMessages,  \* the messages whose fromJSON/toJSON are called
  ExtraNumbers   \* further values a caller puts under a 64-bit key

VARIABLES
  host,   \* "node" (globalThis.Buffer exists) or "browser"
  msg,    \* the message X
  phase,  \* "object", "record", "json", "done", or "threw" (fromJSON threw)
  obj,    \* the object handed to fromJSON
  rec,    \* the record fromJSON returned, or the one toJSON is given
  json,   \* what toJSON returned
  back    \* fromJSON(json)

vars == <<host, msg, phase, obj, rec, json, back>>

X      == <<120>>          \* "x"
Twelve == <<49, 50>>       \* "12"

UpToTwo(S) == {<<>>} \cup {<<e>> : e \in S} \cup {<<d, e>> : d, e \in S}

Nested == [address : {<<>>, X}, height : {0, -1}]

ActionRecords ==
  [creator : {<<>>, <<233>>}, actionID : {<<>>, Twelve}, actionType : {0, 1, UNRECOGNIZED},
   metadata : {<<>>, <<0>>, <<0, 255>>, <<251, 239, 190>>, <<255, 255, 255>>, <<1, 2, 3, 255>>},
   price : {<<>>}, expirationTime : {0, -1, 150}, state : {0, 7, UNRECOGNIZED},
   blockHeight : {0}, superNodes : UpToTwo({<<>>, X}) \ {<<<<>>, <<>>>>}]

SuperNodeRecords ==
  [validatorAddress : {<<>>, X}, states : UpToTwo(Nested), evidence : {<<>>},
   prevIpAddresses : {<<>>}, version : {<<>>}, metrics : {Undefined} \cup Nested,
   supernodeAccount : {<<>>}]

ParamsRecords ==
  [enableClaims : BOOLEAN, claimEndTime : {0, -1, 1, 10, -150, 150},
   maxClaimsPerBlock : {0, 1, 9, 10, 150}]

Records(m) == CASE m = "Action"    -> ActionRecords
                [] m = "SuperNode" -> SuperNodeRecords
                [] m = "Params"    -> ParamsRecords

\* Values a JS caller may put under a key of each kind.
Anything == {JNull, Str(X), Num(-12), Bool(FALSE), Obj(<<>>),
             Arr(<<Str(X), JNull, Num(7)>>)}

ValuesFor(f) ==
  IF f.rep
  THEN {JNull, Str(X), Arr(<<>>)} \cup
       (IF f.kind = "message" THEN {Arr(<<Obj(<<>>), Obj("height" :> Str(Twelve))>>)}
        ELSE {Arr(<<Str(X), Num(5), JNull>>)})
  ELSE CASE f.kind = "string" -> Anything \cup {Str(<<>>)}
         [] f.kind = "bytes"  -> {JNull, Str(<<>>), Str(<<65, 80, 56, 61>>),   \* "AP8="
                                  Str(<<81, 82, 61, 61>>), Str(<<81, 81>>),    \* "QR==", "QQ"
                                  Str(<<81>>), Str(<<81, 81, 61>>),            \* "Q", "QQ="
                                  Str(<<45, 95, 56, 61>>), Str(<<81, 33, 81>>), \* "-_8=", "Q!Q"
                                  Bool(TRUE), Num(5), Obj(<<>>),
                                  Arr(<<Str(<<81, 81, 61, 61>>)>>)}             \* ["QQ=="]
         [] f.kind = "enum"   -> {JNull, Num(1), Num(99), Num(UNRECOGNIZED), Bool(TRUE),
                                  Str(EnumName(f.type, 2)), Str(EnumName(f.type, UNRECOGNIZED)),
                                  Str(<<49>>), Str(X)}
         [] f.kind = "message" -> {JNull, Obj(<<>>), Obj("address" :> Num(5) @@ "height" :> Str(Twelve))}
         [] f.kind = "bool"   -> Anything \cup {Num(0), Num(NaN), Str(<<>>), Bool(TRUE)}
         [] OTHER             -> ExtraNumbers \cup Anything \cup
                                 {Num(150), Num(NaN), Str(Twelve), Str(<<45, 51>>), Str(<<>>),
                                  Bool(TRUE), Arr(<<Num(7)>>), Arr(<<>>)}

Objects(m) ==
  LET one == UNION {{k :> v : v \in ValuesFor(FieldNamed(m, k))} : k \in DOMAIN DefaultRecord(m)}
  IN  {<<>>} \cup one \cup {a @@ b : a, b \in one}

Hosts == {"node", "browser"}

RecordInit ==
  /\ host \in Hosts /\ msg \in JsonMessages
  /\ phase = "record" /\ obj = Undefined /\ rec \in Records(msg)
  /\ json = Undefined /\ back = Undefined

ObjectInit ==
  /\ host \in Hosts /\ msg \in JsonMessages
  /\ phase = "object" /\ obj \in Objects(msg) /\ rec = Undefined
  /\ json = Undefined /\ back = Undefined

\* rec = X.fromJSON(obj).
FromJSONStep ==
  /\ phase = "object"
  /\ FromJSON(host, msg, obj) # JsonError
  /\ rec' = FromJSON(host, msg, obj)
  /\ phase' = "record"
  /\ UNCHANGED <<host, msg, obj, json, back>>

\* X.fromJSON(obj) throws (atob on text it rejects).
FromJSONThrows ==
  /\ phase = "object"
  /\ FromJSON(host, msg, obj) = JsonError
  /\ phase' = "threw"
  /\ UNCHANGED <<host, msg, obj, rec, json, back>>

\* json = X.toJSON(rec).
ToJSONStep ==
  /\ phase = "record"
  /\ json' = ToJSON(msg, rec)
  /\ phase' = "json"
  /\ UNCHANGED <<host, msg, obj, rec, back>>

\* back = X.fromJSON(json).
ReadBackStep ==
  /\ phase = "json"
  /\ back' = FromJSON(host, msg, json)
  /\ phase' = "done"
  /\ UNCHANGED <<host, msg, obj, rec, json>>

Next == FromJSONStep \/ FromJSONThrows \/ ToJSONStep \/ ReadBackStep

JsonSpec == (RecordInit \/ ObjectInit) /\ [][Next]_vars

AllMessages == Messages
ParamsOnly  == {"Params"}

\* 1.5 and one past the scaled Number.MAX_SAFE_INTEGER.
JsonMaxSafe   == 150
OddNumbers    == {Num(OnePointFive), Num(JsonMaxSafe + 1)}

\* Reference (spec.md sections 4.3, 6, 7 (d)): the shape each field's JSON
\* value must have; null stands for an absent key.  A 64-bit value is a
\* safe integer, as a number or a decimal string; bytes are base64 text
\* atob accepts; an enum is a number or a name.
RECURSIVE WellShaped(_, _)
WellShapedValue(f, v) ==
  CASE f.kind = "string"  -> Is("string", v)
    [] f.kind = "bytes"   -> Is("string", v) /\ AtobDecode(v.string) # JsonError
    [] f.kind = "enum"    -> (Is("number", v) /\ v.number \in Int) \/ Is("string", v)
    [] f.kind = "bool"    -> Is("boolean", v)
    [] f.kind = "message" -> Is("object", v) /\ WellShaped(f.type, v.object)
    [] OTHER ->
         LET lo == IF f.kind = "uint64" THEN 0 ELSE -JsonMaxSafe
             n  == CASE Is("number", v)                    -> v.number
                     [] Is("string", v) /\ v.string # <<>> -> ParseNumber(v.string)
                     [] OTHER                              -> NaN
         IN  n \in lo..JsonMaxSafe

WellShaped(m, o) ==
  \A k \in DOMAIN o :
    LET f == FieldNamed(m, k)
    IN  IsSetJS(o[k]) =>
          IF f.rep THEN Is("array", o[k]) /\ \A i \in DOMAIN o[k].array : WellShapedValue(f, o[k].array[i])
          ELSE WellShapedValue(f, o[k])

\* JSON round trip (spec.md section 8): fromJSON(toJSON(r)) reproduces r;
\* from an object, toJSON then fromJSON give back the record fromJSON made.
JsonRoundTrip == phase = "done" => back = rec

\* Reference (spec.md section 4.3): the member an enum value in JSON
\* names: a declared ordinal as a number, or a declared member's symbolic
\* name; any other value is the unrecognized sentinel.
EnumMeant(t, v) ==
  LET named == {k \in EnumValues[t] : v = Num(k) \/ v = Str(EnumName(t, k))}
  IN  IF named = {} THEN UNRECOGNIZED ELSE CHOOSE k \in named : TRUE

\* Enum decoding from JSON (spec.md section 4.3): the `switch (object)` of
\* actionTypeFromJSON / actionStateFromJSON gives the member the value
\* names, and UNRECOGNIZED for anything else: the text "1", true, an
\* undeclared ordinal, or the name "UNRECOGNIZED" itself.
FromJSONEnumsAsSpec ==
  obj # Undefined /\ rec # Undefined =>
    \A f \in FieldSet(msg) :
      f.kind = "enum" /\ IsSetJS(Get(obj, f.name)) =>
        rec[f.name] = EnumMeant(f.type, obj[f.name])

\* Malformed JSON shape is fatal (spec.md section 7 (d)): fromJSON returns
\* a record only for an object whose every value has its field's shape;
\* a wrong type, NaN, 1.5, an unsafe magnitude or invalid base64 throws.
FromJSONRejectsMalformed ==
  obj # Undefined /\ rec # Undefined => WellShaped(msg, obj)

\* The two branches of bytesFromBase64 agree: wherever atob accepts the
\* value under a bytes key, Buffer.from gives the same bytes, so fromJSON's
\* record does not depend on the host (spec.md section 5: the codec is
\* deterministic and shares no process-wide state).
HostsAgree ==
  phase = "record" /\ obj # Undefined =>
    rec = FromJSON(IF host = "node" THEN "browser" ELSE "node", msg, obj)
    \/ FromJSON("browser", msg, obj) = JsonError
=============================================================================
