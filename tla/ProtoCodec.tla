----------------------------- MODULE ProtoCodec -----------------------------
(***************************************************************************)
(* The generated binary codec of a message (X.encode / X.decode in         *)
(* action.ts, params.ts, super_node.ts), driven by the field tables of     *)
(* LumeraSchema.                                                           *)
(*                                                                         *)
(* Encode is an operator: X.encode is straight-line code that appends, for *)
(* each field in table order, nothing when the value is the default and    *)
(* otherwise the tag and the payload; a nested message is written into a   *)
(* fork()ed sub-buffer that join() prefixes with its length.               *)
(*                                                                         *)
(* Decode is a state machine with one step per iteration of the           *)
(* `while (reader.pos < end)` loop.  Nested X.decode(reader, length)       *)
(* calls share the caller's reader, so the machine keeps one reader        *)
(* position and a stack of frames, one per active decode call, each with   *)
(* its own `end` and the `message` under construction.                     *)
(***************************************************************************)
EXTENDS WireFormat, LumeraSchema

CONSTANTS
  Inputs,         \* the calls X.decode(b) made, as pairs <<X, b>>
  MaxSafeInteger  \* Number.MAX_SAFE_INTEGER, scaled into TLC's integers

ASSUME MaxSafeInteger \in 1..(Huge - 1)

VARIABLES
  buf,      \* the reader's buffer (reader.buf, reader.len = Len(buf))
  pos,      \* reader.pos
  stack,    \* active decode calls: [msg, end, rec, into], innermost last
  status,   \* "decoding", "done" (Top.decode returned) or "error" (threw)
  result    \* the record Top.decode returned

vars == <<buf, pos, stack, status, result>>

-----------------------------------------------------------------------------
(* Helpers shared by encode and decode                                     *)

\* The wire type the generated code expects: 2 for strings, bytes and
\* messages, 0 for the varint scalars.
WireTypeOf(f) == IF f.kind \in {"string", "bytes", "message"} THEN 2 ELSE 0

\* Mutant: only the upper bound of longToNumber is checked.
LongToNumberNoMin(v, next) ==
  IF v > MaxSafeInteger THEN Failed ELSE [ok |-> TRUE, val |-> v, next |-> next]

\* Mutant: MAX_SAFE_INTEGER itself is rejected (`>=` for `>`).
LongToNumberInclusive(v, next) ==
  IF v >= MaxSafeInteger \/ v < -MaxSafeInteger THEN Failed
  ELSE [ok |-> TRUE, val |-> v, next |-> next]

\* longToNumber: the Number of a 64-bit value, throwing outside
\* [MIN_SAFE_INTEGER, MAX_SAFE_INTEGER].
LongToNumber(v, next) ==
  IF v > MaxSafeInteger \/ v < -MaxSafeInteger THEN Failed
  ELSE [ok |-> TRUE, val |-> v, next |-> next]

\* The guard of each `if` in X.encode: the value differs from the default.
IsSet(f, v) ==
  CASE f.kind \in {"string", "bytes"} -> Len(v) # 0
    [] f.kind = "message"            -> v # Undefined
    [] OTHER                         -> v # DefaultValue(f)

-----------------------------------------------------------------------------
(* Encoding                                                                *)

Tag(f) == Varint(f.num * 8 + WireTypeOf(f))

RECURSIVE Encode(_, _), Payload(_, _)

\* What writer.string / bytes / int32 / int64 / uint64 / bool, or a nested
\* X.encode(v, writer.fork()).join(), append after the tag.
Payload(f, v) ==
  CASE f.kind = "string"             -> LenPrefixed(Utf8Encode(v))
    [] f.kind = "bytes"              -> LenPrefixed(v)
    [] f.kind \in {"enum", "int64"}  -> SignedVarint(v)
    [] f.kind = "uint64"             -> Varint(v)
    [] f.kind = "bool"               -> <<IF v THEN 1 ELSE 0>>
    [] f.kind = "message"            -> LenPrefixed(Encode(f.type, v))

\* One field of X.encode: a repeated field writes tag and payload for every
\* element in order; a singular field only when it is set.
EncodeField(f, v) ==
  IF f.rep THEN FlattenSeq([i \in DOMAIN v |-> Tag(f) \o Payload(f, v[i])])
  ELSE IF IsSet(f, v) THEN Tag(f) \o Payload(f, v) ELSE <<>>

\* X.encode(message): the fields in table order.
Encode(m, r) ==
  FlattenSeq([i \in DOMAIN Schema[m] |-> EncodeField(Schema[m][i], r[Schema[m][i].name])])

-----------------------------------------------------------------------------
(* Decoding                                                                *)

\* The `case` whose `tag !== N` check passes: same field number and the
\* declared wire type.
Matching(m, gs) ==
  {f \in FieldSet(m) : f.num = TagField(gs) /\ WireTypeOf(f) = TagWireType(gs)}

\* Mutant: the `tag === 0` half of the break test is missing.
EndsMessageNoZero(gs) == TagWireType(gs) = 4

\* `if ((tag & 7) === 4 || tag === 0) break;`
EndsMessage(gs) == TagWireType(gs) = 4 \/ (TagField(gs) = 0 /\ TagWireType(gs) = 0)

\* The read each case performs for a scalar field.
ReadValue(b, f, p) ==
  IF f.kind \in {"string", "bytes"}
  THEN LET d == ReadLengthDelimited(b, p)
       IN  IF ~d.ok THEN Failed
           ELSE [ok |-> TRUE, next |-> d.next,
                 val |-> IF f.kind = "string" THEN Utf8Decode(d.bytes) ELSE d.bytes]
  ELSE LET n == ReadVarint(b, p)
       IN  CASE ~n.ok            -> Failed
             [] f.kind = "enum"  -> [ok |-> TRUE, val |-> Int32Of(n.groups), next |-> n.next]
             [] f.kind = "bool"  -> [ok |-> TRUE, val |-> BoolOf(n.groups), next |-> n.next]
             [] f.kind = "int64" -> LongToNumber(Int64Of(n.groups), n.next)
             [] OTHER            -> LongToNumber(Uint64Of(n.groups), n.next)

\* Mutant: a repeated field is overwritten (`message.x = [v]`).
StoreReplace(f, rec, v) == [rec EXCEPT ![f.name] = IF f.rep THEN <<v>> ELSE v]

\* `message.x = v` for a singular field, `message.x.push(v)` for a repeated one.
Store(f, rec, v) == [rec EXCEPT ![f.name] = IF f.rep THEN Append(@, v) ELSE v]

\* The state of a fresh X.decode call: createBaseX() and its `end`.
Frame(m, end, into) == [msg |-> m, end |-> end, rec |-> DefaultRecord(m), into |-> into]

Cur == stack[Len(stack)]
TagRead == ReadVarint(buf, pos)

\* X.decode(b) for the message m: a reader over b, end = reader.len,
\* createBaseX().
InitFor(m, b) ==
  /\ buf = b
  /\ pos = 0
  /\ stack = <<Frame(m, Len(b), "")>>
  /\ status = "decoding"
  /\ result = Undefined

Init == \E in \in Inputs : InitFor(in[1], in[2])

\* The message type the caller decodes: the outermost decode call.
Top == stack[1].msg

\* An iteration starts: the loop condition holds and the tag read succeeds.
LoopTag == status = "decoding" /\ pos < Cur.end /\ TagRead.ok

\* A case matches a scalar field: read the value and store it; continue.
DecodeScalarField ==
  /\ LoopTag
  /\ \E f \in Matching(Cur.msg, TagRead.groups) :
       LET v == ReadValue(buf, f, TagRead.next) IN
       /\ f.kind # "message"
       /\ v.ok
       /\ pos' = v.next
       /\ stack' = [stack EXCEPT ![Len(stack)].rec = Store(f, @, v.val)]
  /\ UNCHANGED <<buf, status, result>>

\* A case matches a message field: Y.decode(reader, reader.uint32()) starts
\* with end = reader.pos + length.
BeginNested ==
  /\ LoopTag
  /\ \E f \in Matching(Cur.msg, TagRead.groups) :
       LET n == ReadVarint(buf, TagRead.next) IN
       /\ f.kind = "message"
       /\ n.ok
       /\ pos' = n.next
       /\ stack' = Append(stack, Frame(f.type, n.next + LengthOf(n.groups), f.name))
  /\ UNCHANGED <<buf, status, result>>

\* No case matched and the tag does not end the message: reader.skip(tag & 7).
SkipField ==
  /\ LoopTag
  /\ Matching(Cur.msg, TagRead.groups) = {}
  /\ ~EndsMessage(TagRead.groups)
  /\ LET s == Skip(buf, TagRead.next, TagWireType(TagRead.groups), 0) IN
       /\ s.ok
       /\ pos' = s.next
  /\ UNCHANGED <<buf, stack, status, result>>

\* `return message`: Top.decode returns the record, or the caller pushes
\* or assigns it and its loop goes on from the shared reader position.
Return(p) ==
  /\ pos' = p
  /\ IF Len(stack) = 1
     THEN /\ status' = "done"
          /\ result' = Cur.rec
          /\ UNCHANGED stack
     ELSE LET f == CHOOSE g \in FieldSet(stack[Len(stack) - 1].msg) : g.name = Cur.into
          IN  /\ stack' = [Front(stack) EXCEPT ![Len(stack) - 1].rec = Store(f, @, Cur.rec)]
              /\ UNCHANGED <<status, result>>
  /\ UNCHANGED buf

\* The tag is zero or an end-group tag: break out of the loop, leaving the
\* reader just after the tag.
StopAtEndTag ==
  /\ LoopTag
  /\ Matching(Cur.msg, TagRead.groups) = {}
  /\ EndsMessage(TagRead.groups)
  /\ Return(TagRead.next)

\* The loop condition fails: reader.pos >= end.
FinishMessage ==
  /\ status = "decoding"
  /\ pos >= Cur.end
  /\ Return(pos)

\* Some read of the iteration throws; the exception leaves every active
\* decode call, and the caller gets no record.
DecodeThrows ==
  /\ status = "decoding"
  /\ pos < Cur.end
  /\ \/ ~TagRead.ok
     \/ /\ TagRead.ok
        /\ \E f \in Matching(Cur.msg, TagRead.groups) :
             IF f.kind = "message" THEN ~ReadVarint(buf, TagRead.next).ok
             ELSE ~ReadValue(buf, f, TagRead.next).ok
     \/ /\ TagRead.ok
        /\ Matching(Cur.msg, TagRead.groups) = {}
        /\ ~EndsMessage(TagRead.groups)
        /\ ~Skip(buf, TagRead.next, TagWireType(TagRead.groups), 0).ok
  /\ status' = "error"
  /\ UNCHANGED <<buf, pos, stack, result>>

Next ==
  \/ DecodeScalarField
  \/ BeginNested
  \/ SkipField
  \/ StopAtEndTag
  \/ FinishMessage
  \/ DecodeThrows

\* The decode loop runs to completion on the caller's thread.
Spec == Init /\ [][Next]_vars /\ WF_vars(Next)

-----------------------------------------------------------------------------
(* Properties                                                              *)

\* A value of field f as the code can hold it: strings as code points of
\* the Basic Multilingual Plane, bytes, int32 enum ordinals, Numbers
\* within the safe-integer range, booleans, nested records.
ElementOK(f, v) ==
  CASE f.kind = "string"  -> \A i \in DOMAIN v : v[i] \in 0..65535
    [] f.kind = "bytes"   -> \A i \in DOMAIN v : v[i] \in 0..255
    [] f.kind = "enum"    -> v \in (-2147483647 - 1)..2147483647
    [] f.kind = "int64"   -> v \in -MaxSafeInteger..MaxSafeInteger
    [] f.kind = "uint64"  -> v \in 0..MaxSafeInteger
    [] f.kind = "bool"    -> v \in BOOLEAN
    [] f.kind = "message" -> v = Undefined \/ DOMAIN v = DOMAIN DefaultRecord(f.type)

RecordOK(m, r) ==
  /\ DOMAIN r = DOMAIN DefaultRecord(m)
  /\ \A f \in FieldSet(m) :
       IF f.rep THEN \A i \in DOMAIN r[f.name] : ElementOK(f, r[f.name][i])
       ELSE ElementOK(f, r[f.name])

\* Type invariant: the reader stays inside its buffer and every record under
\* construction, and the one returned, holds values of its fields' types
\* (in particular no 64-bit value outside the safe-integer range).
TypeOK ==
  /\ \A i \in DOMAIN buf : buf[i] \in 0..255
  /\ pos \in 0..Len(buf)
  /\ status \in {"decoding", "done", "error"}
  /\ stack # <<>>
  /\ \A i \in DOMAIN stack : stack[i].msg \in DOMAIN Schema /\ RecordOK(stack[i].msg, stack[i].rec)
  /\ result = Undefined \/ RecordOK(Top, result)

\* The outcome of DecodeSpec that a decoder state stands for.
Outcome ==
  CASE status = "decoding" -> [phase |-> "pending", rec |-> Undefined]
    [] status = "error"    -> [phase |-> "error",   rec |-> Undefined]
    [] OTHER               -> [phase |-> "done",    rec |-> result]

Abstract == INSTANCE DecodeSpec WITH top <- Top, outcome <- Outcome

\* The decoder implements spec.md section 4.2: every input ends with the
\* record, or the failure, that the atomic specification assigns to it.
DecodeImplementsSpec == Abstract!Spec

\* Enum tolerance (spec.md section 8): an enum field of a returned record
\* holds a declared ordinal or the UNRECOGNIZED sentinel, whatever ordinal
\* `reader.int32() as any` read from the wire.
DecodedEnumsDeclared ==
  status = "done" =>
    \A f \in FieldSet(Top) :
      f.kind = "enum" => result[f.name] \in EnumValues[f.type] \cup {UNRECOGNIZED}
=============================================================================
