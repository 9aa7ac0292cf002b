----------------------------- MODULE DecodeSpec -----------------------------
(***************************************************************************)
(* What spec.md section 4.2 promises of X.decode, as one atomic step from  *)
(* the input buffer to its outcome: the record, or failure.                *)
(*                                                                         *)
(*  - the record starts with every field at its default;                   *)
(*  - a tag whose field is declared with that wire type sets the field     *)
(*    (singular) or appends to it (repeated);                              *)
(*  - a tag that is zero or has wire type 4 ends the message;              *)
(*  - any other tag is skipped by its wire type (varint, 64-bit,           *)
(*    length-delimited, 32-bit);                                           *)
(*  - a nested message is decoded from exactly the `length` bytes its      *)
(*    prefix announces, and every read is bounded by the effective end     *)
(*    of the message being decoded;                                        *)
(*  - an enum ordinal with no declared member becomes UNRECOGNIZED;        *)
(*  - decoding fails when a read passes the effective end or a 64-bit      *)
(*    value is outside the safe-integer range, and only then.              *)
(*                                                                         *)
(* The spec gives no framing for wire types 3, 6 and 7 nor a limit on      *)
(* varint length; the inputs checked against this module have neither.    *)
(***************************************************************************)
EXTENDS WireFormat, LumeraSchema

CONSTANT MaxSafeInteger

VARIABLES
  top,     \* the message type X of the call X.decode(buf)
  buf,     \* the buffer handed to it
  outcome  \* Pending, or what the call returned or threw

SpecWireType(f) == IF f.kind \in {"string", "bytes", "message"} THEN 2 ELSE 0

SafeNumber(v, next) ==
  IF v > MaxSafeInteger \/ v < -MaxSafeInteger THEN Failed
  ELSE [ok |-> TRUE, val |-> v, next |-> next]

\* Skip an unknown value by its wire type, inside region b.
SpecSkip(b, p, wt) ==
  CASE wt = 0 -> ReadVarint(b, p)
    [] wt = 1 -> Bounded(b, p + 8)
    [] wt = 5 -> Bounded(b, p + 4)
    [] wt = 2 -> ReadLengthDelimited(b, p)
    [] OTHER  -> Failed

Put(f, rec, v) == [rec EXCEPT ![f.name] = IF f.rep THEN Append(@, v) ELSE v]

RECURSIVE DecodeRegion(_, _, _, _), SpecValue(_, _, _)

\* The value of field f at position p of region b.
SpecValue(b, f, p) ==
  CASE f.kind = "message" ->
         LET n == ReadVarint(b, p)
             e == n.next + LengthOf(n.groups)
             sub == DecodeRegion(f.type, SubSeq(b, 1, e), n.next, DefaultRecord(f.type))
         IN  IF ~n.ok \/ e > Len(b) \/ ~sub.ok THEN Failed
             ELSE [ok |-> TRUE, val |-> sub.rec, next |-> e]
    [] f.kind \in {"string", "bytes"} ->
         LET d == ReadLengthDelimited(b, p)
         IN  IF ~d.ok THEN Failed
             ELSE [ok |-> TRUE, next |-> d.next,
                   val |-> IF f.kind = "string" THEN Utf8Decode(d.bytes) ELSE d.bytes]
    [] OTHER ->
         LET n == ReadVarint(b, p)
         IN  CASE ~n.ok -> Failed
               [] f.kind = "enum" ->
                    [ok |-> TRUE, next |-> n.next,
                     val |-> IF Int32Of(n.groups) \in EnumValues[f.type]
                             THEN Int32Of(n.groups) ELSE UNRECOGNIZED]
               [] f.kind = "bool"  -> [ok |-> TRUE, val |-> BoolOf(n.groups), next |-> n.next]
               [] f.kind = "int64" -> SafeNumber(Int64Of(n.groups), n.next)
               [] OTHER            -> SafeNumber(Uint64Of(n.groups), n.next)

\* Decode message m from position p of region b, whose end is the
\* message's effective end.
DecodeRegion(m, b, p, rec) ==
  IF p >= Len(b) THEN [ok |-> TRUE, rec |-> rec]
  ELSE LET t == ReadVarint(b, p)
           fn == TagField(t.groups)
           wt == TagWireType(t.groups)
           known == {f \in FieldSet(m) : f.num = fn /\ SpecWireType(f) = wt}
       IN  CASE ~t.ok -> Failed
             [] wt = 4 \/ (fn = 0 /\ wt = 0) -> [ok |-> TRUE, rec |-> rec]
             [] known = {} ->
                  LET s == SpecSkip(b, t.next, wt)
                  IN  IF s.ok THEN DecodeRegion(m, b, s.next, rec) ELSE Failed
             [] OTHER ->
                  LET f == CHOOSE g \in known : TRUE
                      v == SpecValue(b, f, t.next)
                  IN  IF v.ok THEN DecodeRegion(m, b, v.next, Put(f, rec, v.val)) ELSE Failed

Pending == [phase |-> "pending", rec |-> Undefined]

OutcomeOf(m, b) ==
  LET r == DecodeRegion(m, b, 0, DefaultRecord(m))
  IN  IF r.ok THEN [phase |-> "done", rec |-> r.rec]
      ELSE [phase |-> "error", rec |-> Undefined]

\* Any byte buffer may be handed to the decode of any message.
Init == top \in Messages /\ buf \in Seq(0..255) /\ outcome = Pending

Decode == outcome = Pending /\ outcome' = OutcomeOf(top, buf) /\ UNCHANGED <<top, buf>>

Spec == Init /\ [][Decode]_<<top, buf, outcome>>
=============================================================================
