---------------------------- MODULE FromPartial ----------------------------
(***************************************************************************)
(* X.fromPartial and X.create of action.ts, super_node.ts and params.ts.   *)
(*                                                                         *)
(* A DeepPartial<X> object is a function from its present keys to values;  *)
(* a key may hold the JS null.  Scalars, byte strings and arrays are the   *)
(* record's own values; a nested message is again a partial object.  The   *)
(* nested types' fromPartial (files not in this repository) follows the    *)
(* same generated pattern, so FromPartial is applied to them too.          *)
(***************************************************************************)
EXTENDS LumeraSchema

CONSTANT Null   \* the JS null

\* object.x: Undefined when the key is absent.
Prop(o, k) == IF k \in DOMAIN o THEN o[k] ELSE Undefined

\* Neither null nor undefined: the left side of `??` is kept, `?.` goes on,
\* and `object.metrics !== undefined && object.metrics !== null` holds.
Given(v) == v \notin {Undefined, Null}

RECURSIVE FromPartial(_, _)

\* One line of fromPartial: `object.x ?? default` for a scalar,
\* `object.x?.map((e) => e) || []` or `?.map((e) => Y.fromPartial(e)) || []`
\* for a repeated field, and `Y.fromPartial(object.x)` or undefined for a
\* nested message.
FromPartialValue(f, v) ==
  LET each(e) == IF f.kind = "message" THEN FromPartial(f.type, e) ELSE e
  IN  CASE ~Given(v) -> DefaultValue(f)
        [] f.rep     -> [i \in DOMAIN v |-> each(v[i])]
        [] OTHER     -> each(v)

\* Mutant: the assignment of the nested `metrics` field is left out, so it
\* keeps createBase's undefined.
FromPartialNoMetrics(m, o) ==
  [n \in DOMAIN DefaultRecord(m) |->
     IF n = "metrics" THEN Undefined ELSE FromPartialValue(FieldNamed(m, n), Prop(o, n))]

\* X.fromPartial(object): createBaseX(), then each field's line in order.
FromPartial(m, o) ==
  [n \in DOMAIN DefaultRecord(m) |-> FromPartialValue(FieldNamed(m, n), Prop(o, n))]

\* X.create(base): X.fromPartial(base ?? {}).
Create(m, base) == FromPartial(m, IF Given(base) THEN base ELSE <<>>)
=============================================================================
