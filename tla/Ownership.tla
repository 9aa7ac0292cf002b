----------------------------- MODULE Ownership -----------------------------
(***************************************************************************)
(* Which JS arrays X.create and X.toJSON share with the objects their      *)
(* caller holds.  Arrays are values of a heap, reached through addresses;  *)
(* strings, numbers and booleans are immutable and left out.  The caller   *)
(* holds the object it handed to X.create ("arg"), the record create       *)
(* returned ("rec") and the object X.toJSON(rec) returned ("json"), and    *)
(* writes elements of any array it reaches through the holders in Writers. *)
(*                                                                         *)
(* Only the fields whose value is itself a mutable array are modelled:     *)
(* Uint8Array for bytes, Array for repeated scalars.  Repeated nested      *)
(* messages are rebuilt element by element with .map in both fromPartial   *)
(* and toJSON.                                                             *)
(***************************************************************************)
EXTENDS FromPartial, TLC

CONSTANTS
  X,        \* the message whose create and toJSON are called
  Writers,  \* the holders through which the caller writes array elements
  Elements  \* the values a caller writes into an array

VARIABLES
  heap,   \* heap[a]: the elements of the JS array at address a
  arg,    \* the object handed to X.create: key -> address or Null
  rec,    \* X.create(arg): key -> address; Undefined before the call
  json,   \* X.toJSON(rec): key -> address, or [text |-> bytes] for base64
  owned   \* key -> the elements the record's own array should hold

vars == <<heap, arg, rec, json, owned>>

\* The fields of X whose value is a mutable array.
ArrayNames ==
  {f.name : f \in {g \in FieldSet(X) : g.kind = "bytes" \/ (g.rep /\ g.kind # "message")}}

\* The arrays the caller built before the call, one per key.
CallerArray(n) == <<"caller", n>>

\* DeepPartial<X> objects: the keys K present, those in G holding the
\* caller's array and the others null.
Args == UNION {{[k \in K |-> IF k \in G THEN CallerArray(k) ELSE Null] : G \in SUBSET K} :
                 K \in SUBSET ArrayNames}

Holder(h) == CASE h = "arg" -> arg [] h = "rec" -> rec [] h = "json" -> json

Init ==
  /\ heap \in [{CallerArray(n) : n \in ArrayNames} -> {<<>>} \cup {<<e>> : e \in Elements}]
  /\ arg \in Args
  /\ rec = Undefined
  /\ json = Undefined
  /\ owned = Undefined

\* One array line of X.fromPartial: `object.x ?? new Uint8Array(0)` keeps
\* the caller's Uint8Array; `object.x?.map((e) => e) || []` and the
\* default both make a new array.
CreateRef(n) ==
  IF Given(Prop(arg, n)) /\ ~FieldNamed(X, n).rep THEN arg[n] ELSE <<"create", n>>

\* rec = X.create(arg), that is X.fromPartial(arg).
CreateStep ==
  /\ rec = Undefined
  /\ rec' = [n \in ArrayNames |-> CreateRef(n)]
  /\ heap' = heap @@ [a \in {CreateRef(n) : n \in ArrayNames} \ DOMAIN heap |->
                        IF Given(Prop(arg, a[2])) THEN heap[arg[a[2]]] ELSE <<>>]
  /\ owned' = [n \in ArrayNames |-> heap'[rec'[n]]]
  /\ UNCHANGED <<arg, json>>

\* json = X.toJSON(rec): a non-empty Uint8Array becomes base64FromBytes of
\* its contents; a non-empty repeated field is assigned as it is
\* (`obj.superNodes = message.superNodes`).
ToJSONStep ==
  /\ rec # Undefined /\ json = Undefined
  /\ json' = [n \in {k \in ArrayNames : heap[rec[k]] # <<>>} |->
                IF FieldNamed(X, n).rep THEN rec[n] ELSE [text |-> heap[rec[n]]]]
  /\ UNCHANGED <<heap, arg, rec, owned>>

\* The caller writes x at index i of the array it reaches as key n of the
\* holder h (`h.n[i] = x`); a write through the record is the record's own.
Write(h, n, i, x) ==
  LET o == Holder(h)
  IN  /\ o \notin {Undefined, Null}
      /\ n \in DOMAIN o
      /\ o[n] \in DOMAIN heap
      /\ i \in DOMAIN heap[o[n]]
      /\ heap' = [heap EXCEPT ![o[n]][i] = x]
      /\ owned' = IF h = "rec" THEN [owned EXCEPT ![n] = heap'[o[n]]] ELSE owned
      /\ UNCHANGED <<arg, rec, json>>

Next ==
  \/ CreateStep
  \/ ToJSONStep
  \* the first element: every array the model builds has at most one
  \/ \E h \in Writers, n \in ArrayNames, x \in Elements : Write(h, n, 1, x)

Spec == Init /\ [][Next]_vars

\* A record exclusively owns its byte and array buffers (spec.md section 3,
\* "Ownership"): once X.create has returned, the contents of the record's
\* arrays change only by writes through the record, whatever the caller
\* writes through the object it passed to create or the one toJSON built.
RecordOwnsBuffers ==
  rec # Undefined => \A n \in ArrayNames : heap[rec[n]] = owned[n]
=============================================================================
