---------------------------- MODULE LumeraSchema ----------------------------
(***************************************************************************)
(* The static field tables the generated codecs are built from: for each   *)
(* message, its fields in encode-emission order with their field number,   *)
(* name, kind and repetition, the default each field starts at             *)
(* (createBaseX), and the enum ordinal tables.                             *)
(*                                                                         *)
(* Kinds: "string", "bytes", "enum" (int32 on the wire), "int64",          *)
(* "uint64", "bool" and "message" (a nested message whose name is `type`). *)
(* Records are functions from field names to values: a string is a         *)
(* sequence of code points, bytes a sequence of bytes, a repeated field a  *)
(* sequence of element values, an absent message field is Undefined.       *)
(***************************************************************************)
EXTENDS Integers, Sequences

CONSTANT Undefined   \* JS undefined: an unset singular message field

Field(num, name, kind, rep, type) ==
  [num |-> num, name |-> name, kind |-> kind, rep |-> rep, type |-> type]

\* lumera.action.Action (action.ts: interface Action).
ActionFields ==
  << Field(1, "creator",        "string", FALSE, ""),
     Field(2, "actionID",       "string", FALSE, ""),
     Field(3, "actionType",     "enum",   FALSE, "ActionType"),
     Field(4, "metadata",       "bytes",  FALSE, ""),
     Field(5, "price",          "string", FALSE, ""),
     Field(6, "expirationTime", "int64",  FALSE, ""),
     Field(7, "state",          "enum",   FALSE, "ActionState"),
     Field(8, "blockHeight",    "int64",  FALSE, ""),
     Field(9, "superNodes",     "string", TRUE,  "") >>

\* lumera.claim.Params (params.ts: interface Params).
ParamsFields ==
  << Field(1, "enableClaims",      "bool",   FALSE, ""),
     Field(3, "claimEndTime",      "int64",  FALSE, ""),
     Field(4, "maxClaimsPerBlock", "uint64", FALSE, "") >>

\* lumera.supernode.SuperNode (super_node.ts: interface SuperNode).
SuperNodeFields ==
  << Field(1, "validatorAddress", "string",  FALSE, ""),
     Field(2, "states",           "message", TRUE,  "SuperNodeStateRecord"),
     Field(3, "evidence",         "message", TRUE,  "Evidence"),
     Field(4, "prevIpAddresses",  "message", TRUE,  "IPAddressHistory"),
     Field(5, "version",          "string",  FALSE, ""),
     Field(6, "metrics",          "message", FALSE, "MetricsAggregate"),
     Field(7, "supernodeAccount", "string",  FALSE, "") >>

\* The nested messages of SuperNode are generated into files that are not
\* part of this repository; each is modelled with the same two fields.
NestedFields ==
  << Field(1, "address", "string", FALSE, ""),
     Field(2, "height",  "int64",  FALSE, "") >>

Schema ==
  [ Action               |-> ActionFields,
    Params               |-> ParamsFields,
    SuperNode            |-> SuperNodeFields,
    SuperNodeStateRecord |-> NestedFields,
    Evidence             |-> NestedFields,
    IPAddressHistory     |-> NestedFields,
    MetricsAggregate     |-> NestedFields ]

\* The messages whose code is in this repository.
Messages == {"Action", "SuperNode", "Params"}

FieldSet(m) == {Schema[m][i] : i \in DOMAIN Schema[m]}

\* The descriptor of the field of message m named n.
FieldNamed(m, n) == CHOOSE f \in FieldSet(m) : f.name = n

\* The initial value of a field in createBaseX().
DefaultValue(f) ==
  IF f.rep THEN <<>>
  ELSE CASE f.kind \in {"string", "bytes"}          -> <<>>
         [] f.kind \in {"enum", "int64", "uint64"} -> 0
         [] f.kind = "bool"                        -> FALSE
         [] f.kind = "message"                     -> Undefined

\* createBaseX(): every field at its default.
DefaultRecord(m) == [f \in {g.name : g \in FieldSet(m)} |->
                       DefaultValue(CHOOSE g \in FieldSet(m) : g.name = f)]

\* The declared ordinals of each enum (ActionType, ActionState) and the
\* UNRECOGNIZED = -1 member both add.
EnumValues == [ActionType |-> 0..2, ActionState |-> 0..7]
UNRECOGNIZED == -1
=============================================================================
