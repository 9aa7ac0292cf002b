---------------------------- MODULE MCPipeline ----------------------------
(***************************************************************************)
(* The life of one record through every component: X.create(arg) builds   *)
(* it, X.encode writes it, X.decode (the ProtoCodec state machine) reads   *)
(* it back, X.toJSON turns the decoded record into an object and           *)
(* X.fromJSON reads that object.  arg ranges over the DeepPartial objects  *)
(* with at most two keys given (null among the values), and undefined and *)
(* null themselves.                                                        *)
(***************************************************************************)
EXTENDS ProtoCodec, JsonBridge, FromPartial, TLC

CONSTANTS
  PipelineMessages,  \* the messages X whose create is called
  Ordinals           \* the enum ordinals a caller passes to create

VARIABLES
  host,   \* "node" (globalThis.Buffer exists) or "browser"
  msg,    \* the message X
  arg,    \* what X.create was given
  sent,   \* X.create(arg)
  json,   \* X.toJSON(decoded record)
  back    \* X.fromJSON(json)

pvars == <<host, msg, arg, sent, json, back>>

MCMaxSafeInteger == 150
MCInputs == {}

ActionOnly == {"Action"}

\* Ordinals of both enums, and one neither declares.
DeclaredOrdinals   == {0, 2}
UndeclaredOrdinals == {2, 99}

\* Values a caller gives a key of each kind; nested messages are partial.
ValuesFor(f) ==
  CASE f.rep /\ f.kind = "message" -> {<<>>, <<<<>>>>, <<"height" :> 1>>}
    [] f.rep                       -> {<<>>, <<<<120>>, <<233>>>>}
    [] f.kind = "string"           -> {<<>>, <<233>>}
    [] f.kind = "bytes"            -> {<<0, 255>>}
    [] f.kind = "enum"             -> Ordinals
    [] f.kind = "int64"            -> {-1, MCMaxSafeInteger}
    [] f.kind = "uint64"           -> {1, MCMaxSafeInteger}
    [] f.kind = "bool"             -> {TRUE}
    [] f.kind = "message"          -> {<<>>, "height" :> 1 @@ "address" :> <<120>>}

Partials(m) ==
  LET one == UNION {{k :> v : v \in ValuesFor(FieldNamed(m, k)) \cup {Null}} :
                      k \in DOMAIN DefaultRecord(m)}
  IN  {<<>>} \cup one \cup {a @@ b : a, b \in one}

PipelineInit ==
  /\ host \in {"node", "browser"}
  /\ msg \in PipelineMessages
  /\ arg \in Partials(msg) \cup {Undefined, Null}
  /\ sent = Create(msg, arg)
  /\ InitFor(msg, Encode(msg, sent))
  /\ json = Undefined
  /\ back = Undefined

\* One step of X.decode(X.encode(sent)).
DecodeStep == Next /\ UNCHANGED pvars

\* json = X.toJSON(the record decode returned).
WriteJSON ==
  /\ status = "done" /\ json = Undefined
  /\ json' = ToJSON(msg, result)
  /\ UNCHANGED <<buf, pos, stack, status, result, host, msg, arg, sent, back>>

\* back = X.fromJSON(json).
ReadJSON ==
  /\ json # Undefined /\ back = Undefined
  /\ back' = FromJSON(host, msg, json)
  /\ UNCHANGED <<buf, pos, stack, status, result, host, msg, arg, sent, json>>

PipelineNext == DecodeStep \/ WriteJSON \/ ReadJSON

PipelineSpec == PipelineInit /\ [][PipelineNext]_<<vars, pvars>>

\* Reference: the record a caller means by arg, every key that is given
\* taking its value and every other its default, nested partials likewise.
Complete(m, p) == [k \in DOMAIN DefaultRecord(m) |->
                     IF Given(Prop(p, k)) THEN p[k] ELSE DefaultRecord(m)[k]]

Expected ==
  LET top == Complete(msg, IF Given(arg) THEN arg ELSE <<>>)
  IN  [k \in DOMAIN top |->
         LET f == FieldNamed(msg, k)
         IN  CASE f.kind = "message" /\ f.rep -> [i \in DOMAIN top[k] |-> Complete(f.type, top[k][i])]
               [] f.kind = "message" /\ top[k] # Undefined -> Complete(f.type, top[k])
               [] OTHER -> top[k]]

\* A record made by X.create(arg) (spec.md section 3, "populated by direct
\* field assignment") survives the wire and the JSON bridge (section 8,
\* both round trips): decode never throws on it, and the decoded record and
\* fromJSON(toJSON(decoded)) are both the record arg describes.
CreatedRecordSurvives ==
  /\ status # "error"
  /\ status = "done" => result = Expected
  /\ back # Undefined => back = Expected
=============================================================================
