---------------------------- MODULE MCRoundTrip ----------------------------
(***************************************************************************)
(* X.decode(X.encode(r)) for every record r of each message over small    *)
(* value domains: a default and a non-default value per field, a code      *)
(* point that takes two UTF-8 bytes, 64-bit values at both (scaled) safe   *)
(* bounds and below zero, varints of one and two bytes, nested messages    *)
(* that encode to zero bytes, and up to two elements per repeated field.   *)
(* With Int64s <- UnsafeInt64s the records hold 64-bit values one past the *)
(* safe bounds, which X.encode accepts.                                    *)
(***************************************************************************)
EXTENDS ProtoCodec

CONSTANT Int64s   \* the int64 values records hold

MCMaxSafeInteger == 150

\* int64 values inside [MIN_SAFE_INTEGER, MAX_SAFE_INTEGER]: zero, one below
\* zero (a ten-byte varint) and both bounds.
SafeInt64s == {0, -1, MCMaxSafeInteger, -MCMaxSafeInteger}

\* One past the bound on either side: values a record can hold in memory.
UnsafeInt64s == {0, MCMaxSafeInteger + 1, -MCMaxSafeInteger - 1}

\* "" and "é" (U+00E9, two UTF-8 bytes).
Strings == {<<>>, <<233>>}

UpToTwo(S) == {<<>>} \cup {<<e>> : e \in S} \cup {<<d, e>> : d, e \in S}

ActionRecords ==
  [creator : Strings, actionID : {<<>>, <<120>>}, actionType : {0, 2},
   metadata : {<<>>, <<0, 255>>}, price : Strings,
   expirationTime : Int64s, state : {0, 7}, blockHeight : {0, 1},
   superNodes : UpToTwo({<<120>>, <<233>>})]

\* Nested records; the all-default one encodes to zero bytes.
Nested == [address : {<<>>, <<120>>}, height : {0, 1}]

SuperNodeRecords ==
  [validatorAddress : {<<>>, <<120>>}, states : UpToTwo(Nested),
   evidence : {<<>>}, prevIpAddresses : {<<>>} \cup {<<n>> : n \in Nested},
   version : {<<>>}, metrics : {Undefined} \cup Nested,
   supernodeAccount : Strings]

ParamsRecords ==
  [enableClaims : BOOLEAN, claimEndTime : Int64s,
   maxClaimsPerBlock : {0, 1, 127, 128, MCMaxSafeInteger}]

Records(m) == CASE m = "Action"    -> ActionRecords
                [] m = "SuperNode" -> SuperNodeRecords
                [] m = "Params"    -> ParamsRecords

VARIABLE sent   \* the record X.encode was given

MCInputs == {}

MCInit == \E m \in Messages : \E r \in Records(m) :
            sent = r /\ InitFor(m, Encode(m, r))

MCSpec == MCInit /\ [][Next /\ UNCHANGED sent]_<<vars, sent>> /\ WF_vars(Next)

\* Round trip (spec.md section 8): decoding the bytes X.encode wrote for a
\* record never throws and returns that same record.
RoundTrip ==
  /\ status # "error"
  /\ status = "done" => result = sent
=============================================================================
