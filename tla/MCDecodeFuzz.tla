---------------------------- MODULE MCDecodeFuzz ----------------------------
(***************************************************************************)
(* X.decode of each message on every buffer made of up to three chunks of *)
(* that message: well-formed fields, unknown fields of each skippable     *)
(* wire type, known field numbers with the wrong wire type, zero and      *)
(* end-group tags, truncated tags and payloads, an oversized length,      *)
(* invalid UTF-8, a ten-byte negative enum, 64-bit values on both sides   *)
(* of the (scaled) safe bounds, and for SuperNode nested messages decoded *)
(* by Y.decode(reader, reader.uint32()) calls that share the reader.      *)
(* Every nested message is modelled with the fields address = 1 (string)  *)
(* and height = 2 (int64).                                                *)
(***************************************************************************)
EXTENDS ProtoCodec

MCMaxSafeInteger == 150

ActionChunks ==
  { <<10, 1, 120>>,                         \* creator = "x"
    <<10, 2, 195, 169>>,                    \* creator = "é"
    <<24, 2>>,                              \* actionType = 2
    <<24, 255, 255, 255, 255, 255, 255, 255, 255, 255, 1>>, \* actionType = -1
    <<48, 150, 1>>,                         \* expirationTime = MAX_SAFE
    <<48, 151, 1>>,                         \* expirationTime = MAX_SAFE + 1
    <<48, 233, 254, 255, 255, 255, 255, 255, 255, 255, 1>>, \* expirationTime = -(MAX_SAFE + 1)
    <<74, 1, 120>>,                         \* superNodes += "x"
    <<34, 2, 0, 255>>,                      \* metadata
    <<80, 5>>,                              \* field 10, varint
    <<82, 1, 0>>,                           \* field 10, length-delimited
    <<81, 1, 2, 3, 4, 5, 6, 7, 8>>,         \* field 10, 64-bit
    <<82, 5>>,                              \* field 10, length-delimited, 5 bytes announced
    <<85, 1, 2, 3, 4>>,                     \* field 10, 32-bit
    <<8, 1>>,                               \* field 1 (string) as varint
    <<26, 0>>,                              \* field 3 (enum) as length-delimited
    <<0>>,                                  \* tag 0
    <<12>>,                                 \* end-group tag of field 1
    <<10>>,                                 \* string tag, no length
    <<10, 2, 120>>,                         \* string shorter than its length
    <<10, 128, 128, 128, 128, 1>>,          \* length 2^28
    <<10, 1, 255>>,                         \* invalid UTF-8
    <<128>> }                               \* tag cut inside its varint

ParamsChunks ==
  { <<8, 1>>,                               \* enableClaims = true
    <<8, 0>>,                               \* enableClaims = false, written out
    <<8, 128, 1>>,                          \* enableClaims: varint 128
    <<24, 150, 1>>,                         \* claimEndTime = MAX_SAFE
    <<24, 151, 1>>,                         \* claimEndTime = MAX_SAFE + 1
    <<24, 233, 254, 255, 255, 255, 255, 255, 255, 255, 1>>, \* claimEndTime = -(MAX_SAFE + 1)
    <<32, 127>>,                            \* maxClaimsPerBlock = 127
    <<32, 150, 1>>,                         \* maxClaimsPerBlock = MAX_SAFE
    <<32, 255, 255, 255, 255, 255, 255, 255, 255, 255, 1>>, \* maxClaimsPerBlock = 2^64 - 1
    <<16, 5>>,                              \* field 2 (not declared), varint
    <<34, 0>>,                              \* field 4 (uint64) as length-delimited
    <<0>> }                                 \* tag 0

\* Chunks whose length prefixes frame their nested messages exactly.
SuperNodeChunks ==
  { <<10, 1, 120>>,                 \* validatorAddress = "x"
    <<18, 0>>,                      \* states += {} (zero-length message)
    <<18, 3, 10, 1, 120>>,          \* states += {address: "x"}
    <<18, 2, 16, 1>>,               \* states += {height: 1}
    <<18, 2, 80, 5>>,               \* states += {} with unknown field 10
    <<18, 3, 16, 151, 1>>,          \* states += {height: MAX_SAFE + 1}
    <<26, 2, 16, 1>>,               \* evidence += {height: 1}
    <<26, 11, 16, 233, 254, 255, 255, 255, 255, 255, 255, 255, 1>>, \* evidence += {height: -(MAX_SAFE + 1)}
    <<34, 3, 10, 1, 120>>,          \* prevIpAddresses += {address: "x"}
    <<50, 0>>,                      \* metrics = {}
    <<50, 2, 16, 1>>,               \* metrics = {height: 1}
    <<58, 1, 120>>,                 \* supernodeAccount = "x"
    <<80, 5>>,                      \* unknown field 10
    <<16, 1>>,                      \* field 2 (message) as varint
    <<0>> }                         \* tag 0

\* Truncations, only at the end of a buffer: a length prefix that runs
\* past the buffer must fail however the bytes after it read.
Tails ==
  { <<>>,
    <<18>>,                         \* message tag, no length
    <<50, 3, 16>> }                 \* metrics: 3 bytes announced, 1 present

MCInputs ==
  {<<"Action", FlattenSeq(s)>> : s \in BoundedSeq(ActionChunks, 3)}
  \cup {<<"Params", FlattenSeq(s)>> : s \in BoundedSeq(ParamsChunks, 3)}
  \cup {<<"SuperNode", FlattenSeq(s) \o t>> : s \in BoundedSeq(SuperNodeChunks, 3), t \in Tails}

\* Enum ordinals with no declared member: actionType = 3 (one past
\* ACTION_TYPE_CASCADE), state = 8 (one past ACTION_STATE_EXPIRED) and
\* state = 99, the example of spec.md section 8.
MCEnumInputs == {<<"Action", b>> : b \in {<<24, 3>>, <<56, 8>>, <<56, 99>>, <<24, 2, 56, 99>>}}

\* Length prefixes that disagree with the nested message's own fields.
MCFramingInputs == {<<"SuperNode", b>> : b \in
  { <<18, 2, 10, 3, 120, 120, 120>>,  \* states: a 2-byte message whose string runs 3 bytes past it
    <<18, 4, 0, 10, 1, 120>>,         \* states: a 4-byte message that starts with tag 0
    <<18, 18, 0>> }}                  \* states: 18 bytes announced, 1 present, tag 0
=============================================================================
