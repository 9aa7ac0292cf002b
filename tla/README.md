# TLA+ models of the Lumera TypeScript protobuf codecs

The repository's code under `src/generated/ts/lumera/` is five files generated by
protoc-gen-ts_proto v2.6.1:

| file | contents |
|---|---|
| `action/action.ts` | `Action` (strings, bytes, two enums, two int64, repeated string): createBase, encode, decode, fromJSON, toJSON, create, fromPartial, base64 helpers, `longToNumber` |
| `supernode/super_node.ts` | `SuperNode` (strings, three repeated and one singular nested message) |
| `claim/params.ts` | `Params` (bool, int64, uint64), `longToNumber` |
| `action/action_type.ts`, `action/action_state.ts` | the enums, their `FromJSON` / `ToJSON` |

## The system

**Components and state.** A codec has no state of its own between calls (spec.md
section 5). A call does have state while it runs:
- *encode* appends to a `BinaryWriter`. A nested message is written into a `fork()`ed
  buffer, which `join()` length-prefixes.
- *decode* owns a `BinaryReader` (`buf`, `pos`) and, per call, an `end` and the
  record under construction (`message`). A nested `Y.decode(reader, reader.uint32())`
  gets **the caller's reader**: nested calls form a stack of frames that share one
  position.
- The JSON bridge (`fromJSON`/`toJSON`) and `fromPartial`/`create` build a new value
  from another. They are pure except for one thing: arrays are JS objects held by
  reference, so a record can share a `Uint8Array` or `Array` with an object its caller
  holds.

**Interactions.**
- `SuperNode.decode` calls the decoders of its four nested message types, which are
  generated into files not in this repository.
- `Action` uses the two enums.
- All codecs call the wire library `@bufbuild/protobuf/wire`. It is not in this
  repository, so its primitives are modelled from the wire format of spec.md section 6.

**What is hard.**
- The interplay of a nested call's `end` with a reader whose reads are bounded only by
  the buffer.
- Early `break`s on tag 0 or end-group tags.
- Skipping a known field number that arrives with the wrong wire type.
- 64-bit values near `Number.MAX_SAFE_INTEGER`, and ten-byte negative varints.
- UTF-8 byte counts in length prefixes.
- The promise that a failed decode never yields a partial record.
- Which arrays a record shares with its caller (`create`, `toJSON`).

**Properties the codecs need.**
- Round trip: `decode(encode(r)) = r`.
- Decode returns exactly the record or the failure that spec.md section 4.2 assigns
  to any byte buffer. This covers skipping, defaults, framing, truncation and
  safe-integer failure.
- The enum-tolerance sentinel.
- JSON round trip, enum tolerance of `fromJSON`, and a record made by `create`
  surviving the wire and the JSON bridge.

## Modules

| module | models | how |
|---|---|---|
| `WireFormat` | `BinaryWriter`/`BinaryReader` primitives (library, not in `src/`; spec-modelled) | Operators: varint groups, sign extension, UTF-8 encode/decode with U+FFFD, `assertBounds`, `uint32`/`int32`/`int64`/`uint64`/`bool` value extraction from 7-bit groups, `bytes`, `skip` including groups. |
| `LumeraSchema` | interfaces, `createBaseX`, enum tables | One table of field descriptors per message (number, name, kind, repetition, nested type), in encode order; `DefaultRecord` is `createBaseX()`. |
| `ProtoCodec` | `X.encode`, `X.decode`, `longToNumber` | `Encode` is an operator: encode is straight-line code. Decode is a state machine: `buf`, `pos` (the reader), `stack` (one frame `[msg, end, rec, into]` per active decode call), `status`, `result`. Each action is one loop iteration or a return, described below. |
| `DecodeSpec` | spec.md section 4.2 | The abstract decoder: one atomic step from `buf` to an outcome. Every nested message is decoded from a sub-buffer of exactly its announced length; each read is bounded by the effective end; unknown enum ordinals map to UNRECOGNIZED. |
| `MCRoundTrip` | test harness | A history variable `sent` holds the record; the initial state is `decode` of its message started on `Encode(m, sent)` (`InitFor(m, b)`). |
| `MCDecodeFuzz` | test harness | The inputs are pairs `<<X, b>>`: `b` is every concatenation of up to three chunks from the chunk set of message X (one set per message). |
| `JsonBridge` | `X.fromJSON`, `X.toJSON`, `isSet`, `bytesFromBase64`, `base64FromBytes`, the enum `FromJSON`/`ToJSON` functions | Operators driven by the `LumeraSchema` tables. A JS value is a one-field record naming its type (`[string \|-> s]`, `[number \|-> n]`, ..., `[null \|-> TRUE]`); an object is a function from its present keys. `String`, `Number` and `Boolean` of JS values are modelled by what they do (`String(null)` is `"null"`, `Number("")` is 0, `Number("x")` is the model value `NaN`, arrays join with `,`). Base64 is computed exactly from the bits; `bytesFromBase64` takes the host and whatever JS value fromJSON found under the key: with `Buffer` ("node") `Buffer.from` copies an array element by element (each element to a byte, NaN to 0), throws on a boolean, number or object, and decodes a string stopping at `=`, skips characters outside the alphabet and reads `-` `_` as URL-safe; with `atob` ("browser") the value is first converted with `String`, one or two `=` are stripped only from a length that is a multiple of 4, and a 4k+1 length or a foreign character throws (the model value `JsonError`, which makes the whole `fromJSON` throw). `Math.round` is modelled for the one fractional number of the model, `OnePointFive` (1.5 rounds to 2). Enum names are distinct one-character strings. |
| `FromPartial` | `X.fromPartial`, `X.create` | One operator: `createBaseX()` then each field's line: `?? default`, `?.map(...) \|\| []`, the `!== undefined && !== null` test of `metrics`, nested `fromPartial`. |
| `MCJson` | test harness | One call per step: `fromJSON` of an object, `toJSON`, `fromJSON` again. Starts from a record or from an object of at most two keys, of any of the three messages, on a host chosen in the initial state (with or without `Buffer`). A `fromJSON` that throws ends in phase `threw`. `WellShaped` is the reference of spec.md 7(d): the shape every JSON value must have. |
| `Ownership` | the arrays `Action.create` and `Action.toJSON` share | A heap of JS arrays (`heap`) reached through addresses. The caller holds the object it passed to `create` (`arg`), the record (`rec`) and the `toJSON` result (`json`), and writes the first element of any array it reaches through the holders in `Writers`. `CreateStep` is `fromPartial`'s array lines: `?? new Uint8Array(0)` keeps the caller's array, `?.map((e) => e) \|\| []` allocates a new one. `ToJSONStep` writes base64 text for the bytes and assigns the record's own `superNodes` array. `owned` is what the record's arrays should hold: it changes only by writes through the record. |
| `MCPipeline` | composition of all components | `create(arg)`, then the `ProtoCodec` decode state machine on `Encode(create(arg))`, then `toJSON` of the decoded record and `fromJSON` of that. |

The decode actions of `ProtoCodec`:
- **`DecodeScalarField`** is a `case` whose `tag !== N` check passes for a scalar: it
  reads the value and then assigns or pushes it.
- **`BeginNested`** is a message case: it reads the length and pushes a frame with
  `end = pos + length`.
- **`SkipField`** is `reader.skip(tag & 7)`.
- **`StopAtEndTag`** is `if ((tag & 7) === 4 || tag === 0) break`.
- **`FinishMessage`** is the loop exit when `pos >= end`.
- **`Return`**, shared by the two actions above, is `return message`. It either ends
  the top call or pops the frame and stores the record in the caller's field.
- **`DecodeThrows`** covers any read that throws (tag, value, length or skip). It
  ends the whole call with no record.

The refinement: `ProtoCodec` maps its state to DecodeSpec's `top` (the message of
the outermost decode call, `stack[1].msg`) and `outcome` (pending/done/error with
the record), and instantiates `DecodeSpec WITH top <- Top, outcome <- Outcome`. The property `DecodeImplementsSpec` is
`Abstract!Spec`.

## Runs

| run | expect | what it shows |
|---|---|---|
| roundtrip | pass | `decode(encode(r)) = r` for all three messages. `Action`: 3584 records with "é" (two UTF-8 bytes), int64 values 0, -1 and ±150, repeated strings of length 0–2. `SuperNode`: 2100 records with 0–2 nested `states`, nested messages whose encoding is empty, `metrics` absent or present. `Params`: uint64 values 127/128 (the one/two-byte boundary) and the safe bounds. |
| roundtrip_unsafe | violation | An int64 one past the safe bound encodes, and decoding its bytes throws. |
| decode_fuzz | pass | TypeOK and refinement of the three decoders on 25k buffers. `Action`: well-formed fields, unknown fields of wire types 0/1/2/5, wrong wire types, tag 0, end-group tag, truncated tag/length/payload, a 2^28 length, invalid UTF-8, ten-byte negative enum, int64 at and past both bounds. `Params`: bool as a multi-byte varint, int64/uint64 at the bounds, a uint64 with bit 63 set. `SuperNode`: nested messages whose prefixes frame them exactly, plus truncations at the end of the buffer. |
| action_enum | violation | Undeclared ordinals 3, 8, 99 are kept as read, not mapped to UNRECOGNIZED. |
| supernode_framing | violation | A nested message whose string overruns its length, one that starts with tag 0, and one whose length runs past the buffer: the code returns records the spec forbids. |
| json_roundtrip | pass | For all three messages, from a record: `fromJSON(toJSON(r)) = r` (3888 `Action` records with metadata of 1–4 bytes, both padding cases, the `+` and `/` characters, UNRECOGNIZED and the last enum members; `metrics` an all-default record, written as `{}`). From every object with at most two keys holding right- or wrong-typed values, `null`, arrays or objects: every enum value resolves to the member it names, as a declared ordinal or a symbolic name, and anything else (`"1"`, `true`, 99, `"UNRECOGNIZED"`) to UNRECOGNIZED (`FromJSONEnumsAsSpec`, spec.md 4.3; a switch with loose equality breaks it), and `toJSON` then `fromJSON` give the record back (`JsonRoundTrip`). Both hosts; the bytes key also holds invalid base64, a boolean, a number, an object and an array. |
| json_hosts | violation | `HostsAgree`: `{metadata: ["QQ=="]}` gives `[0]` with `Buffer` (the array is copied element by element) and `[65]` with `atob` (which decodes `String(["QQ=="])`); `true` throws on Node and is three bytes in a browser. |
| json_malformed | violation | `fromJSON` returns a record for an object that is not well shaped (`FromJSONRejectsMalformed`): a number under a string key, NaN, 1.5 or 151 (past the scaled safe bound) under an int64 key, and on Node base64 text that `atob` rejects. |
| pipeline | pass | For all three messages, `create` of every partial object with at most two keys given (or `null`/`undefined`) gives the record the object describes. That record survives encode/decode and toJSON/fromJSON (`CreatedRecordSurvives`). |
| pipeline_enum | violation | A record created with ordinal 99 round-trips on the wire but comes back from JSON as UNRECOGNIZED. |
| ownership_create | violation | `RecordOwnsBuffers`: after `Action.create(arg)`, the caller writes `arg.metadata[0]` and the record's `metadata` changes with it. |
| ownership_tojson | violation | `RecordOwnsBuffers`: after `json = Action.toJSON(rec)`, the caller writes `json.superNodes[0]` and `rec.superNodes` changes with it. |

Findings (see PROJECT.json):
- the framing divergence (`super_node.ts:84`);
- the enum sentinel on decode (`action.ts:100`);
- the missing encode-side range check (`action.ts:58`);
- malformed JSON values are coerced instead of rejected: NaN, 1.5 and unsafe magnitudes
  under 64-bit keys, any value under a string key (`params.ts:80`, spec.md 7(d));
- on Node, `Buffer` accepts base64 text that `atob` rejects, so `fromJSON` of the same
  object succeeds or throws depending on the host (`action.ts:228`), and a non-string
  value under a bytes key decodes to different bytes, or throws, depending on the host;
- the JSON round trip loses undeclared ordinals that `create` and `decode` accept
  (`action_type.ts:44`, spec.md section 8);
- `Action.fromPartial` keeps the caller's `Uint8Array` (`action.ts:216`), and
  `Action.toJSON` puts the record's own `superNodes` array into its result
  (`action.ts:203`); spec.md section 3 says a record owns its buffers.

**Bounds.**
- `Number.MAX_SAFE_INTEGER` is scaled to `MaxSafeInteger = 150`. This keeps the
  boundary reachable with two-byte varints while keeping the code's `>`/`<` tests.
- Values of 2^28 and more clamp to `Huge`, which is beyond every model buffer. Every
  model bound lies below it.
- Three chunks per buffer are enough for every pair of anomalies to meet, and for an
  anomaly to meet a field after it.
- Nested depth is one, which is all the schema has.
- `Ownership`: each caller array holds zero or one element and the caller writes one
  of two values into the first. One write through a holder that shares an array is
  all a violation takes, and a write through the record must leave `owned` and the
  heap in step.
- JSON objects have at most two keys. Every field's conversion is independent of the
  others in `fromJSON`, `toJSON` and `fromPartial`, so two keys are enough for
  any pair of conversions to meet; each key takes every shape a caller may pass.
- One fractional number (1.5) and one unsafe magnitude (151) go under 64-bit keys
  in json_malformed. Four invalid base64 texts cover each way `Buffer` and `atob`
  part: a 4k+1 length, padding on a length that is not a multiple of 4, the URL-safe
  alphabet, and a foreign character.

**Fairness.** Decode is synchronous code on one thread. It keeps running while
anything is enabled, which justifies `WF_vars(Next)` in `ProtoCodec`'s `Spec`.
`CHECK_DEADLOCK FALSE` is used because `done` and `error` are final: decode has
returned. No liveness property is checked. Termination of decode follows from the
model's shape: every step but a return consumes at least the tag byte, and the
position never passes the buffer's end, so a check of it would show nothing about the
code. The JSON and ownership harnesses check invariants only.

## Not modelled, and the plan

Modelled: the binary codec of all three messages and its refinement of the spec-level
decoder; the JSON bridge with the enum maps and base64; `fromPartial` and `create`;
their composition in `MCPipeline`; the arrays `create` and `toJSON` share (`Ownership`).

The plan:
1. The decode of the nested message files, once they are in this repository. Until
   then, their `decode`, `fromJSON`, `toJSON` and `fromPartial` are modelled by the
   same generated pattern, over two fields.

Not modelled:
- `DeepPartial`, `Exact` and `MessageFns`: these are compile-time types.
- The `BinaryWriter` buffer management and `fork`/`join` internals: only their output
  is modelled.
- Code points outside the Basic Multilingual Plane, and overlong or surrogate UTF-8
  forms.
- Wire types 3, 6 and 7 are modelled in `Skip` but excluded from the fuzz inputs,
  because spec.md gives them no framing.
- Fractions other than 1.5: one fractional value is enough to show that
  `fromJSON` keeps it and `Math.round` in `toJSON` changes it.
- Sharing outside `Ownership`: every other module treats records as values. The
  `bytes` field of a decoded record comes from `reader.bytes()` in the wire library,
  which is not in this repository; whether it is a view of the input buffer depends on
  that library, so decode is left out of `Ownership`.
- A nested value in JSON that is not an object, and a `null` element of a nested
  array. Both reach nested `fromJSON` code that is not in this repository.
