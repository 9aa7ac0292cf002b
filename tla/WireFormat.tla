----------------------------- MODULE WireFormat -----------------------------
(***************************************************************************)
(* The protobuf wire primitives the generated codecs call: the varint,     *)
(* length-delimited, UTF-8 and skip operations of BinaryWriter and         *)
(* BinaryReader from @bufbuild/protobuf/wire.  That library is not part of *)
(* this repository; the operators follow the wire format of spec.md        *)
(* section 6 (varints: little-endian base-128 groups, continuation bit     *)
(* 0x80; tag = field << 3 | wire type).                                    *)
(*                                                                         *)
(* Buffers are sequences of bytes; positions are the reader's 0-based      *)
(* `pos`, so the byte at position p is buf[p + 1].  Every read returns a   *)
(* record [ok, ..., next] whose `next` is the reader position after it;    *)
(* ok = FALSE stands for a read that throws (premature EOF, invalid        *)
(* varint, unskippable wire type).                                         *)
(***************************************************************************)
EXTENDS Integers, Sequences, SequencesExt

Failed == [ok |-> FALSE]

\* 2^28: the smallest value whose varint needs a fifth 7-bit group.  Model
\* buffers are far shorter, so any length >= 2^28 reads past every buffer.
Huge == 268435456

\* `buf[i] & mask` in the reader: past the end buf[i] is undefined, which
\* masks to 0 (so a varint read stops there and assertBounds then throws).
ByteAt(buf, i) == IF i < Len(buf) THEN buf[i + 1] ELSE 0

-----------------------------------------------------------------------------
(* Writing                                                                 *)

RECURSIVE Groups(_)
\* The 7-bit groups of n >= 0, least significant first.
Groups(n) == IF n < 128 THEN <<n>> ELSE <<n % 128>> \o Groups(n \div 128)

\* Set the continuation bit on every group but the last.
VarintOfGroups(gs) == [i \in DOMAIN gs |-> IF i < Len(gs) THEN gs[i] + 128 ELSE gs[i]]

\* varint32write / varint64write of a value >= 0.
Varint(n) == VarintOfGroups(Groups(n))

\* A negative int32 or int64 is written as the ten groups of its 64-bit
\* two's complement 2^64 + n = (2^64 - 1) - (-n - 1): groups 1..9 are the
\* complements of the groups of -n - 1, group 10 holds bit 63.
SignExtended(n) ==
  LET g == Groups(-n - 1)
      d(i) == IF i <= Len(g) THEN g[i] ELSE 0
  IN  VarintOfGroups([i \in 1..10 |-> IF i < 10 THEN 127 - d(i) ELSE 1])

\* BinaryWriter.int32 / int64.
SignedVarint(n) == IF n >= 0 THEN Varint(n) ELSE SignExtended(n)

\* TextEncoder: UTF-8 of one code point of the Basic Multilingual Plane.
Utf8Char(c) ==
  CASE c < 128  -> <<c>>
    [] c < 2048 -> <<192 + c \div 64, 128 + (c % 64)>>
    [] OTHER    -> <<224 + c \div 4096, 128 + ((c \div 64) % 64), 128 + (c % 64)>>

\* Mutant: each code point written as one byte (latin1).
Utf8EncodeLatin1(s) == [i \in DOMAIN s |-> s[i] % 256]

Utf8Encode(s) == FlattenSeq([i \in DOMAIN s |-> Utf8Char(s[i])])

\* BinaryWriter.bytes, and string after encoding: varint byte count, bytes.
LenPrefixed(bs) == Varint(Len(bs)) \o bs

-----------------------------------------------------------------------------
(* Reading                                                                 *)

\* U+FFFD, which a non-fatal TextDecoder substitutes for invalid input.
Replacement == 65533

Cont(b) == b \in 128..191

RECURSIVE Utf8DecodeFrom(_, _)
\* TextDecoder.decode from index i (1-based): one-, two- and three-byte
\* sequences; any other byte decodes to U+FFFD on its own.  (Overlong and
\* surrogate three-byte forms are not distinguished: no model buffer
\* contains them.)
Utf8DecodeFrom(bs, i) ==
  IF i > Len(bs) THEN <<>>
  ELSE LET b == bs[i] IN
    CASE b < 128 ->
           <<b>> \o Utf8DecodeFrom(bs, i + 1)
      [] b \in 194..223 /\ i + 1 <= Len(bs) /\ Cont(bs[i + 1]) ->
           <<(b - 192) * 64 + bs[i + 1] - 128>> \o Utf8DecodeFrom(bs, i + 2)
      [] b \in 224..239 /\ i + 2 <= Len(bs) /\ Cont(bs[i + 1]) /\ Cont(bs[i + 2]) ->
           <<(b - 224) * 4096 + (bs[i + 1] - 128) * 64 + bs[i + 2] - 128>>
             \o Utf8DecodeFrom(bs, i + 3)
      [] OTHER ->
           <<Replacement>> \o Utf8DecodeFrom(bs, i + 1)

Utf8Decode(bs) == Utf8DecodeFrom(bs, 1)

\* assertBounds(): throw once the position has passed the end.
Bounded(buf, p) == IF p > Len(buf) THEN Failed ELSE [ok |-> TRUE, next |-> p]

RECURSIVE VarintSpan(_, _, _)
\* Bytes varint32read / varint64read consume at p: up to the first byte
\* without continuation bit, at most ten.
VarintSpan(buf, p, k) ==
  IF ByteAt(buf, p + k - 1) >= 128 /\ k < 10 THEN VarintSpan(buf, p, k + 1) ELSE k

\* A varint read: its 7-bit groups, or Failed on a tenth byte that still
\* has the continuation bit ("invalid varint") or on reading past the end.
ReadVarint(buf, p) ==
  LET k == VarintSpan(buf, p, 1) IN
  IF ByteAt(buf, p + k - 1) >= 128 \/ p + k > Len(buf) THEN Failed
  ELSE [ok |-> TRUE, groups |-> [j \in 1..k |-> ByteAt(buf, p + j - 1) % 128],
        next |-> p + k]

Group(gs, i) == IF i <= Len(gs) THEN gs[i] ELSE 0

\* The value of the first four groups (bits 0..27).
Low28(gs) == Group(gs, 1) + 128 * Group(gs, 2) + 16384 * Group(gs, 3)
               + 2097152 * Group(gs, 4)

\* tag >>> 3 and tag & 7 of the uint32 a tag read returns (bits 0..31).
TagField(gs) == Group(gs, 1) \div 8
                + 16 * (Group(gs, 2) + 128 * Group(gs, 3) + 16384 * Group(gs, 4))
                + 33554432 * (Group(gs, 5) % 16)
TagWireType(gs) == Group(gs, 1) % 8

\* reader.int32(): uint32() | 0, the low 32 bits as a signed integer.
Int32Of(gs) ==
  LET h == Group(gs, 5) % 16
  IN  Low28(gs) + (IF h < 8 THEN h ELSE h - 16) * Huge

\* reader.uint32() used as a length: exact below 2^28, else Huge.
LengthOf(gs) == IF Group(gs, 5) % 16 = 0 THEN Low28(gs) ELSE Huge

Bit63(gs) == Group(gs, 10) % 2 = 1

\* reader.int64() as a signed 64-bit value, clamped to [-Huge, Huge]
\* (every model bound on a Number lies inside that interval).
Int64Of(gs) ==
  IF Bit63(gs)
  THEN IF \E i \in 5..9 : Group(gs, i) # 127 THEN -Huge
       ELSE -(1 + (127 - Group(gs, 1)) + 128 * (127 - Group(gs, 2))
                 + 16384 * (127 - Group(gs, 3)) + 2097152 * (127 - Group(gs, 4)))
  ELSE IF \E i \in 5..9 : Group(gs, i) # 0 THEN Huge ELSE Low28(gs)

\* reader.uint64(), clamped to Huge.
Uint64Of(gs) ==
  IF Bit63(gs) \/ \E i \in 5..9 : Group(gs, i) # 0 THEN Huge ELSE Low28(gs)

\* reader.bool(): some bit of the 64-bit value is set.
BoolOf(gs) == Bit63(gs) \/ \E i \in 1..9 : Group(gs, i) # 0

\* reader.bytes(): a length, then that many bytes.
ReadLengthDelimited(buf, p) ==
  LET n == ReadVarint(buf, p)
  IN  IF ~n.ok \/ n.next + LengthOf(n.groups) > Len(buf) THEN Failed
      ELSE [ok |-> TRUE, bytes |-> SubSeq(buf, n.next + 1, n.next + LengthOf(n.groups)),
            next |-> n.next + LengthOf(n.groups)]

RECURSIVE VarintEnd(_, _)
\* skip(Varint): while (buf[pos++] & 0x80) {} -- no ten-byte limit here.
VarintEnd(buf, p) == IF ByteAt(buf, p) >= 128 THEN VarintEnd(buf, p + 1) ELSE p + 1

RECURSIVE Skip(_, _, _, _), SkipGroup(_, _, _)
\* reader.skip(wireType, fieldNo); fieldNo = 0 stands for undefined.
Skip(buf, p, wt, fno) ==
  CASE wt = 0 -> Bounded(buf, VarintEnd(buf, p))
    [] wt = 1 -> Bounded(buf, p + 8)
    [] wt = 5 -> Bounded(buf, p + 4)
    [] wt = 2 -> LET n == ReadVarint(buf, p)
                 IN  IF n.ok THEN Bounded(buf, n.next + LengthOf(n.groups)) ELSE Failed
    [] wt = 3 -> SkipGroup(buf, p, fno)
    [] OTHER  -> Failed

\* skip(StartGroup): read tags (reader.tag() rejects field 0 and wire types
\* above 5) and skip their values up to the EndGroup tag, which must carry
\* the group's own field number when that is known.
SkipGroup(buf, p, fno) ==
  LET t == ReadVarint(buf, p) IN
  IF ~t.ok THEN Failed
  ELSE LET fn == TagField(t.groups)
           wt == TagWireType(t.groups)
       IN  CASE fn = 0 \/ wt > 5        -> Failed
             [] wt = 4 /\ fno # 0 /\ fn # fno -> Failed
             [] wt = 4                  -> Bounded(buf, t.next)
             [] OTHER -> LET s == Skip(buf, t.next, wt, fn)
                         IN  IF s.ok THEN SkipGroup(buf, s.next, fno) ELSE Failed
=============================================================================
