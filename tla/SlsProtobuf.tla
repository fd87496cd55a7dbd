----------------------------- MODULE SlsProtobuf -----------------------------
(***************************************************************************)
(* The protobuf encoder of the write path (src/src/sls_protobuf.cpp).      *)
(*                                                                         *)
(* A string is represented by its length, a log by the lengths of its      *)
(* keys and values; the encoder's output is represented by its length.     *)
(* Only the numbers that the wire format builds from bits - the varints    *)
(* and the tags - are spelled out byte by byte, because the sizes computed *)
(* elsewhere (SlsLogGroup) have to agree with their length.                *)
(*                                                                         *)
(* A log item is [time, time_ns, contents], its contents a sequence of     *)
(* [key, value] lengths; a group is [topic, source, logs].                 *)
(***************************************************************************)
EXTENDS Integers, Sequences, SequencesExt

\* writeVarint: seven bits at a time, low bits first, the high bit of a byte
\* set when more bytes follow.
Varint[value \in Nat] ==
  IF value < 128
  THEN <<value>>
  ELSE <<128 + (value % 128)>> \o Varint[value \div 128]

kWireVarint == 0
kWireLengthDelimited == 2
kWireFixed32 == 5

Tag(field, wire_type) == Varint[8 * field + wire_type]

\* writeString leaves an empty string out; writeBytes always writes its field.
BytesSize(field, size) ==
  Len(Tag(field, kWireLengthDelimited)) + Len(Varint[size]) + size

StringSize(field, size) == IF size = 0 THEN 0 ELSE BytesSize(field, size)

\* The sum of a sequence of sizes.
Total(sizes) == FoldLeft(+, 0, sizes)

ContentSize(content) == StringSize(1, content.key) + StringSize(2, content.value)

\* encodeLog throws std::invalid_argument unless this holds.
LogEncodable(log) ==
  /\ log.contents # <<>>
  /\ \A i \in DOMAIN log.contents : log.contents[i].key # 0

ContentsSize(contents) ==
  Total([i \in DOMAIN contents |-> BytesSize(2, ContentSize(contents[i]))])

\* The size of encodeLog(log) for a log it does not reject.
LogSize(log) ==
  Len(Tag(1, kWireVarint)) + Len(Varint[log.time]) + ContentsSize(log.contents)
    + (IF log.time_ns = 0 THEN 0 ELSE Len(Tag(4, kWireFixed32)) + 4)

\* encodeLogGroup throws std::invalid_argument unless this holds.
GroupEncodable(group) ==
  /\ group.logs # <<>>
  /\ \A i \in DOMAIN group.logs : LogEncodable(group.logs[i])

LogsSize(logs) == Total([i \in DOMAIN logs |-> BytesSize(1, LogSize(logs[i]))])

GroupSize(group) ==
  LogsSize(group.logs) + StringSize(3, group.topic) + StringSize(4, group.source)

-----------------------------------------------------------------------------
(* Reference definitions.                                                  *)

\* What a reader of the wire format makes of a varint: seven bits of each byte.
Decoded(bytes) ==
  LET from[i \in 1 .. Len(bytes) + 1] ==
        IF i > Len(bytes) THEN 0 ELSE (bytes[i] % 128) + 128 * from[i + 1]
  IN  from[1]

\* A varint ends at its first byte below 128, where its reader takes it to end, and has
\* no redundant last byte (writeVarint).
ReadsBack(value) ==
  LET bytes == Varint[value]
  IN  /\ Decoded(bytes) = value
      /\ \A i \in DOMAIN bytes : bytes[i] \in 0 .. 255 /\ (bytes[i] >= 128 <=> i < Len(bytes))
      /\ Len(bytes) > 1 => bytes[Len(bytes)] # 0

=============================================================================
