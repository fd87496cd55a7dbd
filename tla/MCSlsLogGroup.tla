---------------------------- MODULE MCSlsLogGroup ----------------------------
(***************************************************************************)
(* A small instance of SlsLogGroup. The lengths are chosen around the one-  *)
(* byte limit of a varint: a log with one content of key length 1 and value *)
(* length 118 encodes to 127 bytes, with value length 119 to 128 bytes, and *)
(* a topic is 127 or 128 bytes long. An empty key makes a log unencodable.  *)
(***************************************************************************)
EXTENDS SlsLogGroup

MCContents ==
  {[key |-> 1, value |-> 118], [key |-> 1, value |-> 119], [key |-> 0, value |-> 5]}

MCStamps == {[time |-> 1, time_ns |-> 0], [time |-> 300, time_ns |-> 7]}

MCLabels == {[topic |-> 0, source |-> 128], [topic |-> 127, source |-> 0]}

\* The varints SlsProtobuf writes are read back, around each change of length.
VarintRoundTrip ==
  \A value \in (0 .. 300) \cup (16380 .. 16390) \cup (2097150 .. 2097153) : ReadsBack(value)

ASSUME VarintRoundTrip
=============================================================================
