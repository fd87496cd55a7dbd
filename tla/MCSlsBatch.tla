------------------------------ MODULE MCSlsBatch ------------------------------
(***************************************************************************)
(* SlsBatch on every sequence of up to four logs whose wire sizes are 1, 3 *)
(* or 6 bytes, in groups with two bytes of topic and source (so that a log *)
(* of 6 is over every byte limit by itself), or that cannot be encoded, and *)
(* with the limits on both sides of the interesting sizes.                 *)
(***************************************************************************)
EXTENDS SlsBatch, SequencesExt

MCLog == [wire : {1, 3, 6}, encodable : {TRUE}] \cup [wire : {1}, encodable : {FALSE}]

MCEncodable(log) == log.encodable

MCRawSize(g) == FoldLeft(LAMBDA size, log : size + log.wire, 2, g)

MCLogSeqs == BoundedSeq(MCLog, 4)

MCOptions == [max_logs : {0, 1, 3}, max_bytes : {0, 5, 6}]
=============================================================================
