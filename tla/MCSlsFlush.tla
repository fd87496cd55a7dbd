----------------------------- MODULE MCSlsFlush -----------------------------
(***************************************************************************)
(* Two chunks for SlsFlush. `long` is cut into three batches: its first    *)
(* two events reach the limit exactly, the fourth is larger than the limit *)
(* and follows a small one, the last is a tail. `odd` has an event with a  *)
(* key that starts with a NUL and an event without usable fields between   *)
(* sound ones, and an event the decoder stops at.                          *)
(***************************************************************************)
EXTENDS SlsFlush

CONSTANTS long, odd

Fields(wire) == [wire |-> wire, form |-> "fields"]

MCEvents ==
  [c \in Chunk |->
     IF c = long
     THEN <<Fields(2), Fields(3), Fields(1), Fields(8), Fields(1)>>
     ELSE <<Fields(4), Fields(2), [wire |-> 2, form |-> "nul"],
            [wire |-> 1, form |-> "empty"], Fields(2),
            [wire |-> 3, form |-> "corrupt"], Fields(1)>>]

MCOverhead == [c \in Chunk |-> IF c = long THEN 1 ELSE 2]
=============================================================================
