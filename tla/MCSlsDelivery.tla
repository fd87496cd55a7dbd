---------------------------- MODULE MCSlsDelivery ----------------------------
(***************************************************************************)
(* One chunk of three batches for SlsDelivery, flushed up to three times   *)
(* by the engine, with one failed allocation in all of them. Coroutines of *)
(* different chunks share nothing that a request depends on (MCSlsFlush    *)
(* runs two of them), so one chunk shows what the retries of a chunk do.   *)
(***************************************************************************)
EXTENDS SlsDelivery

CONSTANT chunk

Fields(wire) == [wire |-> wire, form |-> "fields"]

MCEvents == [c \in Chunk |->
  <<Fields(2), Fields(2), Fields(4), Fields(1), [wire |-> 1, form |-> "corrupt"]>>]

MCOverhead == [c \in Chunk |-> 1]
=============================================================================
