---------------------------- MODULE ChunkDelivery ----------------------------
(***************************************************************************)
(* What an output promises of the chunks it is given: the records of a     *)
(* chunk reach the store as a prefix that only grows, and a chunk is done  *)
(* only when all of it is there. A chunk that is given up may have left    *)
(* any prefix behind, and the rest of it may still arrive.                 *)
(***************************************************************************)
EXTENDS Naturals

CONSTANTS
  Chunk,  \* the chunks the engine holds for the output
  Goal    \* Goal[c] : the number of records of c that can be delivered

VARIABLES
  delivered,  \* the length of the prefix of each chunk that is accounted for
  status      \* of each chunk: "held", "done" or "dropped"

vars == <<delivered, status>>

Init ==
  /\ delivered = [c \in Chunk |-> 0]
  /\ status = [c \in Chunk |-> "held"]

Deliver(c) ==
  /\ \E n \in delivered[c] + 1 .. Goal[c] : delivered' = [delivered EXCEPT ![c] = n]
  /\ UNCHANGED status

Finish(c) ==
  /\ status[c] = "held"
  /\ delivered[c] = Goal[c]
  /\ status' = [status EXCEPT ![c] = "done"]
  /\ UNCHANGED delivered

Drop(c) ==
  /\ status[c] = "held"
  /\ status' = [status EXCEPT ![c] = "dropped"]
  /\ UNCHANGED delivered

Next == \E c \in Chunk : Deliver(c) \/ Finish(c) \/ Drop(c)

\* No chunk is held for ever.
Spec == Init /\ [][Next]_vars /\ \A c \in Chunk : WF_vars(Finish(c) \/ Drop(c))

=============================================================================
