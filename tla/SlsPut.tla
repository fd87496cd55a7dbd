------------------------------- MODULE SlsPut -------------------------------
(***************************************************************************)
(* What the flush callback relies on when it calls the client: the promise *)
(* of one PutLogs call. A group that can never be sent is refused for good; *)
(* any other group is written to the network at most once, and the call    *)
(* returns one code. RETRYABLE and FATAL say nothing about whether the     *)
(* service stored the group; OK is never returned for a group not sent.    *)
(***************************************************************************)

VARIABLES
  sendable,  \* the group has an encoding that fits a request
  phase,     \* "called", "sent" or "returned"
  code       \* the result's code, "none" before

vars == <<sendable, phase, code>>

Code == {"OK", "RETRYABLE", "FATAL"}

Init ==
  /\ sendable \in BOOLEAN
  /\ phase = "called"
  /\ code = "none"

Return(codes) ==
  /\ phase' = "returned"
  /\ code' \in codes
  /\ UNCHANGED sendable

\* The call gives up before anything is sent.
Refuse == phase = "called" /\ Return(IF sendable THEN {"RETRYABLE", "FATAL"} ELSE {"FATAL"})

Send ==
  /\ phase = "called" /\ sendable
  /\ phase' = "sent"
  /\ UNCHANGED <<sendable, code>>

\* The service answers, the connection breaks, or the answer cannot be taken in.
Respond == phase = "sent" /\ Return(Code)

Next == Refuse \/ Send \/ Respond

Spec == Init /\ [][Next]_vars /\ WF_vars(Next)

=============================================================================
