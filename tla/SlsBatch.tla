------------------------------ MODULE SlsBatch ------------------------------
(***************************************************************************)
(* buildPutLogRequests (sls_batch.cpp): the library's own way of cutting a *)
(* sequence of logs into PutLogs requests. Unlike the flush loop of the    *)
(* plugin (SlsFlush) it looks at the size a group would have before it     *)
(* adds a log, and it has a limit on the number of logs too.               *)
(*                                                                         *)
(* A group is the sequence of the positions of its logs; what the encoder  *)
(* makes of a log and of a group is left to two parameters.                *)
(***************************************************************************)
EXTENDS Integers, Sequences

CONSTANTS
  Log,            \* the logs there are
  Encodable(_),   \* Encodable(log) : the encoder accepts the log
  RawSize(_),     \* RawSize(g) : the bytes of the encoded sequence of logs g
  LogSeqs,        \* the sequences of logs the function is called with
  Options         \* and the [max_logs, max_bytes] limits

ASSUME BatchAssumption ==
  /\ LogSeqs \subseteq Seq(Log)
  /\ Options \subseteq [max_logs : Nat, max_bytes : Nat]

VARIABLES
  logs, options,  \* the arguments
  next,           \* the position of the log the loop takes next
  current,        \* the group under construction
  requests,       \* the groups finished so far
  outcome         \* "validate", "loop", "returned" or "thrown"

arguments == <<logs, options>>
bvars == <<arguments, next, current, requests, outcome>>

BatchInit ==
  /\ logs \in LogSeqs
  /\ options \in Options
  /\ next = 1
  /\ current = <<>>
  /\ requests = <<>>
  /\ outcome = "validate"

\* validateOptions
Validate ==
  /\ outcome = "validate"
  /\ outcome' = IF options.max_logs = 0 \/ options.max_bytes = 0 THEN "thrown" ELSE "loop"
  /\ UNCHANGED <<arguments, next, current, requests>>

\* rawSize
Size(g) == RawSize([i \in DOMAIN g |-> logs[g[i]]])

Candidate == Append(current, next)

\* rawSize(candidate) is computed, and throws, unless there is no current group.
Measured == current # <<>>

MeasureThrows == Measured /\ \E i \in DOMAIN Candidate : ~Encodable(logs[Candidate[i]])

too_many_logs == Len(Candidate) > options.max_logs

Oversize(g) == Size(g) > options.max_bytes

\* Mutant of too_many_bytes: the size of the group as it is, not with the log.
too_many_bytes_before == Measured /\ Oversize(current)

\* Mutant of too_many_bytes: a group that just fits is too large.
too_many_bytes_reached == Measured /\ Size(Candidate) >= options.max_bytes

too_many_bytes == Measured /\ Oversize(Candidate)

\* Mutant of AddLog: the log that did not fit is not put in the next group.
AddLogDropped ==
  /\ outcome = "loop" /\ next <= Len(logs)
  /\ ~MeasureThrows
  /\ IF too_many_logs \/ too_many_bytes
     THEN requests' = Append(requests, current) /\ current' = <<>>
     ELSE current' = Candidate /\ UNCHANGED requests
  /\ next' = next + 1
  /\ UNCHANGED <<arguments, outcome>>

\* One pass of the loop.
AddLog ==
  /\ outcome = "loop" /\ next <= Len(logs)
  /\ ~MeasureThrows
  /\ IF too_many_logs \/ too_many_bytes
     THEN requests' = Append(requests, current) /\ current' = <<next>>
     ELSE current' = Candidate /\ UNCHANGED requests
  /\ next' = next + 1
  /\ UNCHANGED <<arguments, outcome>>

\* Mutant of AddLogThrows: a log that cannot be encoded is left out.
AddLogSkips ==
  /\ outcome = "loop" /\ next <= Len(logs)
  /\ MeasureThrows
  /\ current' = Candidate
  /\ next' = next + 1
  /\ UNCHANGED <<arguments, requests, outcome>>

\* std::invalid_argument from the encoder leaves the function.
AddLogThrows ==
  /\ outcome = "loop" /\ next <= Len(logs)
  /\ MeasureThrows
  /\ outcome' = "thrown"
  /\ UNCHANGED <<arguments, next, current, requests>>

\* The last group is pushed if it has a log, and the requests are returned.
Finish ==
  /\ outcome = "loop" /\ next > Len(logs)
  /\ requests' = IF current = <<>> THEN requests ELSE Append(requests, current)
  /\ current' = <<>>
  /\ outcome' = "returned"
  /\ UNCHANGED <<arguments, next>>

BatchNext == Validate \/ AddLog \/ AddLogThrows \/ Finish

BatchSpec == BatchInit /\ [][BatchNext]_bvars

-----------------------------------------------------------------------------

Group == Seq(1 .. Len(logs))

TypeOK ==
  /\ logs \in Seq(Log)
  /\ options \in [max_logs : Nat, max_bytes : Nat]
  /\ next \in 1 .. Len(logs) + 1
  /\ current \in Group
  /\ requests \in Seq(Group)
  /\ outcome \in {"validate", "loop", "returned", "thrown"}

Fits(g) ==
  /\ Len(g) \in 1 .. options.max_logs
  /\ Len(g) > 1 => ~Oversize(g)

\* Every request is within both limits, except that a single log larger than
\* the byte limit makes a request of its own; no request is empty.
RequestsFit == \A r \in DOMAIN requests : Fits(requests[r])

First(r) == requests[r][1]

Consecutive(g) == \A i \in DOMAIN g : g[i] = g[1] + i - 1

\* The requests that are returned hold every log exactly once, in order: each
\* begins where the one before it ended, the first with the first log and the
\* last with the last.
LogsPartitioned ==
  outcome = "returned" =>
    /\ \A r \in DOMAIN requests : Consecutive(requests[r])
    /\ \A r \in DOMAIN requests :
         First(r) + Len(requests[r]) = IF r < Len(requests) THEN First(r + 1) ELSE Len(logs) + 1
    /\ requests # <<>> => First(1) = 1
    /\ requests = <<>> => logs = <<>>

\* A log the encoder rejects is reported, unless it is the only one: then no
\* size was ever needed and the request that holds it is returned.
UnencodableThrows ==
  outcome = "returned" /\ Len(logs) > 1 => \A n \in DOMAIN logs : Encodable(logs[n])

\* What is returned is all of the logs, and each of them was looked at.
RequestsComplete == LogsPartitioned /\ UnencodableThrows

\* A request is not closed early: one more log would have gone over a limit.
RequestsFill ==
  \A r \in DOMAIN requests :
    LET following == First(r) + Len(requests[r])
        more      == Append(requests[r], following)
    IN  \/ following > Len(logs)
        \/ Len(more) > options.max_logs
        \/ Oversize(more)

=============================================================================
