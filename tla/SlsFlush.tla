------------------------------ MODULE SlsFlush ------------------------------
(***************************************************************************)
(* cb_sls_flush (fluent_bit_out_aliyun_sls_plugin.c): the output callback  *)
(* that turns one chunk of Fluent Bit events into PutLogs requests.        *)
(*                                                                         *)
(* Fluent Bit runs one coroutine per chunk, on several worker threads; the *)
(* coroutines share the plugin context, whose only mutable parts are the   *)
(* two metrics. A coroutine yields inside PutLogs, while it waits for the  *)
(* network. It returns FLB_OK, FLB_RETRY or FLB_ERROR; after FLB_RETRY the *)
(* engine calls the callback again for the whole chunk.                    *)
(*                                                                         *)
(* An event of a chunk is a record [wire, form]:                           *)
(*   wire   the bytes its log adds to the encoded group (SlsLogGroup),     *)
(*   form   "fields"   it yields at least one usable key,                  *)
(*          "empty"    it yields none (an empty map, empty keys only),     *)
(*          "nul"      a usable key of it starts with a NUL and is cut to  *)
(*                     nothing by the C API (SlsRecord); wire is without   *)
(*                     that field,                                         *)
(*          "corrupt"  the event decoder does not return SUCCESS for it.   *)
(* A log of the group is [pos, built, counted]: the position of its event, *)
(* how much of the event it holds ("nothing": nothing the encoder takes),  *)
(* and the bytes it added to the size.                                     *)
(***************************************************************************)
EXTENDS Integers, SequencesExt

CONSTANTS
  Chunk,      \* the chunks routed to this output
  Events,     \* Events[c] : the sequence of events chunk c holds
  Overhead,   \* Overhead[c] : the bytes of topic and source in c's groups
  MaxRaw,     \* max_raw_bytes_per_batch
  MaxCalls,   \* bound: callback invocations per chunk (the engine's retry limit)
  MaxFaults   \* bound: failed allocations in a behaviour

Event == [wire : Nat \ {0}, form : {"fields", "empty", "nul", "corrupt"}]

ASSUME FlushAssumption ==
  /\ IsFiniteSet(Chunk)
  /\ Events \in [Chunk -> Seq(Event)]
  /\ Overhead \in [Chunk -> Nat]
  /\ MaxRaw \in Nat \ {0}
  /\ MaxCalls \in Nat \ {0}
  /\ MaxFaults \in Nat

VARIABLES
  flush,       \* the coroutine of each chunk, a record (see Idle)
  m_records,   \* the sls_records_total counter
  m_requests,  \* the sls_requests_total counter, by label
  faults,      \* ghost: failed allocations so far
  forwarded    \* ghost: logs in the requests written to the network

metrics == <<m_records, m_requests>>
vars == <<flush, metrics, faults, forwarded>>

Handle == {"decoder", "group", "result"}

\* A chunk the callback was not called for. `calls`, `batches` (the groups this
\* call has put, each with its result) and `skipped` (the positions no log was
\* put for) are ghosts; `owned` counts the C handles the coroutine holds.
Idle == [pc |-> "idle", site |-> "loop", next |-> 1, group |-> <<>>, encoded_size |-> 0,
         log_count |-> 0, result |-> "OK", ret |-> "none", owned |-> [h \in Handle |-> 0],
         calls |-> 0, batches |-> <<>>, skipped |-> {}]

Init ==
  /\ flush = [c \in Chunk |-> Idle]
  /\ m_records = 0
  /\ m_requests = [label \in {"ok", "retry", "error"} |-> 0]
  /\ faults = 0
  /\ forwarded = 0

Fault ==
  /\ faults < MaxFaults
  /\ faults' = faults + 1

Take(f, handles) ==
  [f EXCEPT !.owned = [h \in Handle |-> @[h] + (IF h \in handles THEN 1 ELSE 0)]]

Destroy(f, handles) ==
  [f EXCEPT !.owned = [h \in Handle |-> @[h] - (IF h \in handles THEN 1 ELSE 0)]]

\* FLB_OUTPUT_RETURN
Return(f, code) == [f EXCEPT !.pc = "returned", !.ret = code]

-----------------------------------------------------------------------------
(* Entry.                                                                  *)

\* The engine calls for a chunk it holds, or again after FLB_RETRY.
Callable(c) ==
  \/ flush[c].pc = "idle"
  \/ flush[c].ret = "FLB_RETRY" /\ flush[c].calls < MaxCalls

Called(c) == [Idle EXCEPT !.pc = "loop", !.calls = flush[c].calls + 1]

Start(c) ==
  /\ Callable(c)
  /\ flush' = [flush EXCEPT ![c] = Take(Called(c), {"decoder", "group"})]
  /\ UNCHANGED <<metrics, faults, forwarded>>

\* The decoder cannot be initialised or the first group cannot be allocated.
StartFails(c) ==
  /\ Callable(c)
  /\ Fault
  /\ flush' = [flush EXCEPT ![c] = Return(Called(c), "FLB_ERROR")]
  /\ UNCHANGED <<metrics, forwarded>>

-----------------------------------------------------------------------------
(* The decode loop.                                                        *)

\* flb_log_event_decoder_next returns SUCCESS: there is an event and it is sound.
Decodes(f, c) ==
  /\ f.next <= Len(Events[c])
  /\ Events[c][f.next].form # "corrupt"

\* The test that ends a batch.
Full(size) == size >= MaxRaw

Log(f, built, counted) == [pos |-> f.next, built |-> built, counted |-> counted]

\* One pass of the loop body: the event's log is built, its handle destroyed
\* (which counts its size, unless the log cannot be encoded), the limit tested.
AddRecord(c, built, counted) ==
  LET f    == flush[c]
      size == f.encoded_size + counted
  IN  /\ f.pc = "loop"
      /\ Decodes(f, c)
      /\ flush' = [flush EXCEPT ![c] =
           [f EXCEPT !.next = @ + 1,
                     !.group = Append(@, Log(f, built, counted)),
                     !.encoded_size = size,
                     !.log_count = @ + 1,
                     !.pc = IF Full(Overhead[c] + size) THEN "put" ELSE "loop"]]
      /\ UNCHANGED <<metrics, forwarded>>

DecodeRecord(c) ==
  /\ flush[c].pc = "loop" /\ Decodes(flush[c], c)
  /\ LET event == Events[c][flush[c].next]
     IN  IF event.form = "fields"
         THEN AddRecord(c, "whole", event.wire)
         ELSE AddRecord(c, "nothing", 0)
  /\ UNCHANGED faults

\* A failed allocation in the body of the loop: contents are lost (all of them,
\* or some, which leaves a smaller log, or one the encoder takes because the field
\* without a key is gone), or the log's size is not counted.
DecodeRecordOom(c) ==
  /\ flush[c].pc = "loop" /\ Decodes(flush[c], c)
  /\ Fault
  /\ LET event == Events[c][flush[c].next]
     IN  \/ AddRecord(c, "nothing", 0)
         \/ event.form = "fields" /\ AddRecord(c, "whole", 0)
         \/ event.form = "fields" /\ \E wire \in 1 .. event.wire - 1 : AddRecord(c, "part", wire)
         \/ event.form = "nul" /\ \E wire \in 1 .. event.wire : AddRecord(c, "part", wire)

\* add_log returned NULL: `continue`, without log_count++ or a look at the
\* limit. An empty log is in the group already, or none at all.
AddLogFails(c) ==
  /\ flush[c].pc = "loop" /\ Decodes(flush[c], c)
  /\ Fault
  /\ LET f == [flush[c] EXCEPT !.next = @ + 1]
     IN  \/ flush' = [flush EXCEPT ![c] = [f EXCEPT !.skipped = @ \cup {flush[c].next}]]
         \/ flush' = [flush EXCEPT ![c] =
                        [f EXCEPT !.group = Append(@, Log(flush[c], "nothing", 0))]]
  /\ UNCHANGED <<metrics, forwarded>>

\* Mutant of HasTail: a single record left over is not put.
HasTailOfTwo(f) == f.log_count > 1

HasTail(f) == f.log_count > 0

\* Mutant of AtEnd: the loop waits for an event while the group is empty.
AtEndOfTail(f, c) == ~Decodes(f, c) /\ f.log_count > 0

AtEnd(f, c) == ~Decodes(f, c)

\* The logs add_log left behind without a handle.
Orphans(group) == {group[i] : i \in {i \in DOMAIN group : group[i].built = "nothing"}}

\* The decoder is at the end, or at an event it cannot decode: the rest of the
\* group is put if there is something in it, and otherwise the chunk is done.
DecodeDone(c) ==
  /\ flush[c].pc = "loop" /\ AtEnd(flush[c], c)
  /\ LET f == Destroy(flush[c], {"decoder"})
     IN  flush' = [flush EXCEPT ![c] =
           IF HasTail(f)
           THEN [f EXCEPT !.pc = "put", !.site = "tail"]
           ELSE [Return(Destroy(f, {"group"}), "FLB_OK") EXCEPT
                   !.group = <<>>,
                   !.skipped = @ \cup {log.pos : log \in Orphans(f.group)}]]
  /\ UNCHANGED <<metrics, faults, forwarded>>

-----------------------------------------------------------------------------
(* aliyun_sls_client_put_logs; SlsClient models what happens inside.       *)

Encodable(group) == group # <<>> /\ \A i \in DOMAIN group : group[i].built # "nothing"

PutReturns(c, code) ==
  flush' = [flush EXCEPT ![c] = Take([@ EXCEPT !.pc = "answered", !.result = code], {"result"})]

\* The encoder rejects a group without logs, and one that holds a log without
\* contents or with an empty key.
PutRejected(c) ==
  /\ flush[c].pc = "put"
  /\ ~Encodable(flush[c].group)
  /\ PutReturns(c, "FATAL")
  /\ UNCHANGED <<metrics, faults, forwarded>>

\* Nothing is sent: there is no connection, or signing fails (RETRYABLE), or an
\* allocation fails (FATAL).
PutUnsent(c) ==
  /\ flush[c].pc = "put"
  /\ Encodable(flush[c].group)
  /\ \/ PutReturns(c, "RETRYABLE") /\ UNCHANGED faults
     \/ PutReturns(c, "FATAL") /\ Fault
  /\ UNCHANGED <<metrics, forwarded>>

\* The request goes out and the coroutine yields.
Send(c) ==
  /\ flush[c].pc = "put"
  /\ Encodable(flush[c].group)
  /\ flush' = [flush EXCEPT ![c].pc = "sent"]
  /\ forwarded' = forwarded + Len(flush[c].group)
  /\ UNCHANGED <<metrics, faults>>

\* The wait ends: a status of any class, a broken connection or a timeout, or no
\* memory left to take the answer in.
Answer(c, code) ==
  /\ flush[c].pc = "sent"
  /\ PutReturns(c, code)
  /\ UNCHANGED <<metrics, faults, forwarded>>

-----------------------------------------------------------------------------
(* The result of PutLogs.                                                  *)

\* Mutant of CountPut: a retry is counted as an error.
CountPutRetryAsError(c, label) ==
  /\ m_records' = m_records + flush[c].log_count
  /\ m_requests' = [m_requests EXCEPT ![IF label = "retry" THEN "error" ELSE label] = @ + 1]

\* Either call site counts the records before it looks at the result.
CountPut(c, label) ==
  /\ m_records' = m_records + flush[c].log_count
  /\ m_requests' = [m_requests EXCEPT ![label] = @ + 1]

\* The group and the result are destroyed; the ghost keeps them.
Put(f) ==
  [Destroy(f, {"result", "group"}) EXCEPT
     !.group = <<>>,
     !.batches = Append(@, [logs |-> f.group, result |-> f.result])]

\* Mutant of Close: the decoder is destroyed once more after the loop.
CloseTwice(f) == Destroy(Put(f), {"decoder"})

\* ... and the decoder, which the second call site has destroyed already.
Close(f) == IF f.site = "loop" THEN Destroy(Put(f), {"decoder"}) ELSE Put(f)

\* Mutants of HandleRetryable: the loop goes on without the batch; the call puts
\* the batch again by itself.
HandleRetryableGoOn(c) ==
  /\ flush[c].pc = "answered" /\ flush[c].result = "RETRYABLE"
  /\ CountPut(c, "retry")
  /\ flush' = [flush EXCEPT ![c] =
       IF @.site = "loop"
       THEN [Take(Put(@), {"group"}) EXCEPT !.encoded_size = 0, !.log_count = 0, !.pc = "loop"]
       ELSE Return(Close(@), "FLB_RETRY")]
  /\ UNCHANGED <<faults, forwarded>>

HandleRetryableAgain(c) ==
  /\ flush[c].pc = "answered" /\ flush[c].result = "RETRYABLE"
  /\ CountPut(c, "retry")
  /\ flush' = [flush EXCEPT ![c].pc = "put", ![c].owned["result"] = @ - 1]
  /\ UNCHANGED <<faults, forwarded>>

HandleRetryable(c) ==
  /\ flush[c].pc = "answered" /\ flush[c].result = "RETRYABLE"
  /\ CountPut(c, "retry")
  /\ flush' = [flush EXCEPT ![c] = Return(Close(@), "FLB_RETRY")]
  /\ UNCHANGED <<faults, forwarded>>

\* Mutants of HandleFatal: the engine is handed the client's code; a batch that
\* cannot be sent is left out, not reported.
HandleFatalRaw(c) ==
  /\ flush[c].pc = "answered" /\ flush[c].result = "FATAL"
  /\ CountPut(c, "error")
  /\ flush' = [flush EXCEPT ![c] = Return(Close(@), @.result)]
  /\ UNCHANGED <<faults, forwarded>>

HandleFatalGoOn(c) ==
  /\ flush[c].pc = "answered" /\ flush[c].result = "FATAL"
  /\ CountPut(c, "error")
  /\ flush' = [flush EXCEPT ![c] = Return(Close(@), "FLB_OK")]
  /\ UNCHANGED <<faults, forwarded>>

HandleFatal(c) ==
  /\ flush[c].pc = "answered" /\ flush[c].result = "FATAL"
  /\ CountPut(c, "error")
  /\ flush' = [flush EXCEPT ![c] = Return(Close(@), "FLB_ERROR")]
  /\ UNCHANGED <<faults, forwarded>>

\* Mutants of Renew: what is not reset for the next batch.
RenewNotSize(f) == [Take(f, {"group"}) EXCEPT !.log_count = 0, !.pc = "loop"]
RenewNotCount(f) == [Take(f, {"group"}) EXCEPT !.encoded_size = 0, !.pc = "loop"]
RenewNotGroup(f) ==
  [Take(f, {"group"}) EXCEPT !.group = f.batches[Len(f.batches)].logs,
                             !.encoded_size = 0, !.log_count = 0, !.pc = "loop"]

\* A new group, and on with the next event.
Renew(f) ==
  [Take(f, {"group"}) EXCEPT !.encoded_size = 0, !.log_count = 0, !.pc = "loop"]

HandleOk(c) ==
  /\ flush[c].pc = "answered" /\ flush[c].result = "OK" /\ flush[c].site = "loop"
  /\ CountPut(c, "ok")
  /\ flush' = [flush EXCEPT ![c] = Renew(Put(@))]
  /\ UNCHANGED <<faults, forwarded>>

\* The new group cannot be allocated.
HandleOkNoGroup(c) ==
  /\ flush[c].pc = "answered" /\ flush[c].result = "OK" /\ flush[c].site = "loop"
  /\ Fault
  /\ CountPut(c, "ok")
  /\ flush' = [flush EXCEPT ![c] = Return(Close(@), "FLB_ERROR")]
  /\ UNCHANGED forwarded

HandleOkTail(c) ==
  /\ flush[c].pc = "answered" /\ flush[c].result = "OK" /\ flush[c].site = "tail"
  /\ CountPut(c, "ok")
  /\ flush' = [flush EXCEPT ![c] = Return(Close(@), "FLB_OK")]
  /\ UNCHANGED <<faults, forwarded>>

-----------------------------------------------------------------------------

\* The steps the coroutine takes on its own; only Send is seen outside.
Compute(c) ==
  \/ DecodeRecord(c) \/ DecodeDone(c)
  \/ PutRejected(c)
  \/ HandleRetryable(c) \/ HandleFatal(c) \/ HandleOk(c) \/ HandleOkTail(c)

Step(c) == Compute(c) \/ Send(c)

\* The network or the service ends the wait.
Answers(c) == \E code \in {"OK", "RETRYABLE", "FATAL"} : Answer(c, code)

Failure(c) ==
  \/ StartFails(c) \/ DecodeRecordOom(c) \/ AddLogFails(c)
  \/ PutUnsent(c) \/ HandleOkNoGroup(c)

Next == \E c \in Chunk : Start(c) \/ Step(c) \/ Answers(c) \/ Failure(c)

Spec == Init /\ [][Next]_vars

\* The engine calls the callback for what it holds, its event loops resume a
\* coroutine that can run, and the connect and io timeouts end every wait.
Fairness ==
  \A c \in Chunk : WF_vars(Start(c)) /\ WF_vars(Step(c)) /\ WF_vars(Answers(c))

FairSpec == Spec /\ Fairness

-----------------------------------------------------------------------------

GroupLog == [pos : Nat \ {0}, built : {"whole", "part", "nothing"}, counted : Nat]
Batch == [logs : Seq(GroupLog), result : {"OK", "RETRYABLE", "FATAL"}]

Flush ==
  [pc : {"idle", "loop", "put", "sent", "answered", "returned"}, site : {"loop", "tail"},
   next : Nat \ {0}, group : Seq(GroupLog), encoded_size : Nat, log_count : Nat,
   result : {"OK", "RETRYABLE", "FATAL"},
   ret : {"none", "FLB_OK", "FLB_RETRY", "FLB_ERROR"}, owned : [Handle -> Int],
   calls : Nat, batches : Seq(Batch), skipped : SUBSET (Nat \ {0})]

\* The types of the variables; what a call hands the engine is one of the engine's
\* three codes, never a code of the client.
TypeOK ==
  /\ flush \in [Chunk -> Flush]
  /\ m_records \in Nat
  /\ m_requests \in [{"ok", "retry", "error"} -> Nat]
  /\ faults \in Nat
  /\ forwarded \in Nat

-----------------------------------------------------------------------------
(* What becomes of the records.                                            *)

Holds(logs, n) == \E i \in DOMAIN logs : logs[i].pos = n

\* Every event the decoder has passed is in a batch of this call, in the current
\* group, or among those that lost their log, and no event is there early.
NoRecordLost ==
  \A c \in Chunk : LET f == flush[c] IN
    \A n \in 1 .. Len(Events[c]) :
      n < f.next <=> \/ n \in f.skipped
                     \/ Holds(f.group, n)
                     \/ \E b \in DOMAIN f.batches : Holds(f.batches[b].logs, n)

Increasing(logs) == \A i, j \in DOMAIN logs : i < j => logs[i].pos < logs[j].pos

AllBefore(first, second) ==
  \A i \in DOMAIN first, j \in DOMAIN second : first[i].pos < second[j].pos

\* Within a call no event is put twice, and the service sees the events in the
\* order of the chunk, across the batches the chunk is cut into.
RecordsInOrder ==
  \A c \in Chunk : LET f == flush[c] IN
    /\ Increasing(f.group)
    /\ \A b \in DOMAIN f.batches :
         /\ Increasing(f.batches[b].logs)
         /\ AllBefore(f.batches[b].logs, f.group)
         /\ \A d \in DOMAIN f.batches :
              b < d => AllBefore(f.batches[b].logs, f.batches[d].logs)

\* FLB_OK is returned only when a batch the service accepted holds the event,
\* for every event up to the first one that cannot be decoded and except those
\* whose log could not be allocated.
OkMeansAccepted ==
  \A c \in Chunk : LET f == flush[c] IN
    f.ret = "FLB_OK" =>
      \A n \in 1 .. Len(Events[c]) :
        \/ n \in f.skipped
        \/ \E m \in 1 .. n : Events[c][m].form = "corrupt"
        \/ \E b \in DOMAIN f.batches :
             f.batches[b].result = "OK" /\ Holds(f.batches[b].logs, n)

\* The first put that is not accepted ends the call, with FLB_RETRY exactly when
\* the put was retryable: no later batch is sent and no failure is forgotten.
FailureEndsCall ==
  \A c \in Chunk : LET f == flush[c] IN
    /\ \A b \in DOMAIN f.batches : f.batches[b].result # "OK" => b = Len(f.batches)
    /\ \A b \in DOMAIN f.batches :
         /\ f.batches[b].result = "RETRYABLE" => f.ret = "FLB_RETRY"
         /\ f.batches[b].result = "FATAL" => f.ret = "FLB_ERROR"
    /\ f.ret = "FLB_RETRY" =>
         f.batches # <<>> /\ Last(f.batches).result = "RETRYABLE"

\* The record count that decides on the last put is that of the group at hand, not of
\* one that was sent before: no put is made of a group without logs, which the
\* encoder would reject and with it a chunk that is stored already.
NoEmptyPut == \A c \in Chunk : flush[c].pc = "put" => flush[c].group # <<>>

-----------------------------------------------------------------------------
(* The batch limit.                                                        *)

Size(logs) == FoldLeft(LAMBDA size, log : size + log.counted, 0, logs)

\* A batch is cut as soon as it reaches the limit, and not before: without its
\* last log it is below the limit (or it has no other), and only the last batch
\* of a call is below it with all its logs.
CutAtLimit ==
  \A c \in Chunk : \A b \in DOMAIN flush[c].batches :
    LET logs == flush[c].batches[b].logs
    IN  /\ Overhead[c] + Size(Front(logs)) < MaxRaw \/ Size(Front(logs)) = 0
        /\ b < Len(flush[c].batches) => Overhead[c] + Size(logs) >= MaxRaw

\* The configuration's "Maximum uncompressed bytes per LogGroup".
BatchWithinLimit ==
  \A c \in Chunk : \A b \in DOMAIN flush[c].batches :
    LET logs == flush[c].batches[b].logs
    IN  Overhead[c] + Size(logs) <= MaxRaw \/ Len(logs) = 1

-----------------------------------------------------------------------------
(* The C handles and the metrics.                                          *)

\* On each of the ways out every handle was destroyed exactly once, and none is
\* destroyed twice, or held twice, on the way.
HandlesBalanced ==
  \A c \in Chunk : \A h \in Handle :
    /\ flush[c].owned[h] \in 0 .. 1
    /\ flush[c].pc = "returned" => flush[c].owned[h] = 0

Retries(c) == flush[c].calls - (IF flush[c].ret = "FLB_RETRY" \/ flush[c].calls = 0 THEN 0 ELSE 1)

\* The "retry" label counts the calls the engine had to repeat, over all chunks:
\* every call of a chunk but the one that is under way or was the last.
RetriesCounted ==
  m_requests["retry"] = SumFunction([c \in Chunk |-> Retries(c)])

\* While no put is under way every record that was forwarded has been counted,
\* by whichever coroutine sent it.
ForwardedCounted ==
  (\A c \in Chunk : flush[c].pc \notin {"sent", "answered"}) => forwarded <= m_records

\* Neither counter misses what any of the coroutines did.
MetricsComplete == RetriesCounted /\ ForwardedCounted

\* A chunk the engine holds comes to an end: it is done, dropped, or retried as
\* often as the engine would.
ChunkEnds ==
  \A c \in Chunk :
    <>[](flush[c].pc = "returned" /\ (flush[c].ret = "FLB_RETRY" => flush[c].calls = MaxCalls))

=============================================================================
