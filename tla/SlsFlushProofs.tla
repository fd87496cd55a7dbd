--------------------------- MODULE SlsFlushProofs ---------------------------
(***************************************************************************)
(* Theorems about cb_sls_flush, for every set of chunks, every sequence of *)
(* events, every limit and every number of retries and failed allocations: *)
(* the handles and the results of a call, the records of a chunk, and the  *)
(* sums, which are the size of a batch and the metrics. The last part is   *)
(* about SlsDelivery: what the store holds of the chunks, for any loss or  *)
(* delay of requests, and the steps of the refinement of ChunkDelivery.    *)
(***************************************************************************)
EXTENDS SlsDelivery, SlsLemmas

-----------------------------------------------------------------------------
(* Types of the helpers the steps are built from.                          *)

LEMMA OwnedType ==
  ASSUME NEW f \in Flush, NEW owned \in [Handle -> Int]
  PROVE  [f EXCEPT !.owned = owned] \in Flush
BY DEF Flush

LEMMA TakeType ==
  ASSUME NEW f \in Flush, NEW handles
  PROVE  Take(f, handles) \in Flush
<1> DEFINE owned == [h \in Handle |-> f.owned[h] + (IF h \in handles THEN 1 ELSE 0)]
<1>1. f.owned \in [Handle -> Int]
  BY DEF Flush
<1>2. owned \in [Handle -> Int]
  BY <1>1
<1>3. Take(f, handles) = [f EXCEPT !.owned = owned]
  BY DEF Take
<1> HIDE DEF owned
<1>4. QED
  BY <1>2, <1>3, OwnedType

LEMMA DestroyType ==
  ASSUME NEW f \in Flush, NEW handles
  PROVE  Destroy(f, handles) \in Flush
<1> DEFINE owned == [h \in Handle |-> f.owned[h] - (IF h \in handles THEN 1 ELSE 0)]
<1>1. f.owned \in [Handle -> Int]
  BY DEF Flush
<1>2. owned \in [Handle -> Int]
  BY <1>1
<1>3. Destroy(f, handles) = [f EXCEPT !.owned = owned]
  BY DEF Destroy
<1> HIDE DEF owned
<1>4. QED
  BY <1>2, <1>3, OwnedType

LEMMA ReturnType ==
  ASSUME NEW f \in Flush, NEW code \in {"FLB_OK", "FLB_RETRY", "FLB_ERROR"}
  PROVE  Return(f, code) \in Flush
BY DEF Return, Flush

LEMMA IdleType == Idle \in Flush
<1>1. [h \in Handle |-> 0] \in [Handle -> Int]
  OBVIOUS
<1>2. QED
  BY <1>1 DEF Idle, Flush

LEMMA CalledType ==
  ASSUME TypeOK, NEW c \in Chunk
  PROVE  Called(c) \in Flush
<1>1. flush[c].calls + 1 \in Nat
  BY DEF TypeOK, Flush
<1>2. QED
  BY <1>1, IdleType DEF Called, Flush

\* The group, and what is recorded of the groups before it, can be exchanged.
LEMMA GroupType ==
  ASSUME NEW f \in Flush, NEW batches \in Seq(Batch)
  PROVE  [f EXCEPT !.group = <<>>, !.batches = batches] \in Flush
<1>1. \A group \in Seq(GroupLog) : [f EXCEPT !.group = group, !.batches = batches] \in Flush
  BY DEF Flush
<1>2. <<>> \in Seq(GroupLog)
  OBVIOUS
<1>3. QED
  BY <1>1, <1>2

LEMMA PutType ==
  ASSUME NEW f \in Flush
  PROVE  Put(f) \in Flush
<1>1. [logs |-> f.group, result |-> f.result] \in Batch
  BY DEF Flush, Batch
<1>2. \A g \in Flush : [g EXCEPT !.group = <<>>,
                                !.batches = Append(@, [logs |-> f.group, result |-> f.result])] \in Flush
  <2>1. \A g \in Flush : Append(g.batches, [logs |-> f.group, result |-> f.result]) \in Seq(Batch)
    BY <1>1 DEF Flush
  <2>2. QED
    BY <2>1, GroupType
<1>3. QED
  BY <1>2, DestroyType DEF Put

LEMMA CloseType ==
  ASSUME NEW f \in Flush
  PROVE  Close(f) \in Flush
BY PutType, DestroyType DEF Close

LEMMA RenewType ==
  ASSUME NEW f \in Flush
  PROVE  Renew(f) \in Flush
<1>1. \A g \in Flush : [g EXCEPT !.encoded_size = 0, !.log_count = 0, !.pc = "loop"] \in Flush
  BY DEF Flush
<1>2. QED
  BY <1>1, TakeType DEF Renew

-----------------------------------------------------------------------------
(* Type correctness.                                                       *)

\* A step that replaces c's record by a record of Flush keeps `flush` typed.
LEMMA UpdateType ==
  ASSUME flush \in [Chunk -> Flush], NEW c \in Chunk, NEW f \in Flush,
         flush' = [flush EXCEPT ![c] = f]
  PROVE  flush' \in [Chunk -> Flush]
OBVIOUS

LEMMA AddRecordType ==
  ASSUME TypeOK, NEW c \in Chunk, NEW built \in {"whole", "part", "nothing"},
         NEW counted \in Nat, AddRecord(c, built, counted)
  PROVE  flush' \in [Chunk -> Flush] /\ UNCHANGED <<metrics, forwarded>>
<1> DEFINE f == flush[c]
           log == Log(f, built, counted)
           g == [f EXCEPT !.next = @ + 1,
                          !.group = Append(@, log),
                          !.encoded_size = @ + counted,
                          !.log_count = @ + 1,
                          !.pc = IF Full(Overhead[c] + (f.encoded_size + counted))
                                 THEN "put" ELSE "loop"]
<1>1. f \in Flush
  BY DEF TypeOK
<1>2. log \in GroupLog
  BY <1>1 DEF Log, GroupLog, Flush
<1>3. /\ f.next + 1 \in Nat \ {0}
      /\ Append(f.group, log) \in Seq(GroupLog)
      /\ f.encoded_size + counted \in Nat
      /\ f.log_count + 1 \in Nat
  <2> HIDE DEF log
  <2> QED BY <1>1, <1>2, SMTT(30) DEF Flush
<1>4. g \in Flush
  <2> HIDE DEF log
  <2> QED BY <1>1, <1>3 DEF Flush
<1>5. flush' = [flush EXCEPT ![c] = g]
  BY DEF AddRecord
<1> HIDE DEF g
<1>6. QED
  BY <1>4, <1>5 DEF AddRecord, TypeOK

\* Whatever the event, a pass of the loop that adds a log is one of AddRecord's.
LEMMA AnyRecord ==
  ASSUME TypeOK, NEW c \in Chunk, DecodeRecord(c) \/ DecodeRecordOom(c)
  PROVE  \E built \in {"whole", "part", "nothing"}, counted \in Nat : AddRecord(c, built, counted)
<1> DEFINE event == Events[c][flush[c].next]
<1>1. event \in Event
  BY FlushAssumption DEF DecodeRecord, DecodeRecordOom, Decodes, TypeOK, Flush
<1>2. event.wire \in Nat /\ \A wire \in 1 .. event.wire : wire \in Nat /\ wire - 1 \in Nat
  BY <1>1 DEF Event
<1> HIDE DEF event
<1>3. CASE DecodeRecord(c)
  BY <1>2, <1>3 DEF DecodeRecord, event
<1>4. CASE DecodeRecordOom(c)
  <2>1. \/ AddRecord(c, "nothing", 0)
        \/ AddRecord(c, "whole", 0)
        \/ \E wire \in 1 .. event.wire - 1 : AddRecord(c, "part", wire)
        \/ \E wire \in 1 .. event.wire : AddRecord(c, "part", wire)
    BY <1>4, Zenon DEF DecodeRecordOom, event
  <2>2. (\E wire \in 1 .. event.wire - 1 : AddRecord(c, "part", wire))
          => \E wire \in Nat : AddRecord(c, "part", wire)
    <3>1. 1 .. event.wire - 1 \subseteq Nat
      BY <1>2
    <3> QED
      BY <3>1, Zenon
  <2>3. (\E wire \in 1 .. event.wire : AddRecord(c, "part", wire))
          => \E wire \in Nat : AddRecord(c, "part", wire)
    BY <1>2, Zenon
  <2>4. 0 \in Nat
    OBVIOUS
  <2> QED
    BY <2>1, <2>2, <2>3, <2>4, Zenon
<1> QED
  BY <1>3, <1>4

LEMMA TypeInit == Init => TypeOK
BY IdleType DEF Init, TypeOK

LEMMA TypeStep == TypeOK /\ [Next]_vars => TypeOK'
<1> SUFFICES ASSUME TypeOK, [Next]_vars
             PROVE  TypeOK'
  OBVIOUS
<1> USE FlushAssumption
<1>1. ASSUME NEW c \in Chunk, Start(c)
      PROVE  TypeOK'
  BY <1>1, CalledType, TakeType DEF Start, TypeOK, metrics
<1>2. ASSUME NEW c \in Chunk, StartFails(c)
      PROVE  TypeOK'
  BY <1>2, CalledType, ReturnType DEF StartFails, Fault, TypeOK, metrics
<1>3. ASSUME NEW c \in Chunk, DecodeRecord(c)
      PROVE  TypeOK'
  <2>1. flush' \in [Chunk -> Flush] /\ UNCHANGED <<metrics, forwarded>>
    BY <1>3, AnyRecord, AddRecordType
  <2>2. QED
    BY <1>3, <2>1 DEF DecodeRecord, TypeOK, metrics
<1>4. ASSUME NEW c \in Chunk, DecodeRecordOom(c)
      PROVE  TypeOK'
  <2>1. flush' \in [Chunk -> Flush] /\ UNCHANGED <<metrics, forwarded>>
    BY <1>4, AnyRecord, AddRecordType
  <2>2. QED
    BY <1>4, <2>1 DEF DecodeRecordOom, Fault, TypeOK, metrics
<1>5. ASSUME NEW c \in Chunk, AddLogFails(c)
      PROVE  TypeOK'
  <2> DEFINE f == [flush[c] EXCEPT !.next = @ + 1]
             log == Log(flush[c], "nothing", 0)
  <2>1. flush[c] \in Flush
    BY DEF TypeOK
  <2>2. f \in Flush
    <3>1. flush[c].next + 1 \in Nat \ {0}
      BY <2>1 DEF Flush
    <3>2. QED
      BY <2>1, <3>1 DEF Flush
  <2>3. log \in GroupLog
    BY <2>1 DEF Log, GroupLog, Flush
  <2>4. \/ flush' = [flush EXCEPT ![c] = [f EXCEPT !.skipped = @ \cup {flush[c].next}]]
        \/ flush' = [flush EXCEPT ![c] = [f EXCEPT !.group = Append(@, log)]]
    BY <1>5 DEF AddLogFails
  <2>5. faults' \in Nat /\ UNCHANGED <<metrics, forwarded>>
    BY <1>5 DEF AddLogFails, Fault, TypeOK
  <2> HIDE DEF f, log
  <2>6. [f EXCEPT !.skipped = @ \cup {flush[c].next}] \in Flush
    <3>1. f.skipped \cup {flush[c].next} \in SUBSET (Nat \ {0})
      BY <2>1, <2>2 DEF Flush
    <3>2. QED
      BY <2>2, <3>1 DEF Flush
  <2>7. [f EXCEPT !.group = Append(@, log)] \in Flush
    <3>1. Append(f.group, log) \in Seq(GroupLog)
      BY <2>2, <2>3 DEF Flush
    <3>2. QED
      BY <2>2, <3>1 DEF Flush
  <2>8. flush' \in [Chunk -> Flush]
    BY <2>4, <2>6, <2>7, UpdateType DEF TypeOK
  <2>9. QED
    BY <2>5, <2>8 DEF TypeOK, metrics
<1>6. ASSUME NEW c \in Chunk, DecodeDone(c)
      PROVE  TypeOK'
  <2>1. PICK f \in Flush : f = Destroy(flush[c], {"decoder"})
    BY DestroyType DEF TypeOK
  <2>2. PICK g \in Flush : g = Return(Destroy(f, {"group"}), "FLB_OK")
    BY <2>1, DestroyType, ReturnType
  <2> DEFINE orphaned == {log.pos : log \in Orphans(f.group)}
  <2>3. orphaned \in SUBSET (Nat \ {0})
    <3>1. f.group \in Seq(GroupLog)
      BY <2>1 DEF Flush
    <3>2. \A log \in Orphans(f.group) : log \in GroupLog
      BY <3>1 DEF Orphans
    <3>3. QED
      BY <3>2 DEF GroupLog
  <2>4. flush' = [flush EXCEPT ![c] =
                   IF HasTail(f) THEN [f EXCEPT !.pc = "put", !.site = "tail"]
                   ELSE [g EXCEPT !.group = <<>>, !.skipped = @ \cup orphaned]]
    BY <1>6, <2>1, <2>2 DEF DecodeDone
  <2> HIDE DEF orphaned
  <2>5. [f EXCEPT !.pc = "put", !.site = "tail"] \in Flush
    BY <2>1, ZenonT(30) DEF Flush
  <2>6. [g EXCEPT !.group = <<>>, !.skipped = @ \cup orphaned] \in Flush
    <3>1. \A group \in Seq(GroupLog) : [g EXCEPT !.group = group, !.skipped = @ \cup orphaned] \in Flush
      BY <2>2, <2>3 DEF Flush
    <3>2. <<>> \in Seq(GroupLog)
      OBVIOUS
    <3>3. QED
      BY <3>1, <3>2
  <2>7. flush' \in [Chunk -> Flush]
    BY <2>4, <2>5, <2>6 DEF TypeOK
  <2>8. QED
    BY <1>6, <2>7 DEF DecodeDone, TypeOK, metrics
<1>7. ASSUME NEW c \in Chunk, NEW code \in {"OK", "RETRYABLE", "FATAL"}, PutReturns(c, code)
      PROVE  flush' \in [Chunk -> Flush]
  <2>1. [flush[c] EXCEPT !.pc = "answered", !.result = code] \in Flush
    <3>1. flush[c] \in Flush
      BY DEF TypeOK
    <3>2. QED
      BY <3>1 DEF Flush
  <2>2. QED
    BY <1>7, <2>1, TakeType DEF PutReturns, TypeOK
<1>8. ASSUME NEW c \in Chunk, PutRejected(c) \/ PutUnsent(c) \/ Answers(c)
      PROVE  TypeOK'
  BY <1>7, <1>8 DEF PutRejected, PutUnsent, Answers, Answer, Fault, TypeOK, metrics
<1>9. ASSUME NEW c \in Chunk, Send(c)
      PROVE  TypeOK'
  <2>1. flush[c] \in Flush
    BY DEF TypeOK
  <2>2. [flush[c] EXCEPT !.pc = "sent"] \in Flush
    BY <2>1 DEF Flush
  <2>3. Len(flush[c].group) \in Nat
    BY <2>1 DEF Flush
  <2>4. flush' \in [Chunk -> Flush]
    BY <1>9, <2>2 DEF Send, TypeOK
  <2>5. forwarded' \in Nat
    BY <1>9, <2>3 DEF Send, TypeOK
  <2>6. QED
    BY <1>9, <2>4, <2>5 DEF Send, TypeOK, metrics
<1>10. ASSUME NEW c \in Chunk, NEW label \in {"ok", "retry", "error"}, CountPut(c, label)
       PROVE  m_records' \in Nat /\ m_requests' \in [{"ok", "retry", "error"} -> Nat]
  <2>1. flush[c].log_count \in Nat
    BY DEF TypeOK, Flush
  <2>2. QED
    <3>1. m_records' \in Nat
      BY <1>10, <2>1 DEF CountPut, TypeOK
    <3>2. m_requests' \in [{"ok", "retry", "error"} -> Nat]
      BY <1>10, SMTT(20) DEF CountPut, TypeOK
    <3> QED
      BY <3>1, <3>2
<1>11. ASSUME NEW c \in Chunk, HandleRetryable(c)
       PROVE  TypeOK'
  BY <1>10, <1>11, CloseType, ReturnType DEF HandleRetryable, TypeOK
<1>12. ASSUME NEW c \in Chunk, HandleFatal(c)
       PROVE  TypeOK'
  BY <1>10, <1>12, CloseType, ReturnType DEF HandleFatal, TypeOK
<1>13. ASSUME NEW c \in Chunk, HandleOk(c)
       PROVE  TypeOK'
  BY <1>10, <1>13, PutType, RenewType DEF HandleOk, TypeOK
<1>14. ASSUME NEW c \in Chunk, HandleOkNoGroup(c)
       PROVE  TypeOK'
  BY <1>10, <1>14, CloseType, ReturnType DEF HandleOkNoGroup, Fault, TypeOK
<1>15. ASSUME NEW c \in Chunk, HandleOkTail(c)
       PROVE  TypeOK'
  BY <1>10, <1>15, CloseType, ReturnType DEF HandleOkTail, TypeOK
<1>16. CASE UNCHANGED vars
  BY <1>16 DEF vars, metrics, TypeOK
<1>17. QED
  BY <1>1, <1>2, <1>3, <1>4, <1>5, <1>6, <1>8, <1>9, <1>11, <1>12, <1>13, <1>14, <1>15, <1>16
     DEF Next, Step, Compute, Failure

\* Whatever the chunk holds and whatever fails, the state of every coroutine
\* and the two metrics stay what cb_sls_flush declares them to be.
THEOREM FlushTypeCorrect == Spec => []TypeOK
<1>1. QED
  BY TypeInit, TypeStep, PTL DEF Spec

-----------------------------------------------------------------------------
(* How a call ends: its handles and its results.                           *)

\* The handles a coroutine holds at each place of the callback.
Owns(f) ==
  CASE f.pc \in {"idle", "returned"}          -> {}
    [] f.pc = "answered" /\ f.site = "loop"   -> {"decoder", "group", "result"}
    [] f.pc = "answered" /\ f.site = "tail"   -> {"group", "result"}
    [] f.pc \in {"put", "sent"} /\ f.site = "tail" -> {"group"}
    [] OTHER                                  -> {"decoder", "group"}

HandlesOf(f) == f.owned = [h \in Handle |-> IF h \in Owns(f) THEN 1 ELSE 0]

AllOk(f) == \A b \in DOMAIN f.batches : f.batches[b].result = "OK"

ResultsOf(f) ==
  /\ \A b \in DOMAIN f.batches : f.batches[b].result # "OK" => b = Len(f.batches)
  /\ \A b \in DOMAIN f.batches :
       /\ f.batches[b].result = "RETRYABLE" => f.ret = "FLB_RETRY"
       /\ f.batches[b].result = "FATAL" => f.ret = "FLB_ERROR"
  /\ f.ret = "FLB_RETRY" =>
       f.batches # <<>> /\ f.batches[Len(f.batches)].result = "RETRYABLE"

\* A call that has not returned has had only accepted batches.
CallInv(f) ==
  /\ f.pc = "loop" => f.site = "loop"
  /\ HandlesOf(f)
  /\ f.pc # "returned" => f.ret = "none" /\ AllOk(f)
  /\ ResultsOf(f)

LEMMA UpdateInv ==
  ASSUME TypeOK, \A d \in Chunk : CallInv(flush[d]), NEW c \in Chunk, NEW g, CallInv(g),
         flush' = [flush EXCEPT ![c] = g]
  PROVE  \A d \in Chunk : CallInv(flush'[d])
BY DEF TypeOK

LEMMA TakeFields ==
  ASSUME NEW f \in Flush, NEW handles
  PROVE  /\ Take(f, handles).pc = f.pc /\ Take(f, handles).site = f.site
         /\ Take(f, handles).ret = f.ret /\ Take(f, handles).batches = f.batches
         /\ Take(f, handles).owned =
              [h \in Handle |-> f.owned[h] + (IF h \in handles THEN 1 ELSE 0)]
BY DEF Take, Flush

LEMMA DestroyFields ==
  ASSUME NEW f \in Flush, NEW handles
  PROVE  /\ Destroy(f, handles).pc = f.pc /\ Destroy(f, handles).site = f.site
         /\ Destroy(f, handles).ret = f.ret /\ Destroy(f, handles).batches = f.batches
         /\ Destroy(f, handles).owned =
              [h \in Handle |-> f.owned[h] - (IF h \in handles THEN 1 ELSE 0)]
BY DEF Destroy, Flush

LEMMA PutFields ==
  ASSUME NEW f \in Flush
  PROVE  /\ Put(f).pc = f.pc /\ Put(f).site = f.site /\ Put(f).ret = f.ret
         /\ Put(f).batches = Append(f.batches, [logs |-> f.group, result |-> f.result])
         /\ Put(f).owned =
              [h \in Handle |-> f.owned[h] - (IF h \in {"result", "group"} THEN 1 ELSE 0)]
<1>1. Destroy(f, {"result", "group"}) \in Flush
  BY DestroyType
<1>2. \A g \in Flush : LET p == [g EXCEPT !.group = <<>>,
                                 !.batches = Append(@, [logs |-> f.group, result |-> f.result])]
                    IN /\ p.pc = g.pc /\ p.site = g.site /\ p.ret = g.ret /\ p.owned = g.owned
                       /\ p.batches = Append(g.batches, [logs |-> f.group, result |-> f.result])
  BY DEF Flush
<1>3. LET g == Destroy(f, {"result", "group"})
      IN  g.pc = f.pc /\ g.site = f.site /\ g.ret = f.ret /\ g.batches = f.batches
  BY DEF Destroy, Flush
<1>4. QED
  BY <1>1, <1>2, <1>3, DestroyFields DEF Put

LEMMA CloseFields ==
  ASSUME NEW f \in Flush, f.pc = "answered", HandlesOf(f)
  PROVE  /\ Close(f).batches = Append(f.batches, [logs |-> f.group, result |-> f.result])
         /\ Close(f).owned = [h \in Handle |-> 0]
<1>1. f.site \in {"loop", "tail"}
  BY DEF Flush
<1>2. CASE f.site = "loop"
  <2>1. Close(f) = Destroy(Put(f), {"decoder"})
    BY <1>2 DEF Close
  <2>2. /\ Close(f).owned = [h \in Handle |-> Put(f).owned[h] - (IF h \in {"decoder"} THEN 1 ELSE 0)]
        /\ Close(f).batches = Put(f).batches
    BY <2>1, PutType, DestroyFields DEF Destroy, Flush
  <2>3. f.owned = [h \in Handle |-> IF h \in {"decoder", "group", "result"} THEN 1 ELSE 0]
    BY <1>2 DEF HandlesOf, Owns
  <2>4. \A h \in Handle : Put(f).owned[h] = IF h = "decoder" THEN 1 ELSE 0
    <3>1. \A h \in Handle : f.owned[h] = 1
      BY <2>3 DEF Handle
    <3>2. \A h \in Handle : Put(f).owned[h] = f.owned[h] - (IF h \in {"result", "group"} THEN 1 ELSE 0)
      BY PutFields
    <3>3. QED
      BY <3>1, <3>2 DEF Handle
  <2>5. \A h \in Handle : Put(f).owned[h] - (IF h \in {"decoder"} THEN 1 ELSE 0) = 0
    BY <2>4
  <2>6. Close(f).owned = [h \in Handle |-> 0]
    BY <2>2, <2>5
  <2>7. QED
    BY <2>2, <2>6, PutFields
<1>3. CASE f.site = "tail"
  <2>1. Close(f) = Put(f)
    BY <1>3 DEF Close
  <2>2. f.owned = [h \in Handle |-> IF h \in {"group", "result"} THEN 1 ELSE 0]
    BY <1>3 DEF HandlesOf, Owns
  <2>3. QED
    BY <2>1, <2>2, PutFields DEF Handle
<1>4. QED
  BY <1>1, <1>2, <1>3

\* Every way out of the callback after a put.
LEMMA EndsCall ==
  ASSUME NEW f \in Flush, CallInv(f), f.pc = "answered",
         NEW code \in {"FLB_OK", "FLB_RETRY", "FLB_ERROR"},
         f.result = "RETRYABLE" <=> code = "FLB_RETRY",
         f.result = "FATAL" => code = "FLB_ERROR"
  PROVE  CallInv(Return(Close(f), code))
<1> DEFINE g == Return(Close(f), code)
           batch == [logs |-> f.group, result |-> f.result]
<1>1. g.pc = "returned" /\ g.ret = code /\ g.batches = Close(f).batches /\ g.owned = Close(f).owned
  BY CloseType DEF Return, Flush
<1>2. g.batches = Append(f.batches, batch) /\ g.owned = [h \in Handle |-> 0]
  BY <1>1, CloseFields DEF CallInv
<1> HIDE DEF g
<1>3. HandlesOf(g)
  BY <1>1, <1>2 DEF HandlesOf, Owns
<1>4. f.batches \in Seq(Batch) /\ AllOk(f)
  BY DEF Flush, CallInv
<1>5. \A b \in DOMAIN g.batches :
        \/ b = Len(g.batches) /\ g.batches[b] = batch
        \/ g.batches[b].result = "OK"
  BY <1>2, <1>4 DEF AllOk
<1>6. g.batches # <<>> /\ g.batches[Len(g.batches)] = batch
  BY <1>2, <1>4
<1>7. batch.result = f.result
  OBVIOUS
<1> HIDE DEF batch
<1>8. ResultsOf(g)
  BY <1>1, <1>5, <1>6, <1>7 DEF ResultsOf
<1>9. QED
  BY <1>1, <1>3, <1>8 DEF CallInv, g

\* The invariant looks at five fields only; and within the callback the place
\* can change as long as the same handles belong to it.
LEMMA SameView ==
  ASSUME NEW f, NEW g, CallInv(f), f.pc # "returned", g.pc # "returned",
         g.pc = "loop" => g.site = "loop", Owns(g) = Owns(f),
         g.ret = f.ret, g.batches = f.batches, g.owned = f.owned
  PROVE  CallInv(g)
BY DEF CallInv, HandlesOf, AllOk, ResultsOf

LEMMA CallInvInit == Init => \A c \in Chunk : CallInv(flush[c])
<1>1. CallInv(Idle)
  BY DEF CallInv, Idle, HandlesOf, Owns, AllOk, ResultsOf
<1>2. QED
  BY <1>1 DEF Init

LEMMA CallInvStep ==
  TypeOK /\ (\A c \in Chunk : CallInv(flush[c])) /\ [Next]_vars
    => (\A c \in Chunk : CallInv(flush[c]))'
<1> SUFFICES ASSUME TypeOK, \A c \in Chunk : CallInv(flush[c]), [Next]_vars
             PROVE  \A c \in Chunk : CallInv(flush'[c])
  OBVIOUS
<1> USE FlushAssumption
<1>0. ASSUME NEW c \in Chunk
      PROVE  /\ flush[c] \in Flush /\ CallInv(flush[c])
             /\ Called(c) \in Flush /\ Called(c).pc = "loop" /\ Called(c).site = "loop"
             /\ Called(c).ret = "none" /\ Called(c).batches = <<>>
             /\ Called(c).owned = [h \in Handle |-> 0]
  <2>1. flush[c] \in Flush /\ CallInv(flush[c]) /\ Called(c) \in Flush
    BY CalledType DEF TypeOK
  <2>2. QED
    BY <2>1 DEF Called, Idle
<1>1. ASSUME NEW c \in Chunk, Start(c)
      PROVE  \A d \in Chunk : CallInv(flush'[d])
  <2> DEFINE g == Take(Called(c), {"decoder", "group"})
  <2>1. /\ g.pc = "loop" /\ g.site = "loop" /\ g.ret = "none" /\ g.batches = <<>>
        /\ g.owned = [h \in Handle |-> IF h \in {"decoder", "group"} THEN 1 ELSE 0]
    BY <1>0, TakeFields DEF Take, Flush
  <2> HIDE DEF g
  <2>2. CallInv(g)
    BY <2>1 DEF CallInv, HandlesOf, Owns, AllOk, ResultsOf
  <2>3. QED
    BY <1>1, <2>2, UpdateInv DEF Start, g
<1>2. ASSUME NEW c \in Chunk, StartFails(c)
      PROVE  \A d \in Chunk : CallInv(flush'[d])
  <2> DEFINE g == Return(Called(c), "FLB_ERROR")
  <2>1. /\ g.pc = "returned" /\ g.ret = "FLB_ERROR" /\ g.batches = <<>>
        /\ g.owned = [h \in Handle |-> 0]
    BY <1>0 DEF Return, Flush
  <2> HIDE DEF g
  <2>2. CallInv(g)
    BY <2>1 DEF CallInv, HandlesOf, Owns, AllOk, ResultsOf
  <2>3. QED
    BY <1>2, <2>2, UpdateInv DEF StartFails, g
<1>3. ASSUME NEW c \in Chunk, NEW built, NEW counted, AddRecord(c, built, counted)
      PROVE  \A d \in Chunk : CallInv(flush'[d])
  <2> DEFINE f == flush[c]
             g == [f EXCEPT !.next = @ + 1,
                            !.group = Append(@, Log(f, built, counted)),
                            !.encoded_size = @ + counted,
                            !.log_count = @ + 1,
                            !.pc = IF Full(Overhead[c] + (f.encoded_size + counted))
                                   THEN "put" ELSE "loop"]
  <2>1. f.pc = "loop" /\ f.site = "loop" /\ f \in Flush
    BY <1>0, <1>3 DEF AddRecord, CallInv
  <2>2. /\ g.pc \in {"loop", "put"} /\ g.site = "loop" /\ g.ret = f.ret
        /\ g.batches = f.batches /\ g.owned = f.owned
    BY <2>1 DEF Flush
  <2>3. flush' = [flush EXCEPT ![c] = g]
    BY <1>3 DEF AddRecord
  <2> HIDE DEF g
  <2>4. CallInv(g)
    BY <1>0, <2>1, <2>2, SameView DEF Owns
  <2>5. QED
    BY <2>3, <2>4, UpdateInv
<1>4. ASSUME NEW c \in Chunk, DecodeRecord(c) \/ DecodeRecordOom(c)
      PROVE  \A d \in Chunk : CallInv(flush'[d])
  BY <1>3, <1>4 DEF DecodeRecord, DecodeRecordOom
<1>5. ASSUME NEW c \in Chunk, AddLogFails(c)
      PROVE  \A d \in Chunk : CallInv(flush'[d])
  <2> DEFINE f == [flush[c] EXCEPT !.next = @ + 1]
             g1 == [f EXCEPT !.skipped = @ \cup {flush[c].next}]
             g2 == [f EXCEPT !.group = Append(@, Log(flush[c], "nothing", 0))]
  <2>1. flush[c].pc = "loop" /\ flush[c].site = "loop" /\ flush[c] \in Flush
    BY <1>0, <1>5 DEF AddLogFails, CallInv
  <2>2. \A g \in {g1, g2} :
          /\ g.pc = "loop" /\ g.site = "loop" /\ g.ret = flush[c].ret
          /\ g.batches = flush[c].batches /\ g.owned = flush[c].owned
    BY <2>1 DEF Flush
  <2>3. \E g \in {g1, g2} : flush' = [flush EXCEPT ![c] = g]
    BY <1>5 DEF AddLogFails
  <2> HIDE DEF f, g1, g2
  <2>4. \A g \in {g1, g2} : CallInv(g)
    BY <1>0, <2>1, <2>2, SameView DEF Owns
  <2>5. QED
    BY <2>3, <2>4, UpdateInv
<1>6. ASSUME NEW c \in Chunk, DecodeDone(c)
      PROVE  \A d \in Chunk : CallInv(flush'[d])
  <2> DEFINE f == Destroy(flush[c], {"decoder"})
             g == [f EXCEPT !.pc = "put", !.site = "tail"]
             e == Return(Destroy(f, {"group"}), "FLB_OK")
             h == [e EXCEPT !.group = <<>>,
                            !.skipped = @ \cup {log.pos : log \in Orphans(f.group)}]
  <2>1. /\ flush[c].pc = "loop" /\ flush[c].site = "loop" /\ flush[c] \in Flush
        /\ flush[c].ret = "none" /\ AllOk(flush[c])
        /\ flush[c].owned = [x \in Handle |-> IF x \in {"decoder", "group"} THEN 1 ELSE 0]
    <3>1. flush[c].pc = "loop"
      BY <1>6 DEF DecodeDone
    <3>2. Owns(flush[c]) = {"decoder", "group"}
      BY <3>1 DEF Owns
    <3>3. flush[c].owned = [x \in Handle |-> IF x \in Owns(flush[c]) THEN 1 ELSE 0]
      BY <1>0 DEF CallInv, HandlesOf
    <3>4. flush[c].site = "loop" /\ flush[c] \in Flush /\ flush[c].ret = "none" /\ AllOk(flush[c])
      BY <1>0, <3>1 DEF CallInv
    <3>5. QED
      BY <3>1, <3>2, <3>3, <3>4
  <2>2. /\ f \in Flush /\ f.ret = "none" /\ f.batches = flush[c].batches
        /\ f.owned = [x \in Handle |-> flush[c].owned[x] - (IF x \in {"decoder"} THEN 1 ELSE 0)]
    <3>1. flush[c] \in Flush /\ flush[c].ret = "none"
      BY <2>1
    <3>2. f \in Flush
      BY <3>1, DestroyType
    <3>3. /\ f.ret = flush[c].ret /\ f.batches = flush[c].batches
          /\ f.owned = [x \in Handle |-> flush[c].owned[x] - (IF x \in {"decoder"} THEN 1 ELSE 0)]
      BY <3>1, DestroyFields
    <3>4. QED
      BY <3>1, <3>2, <3>3
  <2>3. \A x \in Handle : f.owned[x] = IF x \in {"group"} THEN 1 ELSE 0
    BY <2>1, <2>2 DEF Handle
  <2> HIDE DEF f
  <2>4. /\ g.pc = "put" /\ g.site = "tail" /\ g.ret = "none" /\ g.batches = f.batches
        /\ g.owned = f.owned
    BY <2>2 DEF Flush
  <2>5. f.owned = [x \in Handle |-> IF x \in {"group"} THEN 1 ELSE 0]
    BY <2>2, <2>3
  <2>6. CallInv(g)
    <3> HIDE DEF g
    <3> QED
      BY <2>1, <2>2, <2>4, <2>5 DEF CallInv, HandlesOf, Owns, AllOk, ResultsOf
  <2>7. Destroy(f, {"group"}) \in Flush /\ Destroy(f, {"group"}).batches = f.batches
    BY <2>2, DestroyType, DestroyFields
  <2>8. Destroy(f, {"group"}).owned = [x \in Handle |-> 0]
    <3>1. Destroy(f, {"group"}).owned =
            [x \in Handle |-> f.owned[x] - (IF x \in {"group"} THEN 1 ELSE 0)]
      BY <2>2, DestroyFields
    <3>2. QED
      BY <2>3, <3>1
  <2>9. /\ e \in Flush /\ e.pc = "returned" /\ e.ret = "FLB_OK" /\ e.batches = f.batches
        /\ e.owned = [x \in Handle |-> 0]
    BY <2>7, <2>8, ReturnType DEF Return, Flush
  <2> HIDE DEF e
  <2>10. /\ h.pc = "returned" /\ h.ret = "FLB_OK" /\ h.batches = f.batches
         /\ h.owned = [x \in Handle |-> 0]
    BY <2>9 DEF Flush
  <2>11. CallInv(h)
    <3> HIDE DEF h
    <3> QED
      BY <2>1, <2>2, <2>10 DEF CallInv, HandlesOf, Owns, AllOk, ResultsOf
  <2>12. flush' = [flush EXCEPT ![c] = g] \/ flush' = [flush EXCEPT ![c] = h]
    BY <1>6 DEF DecodeDone, f, e
  <2> HIDE DEF g, h
  <2>13. QED
    BY <2>6, <2>11, <2>12, UpdateInv
<1>7. ASSUME NEW c \in Chunk, NEW code \in {"OK", "RETRYABLE", "FATAL"},
             PutReturns(c, code), flush[c].pc \in {"put", "sent"}
      PROVE  \A d \in Chunk : CallInv(flush'[d])
  <2> DEFINE f == [flush[c] EXCEPT !.pc = "answered", !.result = code]
             g == Take(f, {"result"})
  <2>1. /\ f \in Flush /\ f.pc = "answered" /\ f.site = flush[c].site /\ f.ret = flush[c].ret
        /\ f.batches = flush[c].batches /\ f.owned = flush[c].owned
    <3>1. flush[c] \in Flush
      BY <1>0
    <3>2. QED
      BY <3>1 DEF Flush
  <2> HIDE DEF f
  <2>2. /\ g.pc = f.pc /\ g.site = f.site /\ g.ret = f.ret /\ g.batches = f.batches
        /\ g.owned = [h \in Handle |-> f.owned[h] + (IF h \in {"result"} THEN 1 ELSE 0)]
    BY <2>1, TakeFields DEF Take, Flush
  <2> HIDE DEF g
  <2>3. Owns(g) = Owns(flush[c]) \cup {"result"} /\ "result" \notin Owns(flush[c])
    <3>1. flush[c].site \in {"loop", "tail"}
      BY <1>0 DEF Flush
    <3>2. CASE flush[c].site = "loop"
      BY <1>7, <2>1, <2>2, <3>2 DEF Owns
    <3>3. CASE flush[c].site = "tail"
      BY <1>7, <2>1, <2>2, <3>3 DEF Owns
    <3>4. QED
      BY <3>1, <3>2, <3>3
  <2>4. flush[c].owned = [h \in Handle |-> IF h \in Owns(flush[c]) THEN 1 ELSE 0]
    BY <1>0 DEF CallInv, HandlesOf
  <2>5. \A h \in Handle : g.owned[h] = IF h \in Owns(g) THEN 1 ELSE 0
    BY <2>1, <2>2, <2>3, <2>4
  <2>6. HandlesOf(g)
    BY <2>2, <2>5 DEF HandlesOf
  <2>7. CallInv(g)
    BY <1>0, <1>7, <2>1, <2>2, <2>6 DEF CallInv, AllOk, ResultsOf
  <2>8. QED
    BY <1>7, <2>7, UpdateInv DEF PutReturns, f, g
<1>8. ASSUME NEW c \in Chunk, PutRejected(c) \/ PutUnsent(c) \/ Answers(c)
      PROVE  \A d \in Chunk : CallInv(flush'[d])
  BY <1>7, <1>8 DEF PutRejected, PutUnsent, Answers, Answer
<1>9. ASSUME NEW c \in Chunk, Send(c)
      PROVE  \A d \in Chunk : CallInv(flush'[d])
  <2> DEFINE g == [flush[c] EXCEPT !.pc = "sent"]
  <2>1. /\ flush[c].pc = "put" /\ g.pc = "sent" /\ g.site = flush[c].site
        /\ g.ret = flush[c].ret /\ g.batches = flush[c].batches /\ g.owned = flush[c].owned
    BY <1>0, <1>9 DEF Send, Flush
  <2>2. flush' = [flush EXCEPT ![c] = g]
    BY <1>9 DEF Send
  <2> HIDE DEF g
  <2>3. CallInv(g)
    BY <1>0, <2>1, SameView DEF Owns
  <2>4. QED
    BY <2>2, <2>3, UpdateInv
<1>10. ASSUME NEW c \in Chunk,
              \/ HandleRetryable(c) \/ HandleFatal(c) \/ HandleOkNoGroup(c) \/ HandleOkTail(c)
       PROVE  \A d \in Chunk : CallInv(flush'[d])
  <2>1. \E code \in {"FLB_OK", "FLB_RETRY", "FLB_ERROR"} :
          /\ flush[c].pc = "answered"
          /\ flush[c].result = "RETRYABLE" <=> code = "FLB_RETRY"
          /\ flush[c].result = "FATAL" => code = "FLB_ERROR"
          /\ flush' = [flush EXCEPT ![c] = Return(Close(flush[c]), code)]
    BY <1>10 DEF HandleRetryable, HandleFatal, HandleOkNoGroup, HandleOkTail
  <2>2. QED
    BY <1>0, <2>1, EndsCall, UpdateInv
<1>11. ASSUME NEW c \in Chunk, HandleOk(c)
       PROVE  \A d \in Chunk : CallInv(flush'[d])
  <2> DEFINE f == flush[c]
             p == Put(f)
             t == Take(p, {"group"})
             g == [t EXCEPT !.encoded_size = 0, !.log_count = 0, !.pc = "loop"]
             batch == [logs |-> f.group, result |-> f.result]
  <2>1. /\ f \in Flush /\ f.pc = "answered" /\ f.site = "loop" /\ batch.result = "OK"
        /\ f.ret = "none" /\ AllOk(f) /\ f.batches \in Seq(Batch)
        /\ f.owned = [h \in Handle |-> IF h \in {"decoder", "group", "result"} THEN 1 ELSE 0]
    <3>1. f.pc = "answered" /\ f.result = "OK" /\ f.site = "loop"
      BY <1>11 DEF HandleOk
    <3>2. Owns(f) = {"decoder", "group", "result"}
      BY <3>1 DEF Owns
    <3>3. f.batches \in Seq(Batch)
      BY <1>0 DEF Flush
    <3>4. QED
      BY <1>0, <3>1, <3>2, <3>3, ZenonT(30) DEF CallInv, HandlesOf
  <2> HIDE DEF batch
  <2>2. /\ p \in Flush /\ p.site = "loop" /\ p.ret = "none" /\ p.batches = Append(f.batches, batch)
        /\ p.owned = [h \in Handle |-> f.owned[h] - (IF h \in {"result", "group"} THEN 1 ELSE 0)]
    BY <2>1, PutType, PutFields DEF batch
  <2> HIDE DEF p
  <2>3. /\ t \in Flush /\ t.site = "loop" /\ t.ret = "none" /\ t.batches = p.batches
        /\ t.owned = [h \in Handle |-> p.owned[h] + (IF h \in {"group"} THEN 1 ELSE 0)]
    BY <2>2, TakeType, TakeFields, ZenonT(30)
  <2> HIDE DEF t
  <2>4. /\ g.pc = "loop" /\ g.site = "loop" /\ g.ret = "none" /\ g.batches = t.batches
        /\ g.owned = t.owned
    BY <2>3 DEF Flush
  <2>5. \A h \in Handle : t.owned[h] = IF h \in {"decoder", "group"} THEN 1 ELSE 0
    <3>1. \A h \in Handle : f.owned[h] = 1
      BY <2>1 DEF Handle
    <3>2. QED
      BY <2>2, <2>3, <3>1 DEF Handle
  <2>6. t.owned = [h \in Handle |-> IF h \in {"decoder", "group"} THEN 1 ELSE 0]
    BY <2>3, <2>5
  <2>7. \A b \in DOMAIN Append(f.batches, batch) : Append(f.batches, batch)[b].result = "OK"
    <3>1. \A b \in DOMAIN f.batches : f.batches[b].result = "OK"
      BY <2>1 DEF AllOk
    <3> DEFINE q == f.batches
    <3>2. q \in Seq(Batch) /\ \A b \in DOMAIN q : q[b].result = "OK"
      BY <2>1, <3>1
    <3> HIDE DEF q
    <3>3. \A b \in DOMAIN Append(q, batch) : Append(q, batch)[b].result = "OK"
      BY <2>1, <3>2
    <3>4. QED
      BY <3>3 DEF q
  <2>8. flush' = [flush EXCEPT ![c] = g]
    BY <1>11 DEF HandleOk, Renew, p, t
  <2> HIDE DEF g
  <2>9. CallInv(g)
    <3>1. HandlesOf(g)
      BY <2>4, <2>6 DEF HandlesOf, Owns
    <3>2. AllOk(g)
      BY <2>2, <2>3, <2>4, <2>7 DEF AllOk
    <3>3. QED
      BY <2>4, <3>1, <3>2 DEF CallInv, AllOk, ResultsOf
  <2>10. QED
    BY <2>8, <2>9, UpdateInv
<1>12. CASE UNCHANGED vars
  BY <1>12 DEF vars
<1>13. QED
  BY <1>1, <1>2, <1>4, <1>5, <1>6, <1>8, <1>9, <1>10, <1>11, <1>12
     DEF Next, Step, Compute, Failure

LEMMA CallInvariant == Spec => [](TypeOK /\ \A c \in Chunk : CallInv(flush[c]))
BY TypeInit, TypeStep, CallInvInit, CallInvStep, PTL DEF Spec

\* On every way out of cb_sls_flush each handle it has taken was destroyed, and
\* none is destroyed twice.
THEOREM FlushHandlesBalanced == Spec => []HandlesBalanced
<1>1. TypeOK /\ (\A c \in Chunk : CallInv(flush[c])) => HandlesBalanced
  <2> SUFFICES ASSUME \A c \in Chunk : CallInv(flush[c]), NEW c \in Chunk, NEW h \in Handle
               PROVE  /\ flush[c].owned[h] \in 0 .. 1
                      /\ flush[c].pc = "returned" => flush[c].owned[h] = 0
    BY DEF HandlesBalanced
  <2>1. flush[c].owned[h] = IF h \in Owns(flush[c]) THEN 1 ELSE 0
    BY DEF CallInv, HandlesOf
  <2>2. flush[c].pc = "returned" => Owns(flush[c]) = {}
    BY DEF Owns
  <2>3. QED
    BY <2>1, <2>2
<1>2. QED
  BY <1>1, CallInvariant, PTL

\* The first put that is not accepted ends the call with the code that belongs
\* to it, and FLB_RETRY comes from nowhere else.
THEOREM FlushFailureEndsCall == Spec => []FailureEndsCall
<1>1. TypeOK /\ (\A c \in Chunk : CallInv(flush[c])) => FailureEndsCall
  <2> SUFFICES ASSUME TypeOK, \A c \in Chunk : CallInv(flush[c]) PROVE FailureEndsCall
    OBVIOUS
  <2>1. \A c \in Chunk : ResultsOf(flush[c]) /\ flush[c].batches \in Seq(Batch)
    BY DEF TypeOK, CallInv, Flush
  <2>2. QED
    BY <2>1 DEF FailureEndsCall, ResultsOf, Last
<1>2. QED
  BY <1>1, CallInvariant, PTL

-----------------------------------------------------------------------------
(* The records of a chunk.                                                 *)

\* The position n is in a batch, in the group, or lost its log.
Placed(f, n) ==
  \/ n \in f.skipped
  \/ Holds(f.group, n)
  \/ \E b \in DOMAIN f.batches : Holds(f.batches[b].logs, n)

\* Everything before `next` has its place, and nothing else has.
PlacedInv(f) == \A n \in Nat \ {0} : n < f.next <=> Placed(f, n)

Passed(logs, next) == \A i \in DOMAIN logs : logs[i].pos < next

\* Batches and group are one increasing chain that ends before `next`.
OrderInv(f) ==
  /\ Increasing(f.group) /\ Passed(f.group, f.next)
  /\ \A b \in DOMAIN f.batches :
       /\ Increasing(f.batches[b].logs) /\ Passed(f.batches[b].logs, f.next)
       /\ AllBefore(f.batches[b].logs, f.group)
       /\ \A d \in DOMAIN f.batches : b < d => AllBefore(f.batches[b].logs, f.batches[d].logs)

\* A group without a counted log has only logs nobody could fill.
OrphanInv(f) == f.log_count = 0 => \A i \in DOMAIN f.group : f.group[i].built = "nothing"

RecordInv(f) == PlacedInv(f) /\ OrderInv(f) /\ OrphanInv(f)

-----------------------------------------------------------------------------
(* What the types say of the logs.                                         *)

\* Logs have positions, batches have logs.
LEMMA Positions ==
  ASSUME NEW logs \in Seq(GroupLog)
  PROVE  \A i \in DOMAIN logs : logs[i].pos \in Nat /\ logs[i].pos # 0
<1>1. \A i \in DOMAIN logs : logs[i] \in GroupLog
  OBVIOUS
<1> QED
  BY <1>1 DEF GroupLog

LEMMA BatchLogs ==
  ASSUME NEW batches \in Seq(Batch)
  PROVE  \A b \in DOMAIN batches : batches[b].logs \in Seq(GroupLog)
<1>1. \A b \in DOMAIN batches : batches[b] \in Batch
  OBVIOUS
<1> QED
  BY <1>1 DEF Batch

-----------------------------------------------------------------------------
(* The changes a step makes to the fields the invariant looks at.          *)

Same(f, g) ==
  /\ g.next = f.next /\ g.group = f.group /\ g.log_count = f.log_count
  /\ g.batches = f.batches /\ g.skipped = f.skipped

Fresh(g) ==
  g.next = 1 /\ g.group = <<>> /\ g.log_count = 0 /\ g.batches = <<>> /\ g.skipped = {}

\* A call starts with nothing passed and nothing placed.
LEMMA FreshInv ==
  ASSUME NEW g, Fresh(g)
  PROVE  RecordInv(g)
BY DEF Fresh, RecordInv, PlacedInv, OrderInv, OrphanInv, Placed, Holds, Passed, Increasing

\* A step that changes none of the fields keeps the invariant.
LEMMA SameInv ==
  ASSUME NEW f, NEW g, RecordInv(f), Same(f, g)
  PROVE  RecordInv(g)
<1>1. \A n : Placed(g, n) <=> Placed(f, n)
  BY DEF Same, Placed
<1> QED
  BY <1>1 DEF Same, RecordInv, PlacedInv, OrderInv, OrphanInv

\* The event at `next` gets a log at the end of the group.
LEMMA AddInv ==
  ASSUME NEW f \in Flush, NEW g, NEW log \in GroupLog, RecordInv(f), log.pos = f.next,
         g.next = f.next + 1, g.group = Append(f.group, log),
         g.log_count = f.log_count + 1 \/ (g.log_count = f.log_count /\ log.built = "nothing"),
         g.batches = f.batches, g.skipped = f.skipped
  PROVE  RecordInv(g)
<1>1. f.group \in Seq(GroupLog) /\ f.next \in Nat \ {0} /\ f.log_count \in Nat
      /\ f.batches \in Seq(Batch)
  BY DEF Flush
<1>2. /\ DOMAIN g.group = 1 .. Len(f.group) + 1
      /\ DOMAIN f.group = 1 .. Len(f.group) /\ Len(f.group) \in Nat
      /\ \A i \in DOMAIN f.group : g.group[i] = f.group[i]
      /\ g.group[Len(f.group) + 1] = log
  BY <1>1
<1>3. \A i \in DOMAIN g.group : (i \in DOMAIN f.group /\ g.group[i] = f.group[i])
                                \/ (i = Len(f.group) + 1 /\ g.group[i] = log)
  BY <1>2
<1>4. \A n : Holds(g.group, n) <=> Holds(f.group, n) \/ n = f.next
  BY <1>2, <1>3 DEF Holds
<1>5. \A n : Placed(g, n) <=> Placed(f, n) \/ n = f.next
  BY <1>4 DEF Placed
<1>6. PlacedInv(g)
  BY <1>1, <1>5 DEF RecordInv, PlacedInv
<1>7. \A i \in DOMAIN f.group : f.group[i].pos < f.next /\ f.group[i].pos \in Nat
  BY <1>1, Positions DEF RecordInv, OrderInv, Passed
<1>8. Increasing(g.group) /\ Passed(g.group, g.next)
  <2>1. Increasing(f.group)
    BY DEF RecordInv, OrderInv
  <2>2. Increasing(g.group)
    BY <2>1, <1>2, <1>3, <1>7 DEF Increasing
  <2>3. Passed(g.group, g.next)
    BY <1>1, <1>3, <1>7 DEF Passed
  <2> QED
    BY <2>2, <2>3
<1>9. ASSUME NEW b \in DOMAIN f.batches
      PROVE  AllBefore(f.batches[b].logs, g.group) /\ Passed(f.batches[b].logs, g.next)
  <2>1. f.batches[b].logs \in Seq(GroupLog)
    BY <1>1, BatchLogs
  <2>2. \A i \in DOMAIN f.batches[b].logs : f.batches[b].logs[i].pos \in Nat
    BY <2>1, Positions
  <2>3. AllBefore(f.batches[b].logs, f.group) /\ Passed(f.batches[b].logs, f.next)
    BY DEF RecordInv, OrderInv
  <2> QED
    BY <1>1, <1>3, <2>2, <2>3, SMTT(30) DEF AllBefore, Passed
<1>10. OrderInv(g)
  BY <1>8, <1>9 DEF RecordInv, OrderInv
<1>11. OrphanInv(g)
  BY <1>1, <1>3 DEF RecordInv, OrphanInv
<1> QED
  BY <1>6, <1>10, <1>11 DEF RecordInv

\* The event at `next` gets no log.
LEMMA SkipInv ==
  ASSUME NEW f \in Flush, NEW g, RecordInv(f), g.next = f.next + 1,
         g.skipped = f.skipped \cup {f.next}, g.group = f.group, g.log_count = f.log_count,
         g.batches = f.batches
  PROVE  RecordInv(g)
<1>1. f.group \in Seq(GroupLog) /\ f.next \in Nat \ {0} /\ f.batches \in Seq(Batch)
  BY DEF Flush
<1>2. \A n : Placed(g, n) <=> Placed(f, n) \/ n = f.next
  BY DEF Placed
<1>3. PlacedInv(g)
  BY <1>1, <1>2 DEF RecordInv, PlacedInv
<1>4. ASSUME NEW logs \in Seq(GroupLog), Passed(logs, f.next)
      PROVE  Passed(logs, g.next)
  <2>1. \A i \in DOMAIN logs : logs[i].pos \in Nat
    BY Positions
  <2> QED
    BY <1>1, <1>4, <2>1 DEF Passed
<1>5. \A b \in DOMAIN f.batches : f.batches[b].logs \in Seq(GroupLog)
  BY <1>1, BatchLogs
<1>6. OrderInv(g)
  BY <1>1, <1>4, <1>5 DEF RecordInv, OrderInv
<1> QED
  BY <1>3, <1>6 DEF RecordInv, OrphanInv

\* The group becomes the last batch.
LEMMA PutInv ==
  ASSUME NEW f \in Flush, NEW g, NEW batch, RecordInv(f), g.next = f.next, g.group = <<>>,
         g.batches = Append(f.batches, batch), batch.logs = f.group, g.skipped = f.skipped
  PROVE  RecordInv(g)
<1> DEFINE n0 == Len(f.batches)
<1>1. f.batches \in Seq(Batch)
  BY DEF Flush
<1>2. /\ DOMAIN g.batches = 1 .. n0 + 1 /\ DOMAIN f.batches = 1 .. n0 /\ n0 \in Nat
      /\ \A b \in DOMAIN f.batches : g.batches[b] = f.batches[b]
      /\ g.batches[n0 + 1] = batch
  BY <1>1
<1> HIDE DEF n0
<1>3. \A b \in DOMAIN g.batches : (b \in DOMAIN f.batches /\ g.batches[b] = f.batches[b])
                                  \/ (b = n0 + 1 /\ g.batches[b] = batch)
  BY <1>2
<1>4. \A n : ~Holds(g.group, n)
  BY DEF Holds
<1>5. \A n : (\E b \in DOMAIN g.batches : Holds(g.batches[b].logs, n))
              <=> Holds(f.group, n) \/ \E b \in DOMAIN f.batches : Holds(f.batches[b].logs, n)
  BY <1>2, <1>3
<1>6. \A n : Placed(g, n) <=> Placed(f, n)
  BY <1>4, <1>5 DEF Placed
<1>7. PlacedInv(g)
  BY <1>6 DEF RecordInv, PlacedInv
<1>8. OrderInv(f)
  BY DEF RecordInv
<1>9. Increasing(g.group) /\ Passed(g.group, g.next) /\ \A logs : AllBefore(logs, g.group)
  BY DEF Increasing, Passed, AllBefore
<1>10. ASSUME NEW b \in DOMAIN g.batches
       PROVE  /\ Increasing(g.batches[b].logs) /\ Passed(g.batches[b].logs, g.next)
              /\ \A d \in DOMAIN g.batches : b < d => AllBefore(g.batches[b].logs, g.batches[d].logs)
  <2>1. CASE b \in DOMAIN f.batches /\ g.batches[b] = f.batches[b]
    <3>1. AllBefore(f.batches[b].logs, f.group)
          /\ \A d \in DOMAIN f.batches : b < d => AllBefore(f.batches[b].logs, f.batches[d].logs)
      BY <1>8, <2>1 DEF OrderInv
    <3>2. \A d \in DOMAIN g.batches : b < d => AllBefore(g.batches[b].logs, g.batches[d].logs)
      BY <1>3, <2>1, <3>1
    <3> QED
      BY <1>8, <2>1, <3>2 DEF OrderInv
  <2>2. CASE b = n0 + 1 /\ g.batches[b] = batch
    <3>1. \A d \in DOMAIN g.batches : ~(b < d)
      BY <1>2, <2>2
    <3> QED
      BY <1>8, <2>2, <3>1 DEF OrderInv
  <2> QED
    BY <1>3, <2>1, <2>2
<1>11. OrderInv(g)
  BY <1>9, <1>10 DEF OrderInv
<1>12. OrphanInv(g)
  BY DEF OrphanInv
<1> QED
  BY <1>7, <1>11, <1>12 DEF RecordInv

\* A group of orphans is dropped, and its positions are among the lost ones.
LEMMA DropInv ==
  ASSUME NEW f \in Flush, NEW g, RecordInv(f), f.log_count = 0, g.next = f.next, g.group = <<>>,
         g.batches = f.batches, g.skipped = f.skipped \cup {log.pos : log \in Orphans(f.group)}
  PROVE  RecordInv(g)
<1>1. \A i \in DOMAIN f.group : f.group[i].built = "nothing"
  BY DEF RecordInv, OrphanInv
<1>2. \A n : Holds(f.group, n) <=> n \in {log.pos : log \in Orphans(f.group)}
  BY <1>1 DEF Holds, Orphans
<1>3. \A n : ~Holds(g.group, n)
  BY DEF Holds
<1>4. \A n : Placed(g, n) <=> Placed(f, n)
  BY <1>2, <1>3 DEF Placed
<1>5. PlacedInv(g)
  BY <1>4 DEF RecordInv, PlacedInv
<1>6. Increasing(g.group) /\ Passed(g.group, g.next) /\ \A logs : AllBefore(logs, g.group)
  BY DEF Increasing, Passed, AllBefore
<1>7. OrderInv(g)
  BY <1>6 DEF RecordInv, OrderInv
<1> QED
  BY <1>5, <1>7 DEF RecordInv, OrphanInv

-----------------------------------------------------------------------------
(* What the helpers leave alone.                                           *)

LEMMA TakeSame ==
  ASSUME NEW f \in Flush, NEW handles
  PROVE  Same(f, Take(f, handles))
BY DEF Take, Flush, Same

LEMMA DestroySame ==
  ASSUME NEW f \in Flush, NEW handles
  PROVE  Same(f, Destroy(f, handles))
BY DEF Destroy, Flush, Same

\* The put of f's group, as the fields see it.
Moved(f, g) ==
  /\ g.next = f.next /\ g.group = <<>> /\ g.skipped = f.skipped
  /\ g.batches = Append(f.batches, [logs |-> f.group, result |-> f.result])

LEMMA PutMoves ==
  ASSUME NEW f \in Flush
  PROVE  Moved(f, Put(f))
<1>1. Destroy(f, {"result", "group"}) \in Flush /\ Same(f, Destroy(f, {"result", "group"}))
  BY DestroyType, DestroySame
<1>2. \A g \in Flush : LET p == [g EXCEPT !.group = <<>>,
                                 !.batches = Append(@, [logs |-> f.group, result |-> f.result])]
                       IN  /\ p.next = g.next /\ p.group = <<>> /\ p.skipped = g.skipped
                           /\ p.batches = Append(g.batches, [logs |-> f.group, result |-> f.result])
  BY DEF Flush
<1> QED
  BY <1>1, <1>2 DEF Put, Same, Moved

LEMMA CloseMoves ==
  ASSUME NEW f \in Flush
  PROVE  Moved(f, Close(f)) /\ Close(f).site = f.site
<1>1. Put(f) \in Flush /\ Moved(f, Put(f)) /\ Put(f).site = f.site
  BY PutType, PutMoves, PutFields
<1>2. Same(Put(f), Destroy(Put(f), {"decoder"})) /\ Destroy(Put(f), {"decoder"}).site = f.site
  BY <1>1, DestroySame, DestroyFields
<1> QED
  BY <1>1, <1>2 DEF Close, Moved, Same

LEMMA MovedInv ==
  ASSUME NEW f \in Flush, NEW g, RecordInv(f), Moved(f, g)
  PROVE  RecordInv(g)
BY PutInv DEF Moved

-----------------------------------------------------------------------------
(* Every step keeps the invariant.                                         *)

\* A call that puts its tail, or was done with, has passed every event the decoder
\* can return; one that is done has no group left.
EndInv(f, c) ==
  /\ f.site = "tail" \/ f.ret = "FLB_OK" => ~Decodes(f, c)
  /\ f.ret = "FLB_OK" => f.group = <<>>

ChunkInv(f, c) == RecordInv(f) /\ EndInv(f, c)

AllChunks == \A c \in Chunk : ChunkInv(flush[c], c)

LEMMA UpdateChunk ==
  ASSUME TypeOK, AllChunks, NEW c \in Chunk, NEW g, ChunkInv(g, c),
         flush' = [flush EXCEPT ![c] = g]
  PROVE  AllChunks'
<1>1. \A d \in Chunk : flush'[d] = IF d = c THEN g ELSE flush[d]
  BY DEF TypeOK
<1>2. \A d \in Chunk : ChunkInv(flush'[d], d)
  BY <1>1 DEF AllChunks
<1> QED
  BY <1>2 DEF AllChunks

\* Inside a call that is under way nothing but the fields of Same matters, and
\* whether the tail is being put.
LEMMA SameChunk ==
  ASSUME NEW c \in Chunk, NEW f, NEW g, ChunkInv(f, c), Same(f, g), g.ret = "none", g.site = f.site
  PROVE  ChunkInv(g, c)
BY SameInv DEF ChunkInv, EndInv, Same, Decodes

LEMMA ChunkInit == Init => AllChunks
<1>1. ASSUME NEW c \in Chunk PROVE ChunkInv(Idle, c)
  <2>1. Fresh(Idle) /\ Idle.site = "loop" /\ Idle.ret = "none"
    BY DEF Idle, Fresh
  <2> QED
    BY <2>1, FreshInv DEF ChunkInv, EndInv
<1> QED
  BY <1>1 DEF Init, AllChunks

LEMMA ChunkStep ==
  TypeOK /\ (\A c \in Chunk : CallInv(flush[c])) /\ AllChunks /\ [Next]_vars => AllChunks'
<1> SUFFICES ASSUME TypeOK, \A c \in Chunk : CallInv(flush[c]), AllChunks, [Next]_vars
             PROVE  AllChunks'
  OBVIOUS
<1>0. ASSUME NEW c \in Chunk
      PROVE  /\ flush[c] \in Flush /\ ChunkInv(flush[c], c) /\ CallInv(flush[c])
             /\ flush[c].pc = "loop" => flush[c].site = "loop"
             /\ flush[c].pc # "returned" => flush[c].ret = "none"
             /\ Called(c) \in Flush /\ Fresh(Called(c)) /\ Called(c).site = "loop"
             /\ Called(c).ret = "none"
  <2>1. flush[c] \in Flush /\ ChunkInv(flush[c], c) /\ CallInv(flush[c]) /\ Called(c) \in Flush
    BY CalledType DEF TypeOK, AllChunks
  <2>2. Fresh(Called(c)) /\ Called(c).site = "loop" /\ Called(c).ret = "none"
    BY DEF Called, Idle, Fresh
  <2> QED
    BY <2>1, <2>2 DEF CallInv
<1>1. ASSUME NEW c \in Chunk, Start(c)
      PROVE  AllChunks'
  <2> DEFINE g == Take(Called(c), {"decoder", "group"})
  <2>1. Same(Called(c), g) /\ g.site = "loop" /\ g.ret = "none"
    <3>1. Called(c) \in Flush /\ Called(c).site = "loop" /\ Called(c).ret = "none"
      BY <1>0
    <3>2. Same(Called(c), g)
      BY <3>1, TakeSame
    <3> QED
      BY <3>1, <3>2, TakeFields
  <2>2. Fresh(g)
    BY <1>0, <2>1 DEF Same, Fresh
  <2>3. ChunkInv(g, c)
    BY <2>1, <2>2, FreshInv DEF ChunkInv, EndInv
  <2> QED
    BY <1>1, <2>3, UpdateChunk DEF Start
<1>2. ASSUME NEW c \in Chunk, StartFails(c)
      PROVE  AllChunks'
  <2> DEFINE g == Return(Called(c), "FLB_ERROR")
  <2>1. Same(Called(c), g) /\ g.site = "loop" /\ g.ret = "FLB_ERROR"
    BY <1>0 DEF Return, Flush, Same
  <2> HIDE DEF g
  <2>2. Fresh(g)
    BY <1>0, <2>1 DEF Same, Fresh
  <2>3. ChunkInv(g, c)
    BY <2>1, <2>2, FreshInv DEF ChunkInv, EndInv
  <2> QED
    BY <1>2, <2>3, UpdateChunk DEF StartFails, g
<1>3. ASSUME NEW c \in Chunk, NEW built \in {"whole", "part", "nothing"}, NEW counted \in Nat,
             AddRecord(c, built, counted)
      PROVE  AllChunks'
  <2> DEFINE f == flush[c]
             g == [f EXCEPT !.next = @ + 1,
                            !.group = Append(@, Log(f, built, counted)),
                            !.encoded_size = @ + counted,
                            !.log_count = @ + 1,
                            !.pc = IF Full(Overhead[c] + (f.encoded_size + counted))
                                   THEN "put" ELSE "loop"]
  <2>1. f.pc = "loop" /\ f.site = "loop" /\ f \in Flush /\ f.ret = "none" /\ RecordInv(f)
    BY <1>0, <1>3 DEF AddRecord, ChunkInv
  <2>2. /\ g.site = "loop" /\ g.ret = "none" /\ g.next = f.next + 1
        /\ g.group = Append(f.group, Log(f, built, counted))
        /\ g.log_count = f.log_count + 1 /\ g.batches = f.batches /\ g.skipped = f.skipped
    BY <2>1 DEF Flush
  <2>3. Log(f, built, counted) \in GroupLog /\ Log(f, built, counted).pos = f.next
    BY <2>1 DEF Log, GroupLog, Flush
  <2>4. flush' = [flush EXCEPT ![c] = g]
    BY <1>3 DEF AddRecord
  <2> HIDE DEF g
  <2>5. RecordInv(g)
    BY <2>1, <2>2, <2>3, AddInv
  <2>6. ChunkInv(g, c)
    BY <2>2, <2>5 DEF ChunkInv, EndInv
  <2> QED
    BY <2>4, <2>6, UpdateChunk
<1>4. ASSUME NEW c \in Chunk, DecodeRecord(c) \/ DecodeRecordOom(c)
      PROVE  AllChunks'
  <2>1. PICK built \in {"whole", "part", "nothing"}, counted \in Nat : AddRecord(c, built, counted)
    BY <1>0, <1>4, AnyRecord
  <2> QED
    BY <1>3, <2>1
<1>5. ASSUME NEW c \in Chunk, AddLogFails(c)
      PROVE  AllChunks'
  <2> DEFINE f == flush[c]
             n == [f EXCEPT !.next = @ + 1]
             log == Log(f, "nothing", 0)
             g1 == [n EXCEPT !.skipped = @ \cup {f.next}]
             g2 == [n EXCEPT !.group = Append(@, log)]
  <2>1. f.pc = "loop" /\ f.site = "loop" /\ f \in Flush /\ f.ret = "none" /\ RecordInv(f)
    BY <1>0, <1>5 DEF AddLogFails, ChunkInv
  <2>2. /\ g1.next = f.next + 1 /\ g1.skipped = f.skipped \cup {f.next} /\ g1.group = f.group
        /\ g1.log_count = f.log_count /\ g1.batches = f.batches
        /\ g1.site = "loop" /\ g1.ret = "none"
    BY <2>1 DEF Flush
  <2>3. /\ g2.next = f.next + 1 /\ g2.skipped = f.skipped /\ g2.group = Append(f.group, log)
        /\ g2.log_count = f.log_count /\ g2.batches = f.batches
        /\ g2.site = "loop" /\ g2.ret = "none"
    BY <2>1 DEF Flush
  <2>4. log \in GroupLog /\ log.pos = f.next /\ log.built = "nothing"
    BY <2>1 DEF Log, GroupLog, Flush
  <2>5. flush' = [flush EXCEPT ![c] = g1] \/ flush' = [flush EXCEPT ![c] = g2]
    BY <1>5 DEF AddLogFails
  <2> HIDE DEF n, g1, g2, log
  <2>6. RecordInv(g1)
    BY <2>1, <2>2, SkipInv
  <2>7. RecordInv(g2)
    BY <2>1, <2>3, <2>4, AddInv
  <2>8. ChunkInv(g1, c) /\ ChunkInv(g2, c)
    BY <2>2, <2>3, <2>6, <2>7 DEF ChunkInv, EndInv
  <2> QED
    BY <2>5, <2>8, UpdateChunk
<1>6. ASSUME NEW c \in Chunk, DecodeDone(c)
      PROVE  AllChunks'
  <2> DEFINE f0 == flush[c]
             f == Destroy(f0, {"decoder"})
             g == [f EXCEPT !.pc = "put", !.site = "tail"]
             d == Destroy(f, {"group"})
             e == Return(d, "FLB_OK")
             h == [e EXCEPT !.group = <<>>,
                            !.skipped = @ \cup {log.pos : log \in Orphans(f.group)}]
  <2>1. f0.pc = "loop" /\ f0 \in Flush /\ f0.ret = "none" /\ ChunkInv(f0, c) /\ ~Decodes(f0, c)
    BY <1>0, <1>6 DEF DecodeDone, AtEnd
  <2>2. f \in Flush /\ Same(f0, f) /\ f.ret = "none"
    BY <2>1, DestroyType, DestroySame, DestroyFields
  <2>3. \/ flush' = [flush EXCEPT ![c] = g]
        \/ ~HasTail(f) /\ flush' = [flush EXCEPT ![c] = h]
    BY <1>6 DEF DecodeDone
  <2> HIDE DEF f
  <2>4. RecordInv(f) /\ ~Decodes(f, c)
    BY <2>1, <2>2, SameInv DEF ChunkInv, Same, Decodes
  <2>5. Same(f, g) /\ g.ret = "none"
    BY <2>2 DEF Flush, Same
  <2> HIDE DEF g
  <2>6. ChunkInv(g, c)
    BY <2>4, <2>5, SameInv DEF ChunkInv, EndInv, Same, Decodes
  <2>7. d \in Flush /\ Same(f, d)
    BY <2>2, DestroyType, DestroySame
  <2> HIDE DEF d
  <2>8. e \in Flush /\ Same(d, e) /\ e.ret = "FLB_OK"
    BY <2>7, ReturnType, ZenonT(30) DEF Return, Flush, Same
  <2> HIDE DEF e
  <2>9. /\ h.next = f.next /\ h.group = <<>> /\ h.batches = f.batches /\ h.ret = "FLB_OK"
        /\ h.skipped = f.skipped \cup {log.pos : log \in Orphans(f.group)}
    BY <2>7, <2>8 DEF Flush, Same
  <2> HIDE DEF h
  <2>10. ASSUME ~HasTail(f) PROVE ChunkInv(h, c)
    <3>1. f.log_count = 0
      BY <2>2, <2>10 DEF HasTail, Flush
    <3>2. RecordInv(h)
      BY <2>2, <2>4, <2>9, <3>1, DropInv
    <3> QED
      BY <2>4, <2>9, <3>2 DEF ChunkInv, EndInv, Decodes
  <2> QED
    BY <2>3, <2>6, <2>10, UpdateChunk
<1>7. ASSUME NEW c \in Chunk, NEW code \in {"OK", "RETRYABLE", "FATAL"},
             PutReturns(c, code), flush[c].pc \in {"put", "sent"}
      PROVE  AllChunks'
  <2> DEFINE f == [flush[c] EXCEPT !.pc = "answered", !.result = code]
             g == Take(f, {"result"})
  <2>1. flush[c] \in Flush /\ flush[c].ret = "none"
    BY <1>0, <1>7
  <2>2. f \in Flush /\ Same(flush[c], f) /\ f.ret = "none" /\ f.site = flush[c].site
    BY <2>1 DEF Flush, Same
  <2>3. flush' = [flush EXCEPT ![c] = g]
    BY <1>7 DEF PutReturns
  <2> HIDE DEF f
  <2>4. Same(f, g) /\ g.ret = "none" /\ g.site = flush[c].site
    BY <2>2, TakeSame, TakeFields
  <2> HIDE DEF g
  <2>5. Same(flush[c], g)
    BY <2>2, <2>4 DEF Same
  <2>6. ChunkInv(g, c)
    BY <1>0, <2>4, <2>5, SameChunk
  <2> QED
    BY <2>3, <2>6, UpdateChunk
<1>8. ASSUME NEW c \in Chunk, PutRejected(c) \/ PutUnsent(c) \/ Answers(c)
      PROVE  AllChunks'
  BY <1>7, <1>8 DEF PutRejected, PutUnsent, Answers, Answer
<1>9. ASSUME NEW c \in Chunk, Send(c)
      PROVE  AllChunks'
  <2> DEFINE g == [flush[c] EXCEPT !.pc = "sent"]
  <2>1. flush[c].pc = "put" /\ flush[c].ret = "none" /\ flush[c] \in Flush
    BY <1>0, <1>9 DEF Send
  <2>2. Same(flush[c], g) /\ g.ret = "none" /\ g.site = flush[c].site
    BY <2>1 DEF Flush, Same
  <2>3. flush' = [flush EXCEPT ![c] = g]
    BY <1>9 DEF Send
  <2> HIDE DEF g
  <2>4. ChunkInv(g, c)
    BY <1>0, <2>2, SameChunk
  <2> QED
    BY <2>3, <2>4, UpdateChunk
<1>10. ASSUME NEW c \in Chunk,
              \/ HandleRetryable(c) \/ HandleFatal(c) \/ HandleOkNoGroup(c) \/ HandleOkTail(c)
       PROVE  AllChunks'
  <2>1. PICK code \in {"FLB_OK", "FLB_RETRY", "FLB_ERROR"} :
          /\ code = "FLB_OK" => flush[c].site = "tail"
          /\ flush' = [flush EXCEPT ![c] = Return(Close(flush[c]), code)]
    BY <1>10 DEF HandleRetryable, HandleFatal, HandleOkNoGroup, HandleOkTail
  <2> DEFINE f == Close(flush[c])
             g == Return(f, code)
  <2>2. f \in Flush /\ Moved(flush[c], f) /\ f.site = flush[c].site
    BY <1>0, CloseType, CloseMoves
  <2> HIDE DEF f
  <2>3. Same(f, g) /\ g.ret = code /\ g.site = f.site
    BY <2>2 DEF Return, Flush, Same
  <2>4. flush' = [flush EXCEPT ![c] = g]
    BY <2>1 DEF f
  <2> HIDE DEF g
  <2>5. RecordInv(g)
    BY <1>0, <2>2, <2>3, MovedInv, SameInv DEF ChunkInv
  <2>6. ChunkInv(g, c)
    BY <1>0, <2>1, <2>2, <2>3, <2>5 DEF ChunkInv, EndInv, Same, Moved, Decodes
  <2> QED
    BY <2>4, <2>6, UpdateChunk
<1>11. ASSUME NEW c \in Chunk, HandleOk(c)
       PROVE  AllChunks'
  <2> DEFINE p == Put(flush[c])
             t == Take(p, {"group"})
             g == [t EXCEPT !.encoded_size = 0, !.log_count = 0, !.pc = "loop"]
  <2>1. flush[c].pc = "answered" /\ flush[c].ret = "none" /\ flush[c].site = "loop"
    BY <1>0, <1>11 DEF HandleOk
  <2>2. p \in Flush /\ Moved(flush[c], p) /\ p.site = "loop" /\ p.ret = "none"
    BY <1>0, <2>1, PutType, PutMoves, PutFields
  <2>3. flush' = [flush EXCEPT ![c] = g]
    BY <1>11 DEF HandleOk, Renew
  <2> HIDE DEF p
  <2>4. t \in Flush /\ Same(p, t) /\ t.site = "loop" /\ t.ret = "none"
    BY <2>2, TakeType, TakeSame, TakeFields
  <2> HIDE DEF t
  <2>5. /\ g.next = t.next /\ g.group = t.group /\ g.batches = t.batches /\ g.skipped = t.skipped
        /\ g.site = "loop" /\ g.ret = "none"
    BY <2>4 DEF Flush
  <2> HIDE DEF g
  <2>6. Moved(flush[c], g)
    BY <2>2, <2>4, <2>5 DEF Same, Moved
  <2>7. ChunkInv(g, c)
    BY <1>0, <2>5, <2>6, MovedInv DEF ChunkInv, EndInv
  <2> QED
    BY <2>3, <2>7, UpdateChunk
<1>12. CASE UNCHANGED vars
  BY <1>12 DEF vars, AllChunks
<1>13. QED
  BY <1>1, <1>2, <1>4, <1>5, <1>6, <1>8, <1>9, <1>10, <1>11, <1>12
     DEF Next, Step, Compute, Failure

LEMMA RecordInvariant == Spec => [](TypeOK /\ (\A c \in Chunk : CallInv(flush[c])) /\ AllChunks)
<1>1. Init => TypeOK /\ (\A c \in Chunk : CallInv(flush[c])) /\ AllChunks
  BY TypeInit, CallInvInit, ChunkInit
<1> QED
  BY <1>1, TypeStep, CallInvStep, ChunkStep, PTL DEF Spec

-----------------------------------------------------------------------------
(* What follows.                                                           *)

\* No event the decoder has passed is lost without a trace, and none is put that
\* was not passed.
THEOREM FlushLosesNoRecord == Spec => []NoRecordLost
<1>1. AllChunks => NoRecordLost
  <2> SUFFICES ASSUME AllChunks, NEW c \in Chunk, NEW n \in 1 .. Len(Events[c])
               PROVE  n < flush[c].next <=> Placed(flush[c], n)
    BY DEF NoRecordLost, Placed
  <2>1. n \in Nat \ {0}
    OBVIOUS
  <2> QED
    BY <2>1 DEF AllChunks, ChunkInv, RecordInv, PlacedInv
<1> QED
  BY <1>1, RecordInvariant, PTL

\* Within a call the events are put in the order of the chunk and none twice,
\* however the chunk is cut into batches.
THEOREM FlushKeepsOrder == Spec => []RecordsInOrder
<1>1. AllChunks => RecordsInOrder
  BY DEF AllChunks, ChunkInv, RecordInv, OrderInv, RecordsInOrder
<1> QED
  BY <1>1, RecordInvariant, PTL

\* FLB_OK means that a batch the service accepted holds the event, for every event
\* up to the first corrupt one, unless its log could not be allocated.
THEOREM FlushOkMeansAccepted == Spec => []OkMeansAccepted
<1>1. TypeOK /\ (\A c \in Chunk : CallInv(flush[c])) /\ AllChunks => OkMeansAccepted
  <2> SUFFICES ASSUME TypeOK, \A c \in Chunk : CallInv(flush[c]), AllChunks,
                      NEW c \in Chunk, flush[c].ret = "FLB_OK", NEW n \in 1 .. Len(Events[c])
               PROVE  \/ n \in flush[c].skipped
                      \/ \E m \in 1 .. n : Events[c][m].form = "corrupt"
                      \/ \E b \in DOMAIN flush[c].batches :
                           flush[c].batches[b].result = "OK" /\ Holds(flush[c].batches[b].logs, n)
    BY DEF OkMeansAccepted
  <2> DEFINE f == flush[c]
  <2>1. f \in Flush /\ f.next \in Nat \ {0} /\ f.batches \in Seq(Batch)
    BY DEF TypeOK, Flush
  <2>2. ~Decodes(f, c) /\ f.group = <<>> /\ PlacedInv(f)
    BY DEF AllChunks, ChunkInv, EndInv, RecordInv
  <2>3. CASE n < f.next
    <3>1. Placed(f, n) /\ ~Holds(f.group, n)
      BY <2>2, <2>3 DEF PlacedInv, Holds
    <3>2. \A b \in DOMAIN f.batches : f.batches[b].result = "OK"
      <4>1. \A b \in DOMAIN f.batches : f.batches[b] \in Batch
        BY <2>1
      <4>2. \A b \in DOMAIN f.batches : f.batches[b].result \notin {"RETRYABLE", "FATAL"}
        BY DEF CallInv, ResultsOf
      <4> QED
        BY <4>1, <4>2 DEF Batch
    <3> QED
      BY <3>1, <3>2 DEF Placed
  <2>4. CASE ~(n < f.next)
    <3>1. Len(Events[c]) \in Nat
      BY FlushAssumption
    <3>2. f.next \in 1 .. n /\ f.next <= Len(Events[c])
      BY <2>1, <2>4, <3>1
    <3>3. Events[c][f.next].form = "corrupt"
      BY <2>2, <3>2 DEF Decodes
    <3> QED
      BY <3>2, <3>3
  <2> QED
    BY <2>3, <2>4
<1> QED
  BY <1>1, RecordInvariant, PTL

-----------------------------------------------------------------------------
(* The size of a group of logs.                                            *)

Counted(logs) == [i \in DOMAIN logs |-> logs[i].counted]

\* Size is the sum of what the logs have counted.
LEMMA SizeSolves ==
  ASSUME NEW logs \in Seq(GroupLog), NEW n \in Nat, n = Len(logs)
  PROVE  /\ Counted(logs) \in [1 .. n -> Nat]
         /\ \E h : IsSum(h, 1 .. n, Counted(logs), Latest(1 .. n)) /\ Size(logs) = h[1 .. n]
<1> DEFINE S == 1 .. n
           f == Counted(logs)
           Eq(h) == h = [s \in SUBSET S |->
                           IF s = {} THEN 0 ELSE h[s \ {Max(s)}] + logs[Max(s)].counted]
<1>1. DOMAIN logs = S /\ f \in [S -> Nat] /\ \A i \in S : f[i] = logs[i].counted
  <2>1. \A i \in S : logs[i] \in GroupLog
    OBVIOUS
  <2>2. \A i \in S : logs[i].counted \in Nat
    BY <2>1 DEF GroupLog
  <2> QED
    BY <2>2 DEF Counted
<1>2. Size(logs) = (CHOOSE h : Eq(h))[S]
  BY <1>1 DEF Size, FoldLeft, MapThenFoldSet
<1>3. IsFiniteSet(S)
  BY FS_Interval
<1>4. PICK iter \in [SUBSET S -> Int] : Adds(iter, S, f, Latest(S))
  <2>1. f \in [S -> Int]
    BY <1>1
  <2> HIDE DEF S, f
  <2>2. Picks(Latest(S), S)
    BY LatestPicks DEF S
  <2> QED
    BY <1>3, <2>1, <2>2, SumExists
<1>5. \A s \in SUBSET S : s # {} => Max(s) \in s
  BY LatestIs
<1> HIDE DEF S, f
<1>6. Eq(iter)
  <2>1. \A s \in SUBSET S : iter[s] = IF s = {} THEN 0 ELSE iter[s \ {Max(s)}] + logs[Max(s)].counted
    <3> SUFFICES ASSUME NEW s \in SUBSET S, s # {}
                 PROVE  iter[s] = iter[s \ {Max(s)}] + logs[Max(s)].counted
      BY <1>4 DEF Adds
    <3>1. iter[s] = f[Max(s)] + iter[s \ {Max(s)}]
      BY <1>4 DEF Adds, Latest
    <3>2. Max(s) \in S /\ s \ {Max(s)} \in SUBSET S
      BY <1>5
    <3>3. f[Max(s)] \in Nat /\ f[Max(s)] = logs[Max(s)].counted /\ iter[s \ {Max(s)}] \in Int
      BY <1>1, <1>4, <3>2
    <3> QED
      BY <3>1, <3>3
  <2> QED
    BY <1>4, <2>1
<1>7. Eq(CHOOSE h : Eq(h))
  BY <1>6
<1>8. ASSUME NEW h, Eq(h)
      PROVE  IsSum(h, S, f, Latest(S))
  <2> SUFFICES ASSUME NEW s \in SUBSET S
               PROVE  IF s = {} THEN h[s] = 0
                      ELSE h[s \ {Max(s)}] \in Int => h[s] = f[Max(s)] + h[s \ {Max(s)}]
    BY DEF IsSum, Latest
  <2>1. h[s] = IF s = {} THEN 0 ELSE h[s \ {Max(s)}] + logs[Max(s)].counted
    BY <1>8
  <2>2. s # {} => f[Max(s)] \in Nat /\ f[Max(s)] = logs[Max(s)].counted
    BY <1>1, <1>5
  <2> QED
    BY <2>1, <2>2
<1>9. f \in [S -> Nat]
  BY <1>1
<1> HIDE DEF Eq
<1> QED
  BY <1>2, <1>7, <1>8, <1>9 DEF S, f

LEMMA SizeType == ASSUME NEW logs \in Seq(GroupLog) PROVE Size(logs) \in Nat
<1>1. PICK n \in Nat : n = Len(logs)
  OBVIOUS
<1> DEFINE S == 1 .. n
<1>2. PICK h : IsSum(h, S, Counted(logs), Latest(S)) /\ Size(logs) = h[S]
  BY <1>1, SizeSolves
<1>3. IsFiniteSet(S) /\ Picks(Latest(S), S)
  BY FS_Interval, LatestPicks
<1>4. \A x \in S : Counted(logs)[x] \in Nat
  BY <1>1, SizeSolves
<1>5. \A s \in SUBSET S : h[s] \in Nat
  <2> HIDE DEF S
  <2> QED
    BY <1>2, <1>3, <1>4, SumOfNats
<1> QED
  BY <1>2, <1>5

LEMMA SizeEmpty == Size(<<>>) = 0
<1>1. <<>> \in Seq(GroupLog) /\ Len(<<>>) = 0 /\ 1 .. 0 = {} /\ {} \in SUBSET {}
  OBVIOUS
<1>2. PICK h : IsSum(h, {}, Counted(<<>>), Latest({})) /\ Size(<<>>) = h[{}]
  BY <1>1, SizeSolves
<1> QED
  BY <1>1, <1>2 DEF IsSum

LEMMA SizeAppend ==
  ASSUME NEW logs \in Seq(GroupLog), NEW log \in GroupLog
  PROVE  Size(Append(logs, log)) = Size(logs) + log.counted
<1> DEFINE longer == Append(logs, log)
<1>1. PICK n \in Nat : n = Len(logs)
  OBVIOUS
<1>2. longer \in Seq(GroupLog) /\ n + 1 = Len(longer) /\ n + 1 \in Nat
  BY <1>1
<1>3. /\ \A i \in 1 .. n : Counted(longer)[i] = Counted(logs)[i]
      /\ Counted(longer)[n + 1] = log.counted
  BY <1>1 DEF Counted
<1> HIDE DEF longer
<1>4. PICK h : IsSum(h, 1 .. n, Counted(logs), Latest(1 .. n)) /\ Size(logs) = h[1 .. n]
  BY <1>1, SizeSolves
<1>5. PICK k : IsSum(k, 1 .. n + 1, Counted(longer), Latest(1 .. n + 1))
               /\ Size(longer) = k[1 .. n + 1]
  BY <1>2, SizeSolves
<1>6. Counted(logs) \in [1 .. n -> Int] /\ Counted(longer) \in [1 .. n + 1 -> Int]
  BY <1>1, <1>2, SizeSolves
<1>7. h[1 .. n] \in Int /\ k[1 .. n + 1] = h[1 .. n] + Counted(longer)[n + 1]
  BY <1>3, <1>4, <1>5, <1>6, SumOneMore
<1> QED
  BY <1>3, <1>4, <1>5, <1>7 DEF longer

-----------------------------------------------------------------------------
(* The invariants.                                                         *)

\* Without its last log the group is below the limit, or counts for nothing.
BelowWithoutLast(c, logs) ==
  Overhead[c] + Size(Front(logs)) < MaxRaw \/ Size(Front(logs)) = 0

ReachesLimit(c, logs) == Overhead[c] + Size(logs) >= MaxRaw

\* encoded_size is the size of the group, the loop goes on only below the limit,
\* and every batch but the tail of a call has reached it.
CutInv(f, c) ==
  /\ f.pc \in {"loop", "put", "sent", "answered"} => f.encoded_size = Size(f.group)
  /\ f.pc = "loop" => Overhead[c] + Size(f.group) < MaxRaw \/ Size(f.group) = 0
  /\ f.pc \in {"put", "sent", "answered"} =>
       BelowWithoutLast(c, f.group) /\ (f.site = "loop" => ReachesLimit(c, f.group))
  /\ \A b \in DOMAIN f.batches :
       /\ BelowWithoutLast(c, f.batches[b].logs)
       /\ b < Len(f.batches) \/ f.pc # "returned" => ReachesLimit(c, f.batches[b].logs)

\* A call has a number, and a group that can be sent has no log that was not counted.
CountInv(f) ==
  /\ f.calls = 0 <=> f.pc = "idle"
  /\ Encodable(f.group) => Len(f.group) <= f.log_count

\* The records of a put under way, which the counter does not have yet.
Pending(f) == IF f.pc \in {"sent", "answered"} THEN f.log_count ELSE 0

PendingSum == SumFunction([c \in Chunk |-> Pending(flush[c])])

SumInv ==
  /\ \A c \in Chunk : CutInv(flush[c], c) /\ CountInv(flush[c])
  /\ forwarded <= m_records + PendingSum
  /\ RetriesCounted

-----------------------------------------------------------------------------
(* What the invariants need to know of one coroutine's step.               *)

\* Calls the engine had to repeat: Retries, of a record.
RetriesOf(f) == f.calls - (IF f.ret = "FLB_RETRY" \/ f.calls = 0 THEN 0 ELSE 1)

\* The step gives c the record g, which satisfies the invariants, and what it adds to
\* the metrics is what g has no longer pending, or what it is a retry of.
Counts(c, g) ==
  /\ flush' = [flush EXCEPT ![c] = g]
  /\ CutInv(g, c) /\ CountInv(g)
  /\ Pending(g) \in Nat /\ RetriesOf(g) \in Int
  /\ forwarded' - m_records' - Pending(g) <= forwarded - m_records - Pending(flush[c])
  /\ m_requests'["retry"] - RetriesOf(g) = m_requests["retry"] - RetriesOf(flush[c])

\* The fields the invariants look at, but for the place and the group.
Frame(f, g) ==
  /\ g.site = f.site /\ g.ret = f.ret /\ g.calls = f.calls
  /\ g.log_count = f.log_count /\ g.encoded_size = f.encoded_size

LEMMA TakeFrame ==
  ASSUME NEW f \in Flush, NEW handles
  PROVE  LET g == Take(f, handles)
         IN  Frame(f, g) /\ g.pc = f.pc /\ g.group = f.group /\ g.batches = f.batches
BY DEF Take, Flush, Frame

LEMMA DestroyFrame ==
  ASSUME NEW f \in Flush, NEW handles
  PROVE  LET g == Destroy(f, handles)
         IN  Frame(f, g) /\ g.pc = f.pc /\ g.group = f.group /\ g.batches = f.batches
BY DEF Destroy, Flush, Frame

LEMMA PutFrame ==
  ASSUME NEW f \in Flush
  PROVE  Frame(f, Put(f)) /\ Moved(f, Put(f))
<1> DEFINE d == Destroy(f, {"result", "group"})
<1>1. d \in Flush /\ Frame(f, d)
  BY DestroyType, DestroyFrame
<1>2. Put(f) = [d EXCEPT !.group = <<>>,
                         !.batches = Append(@, [logs |-> f.group, result |-> f.result])]
  BY DEF Put
<1> HIDE DEF d
<1>3. Frame(d, Put(f))
  BY <1>1, <1>2 DEF Flush, Frame
<1> QED
  BY <1>1, <1>3, PutMoves DEF Frame

LEMMA CloseFrame ==
  ASSUME NEW f \in Flush
  PROVE  Frame(f, Close(f)) /\ Moved(f, Close(f))
<1>1. Put(f) \in Flush /\ Frame(f, Put(f))
  BY PutType, PutFrame
<1>2. Frame(Put(f), Destroy(Put(f), {"decoder"}))
  BY <1>1, DestroyFrame
<1> QED
  BY <1>1, <1>2, CloseMoves DEF Close, Frame

\* What the types and the invariants say of a chunk's record.
LEMMA FlushFacts ==
  ASSUME TypeOK, \A d \in Chunk : CallInv(flush[d]), SumInv, NEW c \in Chunk
  PROVE  /\ flush[c] \in Flush /\ CallInv(flush[c]) /\ CutInv(flush[c], c) /\ CountInv(flush[c])
         /\ flush[c].group \in Seq(GroupLog) /\ flush[c].log_count \in Nat
         /\ flush[c].encoded_size \in Nat /\ flush[c].calls \in Nat
         /\ flush[c].batches \in Seq(Batch)
         /\ flush[c].pc # "returned" => flush[c].ret = "none"
         /\ m_records \in Nat /\ forwarded \in Nat /\ m_requests["retry"] \in Nat
         /\ Overhead[c] \in Nat /\ MaxRaw \in Nat \ {0}
BY FlushAssumption DEF TypeOK, Flush, SumInv, CallInv

\* A group without its last log.
LEMMA FrontOfGroup ==
  ASSUME NEW logs \in Seq(GroupLog)
  PROVE  /\ \A log \in GroupLog : Front(Append(logs, log)) = logs
         /\ Size(logs) \in Nat /\ Size(Front(logs)) \in Nat
         /\ Size(Front(logs)) <= Size(logs)
<1>1. \A log \in GroupLog : Front(Append(logs, log)) = logs
  BY DEF Front
<1>2. Size(logs) \in Nat
  BY SizeType
<1>3. CASE logs = <<>>
  <2>1. Front(logs) = <<>>
    BY <1>3 DEF Front
  <2> QED
    BY <1>1, <1>2, <1>3, <2>1
<1>4. CASE logs # <<>>
  <2> DEFINE short == Front(logs)
             last  == logs[Len(logs)]
  <2>1. short \in Seq(GroupLog) /\ last \in GroupLog /\ logs = Append(short, last)
    BY <1>4 DEF Front
  <2>2. last.counted \in Nat
    BY <2>1 DEF GroupLog
  <2> HIDE DEF short, last
  <2>3. Size(short) \in Nat /\ Size(logs) = Size(short) + last.counted
    BY <2>1, SizeAppend, SizeType
  <2> QED
    BY <1>1, <1>2, <2>2, <2>3 DEF short
<1> QED
  BY <1>3, <1>4

\* A new call has no group yet; the call it repeats becomes one of the retries.
LEMMA NewCallCounts ==
  ASSUME TypeOK, \A d \in Chunk : CallInv(flush[d]), SumInv, NEW c \in Chunk,
         Start(c) \/ StartFails(c)
  PROVE  \E g : Counts(c, g)
<1> DEFINE f == flush[c]
           k == Called(c)
           New(g) == /\ g.site = "loop" /\ g.group = <<>> /\ g.batches = <<>>
                     /\ g.log_count = 0 /\ g.encoded_size = 0 /\ g.calls = f.calls + 1
<1>1. f \in Flush /\ f.calls \in Nat /\ (f.pc = "idle" => f.calls = 0)
      /\ (f.pc = "idle" \/ f.ret = "FLB_RETRY") /\ (f.pc # "returned" => f.ret = "none")
  BY FlushFacts DEF Start, StartFails, Callable, CountInv
<1>2. k \in Flush /\ New(k) /\ k.pc = "loop" /\ k.ret = "none"
  BY CalledType DEF Called, Idle
<1>3. \E g : /\ flush' = [flush EXCEPT ![c] = g] /\ New(g)
             /\ g.pc \in {"loop", "returned"} /\ g.ret \in {"none", "FLB_ERROR"}
  <2>1. CASE Start(c)
    <3> DEFINE g == Take(k, {"decoder", "group"})
    <3> HIDE DEF k
    <3>1. New(g) /\ g.pc = "loop" /\ g.ret = "none"
      BY <1>2, TakeFrame DEF Frame
    <3>2. flush' = [flush EXCEPT ![c] = g]
      BY <2>1 DEF Start, k
    <3> QED
      BY <3>1, <3>2
  <2>2. CASE StartFails(c)
    <3> DEFINE g == Return(k, "FLB_ERROR")
    <3> HIDE DEF k
    <3>1. New(g) /\ g.pc = "returned" /\ g.ret = "FLB_ERROR"
      BY <1>2 DEF Return, Flush
    <3>2. flush' = [flush EXCEPT ![c] = g]
      BY <2>2 DEF StartFails, k
    <3> QED
      BY <3>1, <3>2
  <2> QED
    BY <2>1, <2>2
<1>4. PICK g : /\ flush' = [flush EXCEPT ![c] = g] /\ New(g)
               /\ g.pc \in {"loop", "returned"} /\ g.ret \in {"none", "FLB_ERROR"}
  BY <1>3
<1>5. CutInv(g, c)
  BY <1>4, SizeEmpty DEF CutInv
<1>6. CountInv(g)
  BY <1>1, <1>4 DEF CountInv
<1>7. Pending(g) = 0 /\ Pending(f) = 0
  BY <1>1, <1>4 DEF Pending
<1>8. RetriesOf(g) = f.calls /\ RetriesOf(f) = f.calls
  BY <1>1, <1>4 DEF RetriesOf
<1>9. UNCHANGED <<m_records, m_requests, forwarded>>
  BY DEF Start, StartFails, metrics
<1>10. m_records \in Nat /\ forwarded \in Nat /\ m_requests["retry"] \in Nat
  BY FlushFacts
<1>11. forwarded' - m_records' - Pending(g) <= forwarded - m_records - Pending(f)
  BY <1>7, <1>9, <1>10
<1>12. m_requests'["retry"] - RetriesOf(g) = m_requests["retry"] - RetriesOf(f)
  BY <1>8, <1>9
<1>13. flush' = [flush EXCEPT ![c] = g] /\ Pending(g) \in Nat /\ RetriesOf(g) \in Int
  BY <1>1, <1>4, <1>7, <1>8
<1> QED
  BY <1>5, <1>6, <1>11, <1>12, <1>13 DEF Counts

\* A step in the loop that leaves the metrics and the batches alone.
LEMMA LoopCounts ==
  ASSUME TypeOK, \A d \in Chunk : CallInv(flush[d]), SumInv, NEW c \in Chunk, NEW g,
         flush' = [flush EXCEPT ![c] = g], UNCHANGED <<m_records, m_requests, forwarded>>,
         flush[c].pc = "loop", g.pc \in {"loop", "put", "returned"},
         g.calls = flush[c].calls, g.ret \in {"none", "FLB_OK"}, g.batches = flush[c].batches,
         g.pc # "returned" => g.encoded_size = Size(g.group),
         g.pc = "loop" => Overhead[c] + Size(g.group) < MaxRaw \/ Size(g.group) = 0,
         g.pc = "put" => /\ BelowWithoutLast(c, g.group)
                         /\ g.site = "loop" => ReachesLimit(c, g.group),
         Encodable(g.group) => Len(g.group) <= g.log_count
  PROVE  Counts(c, g)
<1>1. CutInv(g, c)
  BY FlushFacts DEF CutInv
<1>2. CountInv(g)
  BY FlushFacts DEF CountInv
<1>3. Pending(g) = 0 /\ Pending(flush[c]) = 0
  BY DEF Pending
<1>4. RetriesOf(g) = RetriesOf(flush[c]) /\ RetriesOf(g) \in Int
  BY FlushFacts DEF RetriesOf
<1> QED
  BY <1>1, <1>2, <1>3, <1>4, FlushFacts DEF Counts

\* A log more, and the limit tested.
LEMMA AddRecordCounts ==
  ASSUME TypeOK, \A d \in Chunk : CallInv(flush[d]), SumInv, NEW c \in Chunk,
         NEW built \in {"whole", "part", "nothing"}, NEW counted \in Nat, AddRecord(c, built, counted)
  PROVE  \E g : Counts(c, g)
<1> DEFINE f == flush[c]
           log == Log(f, built, counted)
           g == [f EXCEPT !.next = @ + 1,
                          !.group = Append(@, log),
                          !.encoded_size = f.encoded_size + counted,
                          !.log_count = @ + 1,
                          !.pc = IF Full(Overhead[c] + (f.encoded_size + counted))
                                 THEN "put" ELSE "loop"]
<1>1. /\ f \in Flush /\ f.pc = "loop" /\ f.group \in Seq(GroupLog) /\ f.ret = "none"
      /\ f.log_count \in Nat /\ f.encoded_size \in Nat
  BY FlushFacts DEF AddRecord
<1>2. log \in GroupLog /\ log.counted = counted
  BY <1>1 DEF Log, GroupLog, Flush
<1>3. flush' = [flush EXCEPT ![c] = g] /\ UNCHANGED <<m_records, m_requests, forwarded>>
  BY DEF AddRecord, metrics
<1> HIDE DEF log
<1>4. /\ g.group = Append(f.group, log) /\ g.encoded_size = f.encoded_size + counted
      /\ g.log_count = f.log_count + 1 /\ g.calls = f.calls /\ g.ret = f.ret
      /\ g.batches = f.batches
      /\ g.pc = IF Full(Overhead[c] + g.encoded_size) THEN "put" ELSE "loop"
  BY <1>1 DEF Flush
<1> HIDE DEF g
<1>5. f.encoded_size = Size(f.group) /\ (Overhead[c] + Size(f.group) < MaxRaw \/ Size(f.group) = 0)
  BY <1>1, FlushFacts DEF CutInv
<1>6. g.encoded_size = Size(g.group) /\ g.encoded_size \in Nat
  BY <1>1, <1>2, <1>4, <1>5, SizeAppend
<1>7. Front(g.group) = f.group
  BY <1>1, <1>2, <1>4, FrontOfGroup
<1>8. g.pc = "put" => BelowWithoutLast(c, g.group) /\ ReachesLimit(c, g.group)
  BY <1>4, <1>5, <1>6, <1>7 DEF BelowWithoutLast, ReachesLimit, Full
<1>9. g.pc = "loop" => Overhead[c] + Size(g.group) < MaxRaw
  BY <1>4, <1>6, FlushFacts, SMTT(30) DEF Full
<1>10. ASSUME Encodable(g.group) PROVE Len(g.group) <= g.log_count
  <2>1. Encodable(f.group) \/ f.group = <<>>
    <3>1. /\ DOMAIN f.group = 1 .. Len(f.group) /\ Len(f.group) \in Nat
          /\ DOMAIN g.group = 1 .. Len(f.group) + 1
          /\ \A i \in DOMAIN f.group : g.group[i] = f.group[i]
      BY <1>1, <1>2, <1>4
    <3>2. \A i \in DOMAIN f.group : i \in DOMAIN g.group
      BY <3>1
    <3>3. \A i \in DOMAIN f.group : f.group[i].built # "nothing"
      BY <1>10, <3>1, <3>2, Zenon DEF Encodable
    <3> QED
      BY <3>3 DEF Encodable
  <2>2. Len(g.group) = Len(f.group) + 1
    BY <1>1, <1>2, <1>4
  <2>3. Len(f.group) <= f.log_count
    BY <1>1, <2>1, FlushFacts DEF CountInv
  <2> QED
    BY <1>1, <1>4, <2>2, <2>3
<1>11. g.pc \in {"loop", "put"}
  BY <1>4
<1>12. Counts(c, g)
  BY <1>1, <1>3, <1>4, <1>6, <1>8, <1>9, <1>10, <1>11, LoopCounts
<1> QED
  BY <1>12

LEMMA DecodeCounts ==
  ASSUME TypeOK, \A d \in Chunk : CallInv(flush[d]), SumInv, NEW c \in Chunk,
         DecodeRecord(c) \/ DecodeRecordOom(c)
  PROVE  \E g : Counts(c, g)
BY AnyRecord, AddRecordCounts

\* A log that could not be had adds nothing, or one that makes the group unfit.
LEMMA AddLogFailsCounts ==
  ASSUME TypeOK, \A d \in Chunk : CallInv(flush[d]), SumInv, NEW c \in Chunk, AddLogFails(c)
  PROVE  \E g : Counts(c, g)
<1> DEFINE f == flush[c]
           n == [f EXCEPT !.next = @ + 1]
           log == Log(f, "nothing", 0)
           g1 == [n EXCEPT !.skipped = @ \cup {f.next}]
           g2 == [n EXCEPT !.group = Append(@, log)]
<1>1. f \in Flush /\ f.pc = "loop" /\ f.group \in Seq(GroupLog) /\ f.ret = "none"
      /\ f.log_count \in Nat
  BY FlushFacts DEF AddLogFails
<1>2. log \in GroupLog /\ log.counted = 0 /\ log.built = "nothing"
  BY <1>1 DEF Log, GroupLog, Flush
<1>3. flush' = [flush EXCEPT ![c] = g1] \/ flush' = [flush EXCEPT ![c] = g2]
  BY DEF AddLogFails
<1>4. UNCHANGED <<m_records, m_requests, forwarded>>
  BY DEF AddLogFails, metrics
<1> HIDE DEF log
<1>5. Frame(f, g1) /\ g1.pc = "loop" /\ g1.batches = f.batches /\ g1.group = f.group
  BY <1>1 DEF Flush, Frame
<1>6. Frame(f, g2) /\ g2.pc = "loop" /\ g2.batches = f.batches /\ g2.group = Append(f.group, log)
  BY <1>1 DEF Flush, Frame
<1> HIDE DEF g1, g2
<1>7. /\ f.encoded_size = Size(f.group)
      /\ Overhead[c] + Size(f.group) < MaxRaw \/ Size(f.group) = 0
      /\ Encodable(f.group) => Len(f.group) <= f.log_count
  BY <1>1, FlushFacts DEF CutInv, CountInv
<1>8. Size(g2.group) = Size(f.group)
  BY <1>1, <1>2, <1>6, SizeAppend, SizeType
<1>9. ~Encodable(g2.group)
  BY <1>1, <1>2, <1>6 DEF Encodable
<1>10. ASSUME flush' = [flush EXCEPT ![c] = g1] PROVE Counts(c, g1)
  BY <1>1, <1>4, <1>5, <1>7, <1>10, LoopCounts DEF Frame
<1>11. ASSUME flush' = [flush EXCEPT ![c] = g2] PROVE Counts(c, g2)
  BY <1>1, <1>4, <1>6, <1>7, <1>8, <1>9, <1>11, LoopCounts DEF Frame
<1> QED
  BY <1>3, <1>10, <1>11

\* The tail is the group as it is, and below the limit; or there is none.
LEMMA DecodeDoneCounts ==
  ASSUME TypeOK, \A d \in Chunk : CallInv(flush[d]), SumInv, NEW c \in Chunk, DecodeDone(c)
  PROVE  \E g : Counts(c, g)
<1> DEFINE f0 == flush[c]
           f == Destroy(f0, {"decoder"})
           g == [f EXCEPT !.pc = "put", !.site = "tail"]
           d == Destroy(f, {"group"})
           e == Return(d, "FLB_OK")
           h == [e EXCEPT !.group = <<>>,
                          !.skipped = @ \cup {log.pos : log \in Orphans(f.group)}]
<1>1. f0 \in Flush /\ f0.pc = "loop" /\ f0.group \in Seq(GroupLog) /\ f0.ret = "none"
      /\ f0.log_count \in Nat
  BY FlushFacts DEF DecodeDone
<1>2. f \in Flush /\ Frame(f0, f) /\ f.group = f0.group /\ f.batches = f0.batches
  BY <1>1, DestroyType, DestroyFrame
<1>3. flush' = [flush EXCEPT ![c] = g] \/ flush' = [flush EXCEPT ![c] = h]
  BY DEF DecodeDone
<1>4. UNCHANGED <<m_records, m_requests, forwarded>>
  BY DEF DecodeDone, metrics
<1> HIDE DEF f
<1>5. /\ g.pc = "put" /\ g.site = "tail" /\ g.ret = f.ret /\ g.calls = f.calls
      /\ g.log_count = f.log_count /\ g.encoded_size = f.encoded_size /\ g.group = f.group
      /\ g.batches = f.batches
  BY <1>2 DEF Flush
<1> HIDE DEF g
<1>6. d \in Flush /\ Frame(f, d) /\ d.batches = f.batches
  BY <1>2, DestroyType, DestroyFrame
<1> HIDE DEF d
<1>7. e \in Flush /\ e.pc = "returned" /\ e.ret = "FLB_OK" /\ e.calls = d.calls
      /\ e.batches = d.batches /\ e.log_count = d.log_count
  BY <1>6, ReturnType, ZenonT(30) DEF Return, Flush
<1> HIDE DEF e
<1>8. /\ h.pc = "returned" /\ h.ret = "FLB_OK" /\ h.calls = e.calls /\ h.batches = e.batches
      /\ h.group = <<>> /\ h.log_count = e.log_count
  BY <1>7 DEF Flush
<1> HIDE DEF h
<1>9. /\ f0.encoded_size = Size(f0.group)
      /\ Overhead[c] + Size(f0.group) < MaxRaw \/ Size(f0.group) = 0
      /\ Encodable(f0.group) => Len(f0.group) <= f0.log_count
  BY <1>1, FlushFacts DEF CutInv, CountInv
<1>10. BelowWithoutLast(c, f0.group)
  <2>1. /\ Size(f0.group) \in Nat /\ Size(Front(f0.group)) \in Nat
        /\ Size(Front(f0.group)) <= Size(f0.group)
    BY <1>1, FrontOfGroup
  <2> QED
    BY <1>9, <2>1, FlushFacts DEF BelowWithoutLast
<1>11. ASSUME flush' = [flush EXCEPT ![c] = g] PROVE Counts(c, g)
  BY <1>1, <1>2, <1>4, <1>5, <1>9, <1>10, <1>11, LoopCounts DEF Frame
<1>12. ASSUME flush' = [flush EXCEPT ![c] = h] PROVE Counts(c, h)
  <2>1. Len(h.group) <= h.log_count
    BY <1>1, <1>2, <1>6, <1>7, <1>8 DEF Frame
  <2> QED
    BY <1>1, <1>2, <1>4, <1>6, <1>7, <1>8, <1>12, <2>1, LoopCounts DEF Frame
<1> QED
  BY <1>3, <1>11, <1>12

\* The group waits for its answer, or has it: its records are pending.
LEMMA PutCounts ==
  ASSUME TypeOK, \A d \in Chunk : CallInv(flush[d]), SumInv, NEW c \in Chunk, NEW g,
         flush' = [flush EXCEPT ![c] = g], UNCHANGED <<m_records, m_requests>>,
         flush[c].pc \in {"put", "sent"}, g.pc \in {"sent", "answered"}, Frame(flush[c], g),
         g.group = flush[c].group, g.batches = flush[c].batches,
         \/ forwarded' = forwarded
         \/ /\ flush[c].pc = "put" /\ Encodable(flush[c].group)
            /\ forwarded' = forwarded + Len(flush[c].group)
  PROVE  Counts(c, g)
<1> DEFINE f == flush[c]
<1>1. f.calls \in Nat /\ f.log_count \in Nat /\ Len(f.group) \in Nat
  BY FlushFacts
<1>2. CutInv(g, c)
  BY FlushFacts DEF CutInv, Frame
<1>3. CountInv(g)
  BY FlushFacts DEF CountInv, Frame
<1>4. Pending(g) = f.log_count /\ Pending(f) \in {0, f.log_count} /\ (f.pc = "put" => Pending(f) = 0)
  BY DEF Pending, Frame
<1>5. RetriesOf(g) = RetriesOf(f) /\ RetriesOf(g) \in Int
  BY <1>1 DEF RetriesOf, Frame
<1>6. m_records \in Nat /\ forwarded \in Nat /\ m_requests["retry"] \in Nat
  BY FlushFacts
<1>7. Encodable(f.group) => Len(f.group) <= f.log_count
  BY FlushFacts DEF CountInv
<1>8. forwarded' - m_records' - Pending(g) <= forwarded - m_records - Pending(f)
  BY <1>1, <1>4, <1>6, <1>7
<1> QED
  BY <1>1, <1>2, <1>3, <1>4, <1>5, <1>8 DEF Counts

LEMMA PutReturnsCounts ==
  ASSUME TypeOK, \A d \in Chunk : CallInv(flush[d]), SumInv, NEW c \in Chunk,
         PutRejected(c) \/ PutUnsent(c) \/ Answers(c)
  PROVE  \E g : Counts(c, g)
<1>1. PICK code \in {"OK", "RETRYABLE", "FATAL"} : PutReturns(c, code)
  BY DEF PutRejected, PutUnsent, Answers, Answer
<1>2. flush[c].pc \in {"put", "sent"} /\ UNCHANGED <<m_records, m_requests, forwarded>>
  BY DEF PutRejected, PutUnsent, Answers, Answer, metrics
<1> DEFINE f == [flush[c] EXCEPT !.pc = "answered", !.result = code]
           g == Take(f, {"result"})
<1>3. /\ f \in Flush /\ f.pc = "answered" /\ Frame(flush[c], f) /\ f.group = flush[c].group
      /\ f.batches = flush[c].batches
  <2>1. flush[c] \in Flush
    BY FlushFacts
  <2> QED
    BY <2>1 DEF Flush, Frame
<1>4. flush' = [flush EXCEPT ![c] = g]
  BY <1>1 DEF PutReturns
<1> HIDE DEF f
<1>5. g.pc = "answered" /\ Frame(f, g) /\ g.group = f.group /\ g.batches = f.batches
  BY <1>3, TakeFrame
<1> HIDE DEF g
<1>6. Frame(flush[c], g)
  BY <1>3, <1>5 DEF Frame
<1>7. Counts(c, g)
  BY <1>2, <1>3, <1>4, <1>5, <1>6, PutCounts
<1> QED
  BY <1>7

LEMMA SendCounts ==
  ASSUME TypeOK, \A d \in Chunk : CallInv(flush[d]), SumInv, NEW c \in Chunk, Send(c)
  PROVE  \E g : Counts(c, g)
<1> DEFINE g == [flush[c] EXCEPT !.pc = "sent"]
<1>1. flush[c] \in Flush
  BY FlushFacts
<1>2. /\ g.pc = "sent" /\ Frame(flush[c], g) /\ g.group = flush[c].group
      /\ g.batches = flush[c].batches
  BY <1>1 DEF Flush, Frame
<1>3. flush' = [flush EXCEPT ![c] = g]
  BY DEF Send
<1> HIDE DEF g
<1>4. Counts(c, g)
  BY <1>2, <1>3, PutCounts DEF Send, metrics
<1> QED
  BY <1>4

\* The batch joins the others, its records and its result are counted.
LEMMA ClosingCounts ==
  ASSUME TypeOK, \A d \in Chunk : CallInv(flush[d]), SumInv, NEW c \in Chunk, NEW g,
         flush' = [flush EXCEPT ![c] = g], flush[c].pc = "answered", Moved(flush[c], g),
         g.calls = flush[c].calls,
         \/ g.pc = "returned" /\ g.ret \in {"FLB_OK", "FLB_RETRY", "FLB_ERROR"}
         \/ g.pc = "loop" /\ g.ret = "none" /\ flush[c].site = "loop" /\ g.encoded_size = 0,
         g.log_count \in Nat,
         NEW label \in {"ok", "retry", "error"}, CountPut(c, label),
         label = "retry" <=> g.ret = "FLB_RETRY", UNCHANGED forwarded
  PROVE  Counts(c, g)
<1> DEFINE f == flush[c]
           batch == [logs |-> f.group, result |-> f.result]
<1>1. /\ f.calls \in Nat /\ f.log_count \in Nat /\ f.ret = "none" /\ f.calls # 0
      /\ f.batches \in Seq(Batch) /\ CutInv(f, c) /\ f \in Flush
  BY FlushFacts DEF CountInv
<1>2. batch \in Batch /\ batch.logs = f.group
  BY <1>1 DEF Flush, Batch
<1>3. g.batches = Append(f.batches, batch) /\ g.group = <<>>
  BY DEF Moved
<1> HIDE DEF batch
<1>4. \A b \in DOMAIN g.batches :
        /\ BelowWithoutLast(c, g.batches[b].logs)
        /\ b < Len(g.batches) \/ g.pc # "returned" => ReachesLimit(c, g.batches[b].logs)
  <2> TAKE b \in DOMAIN g.batches
  <2>1. CASE b \in DOMAIN f.batches
    <3>1. g.batches[b] = f.batches[b]
      BY <1>1, <1>2, <1>3, <2>1
    <3> QED
      BY <1>1, <2>1, <3>1 DEF CutInv
  <2>2. CASE b \notin DOMAIN f.batches
    <3>1. g.batches[b] = batch /\ b = Len(g.batches) /\ Len(g.batches) \in Nat
      BY <1>1, <1>2, <1>3, <2>2
    <3> QED
      BY <1>1, <1>2, <3>1 DEF CutInv
  <2> QED
    BY <2>1, <2>2
<1>5. CutInv(g, c)
  BY <1>3, <1>4, SizeEmpty DEF CutInv
<1>6. CountInv(g)
  BY <1>1, <1>3 DEF CountInv
<1>7. Pending(g) = 0 /\ Pending(f) = f.log_count
  BY DEF Pending
<1>8. RetriesOf(f) = f.calls - 1
      /\ RetriesOf(g) = IF label = "retry" THEN f.calls ELSE f.calls - 1
  BY <1>1 DEF RetriesOf
<1>9. m_records \in Nat /\ forwarded \in Nat /\ m_requests \in [{"ok", "retry", "error"} -> Nat]
  BY DEF TypeOK
<1>10. m_records' = m_records + f.log_count
       /\ m_requests'["retry"] = m_requests["retry"] + (IF label = "retry" THEN 1 ELSE 0)
  BY <1>9 DEF CountPut
<1>11. forwarded' - m_records' - Pending(g) <= forwarded - m_records - Pending(f)
  BY <1>1, <1>7, <1>9, <1>10
<1>11a. m_requests["retry"] \in Nat
  BY <1>9
<1>12. m_requests'["retry"] - RetriesOf(g) = m_requests["retry"] - RetriesOf(f)
  <2> HIDE DEF f
  <2>1. CASE label = "retry"
    BY <1>1, <1>8, <1>10, <1>11a, <2>1, SMTT(30)
  <2>2. CASE label # "retry"
    BY <1>1, <1>8, <1>10, <1>11a, <2>2
  <2> QED
    BY <2>1, <2>2
<1> QED
  BY <1>1, <1>5, <1>6, <1>7, <1>8, <1>11, <1>12 DEF Counts

LEMMA HandleCounts ==
  ASSUME TypeOK, \A d \in Chunk : CallInv(flush[d]), SumInv, NEW c \in Chunk,
         \/ HandleRetryable(c) \/ HandleFatal(c)
         \/ HandleOk(c) \/ HandleOkNoGroup(c) \/ HandleOkTail(c)
  PROVE  \E g : Counts(c, g)
<1> DEFINE f == flush[c]
<1>1. f \in Flush /\ f.pc = "answered" /\ f.ret = "none" /\ UNCHANGED forwarded
  BY FlushFacts DEF HandleRetryable, HandleFatal, HandleOk, HandleOkNoGroup, HandleOkTail
<1>2. CASE ~HandleOk(c)
  <2>1. PICK code \in {"FLB_OK", "FLB_RETRY", "FLB_ERROR"}, label \in {"ok", "retry", "error"} :
          /\ CountPut(c, label) /\ (label = "retry" <=> code = "FLB_RETRY")
          /\ flush' = [flush EXCEPT ![c] = Return(Close(f), code)]
    BY <1>2 DEF HandleRetryable, HandleFatal, HandleOkNoGroup, HandleOkTail
  <2> DEFINE k == Close(f)
             g == Return(k, code)
  <2>2. k \in Flush /\ Moved(f, k) /\ Frame(f, k)
    BY <1>1, CloseType, CloseFrame
  <2>3. flush' = [flush EXCEPT ![c] = g]
    BY <2>1
  <2> HIDE DEF k
  <2>4. Same(k, g) /\ g.pc = "returned" /\ g.ret = code /\ g.calls = k.calls /\ g.log_count \in Nat
    BY <2>2 DEF Return, Flush, Same
  <2> HIDE DEF g
  <2>5. Moved(f, g) /\ g.calls = f.calls
    BY <2>2, <2>4 DEF Moved, Same, Frame
  <2>6. Counts(c, g)
    BY <1>1, <2>1, <2>3, <2>4, <2>5, ClosingCounts
  <2> QED
    BY <2>6
<1>3. CASE HandleOk(c)
  <2> DEFINE p == Put(f)
             t == Take(p, {"group"})
             g == [t EXCEPT !.encoded_size = 0, !.log_count = 0, !.pc = "loop"]
  <2>1. p \in Flush /\ Moved(f, p) /\ Frame(f, p)
    BY <1>1, PutType, PutFrame
  <2>2. flush' = [flush EXCEPT ![c] = g] /\ CountPut(c, "ok") /\ f.site = "loop"
    BY <1>3 DEF HandleOk, Renew
  <2> HIDE DEF p
  <2>3. t \in Flush /\ Same(p, t) /\ Frame(p, t)
    BY <2>1, TakeType, TakeSame, TakeFrame
  <2> HIDE DEF t
  <2>4. /\ g.next = t.next /\ g.group = t.group /\ g.batches = t.batches /\ g.skipped = t.skipped
        /\ g.calls = t.calls /\ g.pc = "loop" /\ g.ret = t.ret /\ g.encoded_size = 0
        /\ g.log_count = 0
    BY <2>3 DEF Flush
  <2> HIDE DEF g
  <2>5. Moved(f, g) /\ g.calls = f.calls /\ g.ret = "none"
    BY <1>1, <2>1, <2>3, <2>4 DEF Moved, Same, Frame
  <2>6. g.log_count \in Nat /\ g.ret # "FLB_RETRY"
    BY <2>4, <2>5
  <2>7. Counts(c, g)
    BY <1>1, <2>2, <2>4, <2>5, <2>6, ClosingCounts
  <2> QED
    BY <2>7
<1> QED
  BY <1>2, <1>3

-----------------------------------------------------------------------------
(* The invariants hold.                                                    *)

LEMMA StepCounts ==
  ASSUME TypeOK, \A d \in Chunk : CallInv(flush[d]), SumInv, NEW c \in Chunk,
         Start(c) \/ Step(c) \/ Answers(c) \/ Failure(c)
  PROVE  \E g : Counts(c, g)
<1>1. CASE Start(c) \/ StartFails(c)
  BY <1>1, NewCallCounts
<1>2. CASE DecodeRecord(c) \/ DecodeRecordOom(c)
  BY <1>2, DecodeCounts
<1>3. CASE AddLogFails(c)
  BY <1>3, AddLogFailsCounts
<1>4. CASE DecodeDone(c)
  BY <1>4, DecodeDoneCounts
<1>5. CASE PutRejected(c) \/ PutUnsent(c) \/ Answers(c)
  BY <1>5, PutReturnsCounts
<1>6. CASE Send(c)
  BY <1>6, SendCounts
<1>7. CASE \/ HandleRetryable(c) \/ HandleFatal(c)
           \/ HandleOk(c) \/ HandleOkNoGroup(c) \/ HandleOkTail(c)
  BY <1>7, HandleCounts
<1> QED
  BY <1>1, <1>2, <1>3, <1>4, <1>5, <1>6, <1>7 DEF Step, Compute, Failure

LEMMA SummandsType ==
  ASSUME TypeOK, NEW c \in Chunk
  PROVE  Pending(flush[c]) \in Int /\ RetriesOf(flush[c]) \in Int
BY DEF TypeOK, Flush, Pending, RetriesOf

LEMMA RetriesAreRetriesOf ==
  RetriesCounted <=> m_requests["retry"] = SumFunction([c \in Chunk |-> RetriesOf(flush[c])])
BY DEF RetriesCounted, Retries, RetriesOf

LEMMA SumsInit == Init => SumInv
<1> SUFFICES ASSUME Init PROVE SumInv
  OBVIOUS
<1>1. \A c \in Chunk : flush[c] = Idle
  BY DEF Init
<1>2. \A c \in Chunk : CutInv(flush[c], c) /\ CountInv(flush[c])
  BY <1>1 DEF Idle, CutInv, CountInv
<1>3. \A c \in Chunk : Pending(flush[c]) = 0 /\ RetriesOf(flush[c]) = 0
  BY <1>1 DEF Idle, Pending, RetriesOf
<1>4. PendingSum = 0
  BY <1>3, SumZero, FlushAssumption DEF PendingSum
<1>5. SumFunction([c \in Chunk |-> RetriesOf(flush[c])]) = 0
  BY <1>3, SumZero, FlushAssumption
<1>6. m_records = 0 /\ forwarded = 0 /\ m_requests["retry"] = 0
  BY DEF Init
<1> QED
  BY <1>2, <1>4, <1>5, <1>6, RetriesAreRetriesOf DEF SumInv

LEMMA SumsStep ==
  TypeOK /\ TypeOK' /\ (\A c \in Chunk : CallInv(flush[c])) /\ SumInv /\ [Next]_vars => SumInv'
<1> SUFFICES ASSUME TypeOK, TypeOK', \A c \in Chunk : CallInv(flush[c]), SumInv, [Next]_vars
             PROVE  SumInv'
  OBVIOUS
<1>1. CASE UNCHANGED vars
  <2>1. UNCHANGED <<flush, m_records, m_requests, forwarded>>
    BY <1>1 DEF vars, metrics
  <2>2. UNCHANGED PendingSum /\ UNCHANGED RetriesCounted
    BY <2>1 DEF PendingSum, RetriesCounted, Retries
  <2> QED
    BY <2>1, <2>2 DEF SumInv
<1>2. CASE Next
  <2>1. PICK c \in Chunk : Start(c) \/ Step(c) \/ Answers(c) \/ Failure(c)
    BY <1>2 DEF Next
  <2>2. PICK g : Counts(c, g)
    BY <2>1, StepCounts
  <2> DEFINE before == [d \in Chunk |-> Pending(flush[d])]
             after  == [d \in Chunk |-> Pending(flush'[d])]
             old    == [d \in Chunk |-> RetriesOf(flush[d])]
             new    == [d \in Chunk |-> RetriesOf(flush'[d])]
  <2>3. flush'[c] = g /\ \A d \in Chunk : d # c => flush'[d] = flush[d]
    BY <2>2 DEF TypeOK, Counts
  <2>4. \A d \in Chunk : CutInv(flush'[d], d) /\ CountInv(flush'[d])
    BY <2>2, <2>3 DEF SumInv, Counts
  <2>5. before \in [Chunk -> Int] /\ old \in [Chunk -> Int]
    BY SummandsType
  <2>6. Pending(g) \in Int /\ RetriesOf(g) \in Int
    BY <2>2 DEF Counts
  <2>7. after \in [Chunk -> Int] /\ new \in [Chunk -> Int]
    BY <2>3, <2>6, SummandsType
  <2>8. /\ before[c] = Pending(flush[c]) /\ after[c] = Pending(g)
        /\ old[c] = RetriesOf(flush[c]) /\ new[c] = RetriesOf(g)
        /\ \A d \in Chunk : d # c => after[d] = before[d] /\ new[d] = old[d]
    BY <2>3
  <2>9. PendingSum = SumFunction(before) /\ PendingSum' = SumFunction(after)
    BY DEF PendingSum
  <2>10. /\ m_requests["retry"] = SumFunction(old)
         /\ RetriesCounted' <=> m_requests'["retry"] = SumFunction(new)
    BY RetriesAreRetriesOf DEF SumInv, RetriesCounted, Retries, RetriesOf
  <2>11. /\ m_records \in Nat /\ forwarded \in Nat /\ m_records' \in Nat /\ forwarded' \in Nat
         /\ m_requests["retry"] \in Nat /\ m_requests'["retry"] \in Nat
    BY DEF TypeOK
  <2>11a. IsFiniteSet(Chunk)
    BY FlushAssumption
  <2>11b. \A d \in Chunk : d # c => after[d] = before[d]
    BY <2>8
  <2>11c. \A d \in Chunk : d # c => new[d] = old[d]
    BY <2>8
  <2> HIDE DEF before, after, old, new
  <2>12. /\ SumFunction(before) \in Int /\ SumFunction(after) \in Int
         /\ SumFunction(after) = SumFunction(before) + (after[c] - before[c])
    <3>1. before \in [Chunk -> Int] /\ after \in [Chunk -> Int]
      BY <2>5, <2>7
    <3>2. IsFiniteSet(Chunk) /\ c \in Chunk
      BY <2>11a
    <3> QED
      BY <3>1, <3>2, <2>11b, SumUpdate, ZenonT(30)
  <2>13. /\ SumFunction(old) \in Int /\ SumFunction(new) \in Int
         /\ SumFunction(new) = SumFunction(old) + (new[c] - old[c])
    <3>1. old \in [Chunk -> Int] /\ new \in [Chunk -> Int]
      BY <2>5, <2>7
    <3>2. IsFiniteSet(Chunk) /\ c \in Chunk
      BY <2>11a
    <3> QED
      BY <3>1, <3>2, <2>11c, SumUpdate, ZenonT(30)
  <2>14. before[c] \in Int /\ after[c] \in Int /\ old[c] \in Int /\ new[c] \in Int
    BY <2>5, <2>7
  <2>15. forwarded' - m_records' - after[c] <= forwarded - m_records - before[c]
    BY <2>2, <2>8 DEF Counts
  <2>16. m_requests'["retry"] - new[c] = m_requests["retry"] - old[c]
    BY <2>2, <2>8 DEF Counts
  <2>17. forwarded <= m_records + PendingSum
    BY DEF SumInv
  <2>18. forwarded' <= m_records' + PendingSum'
    BY <2>9, <2>11, <2>12, <2>14, <2>15, <2>17
  <2>19. RetriesCounted'
    BY <2>10, <2>11, <2>13, <2>14, <2>16
  <2> QED
    BY <2>4, <2>18, <2>19 DEF SumInv
<1> QED
  BY <1>1, <1>2

LEMMA SumInvariant == Spec => [](TypeOK /\ SumInv)
<1> DEFINE Whole == TypeOK /\ (\A c \in Chunk : CallInv(flush[c])) /\ SumInv
<1>1. Init => Whole
  BY TypeInit, CallInvInit, SumsInit
<1>2. Whole /\ [Next]_vars => Whole'
  BY TypeStep, CallInvStep, SumsStep
<1>3. Whole => TypeOK /\ SumInv
  OBVIOUS
<1> HIDE DEF Whole
<1> QED
  BY <1>1, <1>2, <1>3, PTL DEF Spec

-----------------------------------------------------------------------------
(* What follows.                                                           *)

\* A batch is put as soon as its logs reach the limit and not before, and only the
\* last batch of a call is put below it.
THEOREM FlushCutAtLimit == Spec => []CutAtLimit
<1>1. TypeOK /\ SumInv => CutAtLimit
  <2> SUFFICES ASSUME TypeOK, SumInv, NEW c \in Chunk, NEW b \in DOMAIN flush[c].batches
               PROVE  LET logs == flush[c].batches[b].logs
                      IN  /\ Overhead[c] + Size(Front(logs)) < MaxRaw \/ Size(Front(logs)) = 0
                          /\ b < Len(flush[c].batches) => Overhead[c] + Size(logs) >= MaxRaw
    BY DEF CutAtLimit
  <2>1. CutInv(flush[c], c)
    BY DEF SumInv
  <2> QED
    BY <2>1 DEF CutInv, BelowWithoutLast, ReachesLimit
<1> QED
  BY <1>1, SumInvariant, PTL

\* The "retry" label counts every call the engine had to repeat, over all chunks, and
\* while no put is under way no record was forwarded without being counted.
THEOREM FlushMetricsComplete == Spec => []MetricsComplete
<1>1. TypeOK /\ SumInv => MetricsComplete
  <2> SUFFICES ASSUME TypeOK, SumInv PROVE MetricsComplete
    OBVIOUS
  <2>1. ASSUME \A c \in Chunk : flush[c].pc \notin {"sent", "answered"}
        PROVE  forwarded <= m_records
    <3>1. \A c \in Chunk : Pending(flush[c]) = 0
      BY <2>1 DEF Pending
    <3>2. PendingSum = 0
      BY <3>1, SumZero, FlushAssumption DEF PendingSum
    <3> QED
      BY <3>2 DEF SumInv, TypeOK
  <2> QED
    BY <2>1 DEF MetricsComplete, ForwardedCounted, SumInv
<1> QED
  BY <1>1, SumInvariant, PTL

-----------------------------------------------------------------------------
(* A put has logs: log_count counts those of the group at hand.            *)

GroupInv(f) ==
  /\ f.pc \in {"loop", "put"} => f.log_count <= Len(f.group)
  /\ f.pc = "put" => f.log_count > 0

GroupsInv == \A c \in Chunk : GroupInv(flush[c])

\* The step gives c the record g, which satisfies the invariant.
Regroups(c, g) == flush' = [flush EXCEPT ![c] = g] /\ GroupInv(g)

\* A coroutine that is not before a put: nothing to show.
LEMMA AwayRegroups ==
  ASSUME NEW c, NEW f \in Flush, NEW code, f.pc \in {"answered", "sent"},
         \/ flush' = [flush EXCEPT ![c] = Take(f, {"result"})]
         \/ flush' = [flush EXCEPT ![c] = f]
         \/ flush' = [flush EXCEPT ![c] = Return(f, code)]
  PROVE  \E g : Regroups(c, g)
<1>1. GroupInv(f)
  BY DEF GroupInv
<1>2. GroupInv(Take(f, {"result"}))
  BY TakeFields DEF GroupInv
<1>3. GroupInv(Return(f, code))
  BY DEF GroupInv, Return, Flush
<1> QED
  BY <1>1, <1>2, <1>3 DEF Regroups

LEMMA StartRegroups ==
  ASSUME TypeOK, NEW c \in Chunk, Start(c) \/ StartFails(c)
  PROVE  \E g : Regroups(c, g)
<1> DEFINE f == Called(c)
<1>1. f \in Flush /\ f.log_count = 0
  BY CalledType DEF Called, Idle
<1>2. Len(f.group) \in Nat
  BY <1>1 DEF Flush
<1>3. f.pc = "loop"
  BY DEF Called, Idle
<1> HIDE DEF f
<1>4. GroupInv(Take(f, {"decoder", "group"}))
  BY <1>1, <1>2, <1>3, TakeFrame DEF GroupInv, Frame
<1>5. GroupInv(Return(f, "FLB_ERROR"))
  BY <1>1 DEF GroupInv, Return, Flush
<1> QED
  BY <1>4, <1>5 DEF Regroups, Start, StartFails, f

LEMMA AddRecordRegroups ==
  ASSUME TypeOK, GroupsInv, NEW c \in Chunk,
         NEW built \in {"whole", "part", "nothing"}, NEW counted \in Nat, AddRecord(c, built, counted)
  PROVE  \E g : Regroups(c, g)
<1> DEFINE f == flush[c]
           log == Log(f, built, counted)
           g == [f EXCEPT !.next = @ + 1,
                          !.group = Append(@, log),
                          !.encoded_size = f.encoded_size + counted,
                          !.log_count = @ + 1,
                          !.pc = IF Full(Overhead[c] + (f.encoded_size + counted))
                                 THEN "put" ELSE "loop"]
<1>1. f \in Flush /\ f.pc = "loop" /\ f.group \in Seq(GroupLog) /\ f.log_count \in Nat
  BY DEF AddRecord, TypeOK, Flush
<1>2. f.log_count <= Len(f.group)
  BY <1>1 DEF GroupsInv, GroupInv
<1>3. log \in GroupLog
  BY <1>1 DEF Log, GroupLog, Flush
<1>4. flush' = [flush EXCEPT ![c] = g]
  BY DEF AddRecord
<1> HIDE DEF log
<1>5. g.group = Append(f.group, log) /\ g.log_count = f.log_count + 1
  BY <1>1 DEF Flush
<1> HIDE DEF g
<1>6. Len(g.group) = Len(f.group) + 1
  BY <1>1, <1>3, <1>5
<1>7. GroupInv(g)
  BY <1>1, <1>2, <1>5, <1>6 DEF GroupInv
<1> QED
  BY <1>4, <1>7 DEF Regroups

LEMMA LoopRegroups ==
  ASSUME TypeOK, GroupsInv, NEW c \in Chunk,
         DecodeRecord(c) \/ DecodeRecordOom(c) \/ AddLogFails(c) \/ DecodeDone(c)
  PROVE  \E g : Regroups(c, g)
<1> DEFINE f == flush[c]
<1>1. f \in Flush /\ f.pc = "loop" /\ f.group \in Seq(GroupLog) /\ f.log_count \in Nat
  BY DEF DecodeRecord, DecodeRecordOom, AddLogFails, DecodeDone, TypeOK, Flush
<1>2. f.log_count <= Len(f.group)
  BY <1>1 DEF GroupsInv, GroupInv
<1>3. CASE DecodeRecord(c) \/ DecodeRecordOom(c)
  BY <1>3, AnyRecord, AddRecordRegroups
<1>4. CASE AddLogFails(c)
  <2> DEFINE log == Log(f, "nothing", 0)
             n == [f EXCEPT !.next = @ + 1]
             g1 == [n EXCEPT !.skipped = @ \cup {f.next}]
             g2 == [n EXCEPT !.group = Append(@, log)]
  <2>1. flush' = [flush EXCEPT ![c] = g1] \/ flush' = [flush EXCEPT ![c] = g2]
    BY <1>4 DEF AddLogFails
  <2>2. log \in GroupLog
    BY <1>1 DEF Log, GroupLog, Flush
  <2> HIDE DEF log
  <2>3. /\ g1.pc = "loop" /\ g1.group = f.group /\ g1.log_count = f.log_count
        /\ g2.pc = "loop" /\ g2.group = Append(f.group, log) /\ g2.log_count = f.log_count
    BY <1>1 DEF Flush
  <2> HIDE DEF g1, g2
  <2>4. Len(g2.group) = Len(f.group) + 1
    BY <1>1, <2>2, <2>3
  <2>5. GroupInv(g1) /\ GroupInv(g2)
    BY <1>1, <1>2, <2>3, <2>4 DEF GroupInv
  <2> QED
    BY <2>1, <2>5 DEF Regroups
<1>5. CASE DecodeDone(c)
  <2> DEFINE d == Destroy(f, {"decoder"})
             r == Destroy(d, {"group"})
             e == Return(r, "FLB_OK")
             g == [d EXCEPT !.pc = "put", !.site = "tail"]
             h == [e EXCEPT !.group = <<>>,
                            !.skipped = @ \cup {log.pos : log \in Orphans(d.group)}]
  <2>1. flush' = [flush EXCEPT ![c] = IF HasTail(d) THEN g ELSE h]
    BY <1>5 DEF DecodeDone
  <2>2. d \in Flush /\ d.group = f.group /\ d.log_count = f.log_count
    BY <1>1, DestroyType, DestroyFrame DEF Frame
  <2> HIDE DEF d
  <2>3. r \in Flush
    BY <2>2, DestroyType
  <2> HIDE DEF r
  <2>4. e \in Flush /\ e.pc = "returned"
    BY <2>3, ReturnType, ZenonT(30) DEF Return, Flush
  <2> HIDE DEF e
  <2>5. h.pc = "returned"
    BY <2>4 DEF Flush
  <2>6. g.pc = "put" /\ g.group = f.group /\ g.log_count = f.log_count
    BY <2>2 DEF Flush
  <2> HIDE DEF g, h
  <2>7. GroupInv(h)
    BY <2>5 DEF GroupInv
  <2>8. HasTail(d) => GroupInv(g)
    BY <1>1, <1>2, <2>2, <2>6 DEF GroupInv, HasTail
  <2> QED
    BY <2>1, <2>7, <2>8 DEF Regroups
<1> QED
  BY <1>3, <1>4, <1>5

LEMMA PutRegroups ==
  ASSUME TypeOK, NEW c \in Chunk, PutRejected(c) \/ PutUnsent(c) \/ Send(c) \/ Answers(c)
  PROVE  \E g : Regroups(c, g)
<1>1. flush[c] \in Flush
  BY DEF TypeOK
<1>2. ASSUME NEW code \in {"OK", "RETRYABLE", "FATAL"}, PutReturns(c, code)
      PROVE  \E g : Regroups(c, g)
  <2> DEFINE f == [flush[c] EXCEPT !.pc = "answered", !.result = code]
  <2>1. f \in Flush /\ f.pc = "answered"
    BY <1>1, <1>2 DEF Flush
  <2>2. flush' = [flush EXCEPT ![c] = Take(f, {"result"})]
    BY <1>2 DEF PutReturns
  <2> HIDE DEF f
  <2> QED
    BY <2>1, <2>2, AwayRegroups
<1>3. CASE Send(c)
  <2> DEFINE f == [flush[c] EXCEPT !.pc = "sent"]
  <2>1. f \in Flush /\ f.pc = "sent"
    BY <1>1 DEF Flush
  <2>2. flush' = [flush EXCEPT ![c] = f]
    BY <1>3 DEF Send
  <2> HIDE DEF f
  <2> QED
    BY <2>1, <2>2, AwayRegroups
<1> QED
  BY <1>2, <1>3 DEF PutRejected, PutUnsent, Answers, Answer

LEMMA HandleRegroups ==
  ASSUME TypeOK, NEW c \in Chunk,
         HandleRetryable(c) \/ HandleFatal(c) \/ HandleOk(c) \/ HandleOkNoGroup(c) \/ HandleOkTail(c)
  PROVE  \E g : Regroups(c, g)
<1> DEFINE closed == Close(flush[c])
           put == Put(flush[c])
<1>1. closed \in Flush /\ put \in Flush
  BY CloseType, PutType DEF TypeOK
<1>2. GroupInv(Return(closed, "FLB_RETRY")) /\ GroupInv(Return(closed, "FLB_ERROR"))
      /\ GroupInv(Return(closed, "FLB_OK"))
  <2> HIDE DEF closed
  <2> QED
    BY <1>1 DEF GroupInv, Return, Flush
<1>3. GroupInv(Renew(put))
  <2> HIDE DEF put
  <2> DEFINE f == Take(put, {"group"})
  <2>1. f \in Flush
    BY <1>1, TakeType
  <2> HIDE DEF f
  <2>2. [f EXCEPT !.encoded_size = 0, !.log_count = 0, !.pc = "loop"].log_count = 0
        /\ [f EXCEPT !.encoded_size = 0, !.log_count = 0, !.pc = "loop"].pc = "loop"
    BY <2>1 DEF Flush
  <2>3. Renew(put).log_count = 0 /\ Renew(put).pc = "loop"
    BY <2>2 DEF Renew, f
  <2>4. Len(Renew(put).group) \in Nat
    BY <1>1, RenewType DEF Flush
  <2> QED
    BY <2>3, <2>4 DEF GroupInv
<1> QED
  BY <1>2, <1>3 DEF HandleRetryable, HandleFatal, HandleOk, HandleOkNoGroup, HandleOkTail, Regroups

\* The record count is reset with the group, so the tail is put only if the group at hand
\* has a log: no call makes the client encode an empty group, whatever fails.
THEOREM FlushNoEmptyPut == Spec => []NoEmptyPut
<1>1. Init => GroupsInv
  BY DEF Init, GroupsInv, GroupInv, Idle
<1>2. TypeOK /\ GroupsInv /\ [Next]_vars => GroupsInv'
  <2> SUFFICES ASSUME TypeOK, GroupsInv, [Next]_vars PROVE GroupsInv'
    OBVIOUS
  <2>1. ASSUME NEW c \in Chunk, \E g : Regroups(c, g) PROVE GroupsInv'
    BY <2>1 DEF Regroups, GroupsInv, TypeOK
  <2>2. CASE UNCHANGED vars
    BY <2>2 DEF vars, GroupsInv
  <2>3. CASE Next
    BY <2>1, <2>3, StartRegroups, LoopRegroups, PutRegroups, HandleRegroups
       DEF Next, Step, Compute, Failure
  <2> QED
    BY <2>2, <2>3
<1>3. TypeOK /\ GroupsInv => NoEmptyPut
  <2> SUFFICES ASSUME TypeOK, GroupsInv, NEW c \in Chunk, flush[c].pc = "put",
                      flush[c].group = <<>>
               PROVE  FALSE
    BY DEF NoEmptyPut
  <2>1. flush[c].log_count \in Nat /\ GroupInv(flush[c])
    BY DEF TypeOK, Flush, GroupsInv
  <2> QED
    BY <2>1 DEF GroupInv
<1> QED
  BY <1>1, <1>2, <1>3, TypeInit, TypeStep, PTL DEF Spec

-----------------------------------------------------------------------------
(* The network and the store.                                              *)

\* The requests that were sent and not lost.
Requests == network \cup Range(stored)

\* The request belongs to the chunk's call that is under way or was the last.
Current(r) == r.call = flush[r.chunk].calls

SameCall(r, s) == r.chunk = s.chunk /\ r.call = s.call

PosOf(logs) == {logs[i].pos : i \in DOMAIN logs}

DeliveryType ==
  /\ network \subseteq RequestType
  /\ stored \in Seq(RequestType)
  /\ lost \in [Chunk -> SUBSET (Nat \ {0})]

\* What a call leaves out is known to have had no log: the positions without a
\* log, and a group that add_log failed to fill.
LostInv(c) ==
  /\ flush[c].skipped \subseteq lost[c]
  /\ flush[c].log_count = 0 => PosOf(flush[c].group) \subseteq lost[c]

\* A call has a number.
CalledInv(c) == flush[c].pc # "idle" => flush[c].calls # 0

\* What was answered with OK is in the store.
AcceptedInv(c) ==
  /\ \A b \in DOMAIN flush[c].batches :
       flush[c].batches[b].result = "OK" => PosOf(flush[c].batches[b].logs) \subseteq StoredOf(c)
  /\ flush[c].pc = "answered" /\ flush[c].result = "OK" => Request(c) \in Range(stored)

\* A request of the present call holds a batch that was put, or the group of the
\* put under way.
CurrentOf(r) ==
  LET f == flush[r.chunk]
  IN  /\ r.call <= f.calls
      /\ Current(r) =>
           \/ r.batch \in DOMAIN f.batches /\ r.records \subseteq PosOf(f.batches[r.batch].logs)
           \/ /\ f.pc \in {"sent", "answered"}
              /\ r.batch = Len(f.batches) + 1 /\ r.records \subseteq PosOf(f.group)

\* A call has a request on its way only while it waits, or after it has failed.
WaitOf(r) ==
  Current(r) =>
    /\ flush[r.chunk].pc \in {"sent", "answered", "returned"}
    /\ ~(flush[r.chunk].pc = "answered" /\ flush[r.chunk].result = "OK")

\* The requests of one call hold different records, and the only one that may be
\* on its way is the last.
SeparateInv ==
  /\ \A r, s \in Requests : SameCall(r, s) /\ r # s => r.records \cap s.records = {}
  /\ \A r, s \in network : SameCall(r, s) => r = s
  /\ \A r \in network, s \in Range(stored) : SameCall(r, s) => s.batch < r.batch
  /\ StoredInBatchOrder

\* Every position before one that was sent is in the same request, in the store,
\* or had no log.
GapInv ==
  \A r \in Requests : \A m \in r.records :
    1 .. m - 1 \subseteq r.records \cup StoredOf(r.chunk) \cup lost[r.chunk]

ServiceInv ==
  /\ DeliveryType
  /\ \A c \in Chunk : CalledInv(c) /\ LostInv(c) /\ AcceptedInv(c)
  /\ \A r \in Requests : CurrentOf(r)
  /\ \A r \in network : WaitOf(r)
  /\ SeparateInv /\ GapInv

-----------------------------------------------------------------------------
(* What a step of the callback changes of a chunk's coroutine.             *)

\* A new call, which has put nothing.
NewCall(f, g) == Fresh(g) /\ g.calls = f.calls + 1 /\ g.pc \in {"loop", "returned"}

\* A step inside the loop, or out of it with the rest of the group.
InLoop(f, g) ==
  /\ f.pc = "loop" /\ g.pc \in {"loop", "put", "returned"}
  /\ g.calls = f.calls /\ g.batches = f.batches

\* The put goes on: the request is sent, or the answer is there.
Putting(f, g) ==
  /\ g.calls = f.calls /\ g.batches = f.batches /\ g.group = f.group
  /\ g.skipped = f.skipped /\ g.log_count = f.log_count /\ g.next = f.next

\* The result is known and the batch is closed.
Closing(f, g) ==
  /\ f.pc = "answered" /\ g.pc \in {"loop", "returned"}
  /\ g.calls = f.calls /\ Moved(f, g)
  /\ g.pc = "loop" => f.result = "OK"

LEMMA TakeKeeps ==
  ASSUME NEW f \in Flush, NEW handles
  PROVE  Take(f, handles).calls = f.calls /\ Take(f, handles).result = f.result
BY DEF Take, Flush

LEMMA DestroyKeeps ==
  ASSUME NEW f \in Flush, NEW handles
  PROVE  Destroy(f, handles).calls = f.calls /\ Destroy(f, handles).result = f.result
BY DEF Destroy, Flush

LEMMA CloseKeeps ==
  ASSUME NEW f \in Flush
  PROVE  Put(f).calls = f.calls /\ Close(f).calls = f.calls
<1>1. LET d == Destroy(f, {"result", "group"}) IN d \in Flush /\ d.calls = f.calls
  BY DestroyType, DestroyKeeps
<1>2. \A g \in Flush : [g EXCEPT !.group = <<>>,
                                 !.batches = Append(@, [logs |-> f.group, result |-> f.result])].calls
                       = g.calls
  BY DEF Flush
<1>3. Put(f).calls = f.calls
  BY <1>1, <1>2 DEF Put
<1> QED
  BY <1>3, PutType, DestroyKeeps DEF Close

LEMMA NewCallView ==
  ASSUME TypeOK, NEW c \in Chunk, Start(c) \/ StartFails(c)
  PROVE  \E g : flush' = [flush EXCEPT ![c] = g] /\ NewCall(flush[c], g)
<1>1. Called(c) \in Flush /\ Fresh(Called(c)) /\ Called(c).calls = flush[c].calls + 1
      /\ Called(c).pc = "loop"
  <2>1. Fresh(Called(c)) /\ Called(c).calls = flush[c].calls + 1 /\ Called(c).pc = "loop"
    BY DEF Called, Idle, Fresh
  <2> QED
    BY <2>1, CalledType
<1>2. CASE Start(c)
  <2> DEFINE g == Take(Called(c), {"decoder", "group"})
  <2>1. Same(Called(c), g) /\ g.calls = Called(c).calls /\ g.pc = "loop"
    BY <1>1, TakeSame, TakeKeeps, TakeFields
  <2>2. NewCall(flush[c], g)
    BY <1>1, <2>1 DEF NewCall, Fresh, Same
  <2> QED
    BY <1>2, <2>2 DEF Start
<1>3. CASE StartFails(c)
  <2> DEFINE g == Return(Called(c), "FLB_ERROR")
  <2>1. Same(Called(c), g) /\ g.calls = Called(c).calls /\ g.pc = "returned"
    BY <1>1 DEF Return, Flush, Same
  <2> HIDE DEF g
  <2>2. NewCall(flush[c], g)
    BY <1>1, <2>1 DEF NewCall, Fresh, Same
  <2> QED
    BY <1>3, <2>2 DEF StartFails, g
<1> QED
  BY <1>2, <1>3

\* The log is at hand when a record is added, so the group is not left empty.
LEMMA AddRecordView ==
  ASSUME TypeOK, NEW c \in Chunk, NEW built, NEW counted, AddRecord(c, built, counted)
  PROVE  \E g : /\ flush' = [flush EXCEPT ![c] = g] /\ InLoop(flush[c], g)
                /\ g.skipped = flush[c].skipped /\ g.log_count # 0
<1> DEFINE f == flush[c]
           g == [f EXCEPT !.next = @ + 1,
                          !.group = Append(@, Log(f, built, counted)),
                          !.encoded_size = f.encoded_size + counted,
                          !.log_count = @ + 1,
                          !.pc = IF Full(Overhead[c] + (f.encoded_size + counted))
                                 THEN "put" ELSE "loop"]
<1>1. f \in Flush /\ f.pc = "loop" /\ f.log_count \in Nat
  BY DEF TypeOK, Flush, AddRecord
<1>2. /\ g.pc \in {"loop", "put"} /\ g.calls = f.calls /\ g.batches = f.batches
      /\ g.skipped = f.skipped /\ g.log_count = f.log_count + 1
  BY <1>1 DEF Flush
<1>3. flush' = [flush EXCEPT ![c] = g]
  BY DEF AddRecord
<1> HIDE DEF g
<1>4. InLoop(f, g) /\ g.log_count # 0
  BY <1>1, <1>2 DEF InLoop
<1> QED
  BY <1>2, <1>3, <1>4

LEMMA AddLogFailsView ==
  ASSUME TypeOK, NEW c \in Chunk, AddLogFails(c)
  PROVE  \E g : /\ flush' = [flush EXCEPT ![c] = g] /\ InLoop(flush[c], g)
                /\ g.log_count = flush[c].log_count /\ g.ret = flush[c].ret
                /\ g.skipped \subseteq flush[c].skipped \cup {flush[c].next}
                /\ PosOf(g.group) \subseteq PosOf(flush[c].group) \cup {flush[c].next}
<1> DEFINE f == flush[c]
           n == [f EXCEPT !.next = @ + 1]
           log == Log(f, "nothing", 0)
           g1 == [n EXCEPT !.skipped = @ \cup {f.next}]
           g2 == [n EXCEPT !.group = Append(@, log)]
<1>1. f \in Flush /\ f.pc = "loop" /\ f.group \in Seq(GroupLog)
  BY DEF TypeOK, Flush, AddLogFails
<1>2. /\ InLoop(f, g1) /\ g1.log_count = f.log_count /\ g1.skipped = f.skipped \cup {f.next}
      /\ g1.group = f.group /\ g1.ret = f.ret
  BY <1>1 DEF Flush, InLoop
<1>3. /\ InLoop(f, g2) /\ g2.log_count = f.log_count /\ g2.skipped = f.skipped
      /\ g2.group = Append(f.group, log) /\ g2.ret = f.ret
  BY <1>1 DEF Flush, InLoop
<1>4. log.pos = f.next /\ log \in GroupLog
  BY <1>1 DEF Log, GroupLog, Flush
<1>5. flush' = [flush EXCEPT ![c] = g1] \/ flush' = [flush EXCEPT ![c] = g2]
  BY DEF AddLogFails
<1> HIDE DEF log, g1, g2
<1>6. PosOf(g2.group) \subseteq PosOf(f.group) \cup {f.next}
  <2>1. \A i \in DOMAIN g2.group :
          (i \in DOMAIN f.group /\ g2.group[i] = f.group[i]) \/ g2.group[i] = log
    BY <1>1, <1>3, <1>4
  <2> QED
    BY <1>4, <2>1 DEF PosOf
<1> QED
  BY <1>2, <1>3, <1>5, <1>6

\* At the end of the chunk the group is put or, if no log of it was filled, dropped.
LEMMA DecodeDoneView ==
  ASSUME TypeOK, NEW c \in Chunk, DecodeDone(c)
  PROVE  \E g : /\ flush' = [flush EXCEPT ![c] = g] /\ InLoop(flush[c], g)
                /\ \/ Same(flush[c], g)
                   \/ /\ flush[c].log_count = 0 /\ g.group = <<>>
                      /\ g.skipped \subseteq flush[c].skipped \cup PosOf(flush[c].group)
<1> DEFINE f0 == flush[c]
           f == Destroy(f0, {"decoder"})
           g == [f EXCEPT !.pc = "put", !.site = "tail"]
           d == Destroy(f, {"group"})
           e == Return(d, "FLB_OK")
           h == [e EXCEPT !.group = <<>>,
                          !.skipped = @ \cup {log.pos : log \in Orphans(f.group)}]
<1>1. f0.pc = "loop" /\ f0 \in Flush
  BY DEF DecodeDone, TypeOK
<1>2. f \in Flush /\ Same(f0, f) /\ f.calls = f0.calls
  BY <1>1, DestroyType, DestroySame, DestroyKeeps
<1>3. \/ flush' = [flush EXCEPT ![c] = g]
      \/ ~HasTail(f) /\ flush' = [flush EXCEPT ![c] = h]
  BY DEF DecodeDone
<1> HIDE DEF f
<1>4. Same(f0, g) /\ InLoop(f0, g)
  BY <1>1, <1>2 DEF Flush, Same, InLoop
<1> HIDE DEF g
<1>5. d \in Flush /\ Same(f, d) /\ d.calls = f.calls
  BY <1>2, DestroyType, DestroySame, DestroyKeeps
<1> HIDE DEF d
<1>6. e \in Flush /\ Same(d, e) /\ e.calls = d.calls /\ e.pc = "returned"
  BY <1>5, ReturnType, ZenonT(30) DEF Return, Flush, Same
<1> HIDE DEF e
<1>7. /\ h.group = <<>> /\ h.batches = e.batches /\ h.calls = e.calls /\ h.pc = "returned"
      /\ h.skipped = e.skipped \cup {log.pos : log \in Orphans(f.group)}
  BY <1>6 DEF Flush
<1> HIDE DEF h
<1>8. {log.pos : log \in Orphans(f.group)} \subseteq PosOf(f.group)
  BY DEF Orphans, PosOf
<1>9. InLoop(f0, h) /\ h.skipped \subseteq f0.skipped \cup PosOf(f0.group)
  BY <1>1, <1>2, <1>5, <1>6, <1>7, <1>8 DEF InLoop, Same
<1>10. ~HasTail(f) => f0.log_count = 0
  BY <1>1, <1>2 DEF HasTail, Same, Flush
<1> QED
  BY <1>3, <1>4, <1>7, <1>9, <1>10

\* The put is answered, without a request or for the one that was sent.
LEMMA PutReturnsView ==
  ASSUME TypeOK, NEW c \in Chunk, NEW code \in {"OK", "RETRYABLE", "FATAL"}, PutReturns(c, code)
  PROVE  \E g : /\ flush' = [flush EXCEPT ![c] = g] /\ Putting(flush[c], g)
                /\ g.pc = "answered" /\ g.result = code /\ g.ret = flush[c].ret
<1> DEFINE f == [flush[c] EXCEPT !.pc = "answered", !.result = code]
           g == Take(f, {"result"})
<1>1. flush[c] \in Flush
  BY DEF TypeOK
<1>2. /\ f \in Flush /\ Same(flush[c], f) /\ f.pc = "answered" /\ f.result = code
      /\ f.ret = flush[c].ret /\ f.calls = flush[c].calls
  BY <1>1 DEF Flush, Same
<1>3. flush' = [flush EXCEPT ![c] = g]
  BY DEF PutReturns
<1> HIDE DEF f
<1>4. /\ Same(f, g) /\ g.pc = "answered" /\ g.result = code /\ g.ret = f.ret
      /\ g.calls = f.calls
  BY <1>2, TakeSame, TakeFields, TakeKeeps
<1> HIDE DEF g
<1>5. Putting(flush[c], g)
  BY <1>2, <1>4 DEF Same, Putting
<1> QED
  BY <1>2, <1>3, <1>4, <1>5

LEMMA SendView ==
  ASSUME TypeOK, NEW c \in Chunk, Send(c)
  PROVE  \E g : /\ flush' = [flush EXCEPT ![c] = g] /\ Putting(flush[c], g)
                /\ g.pc = "sent" /\ g.ret = flush[c].ret
<1> DEFINE g == [flush[c] EXCEPT !.pc = "sent"]
<1>1. flush[c] \in Flush /\ flush' = [flush EXCEPT ![c] = g]
  BY DEF TypeOK, Send
<1>2. Putting(flush[c], g) /\ g.pc = "sent" /\ g.ret = flush[c].ret
  BY <1>1 DEF Flush, Putting
<1> QED
  BY <1>1, <1>2

LEMMA ClosingView ==
  ASSUME TypeOK, NEW c \in Chunk,
         \/ HandleRetryable(c) \/ HandleFatal(c)
         \/ HandleOk(c) \/ HandleOkNoGroup(c) \/ HandleOkTail(c)
  PROVE  \E g : flush' = [flush EXCEPT ![c] = g] /\ Closing(flush[c], g)
<1>1. flush[c] \in Flush /\ flush[c].pc = "answered"
  BY DEF TypeOK, HandleRetryable, HandleFatal, HandleOk, HandleOkNoGroup, HandleOkTail
<1>2. CASE ~HandleOk(c)
  <2>1. PICK code \in {"FLB_OK", "FLB_RETRY", "FLB_ERROR"} :
          flush' = [flush EXCEPT ![c] = Return(Close(flush[c]), code)]
    BY <1>2 DEF HandleRetryable, HandleFatal, HandleOkNoGroup, HandleOkTail
  <2> DEFINE f == Close(flush[c])
             g == Return(f, code)
  <2>2. f \in Flush /\ Moved(flush[c], f) /\ f.calls = flush[c].calls
    BY <1>1, CloseType, CloseMoves, CloseKeeps
  <2>3. flush' = [flush EXCEPT ![c] = g]
    BY <2>1
  <2> HIDE DEF f
  <2>4. Same(f, g) /\ g.pc = "returned" /\ g.calls = f.calls
    BY <2>2 DEF Return, Flush, Same
  <2> HIDE DEF g
  <2>5. Closing(flush[c], g)
    BY <1>1, <2>2, <2>4 DEF Closing, Moved, Same
  <2> QED
    BY <2>3, <2>5
<1>3. CASE HandleOk(c)
  <2> DEFINE p == Put(flush[c])
             t == Take(p, {"group"})
             g == [t EXCEPT !.encoded_size = 0, !.log_count = 0, !.pc = "loop"]
  <2>1. p \in Flush /\ Moved(flush[c], p) /\ p.calls = flush[c].calls
    BY <1>1, PutType, PutMoves, CloseKeeps
  <2>2. flush' = [flush EXCEPT ![c] = g] /\ flush[c].result = "OK"
    BY <1>3 DEF HandleOk, Renew
  <2> HIDE DEF p
  <2>3. t \in Flush /\ Same(p, t) /\ t.calls = p.calls
    BY <2>1, TakeType, TakeSame, TakeKeeps
  <2> HIDE DEF t
  <2>4. /\ g.next = t.next /\ g.group = t.group /\ g.batches = t.batches /\ g.skipped = t.skipped
        /\ g.calls = t.calls /\ g.pc = "loop"
    BY <2>3 DEF Flush
  <2> HIDE DEF g
  <2>5. Closing(flush[c], g)
    BY <1>1, <2>1, <2>2, <2>3, <2>4 DEF Closing, Moved, Same
  <2> QED
    BY <2>2, <2>5
<1> QED
  BY <1>2, <1>3

-----------------------------------------------------------------------------
(* Steps that send nothing and store nothing.                              *)

LEMMA RequestFields ==
  ASSUME DeliveryType
  PROVE  /\ Range(stored) \subseteq RequestType /\ Requests \subseteq RequestType
         /\ \A r \in Requests :
              /\ r.chunk \in Chunk /\ r.call \in Nat /\ r.batch \in Nat
              /\ r.records \subseteq Nat \ {0}
<1>1. Range(stored) \subseteq RequestType
  BY DEF DeliveryType, Range
<1>2. Requests \subseteq RequestType
  BY <1>1 DEF DeliveryType, Requests
<1> QED
  BY <1>1, <1>2 DEF RequestType

\* A step of one coroutine, after which its own part of the invariant holds.
LEMMA OwnStep ==
  ASSUME TypeOK, ServiceInv, NEW c \in Chunk, NEW g, flush' = [flush EXCEPT ![c] = g],
         UNCHANGED service, lost' \in [Chunk -> SUBSET (Nat \ {0})],
         \A d \in Chunk : lost[d] \subseteq lost'[d],
         CalledInv(c)', LostInv(c)', AcceptedInv(c)',
         \A r \in Requests : r.chunk = c => CurrentOf(r)',
         \A r \in network : r.chunk = c => WaitOf(r)'
  PROVE  ServiceInv'
<1>1. flush'[c] = g /\ \A d \in Chunk : d # c => flush'[d] = flush[d]
  BY DEF TypeOK
<1>2. network' = network /\ stored' = stored /\ Requests' = Requests
      /\ \A d : StoredOf(d)' = StoredOf(d)
  BY DEF service, Requests, StoredOf
<1>3. DeliveryType'
  BY <1>2 DEF ServiceInv, DeliveryType
<1>4. ASSUME NEW d \in Chunk PROVE CalledInv(d)' /\ LostInv(d)' /\ AcceptedInv(d)'
  <2>1. CASE d # c
    <3>1. CalledInv(d)' /\ LostInv(d)'
      BY <1>1, <2>1 DEF ServiceInv, CalledInv, LostInv
    <3>2. AcceptedInv(d)'
      BY <1>1, <1>2, <2>1 DEF ServiceInv, AcceptedInv, Request
    <3> QED
      BY <3>1, <3>2
  <2> QED
    BY <2>1
<1>5. \A r \in Requests : r.chunk \in Chunk
  BY RequestFields DEF ServiceInv
<1>6. \A r \in Requests' : CurrentOf(r)'
  BY <1>1, <1>2, <1>5 DEF ServiceInv, CurrentOf, Current
<1>7. \A r \in network' : WaitOf(r)'
  BY <1>1, <1>2, <1>5 DEF ServiceInv, WaitOf, Current, Requests
<1>8. SeparateInv'
  BY <1>2 DEF ServiceInv, SeparateInv, StoredInBatchOrder
<1>9. GapInv'
  BY <1>2, <1>5 DEF ServiceInv, GapInv
<1> QED
  BY <1>3, <1>4, <1>6, <1>7, <1>8, <1>9 DEF ServiceInv

LEMMA NewCallStep ==
  ASSUME TypeOK, ServiceInv, NEW c \in Chunk, NEW g, flush' = [flush EXCEPT ![c] = g],
         NewCall(flush[c], g), UNCHANGED <<service, lost>>
  PROVE  ServiceInv'
<1>1. flush'[c] = g /\ flush[c].calls \in Nat
  BY DEF TypeOK, Flush
<1>2. CalledInv(c)' /\ LostInv(c)' /\ AcceptedInv(c)'
  BY <1>1 DEF NewCall, Fresh, CalledInv, LostInv, AcceptedInv, PosOf
<1>3. \A r \in Requests : r.chunk = c => r.call < g.calls /\ r.call \in Nat
  BY <1>1, RequestFields DEF ServiceInv, CurrentOf, NewCall
<1>4. g.calls \in Nat
  BY <1>1 DEF NewCall
<1>5. \A r \in Requests : r.chunk = c => CurrentOf(r)' /\ WaitOf(r)'
  BY <1>1, <1>3, <1>4 DEF CurrentOf, WaitOf, Current
<1>6. lost' \in [Chunk -> SUBSET (Nat \ {0})] /\ \A d \in Chunk : lost[d] \subseteq lost'[d]
  BY DEF ServiceInv, DeliveryType
<1> QED
  BY <1>2, <1>5, <1>6, OwnStep DEF Requests

LEMMA InLoopStep ==
  ASSUME TypeOK, ServiceInv, NEW c \in Chunk, NEW g, flush' = [flush EXCEPT ![c] = g],
         InLoop(flush[c], g), UNCHANGED service, lost' \in [Chunk -> SUBSET (Nat \ {0})],
         \A d \in Chunk : lost[d] \subseteq lost'[d], LostInv(c)'
  PROVE  ServiceInv'
<1>1. flush'[c] = g
  BY DEF TypeOK
<1>2. stored' = stored /\ StoredOf(c)' = StoredOf(c)
  BY DEF service, StoredOf
<1>3. CalledInv(c)' /\ AcceptedInv(c)'
  BY <1>1, <1>2 DEF InLoop, ServiceInv, CalledInv, AcceptedInv
<1>4. \A r \in Requests : r.chunk = c => CurrentOf(r)'
  BY <1>1 DEF InLoop, ServiceInv, CurrentOf, Current
<1>5. \A r \in network : r.chunk = c => WaitOf(r)'
  BY <1>1 DEF InLoop, ServiceInv, WaitOf, Current
<1> QED
  BY <1>3, <1>4, <1>5, OwnStep

\* The answer: for a request that was sent, or without one.
LEMMA AnswerStep ==
  ASSUME TypeOK, ServiceInv, NEW c \in Chunk, NEW g, flush' = [flush EXCEPT ![c] = g],
         Putting(flush[c], g), g.pc = "answered", UNCHANGED <<service, lost>>,
         flush[c].pc = "put" => g.result # "OK", flush[c].pc \in {"put", "sent"},
         g.result = "OK" => Request(c) \in Range(stored)
  PROVE  ServiceInv'
<1>1. flush'[c] = g
  BY DEF TypeOK
<1>2. stored' = stored /\ StoredOf(c)' = StoredOf(c) /\ Request(c)' = Request(c)
  <2>1. stored' = stored
    BY DEF service
  <2>2. StoredOf(c)' = StoredOf(c)
    BY <2>1 DEF StoredOf
  <2>3. g.calls = flush[c].calls /\ g.batches = flush[c].batches /\ g.group = flush[c].group
    BY DEF Putting
  <2>4. Request(c)' = Request(c)
    BY <1>1, <2>3 DEF Request
  <2> QED
    BY <2>1, <2>2, <2>4
<1>3. CalledInv(c)' /\ LostInv(c)'
  BY <1>1 DEF Putting, ServiceInv, CalledInv, LostInv
<1>4. AcceptedInv(c)'
  BY <1>1, <1>2 DEF Putting, ServiceInv, AcceptedInv
<1>5. \A r \in Requests : r.chunk = c => CurrentOf(r)'
  BY <1>1 DEF Putting, ServiceInv, CurrentOf, Current
<1>6. ASSUME NEW r \in network, r.chunk = c PROVE WaitOf(r)'
  <2>1. CASE g.result # "OK"
    BY <1>1, <1>6, <2>1 DEF WaitOf
  <2>2. CASE g.result = "OK" /\ Current(r)
    <3>1. SameCall(r, Request(c)) /\ Request(c).batch = Len(flush[c].batches) + 1
      BY <1>6, <2>2 DEF SameCall, Request, Current
    <3>2. Len(flush[c].batches) + 1 < r.batch
      BY <2>2, <3>1 DEF ServiceInv, SeparateInv
    <3>3. r.batch \in DOMAIN flush[c].batches \/ r.batch = Len(flush[c].batches) + 1
      BY <1>6, <2>2 DEF ServiceInv, CurrentOf, Requests
    <3>4. DOMAIN flush[c].batches = 1 .. Len(flush[c].batches) /\ Len(flush[c].batches) \in Nat
      BY DEF TypeOK, Flush
    <3> QED
      BY <3>2, <3>3, <3>4
  <2>3. CASE ~Current(r)
    BY <1>1, <1>6, <2>3 DEF WaitOf, Current, Putting
  <2> QED
    BY <2>1, <2>2, <2>3
<1>7. lost' \in [Chunk -> SUBSET (Nat \ {0})] /\ \A d \in Chunk : lost[d] \subseteq lost'[d]
  BY DEF ServiceInv, DeliveryType
<1> QED
  BY <1>3, <1>4, <1>5, <1>6, <1>7, OwnStep

LEMMA ClosingStep ==
  ASSUME TypeOK, ServiceInv, NEW c \in Chunk, NEW g, flush' = [flush EXCEPT ![c] = g],
         Closing(flush[c], g), UNCHANGED <<service, lost>>
  PROVE  ServiceInv'
<1> DEFINE f == flush[c]
           batch == [logs |-> f.group, result |-> f.result]
<1>1. flush'[c] = g /\ f.batches \in Seq(Batch)
  BY DEF TypeOK, Flush
<1>2. stored' = stored /\ StoredOf(c)' = StoredOf(c)
  BY DEF service, StoredOf
<1>3. /\ f.pc = "answered" /\ g.calls = f.calls /\ g.group = <<>> /\ g.skipped = f.skipped
      /\ g.batches = Append(f.batches, batch) /\ g.pc \in {"loop", "returned"}
      /\ g.pc = "loop" => f.result = "OK"
  BY DEF Closing, Moved
<1>4. /\ DOMAIN f.batches \subseteq DOMAIN g.batches /\ Len(f.batches) + 1 \in DOMAIN g.batches
      /\ \A b \in DOMAIN f.batches : g.batches[b] = f.batches[b]
      /\ \A b \in DOMAIN g.batches : b \notin DOMAIN f.batches => g.batches[b] = batch
      /\ Len(f.batches) + 1 \notin DOMAIN f.batches
  BY <1>1, <1>3
<1>5. CalledInv(c)' /\ LostInv(c)'
  BY <1>1, <1>3 DEF ServiceInv, CalledInv, LostInv, PosOf
<1>6. AcceptedInv(c)'
  <2>1. f.result = "OK" => PosOf(f.group) \subseteq StoredOf(c)
    <3> SUFFICES ASSUME f.result = "OK" PROVE PosOf(f.group) \subseteq StoredOf(c)
      OBVIOUS
    <3>1. Request(c) \in Range(stored) /\ Request(c).chunk = c /\ Request(c).records = PosOf(f.group)
      BY <1>3 DEF ServiceInv, AcceptedInv, Request, PosOf
    <3> QED
      BY <3>1 DEF StoredOf
  <2>2. ASSUME NEW b \in DOMAIN g.batches, g.batches[b].result = "OK"
        PROVE  PosOf(g.batches[b].logs) \subseteq StoredOf(c)
    <3>1. CASE b \in DOMAIN f.batches
      BY <1>4, <2>2, <3>1 DEF ServiceInv, AcceptedInv
    <3>2. CASE b \notin DOMAIN f.batches
      BY <1>4, <2>1, <2>2, <3>2
    <3> QED
      BY <3>1, <3>2
  <2> QED
    BY <1>1, <1>2, <1>3, <2>2 DEF AcceptedInv
<1>7. ASSUME NEW r \in Requests, r.chunk = c PROVE CurrentOf(r)'
  <2>1. r.call <= f.calls
    BY <1>7 DEF ServiceInv, CurrentOf
  <2>2. ASSUME Current(r)
        PROVE  r.batch \in DOMAIN g.batches /\ r.records \subseteq PosOf(g.batches[r.batch].logs)
    <3>1. CASE r.batch \in DOMAIN f.batches /\ r.records \subseteq PosOf(f.batches[r.batch].logs)
      BY <1>4, <3>1
    <3>2. CASE r.batch = Len(f.batches) + 1 /\ r.records \subseteq PosOf(f.group)
      BY <1>4, <3>2
    <3> QED
      BY <1>7, <2>2, <3>1, <3>2 DEF ServiceInv, CurrentOf
  <2> QED
    BY <1>1, <1>3, <1>7, <2>1, <2>2 DEF CurrentOf, Current
<1>8. ASSUME NEW r \in network, r.chunk = c PROVE WaitOf(r)'
  <2>1. Current(r) => f.result # "OK"
    BY <1>3, <1>8 DEF ServiceInv, WaitOf
  <2> QED
    BY <1>1, <1>3, <1>8, <2>1 DEF WaitOf, Current
<1>9. lost' \in [Chunk -> SUBSET (Nat \ {0})] /\ \A d \in Chunk : lost[d] \subseteq lost'[d]
  BY DEF ServiceInv, DeliveryType
<1> QED
  BY <1>5, <1>6, <1>7, <1>8, <1>9, OwnStep

-----------------------------------------------------------------------------
(* Requests are sent, stored and lost.                                     *)

\* Nothing of a group is in an earlier batch of the call, and everything before it
\* is in one, or had no log.
LEMMA GroupPlace ==
  ASSUME TypeOK, \A d \in Chunk : CallInv(flush[d]), AllChunks, ServiceInv, NEW c \in Chunk,
         flush[c].pc = "put"
  PROVE  /\ \A b \in DOMAIN flush[c].batches :
              PosOf(flush[c].batches[b].logs) \cap PosOf(flush[c].group) = {}
         /\ \A m \in PosOf(flush[c].group) :
              1 .. m - 1 \subseteq PosOf(flush[c].group) \cup StoredOf(c) \cup lost[c]
<1> DEFINE f == flush[c]
<1>1. f \in Flush /\ f.batches \in Seq(Batch) /\ f.group \in Seq(GroupLog) /\ f.next \in Nat
  BY DEF TypeOK, Flush
<1>2. PlacedInv(f) /\ OrderInv(f)
  BY DEF AllChunks, ChunkInv, RecordInv
<1>3. \A n : \A logs : Holds(logs, n) <=> n \in PosOf(logs)
  BY DEF Holds, PosOf
<1>4. \A m \in PosOf(f.group) : m \in Nat /\ m < f.next
  BY <1>1, <1>2, Positions DEF PosOf, OrderInv, Passed
<1>5. ASSUME NEW b \in DOMAIN f.batches
      PROVE  PosOf(f.batches[b].logs) \cap PosOf(f.group) = {}
  <2>1. AllBefore(f.batches[b].logs, f.group)
    BY <1>2 DEF OrderInv
  <2>2. f.batches[b].logs \in Seq(GroupLog)
    BY <1>1, BatchLogs
  <2>3. \A m \in PosOf(f.batches[b].logs) : m \in Nat
    BY <2>2, Positions DEF PosOf
  <2>4. \A m \in PosOf(f.batches[b].logs), n \in PosOf(f.group) : m < n
    BY <2>1 DEF AllBefore, PosOf
  <2> QED
    BY <1>4, <2>3, <2>4
<1>6. ASSUME NEW m \in PosOf(f.group), NEW n \in 1 .. m - 1
      PROVE  n \in PosOf(f.group) \cup StoredOf(c) \cup lost[c]
  <2>1. n \in Nat \ {0} /\ n < f.next
    BY <1>1, <1>4
  <2>2. Placed(f, n)
    BY <1>2, <2>1 DEF PlacedInv
  <2>3. \A b \in DOMAIN f.batches : PosOf(f.batches[b].logs) \subseteq StoredOf(c)
    BY DEF CallInv, AllOk, ServiceInv, AcceptedInv
  <2> QED
    BY <1>3, <2>2, <2>3 DEF Placed, ServiceInv, LostInv
<1> QED
  BY <1>5, <1>6

LEMMA SendStep ==
  ASSUME TypeOK, \A d \in Chunk : CallInv(flush[d]), AllChunks, ServiceInv, NEW c \in Chunk,
         SendRequest(c)
  PROVE  ServiceInv'
<1> DEFINE f == flush[c]
           q == Request(c)
<1>1. f \in Flush /\ f.pc = "put" /\ f.calls \in Nat \ {0} /\ f.batches \in Seq(Batch)
      /\ f.group \in Seq(GroupLog)
  BY DEF TypeOK, SendRequest, Send, Flush, ServiceInv, CalledInv
<1>2. PICK g : flush' = [flush EXCEPT ![c] = g] /\ Putting(f, g) /\ g.pc = "sent"
  BY SendView DEF SendRequest
<1>3. flush'[c] = g /\ \A d \in Chunk : d # c => flush'[d] = flush[d]
  BY <1>2 DEF TypeOK
<1>4. /\ network' = network \cup {q} /\ stored' = stored /\ lost' = lost
      /\ Requests' = Requests \cup {q} /\ \A d : StoredOf(d)' = StoredOf(d)
  BY DEF SendRequest, Requests, StoredOf
<1>5. q.chunk = c /\ q.call = f.calls /\ q.batch = Len(f.batches) + 1 /\ q.records = PosOf(f.group)
  BY DEF Request, PosOf
<1>6. q \in RequestType
  <2>1. PosOf(f.group) \subseteq Nat \ {0}
    BY <1>1, Positions DEF PosOf
  <2>2. Len(f.batches) + 1 \in Nat \ {0}
    BY <1>1
  <2> QED
    BY <1>1, <2>1, <2>2 DEF Request, RequestType, PosOf
<1> HIDE DEF q
<1>7. \A r \in Requests : r.chunk \in Chunk
  BY RequestFields DEF ServiceInv
<1>8. \A r \in Requests : SameCall(r, q) =>
        r.batch \in DOMAIN f.batches /\ r.records \subseteq PosOf(f.batches[r.batch].logs)
  BY <1>1, <1>5 DEF SameCall, Current, CurrentOf, ServiceInv
<1>9. \A r \in network : ~SameCall(r, q)
  BY <1>1, <1>5 DEF SameCall, Current, WaitOf, ServiceInv
<1>10. DeliveryType'
  BY <1>4, <1>6 DEF ServiceInv, DeliveryType
<1>11. ASSUME NEW d \in Chunk PROVE CalledInv(d)' /\ LostInv(d)' /\ AcceptedInv(d)'
  <2>1. CASE d = c
    <3>1. CalledInv(c)'
      BY <1>1, <1>2, <1>3 DEF Putting, CalledInv
    <3>2. LostInv(c)'
      BY <1>2, <1>3, <1>4 DEF Putting, LostInv, ServiceInv
    <3>3. AcceptedInv(c)'
      BY <1>2, <1>3, <1>4 DEF Putting, AcceptedInv, ServiceInv
    <3> QED
      BY <2>1, <3>1, <3>2, <3>3
  <2>2. CASE d # c
    <3>1. CalledInv(d)' /\ LostInv(d)'
      BY <1>3, <1>4, <2>2 DEF ServiceInv, CalledInv, LostInv
    <3>2. AcceptedInv(d)'
      BY <1>3, <1>4, <2>2 DEF ServiceInv, AcceptedInv, Request
    <3> QED
      BY <3>1, <3>2
  <2> QED
    BY <2>1, <2>2
<1>12. ASSUME NEW r \in Requests' PROVE CurrentOf(r)'
  <2>1. CASE r \in Requests /\ r.chunk # c
    BY <1>3, <1>7, <2>1 DEF ServiceInv, CurrentOf, Current
  <2>2. CASE r \in Requests /\ r.chunk = c
    BY <1>1, <1>2, <1>3, <2>2 DEF ServiceInv, CurrentOf, Current, Putting
  <2>3. CASE r = q
    BY <1>1, <1>2, <1>3, <1>5, <2>3 DEF CurrentOf, Putting
  <2> QED
    BY <1>4, <2>1, <2>2, <2>3
<1>13. ASSUME NEW r \in network' PROVE WaitOf(r)'
  <2>1. CASE r \in network /\ r.chunk # c
    BY <1>3, <1>7, <2>1 DEF ServiceInv, WaitOf, Current, Requests
  <2>2. CASE r.chunk = c
    BY <1>2, <1>3, <2>2 DEF WaitOf
  <2> QED
    BY <1>4, <1>5, <2>1, <2>2
<1>14. SeparateInv'
  <2>1. ASSUME NEW r \in Requests, SameCall(r, q)
        PROVE  r.records \cap q.records = {} /\ r.batch < q.batch
    <3>1. r.records \cap q.records = {}
      <4>1. \A b \in DOMAIN f.batches : PosOf(f.batches[b].logs) \cap PosOf(f.group) = {}
        BY <1>1, GroupPlace
      <4> QED
        BY <1>5, <1>8, <2>1, <4>1
    <3>2. DOMAIN f.batches = 1 .. Len(f.batches) /\ Len(f.batches) \in Nat
      BY <1>1
    <3> QED
      BY <1>5, <1>8, <2>1, <3>1, <3>2
  <2>2. \A r, s : SameCall(r, s) <=> SameCall(s, r)
    BY DEF SameCall
  <2>3. \A r, s \in Requests' : SameCall(r, s) /\ r # s => r.records \cap s.records = {}
    BY <1>4, <2>1, <2>2 DEF ServiceInv, SeparateInv
  <2>4. \A r, s \in network' : SameCall(r, s) => r = s
    BY <1>4, <1>9, <2>2 DEF ServiceInv, SeparateInv
  <2>5. \A r \in network', s \in Range(stored') : SameCall(r, s) => s.batch < r.batch
    BY <1>4, <2>1, <2>2 DEF ServiceInv, SeparateInv, Requests
  <2> QED
    BY <1>4, <2>3, <2>4, <2>5 DEF ServiceInv, SeparateInv, StoredInBatchOrder
<1>15. GapInv'
  <2>1. \A m \in q.records : 1 .. m - 1 \subseteq q.records \cup StoredOf(c) \cup lost[c]
    BY <1>1, <1>5, GroupPlace
  <2> QED
    BY <1>4, <1>5, <2>1 DEF ServiceInv, GapInv
<1> QED
  BY <1>10, <1>11, <1>12, <1>13, <1>14, <1>15 DEF ServiceInv

\* A longer store holds what the shorter one held and the new request.
LEMMA AppendStored ==
  ASSUME stored \in Seq(RequestType), NEW q \in RequestType, stored' = Append(stored, q)
  PROVE  /\ Range(stored') = Range(stored) \cup {q}
         /\ \A c : StoredOf(c) \subseteq StoredOf(c)'
         /\ \A c : StoredOf(c)' \subseteq StoredOf(c) \cup (IF q.chunk = c THEN q.records ELSE {})
<1>1. DOMAIN stored' = DOMAIN stored \cup {Len(stored) + 1}
      /\ (\A i \in DOMAIN stored : stored'[i] = stored[i]) /\ stored'[Len(stored) + 1] = q
  OBVIOUS
<1>2. Range(stored') = Range(stored) \cup {q}
  BY <1>1 DEF Range
<1>3. \A c : StoredOf(c) \subseteq StoredOf(c)'
  BY <1>2 DEF StoredOf
<1>4. ASSUME NEW c PROVE StoredOf(c)' \subseteq StoredOf(c) \cup (IF q.chunk = c THEN q.records ELSE {})
  BY <1>2 DEF StoredOf
<1> QED
  BY <1>2, <1>3, <1>4

LEMMA StoreStep ==
  ASSUME TypeOK, ServiceInv, NEW q \in network, Store(q)
  PROVE  ServiceInv'
<1>1. network' = network \ {q} /\ stored' = Append(stored, q) /\ lost' = lost /\ flush' = flush
  BY DEF Store, vars
<1>2. stored \in Seq(RequestType) /\ q \in RequestType /\ network \subseteq RequestType
  BY DEF ServiceInv, DeliveryType
<1>3. Range(stored') = Range(stored) \cup {q} /\ Requests' = Requests
      /\ \A d : StoredOf(d) \subseteq StoredOf(d)'
  BY <1>1, <1>2, AppendStored DEF Requests
<1>4. DeliveryType'
  BY <1>1, <1>2 DEF ServiceInv, DeliveryType
<1>5. ASSUME NEW d \in Chunk PROVE CalledInv(d)' /\ LostInv(d)' /\ AcceptedInv(d)'
  <2>1. CalledInv(d)' /\ LostInv(d)'
    BY <1>1 DEF ServiceInv, CalledInv, LostInv
  <2>2. AcceptedInv(d)'
    BY <1>1, <1>3 DEF ServiceInv, AcceptedInv, Request
  <2> QED
    BY <2>1, <2>2
<1>6. \A r \in Requests' : CurrentOf(r)'
  BY <1>1, <1>3 DEF ServiceInv, CurrentOf, Current
<1>7. \A r \in network' : WaitOf(r)'
  BY <1>1 DEF ServiceInv, WaitOf, Current
<1>8. SeparateInv'
  <2>1. \A r \in network', s \in Range(stored') : SameCall(r, s) => s.batch < r.batch
    BY <1>1, <1>3 DEF ServiceInv, SeparateInv
  <2>2. StoredInBatchOrder'
    <3> SUFFICES ASSUME NEW i \in DOMAIN stored', NEW j \in DOMAIN stored', i < j,
                        SameCall(stored'[i], stored'[j])
                 PROVE  stored'[i].batch < stored'[j].batch
      BY DEF StoredInBatchOrder, SameCall
    <3>1. /\ DOMAIN stored' = 1 .. Len(stored) + 1 /\ DOMAIN stored = 1 .. Len(stored)
          /\ Len(stored) \in Nat
          /\ (\A k \in DOMAIN stored : stored'[k] = stored[k]) /\ stored'[Len(stored) + 1] = q
      BY <1>1, <1>2
    <3>2. i \in DOMAIN stored /\ stored'[i] = stored[i] /\ stored[i] \in Range(stored)
      BY <3>1 DEF Range
    <3>3. CASE j \in DOMAIN stored
      BY <3>1, <3>2, <3>3 DEF ServiceInv, SeparateInv, StoredInBatchOrder, SameCall
    <3>4. CASE j = Len(stored) + 1
      BY <3>1, <3>2, <3>4 DEF ServiceInv, SeparateInv, SameCall
    <3> QED
      BY <3>1, <3>3, <3>4
  <2>3. \A r, s \in Requests' : SameCall(r, s) /\ r # s => r.records \cap s.records = {}
    BY <1>3 DEF ServiceInv, SeparateInv
  <2>4. \A r, s \in network' : SameCall(r, s) => r = s
    BY <1>1 DEF ServiceInv, SeparateInv
  <2> QED
    BY <2>1, <2>2, <2>3, <2>4 DEF SeparateInv
<1>9. GapInv'
  BY <1>1, <1>3 DEF ServiceInv, GapInv
<1> QED
  BY <1>4, <1>5, <1>6, <1>7, <1>8, <1>9 DEF ServiceInv

LEMMA LoseStep ==
  ASSUME ServiceInv, NEW q \in network, Lose(q)
  PROVE  ServiceInv'
<1>1. network' \subseteq network /\ stored' = stored /\ lost' = lost /\ flush' = flush
  BY DEF Lose, vars
<1>2. Requests' \subseteq Requests /\ \A d : StoredOf(d)' = StoredOf(d)
  BY <1>1 DEF Requests, StoredOf
<1>3. DeliveryType'
  BY <1>1 DEF ServiceInv, DeliveryType
<1>4. ASSUME NEW d \in Chunk PROVE CalledInv(d)' /\ LostInv(d)' /\ AcceptedInv(d)'
  <2>1. CalledInv(d)' /\ LostInv(d)'
    BY <1>1 DEF ServiceInv, CalledInv, LostInv
  <2>2. AcceptedInv(d)'
    BY <1>1, <1>2 DEF ServiceInv, AcceptedInv, Request
  <2> QED
    BY <2>1, <2>2
<1>5. \A r \in Requests' : CurrentOf(r)'
  BY <1>1, <1>2 DEF ServiceInv, CurrentOf, Current
<1>6. \A r \in network' : WaitOf(r)'
  BY <1>1 DEF ServiceInv, WaitOf, Current
<1>7. SeparateInv'
  BY <1>1, <1>2 DEF ServiceInv, SeparateInv, StoredInBatchOrder
<1>8. GapInv'
  BY <1>1, <1>2 DEF ServiceInv, GapInv
<1> QED
  BY <1>3, <1>4, <1>5, <1>6, <1>7, <1>8 DEF ServiceInv

-----------------------------------------------------------------------------
(* The invariant.                                                          *)

LEMMA ServiceInit == DeliveryInit => ServiceInv
<1> SUFFICES ASSUME DeliveryInit PROVE ServiceInv
  OBVIOUS
<1>1. network = {} /\ stored = <<>> /\ Requests = {} /\ lost = [c \in Chunk |-> {}]
  BY DEF DeliveryInit, Requests, Range
<1>2. DeliveryType
  BY <1>1 DEF DeliveryType
<1>3. ASSUME NEW c \in Chunk PROVE CalledInv(c) /\ LostInv(c) /\ AcceptedInv(c)
  <2>1. flush[c] = Idle
    BY DEF DeliveryInit, Init
  <2>2. Idle.pc = "idle" /\ Idle.skipped = {} /\ Idle.group = <<>> /\ Idle.batches = <<>>
    BY DEF Idle
  <2> QED
    BY <2>1, <2>2 DEF CalledInv, LostInv, AcceptedInv, PosOf
<1>4. SeparateInv /\ GapInv
  BY <1>1 DEF SeparateInv, GapInv, StoredInBatchOrder, Range
<1> QED
  BY <1>1, <1>2, <1>3, <1>4 DEF ServiceInv

\* Every step of the composition is a step of the coroutines, or none.
LEMMA FlushSteps == [DeliveryNext]_dvars => [Next]_vars
<1> SUFFICES ASSUME [DeliveryNext]_dvars PROVE [Next]_vars
  OBVIOUS
<1>1. CASE UNCHANGED dvars
  BY <1>1 DEF dvars
<1>2. CASE \E c \in Chunk : Unseen(c) \/ SkipRecord(c) \/ SendRequest(c) \/ ReceiveAnswer(c)
  BY <1>2 DEF Unseen, SkipRecord, SendRequest, ReceiveAnswer, Next, Step, Answers, Failure
<1>3. CASE \E q \in network : Store(q) \/ Lose(q)
  BY <1>3 DEF Store, Lose
<1> QED
  BY <1>1, <1>2, <1>3 DEF DeliveryNext

FlushInv == TypeOK /\ (\A c \in Chunk : CallInv(flush[c])) /\ AllChunks

DeliveryInv == FlushInv /\ ServiceInv

LEMMA ServiceStep == DeliveryInv /\ [DeliveryNext]_dvars => ServiceInv'
<1> SUFFICES ASSUME DeliveryInv, [DeliveryNext]_dvars
             PROVE  ServiceInv'
  OBVIOUS
<1>0. /\ TypeOK /\ (\A c \in Chunk : CallInv(flush[c])) /\ AllChunks /\ ServiceInv
      /\ lost \in [Chunk -> SUBSET (Nat \ {0})]
  BY DEF DeliveryInv, FlushInv, ServiceInv, DeliveryType
<1>1. ASSUME NEW c \in Chunk, Start(c) \/ StartFails(c), UNCHANGED <<service, lost>>
      PROVE  ServiceInv'
  BY <1>0, <1>1, NewCallView, NewCallStep
<1>2. ASSUME NEW c \in Chunk, DecodeRecord(c) \/ DecodeRecordOom(c), UNCHANGED <<service, lost>>
      PROVE  ServiceInv'
  <2>1. PICK built, counted : AddRecord(c, built, counted)
    BY <1>2 DEF DecodeRecord, DecodeRecordOom
  <2>2. PICK g : /\ flush' = [flush EXCEPT ![c] = g] /\ InLoop(flush[c], g)
                 /\ g.skipped = flush[c].skipped /\ g.log_count # 0
    BY <1>0, <2>1, AddRecordView
  <2>3. LostInv(c)'
    BY <1>0, <1>2, <2>2 DEF LostInv, ServiceInv, TypeOK
  <2> QED
    BY <1>0, <1>2, <2>2, <2>3, InLoopStep
<1>3. ASSUME NEW c \in Chunk, DecodeDone(c), UNCHANGED <<service, lost>>
      PROVE  ServiceInv'
  <2>1. PICK g : /\ flush' = [flush EXCEPT ![c] = g] /\ InLoop(flush[c], g)
                 /\ \/ Same(flush[c], g)
                    \/ /\ flush[c].log_count = 0 /\ g.group = <<>>
                       /\ g.skipped \subseteq flush[c].skipped \cup PosOf(flush[c].group)
    BY <1>0, <1>3, DecodeDoneView
  <2>2. flush'[c] = g /\ lost' = lost /\ LostInv(c)
    BY <1>0, <1>3, <2>1 DEF ServiceInv, TypeOK
  <2>3. CASE Same(flush[c], g)
    <3>1. LostInv(c)'
      BY <2>2, <2>3 DEF LostInv, Same
    <3> QED
      BY <1>0, <1>3, <2>1, <3>1, InLoopStep
  <2>4. CASE ~Same(flush[c], g)
    <3>1. LostInv(c)'
      BY <2>1, <2>2, <2>4 DEF LostInv, PosOf
    <3> QED
      BY <1>0, <1>3, <2>1, <3>1, InLoopStep
  <2> QED
    BY <2>3, <2>4
<1>4. ASSUME NEW c \in Chunk, PutRejected(c) \/ PutUnsent(c), UNCHANGED <<service, lost>>
      PROVE  ServiceInv'
  <2>1. PICK code \in {"RETRYABLE", "FATAL"} : PutReturns(c, code) /\ flush[c].pc = "put"
    BY <1>4 DEF PutRejected, PutUnsent
  <2>2. PICK g : /\ flush' = [flush EXCEPT ![c] = g] /\ Putting(flush[c], g)
                 /\ g.pc = "answered" /\ g.result = code
    BY <1>0, <2>1, PutReturnsView
  <2> QED
    BY <1>0, <1>4, <2>1, <2>2, AnswerStep
<1>5. ASSUME NEW c \in Chunk, ReceiveAnswer(c)
      PROVE  ServiceInv'
  <2>1. PICK code \in {"OK", "RETRYABLE", "FATAL"} :
          /\ PutReturns(c, code) /\ flush[c].pc = "sent"
          /\ code = "OK" => Request(c) \in Range(stored)
    BY <1>5 DEF ReceiveAnswer, Answer
  <2>2. PICK g : /\ flush' = [flush EXCEPT ![c] = g] /\ Putting(flush[c], g)
                 /\ g.pc = "answered" /\ g.result = code
    BY <1>0, <2>1, PutReturnsView
  <2>3. UNCHANGED <<service, lost>>
    BY <1>5 DEF ReceiveAnswer
  <2> QED
    BY <1>0, <2>1, <2>2, <2>3, AnswerStep
<1>6. ASSUME NEW c \in Chunk, UNCHANGED <<service, lost>>,
             \/ HandleRetryable(c) \/ HandleFatal(c)
             \/ HandleOk(c) \/ HandleOkNoGroup(c) \/ HandleOkTail(c)
      PROVE  ServiceInv'
  BY <1>0, <1>6, ClosingView, ClosingStep
<1>7. ASSUME NEW c \in Chunk, SkipRecord(c)
      PROVE  ServiceInv'
  <2>1. PICK g : /\ flush' = [flush EXCEPT ![c] = g] /\ InLoop(flush[c], g)
                 /\ g.log_count = flush[c].log_count
                 /\ g.skipped \subseteq flush[c].skipped \cup {flush[c].next}
                 /\ PosOf(g.group) \subseteq PosOf(flush[c].group) \cup {flush[c].next}
    BY <1>0, <1>7, AddLogFailsView DEF SkipRecord
  <2>2. lost' = [lost EXCEPT ![c] = @ \cup {flush[c].next}] /\ UNCHANGED service
    BY <1>7 DEF SkipRecord
  <2>3. flush[c].next \in Nat \ {0}
    BY <1>0 DEF TypeOK, Flush
  <2>4. /\ lost' \in [Chunk -> SUBSET (Nat \ {0})] /\ lost'[c] = lost[c] \cup {flush[c].next}
        /\ \A d \in Chunk : lost[d] \subseteq lost'[d]
    BY <1>0, <2>2, <2>3
  <2>5. flush'[c] = g /\ LostInv(c)
    BY <1>0, <2>1 DEF ServiceInv, TypeOK
  <2>6. LostInv(c)'
    BY <2>1, <2>4, <2>5 DEF LostInv
  <2> QED
    BY <1>0, <2>1, <2>2, <2>4, <2>6, InLoopStep
<1>8. ASSUME NEW c \in Chunk, SendRequest(c)
      PROVE  ServiceInv'
  BY <1>0, <1>8, SendStep
<1>9. ASSUME NEW q \in network, Store(q) \/ Lose(q)
      PROVE  ServiceInv'
  BY <1>0, <1>9, StoreStep, LoseStep
<1>10. CASE UNCHANGED dvars
  <2>1. flush' = flush /\ network' = network /\ stored' = stored /\ lost' = lost
    BY <1>10 DEF dvars, vars, service
  <2>2. Requests' = Requests /\ (\A d : StoredOf(d)' = StoredOf(d)) /\ \A d : Request(d)' = Request(d)
    BY <2>1 DEF Requests, StoredOf, Request
  <2>3. SeparateInv' /\ GapInv' /\ DeliveryType'
    BY <1>0, <2>1, <2>2 DEF ServiceInv, SeparateInv, GapInv, StoredInBatchOrder, DeliveryType
  <2>4. (\A r \in Requests : CurrentOf(r)') /\ \A r \in network : WaitOf(r)'
    BY <1>0, <2>1 DEF ServiceInv, CurrentOf, WaitOf, Current
  <2>5. \A c \in Chunk : CalledInv(c)' /\ LostInv(c)' /\ AcceptedInv(c)'
    BY <1>0, <2>1, <2>2 DEF ServiceInv, CalledInv, LostInv, AcceptedInv
  <2> QED
    BY <2>1, <2>2, <2>3, <2>4, <2>5 DEF ServiceInv
<1> QED
  BY <1>1, <1>2, <1>3, <1>4, <1>5, <1>6, <1>7, <1>8, <1>9, <1>10
     DEF DeliveryNext, Unseen, Compute

LEMMA DeliveryInvariant == DeliverySpec => []DeliveryInv
<1>1. DeliveryInit => DeliveryInv
  BY TypeInit, CallInvInit, ChunkInit, ServiceInit DEF DeliveryInit, DeliveryInv, FlushInv
<1>2. DeliveryInv /\ [DeliveryNext]_dvars => DeliveryInv'
  BY FlushSteps, TypeStep, CallInvStep, ChunkStep, ServiceStep DEF DeliveryInv, FlushInv
<1> QED
  BY <1>1, <1>2, PTL DEF DeliverySpec

-----------------------------------------------------------------------------
(* The properties of the store.                                            *)

\* The store never has a gap, and the requests of a call are stored in their order,
\* however late a request of this call or of an earlier one arrives.
THEOREM DeliveryStoredInOrder == DeliverySpec => []StoredInOrder
<1>1. ServiceInv => StoredInOrder
  <2> SUFFICES ASSUME ServiceInv, NEW c \in Chunk, NEW m \in StoredOf(c)
               PROVE  1 .. m - 1 \subseteq StoredOf(c) \cup lost[c]
    BY DEF StoredInOrder, StoredIsPrefix, ServiceInv, SeparateInv
  <2>1. PICK r \in Range(stored) : r.chunk = c /\ m \in r.records
    BY DEF StoredOf
  <2>2. r.records \subseteq StoredOf(c)
    BY <2>1 DEF StoredOf
  <2> QED
    BY <2>1, <2>2 DEF ServiceInv, GapInv, Requests
<1> QED
  BY <1>1, DeliveryInvariant, PTL DEF DeliveryInv

\* The records before the first corrupt event, as Goal counts them.
LEMMA GoalValue ==
  ASSUME NEW c \in Chunk
  PROVE  /\ Goal[c] \in 0 .. Len(Events[c]) /\ Len(Events[c]) \in Nat
         /\ \A m \in 1 .. Goal[c] : Events[c][m].form # "corrupt"
         /\ Goal[c] = Len(Events[c]) \/ Events[c][Goal[c] + 1].form = "corrupt"
<1> DEFINE Len0 == Len(Events[c])
           T == {n \in Nat : n = Len0 \/ (n + 1 \in 1 .. Len0 /\ Events[c][n + 1].form = "corrupt")}
           IsGoal(n) == /\ \A m \in 1 .. n : Events[c][m].form # "corrupt"
                        /\ n = Len0 \/ Events[c][n + 1].form = "corrupt"
<1>1. Len0 \in Nat
  BY FlushAssumption
<1> HIDE DEF Len0
<1>2. Len0 \in T
  BY <1>1
<1>3. PICK n \in T : \A m \in T : n <= m
  BY <1>2, Least
<1>4. n \in 0 .. Len0
  BY <1>1, <1>2, <1>3
<1>5. ASSUME NEW m \in 1 .. n, Events[c][m].form = "corrupt" PROVE FALSE
  <2>1. m - 1 \in Nat /\ (m - 1) + 1 = m /\ m \in 1 .. Len0
    BY <1>1, <1>4
  <2>2. m - 1 \in T
    BY <1>5, <2>1
  <2> QED
    BY <1>3, <1>4, <2>1, <2>2
<1>6. IsGoal(n)
  BY <1>3, <1>5
<1>7. Goal[c] = CHOOSE k \in 0 .. Len0 : IsGoal(k)
  BY DEF Goal, Len0
<1> HIDE DEF IsGoal
<1>8. Goal[c] \in 0 .. Len0 /\ IsGoal(Goal[c])
  BY <1>4, <1>6, <1>7
<1> QED
  BY <1>1, <1>8 DEF IsGoal, Len0

\* FLB_OK means that the whole chunk is in the store, up to the first corrupt event,
\* except what could not be given a log.
LEMMA OkStored == DeliveryInv => OkMeansChunkStored
<1> SUFFICES ASSUME DeliveryInv, NEW c \in Chunk, flush[c].ret = "FLB_OK", NEW n \in 1 .. Goal[c]
             PROVE  n \in StoredOf(c) \cup lost[c]
  BY DEF OkMeansChunkStored
<1> DEFINE f == flush[c]
<1>1. f \in Flush /\ f.next \in Nat \ {0} /\ f.batches \in Seq(Batch)
  BY DEF DeliveryInv, FlushInv, TypeOK, Flush
<1>2. ~Decodes(f, c) /\ f.group = <<>> /\ PlacedInv(f) /\ CallInv(f)
  BY DEF DeliveryInv, FlushInv, AllChunks, ChunkInv, EndInv, RecordInv
<1>3. n \in Nat \ {0} /\ n < f.next
  BY <1>1, <1>2, GoalValue DEF Decodes
<1>4. Placed(f, n) /\ ~Holds(f.group, n)
  BY <1>2, <1>3 DEF PlacedInv, Holds
<1>5. \A b \in DOMAIN f.batches : f.batches[b].result = "OK"
  <2>1. \A b \in DOMAIN f.batches : f.batches[b] \in Batch
    BY <1>1
  <2>2. \A b \in DOMAIN f.batches : f.batches[b].result \notin {"RETRYABLE", "FATAL"}
    BY <1>2 DEF CallInv, ResultsOf
  <2> QED
    BY <2>1, <2>2 DEF Batch
<1>6. \A logs : Holds(logs, n) => n \in PosOf(logs)
  BY DEF Holds, PosOf
<1> QED
  BY <1>4, <1>5, <1>6 DEF Placed, DeliveryInv, ServiceInv, LostInv, AcceptedInv

\* FLB_OK means that the store holds the chunk up to its first corrupt event, except
\* for the events whose log could not be allocated.
THEOREM DeliveryOkMeansStored == DeliverySpec => []OkMeansChunkStored
BY OkStored, DeliveryInvariant, PTL

\* A record is stored at most once for each call the engine made.
THEOREM DeliveryDuplicatesNeedRetries == DeliverySpec => []DuplicatesNeedRetries
<1>1. DeliveryInv => DuplicatesNeedRetries
  <2> SUFFICES ASSUME DeliveryInv, NEW c \in Chunk, NEW n \in 1 .. Len(Events[c])
               PROVE  Copies(c, n) <= flush[c].calls
    BY DEF DuplicatesNeedRetries
  <2> DEFINE S == {i \in DOMAIN stored : stored[i].chunk = c /\ n \in stored[i].records}
             call == [i \in S |-> stored[i].call]
  <2>1. stored \in Seq(RequestType) /\ flush[c].calls \in Nat
    BY DEF DeliveryInv, FlushInv, TypeOK, Flush, ServiceInv, DeliveryType
  <2>2. \A i \in DOMAIN stored : stored[i] \in Range(stored) /\ stored[i].call \in Nat \ {0}
    <3>1. \A i \in DOMAIN stored : stored[i] \in RequestType
      BY <2>1
    <3> QED
      BY <3>1 DEF RequestType, Range
  <2>3. call \in [S -> 1 .. flush[c].calls]
    <3>1. \A i \in S : stored[i].call <= flush[c].calls
      BY <2>2 DEF DeliveryInv, ServiceInv, CurrentOf, Requests
    <3> QED
      BY <2>1, <2>2, <3>1
  <2>4. ASSUME NEW i \in S, NEW j \in S, stored[i].call = stored[j].call, i # j PROVE FALSE
    <3>1. SameCall(stored[i], stored[j]) /\ stored[i] \in Requests /\ stored[j] \in Requests
      BY <2>2, <2>4 DEF SameCall, Requests
    <3>2. stored[i] # stored[j]
      <4>1. i \in Nat /\ j \in Nat /\ (i < j \/ j < i)
        BY <2>1, <2>4
      <4>2. stored[i].batch < stored[j].batch \/ stored[j].batch < stored[i].batch
        BY <2>4, <4>1 DEF DeliveryInv, ServiceInv, SeparateInv, StoredInBatchOrder
      <4>3. stored[i].batch \in Nat /\ stored[j].batch \in Nat
        BY <3>1, RequestFields DEF DeliveryInv, ServiceInv
      <4> QED
        BY <4>2, <4>3
    <3> QED
      BY <3>1, <3>2 DEF DeliveryInv, ServiceInv, SeparateInv
  <2>5. call \in Injection(S, 1 .. flush[c].calls)
    <3>1. \A i, j \in S : call[i] = call[j] => i = j
      BY <2>4
    <3> HIDE DEF call, S
    <3> QED
      BY <2>3, <3>1 DEF Injection, IsInjective
  <2>6. IsFiniteSet(1 .. flush[c].calls) /\ Cardinality(1 .. flush[c].calls) = flush[c].calls
    <3>1. flush[c].calls \in Int /\ 1 \in Int
      BY <2>1
    <3>2. /\ IsFiniteSet(1 .. flush[c].calls)
          /\ Cardinality(1 .. flush[c].calls)
               = IF 1 > flush[c].calls THEN 0 ELSE flush[c].calls - 1 + 1
      BY <3>1, FS_Interval
    <3> QED
      BY <2>1, <3>2
  <2>7. Cardinality(S) <= flush[c].calls
    BY <2>5, <2>6, FS_Injection
  <2> QED
    BY <2>7 DEF Copies
<1> QED
  BY <1>1, DeliveryInvariant, PTL

-----------------------------------------------------------------------------
(* The refinement of ChunkDelivery, without its fairness.                  *)

\* The length of the prefix of chunk c that the records in `known` cover.
Covers(c, known, n) == n <= Goal[c] /\ 1 .. n \subseteq known

Prefix(c, known) ==
  CHOOSE n \in 0 .. Goal[c] : Covers(c, known, n) /\ ~Covers(c, known, n + 1)

Known(c) == StoredOf(c) \cup lost[c]

\* There is one such length: a prefix holds every shorter one.
LEMMA PrefixValue ==
  ASSUME NEW c \in Chunk, NEW known
  PROVE  /\ Prefix(c, known) \in 0 .. Goal[c] /\ Goal[c] \in Nat
         /\ 1 .. Prefix(c, known) \subseteq known
         /\ \A n \in 0 .. Goal[c] : 1 .. n \subseteq known => n <= Prefix(c, known)
<1> DEFINE A(n) == Covers(c, known, n) /\ ~Covers(c, known, n + 1)
           T == {n \in Nat : ~Covers(c, known, n + 1)}
           D == Prefix(c, known)
<1>1. Goal[c] \in Nat
  BY GoalValue
<1>2. Goal[c] \in T
  BY <1>1 DEF Covers
<1>3. PICK n \in T : \A m \in T : n <= m
  BY <1>2, Least
<1>4. n \in 0 .. Goal[c]
  BY <1>1, <1>2, <1>3
<1>5. 1 .. n \subseteq known
  <2>1. CASE n = 0
    BY <2>1
  <2>2. CASE n # 0
    <3>1. n - 1 \in Nat /\ n - 1 \notin T /\ (n - 1) + 1 = n
      BY <1>3, <1>4, <2>2
    <3> QED
      BY <3>1 DEF Covers
  <2> QED
    BY <2>1, <2>2
<1>6. A(n)
  BY <1>1, <1>3, <1>4, <1>5 DEF Covers
<1>7. D \in 0 .. Goal[c] /\ A(D)
  BY <1>4, <1>6 DEF Prefix
<1> HIDE DEF D
<1>8. ASSUME NEW m \in 0 .. Goal[c], 1 .. m \subseteq known, ~(m <= D) PROVE FALSE
  <2>1. m \in Nat /\ D \in Nat /\ D + 1 <= m
    BY <1>1, <1>7, <1>8
  <2>2. 1 .. D + 1 \subseteq 1 .. m
    BY <2>1
  <2> QED
    BY <1>1, <1>7, <1>8, <2>1, <2>2 DEF Covers
<1> QED
  BY <1>1, <1>7, <1>8 DEF Covers, D

\* More known records cover no shorter prefix.
LEMMA PrefixGrows ==
  ASSUME NEW c \in Chunk, NEW known, NEW more, known \subseteq more
  PROVE  Prefix(c, more) = Prefix(c, known) \/ Prefix(c, more) \in Prefix(c, known) + 1 .. Goal[c]
<1>1. Prefix(c, known) \in 0 .. Goal[c] /\ 1 .. Prefix(c, known) \subseteq more
  BY PrefixValue
<1>2. Prefix(c, known) <= Prefix(c, more) /\ Prefix(c, more) \in 0 .. Goal[c] /\ Goal[c] \in Nat
  BY <1>1, PrefixValue
<1> QED
  BY <1>1, <1>2

\* The variables of ChunkDelivery, as the mapping computes them.
Delivered == [c \in Chunk |-> Prefix(c, Known(c))]

Statuses == [c \in Chunk |-> Status(flush[c])]

LEMMA Mapping ==
  /\ Delivery!vars = <<Delivered, Statuses>>
  /\ Delivery!Init <=> /\ Delivered = [c \in Chunk |-> 0]
                       /\ Statuses = [c \in Chunk |-> "held"]
  /\ Delivery!Next <=>
       \E c \in Chunk :
         \/ /\ \E n \in Delivered[c] + 1 .. Goal[c] : Delivered' = [Delivered EXCEPT ![c] = n]
            /\ UNCHANGED Statuses
         \/ /\ Statuses[c] = "held" /\ Delivered[c] = Goal[c]
            /\ Statuses' = [Statuses EXCEPT ![c] = "done"] /\ UNCHANGED Delivered
         \/ /\ Statuses[c] = "held"
            /\ Statuses' = [Statuses EXCEPT ![c] = "dropped"] /\ UNCHANGED Delivered
BY DEF Delivery!vars, Delivery!Init, Delivery!Next, Delivery!Deliver, Delivery!Finish,
       Delivery!Drop, Delivered, Statuses, Prefix, Covers, Known, Accounted

LEMMA StatusValue ==
  ASSUME NEW f \in Flush
  PROVE  /\ Status(f) \in {"held", "done", "dropped"}
         /\ f.ret = "none" => Status(f) = "held"
         /\ f.ret = "FLB_RETRY" /\ f.calls # MaxCalls => Status(f) = "held"
         /\ Status(f) = "done" => f.ret = "FLB_OK"
BY DEF Status, Flush

\* A call starts for a chunk that is held, and every other step is of such a call.
LEMMA StepsOfHeld ==
  ASSUME DeliveryInv, NEW c \in Chunk, Unseen(c) \/ ReceiveAnswer(c)
  PROVE  \E g : flush' = [flush EXCEPT ![c] = g] /\ Status(flush[c]) = "held"
<1>1. TypeOK /\ flush[c] \in Flush /\ CallInv(flush[c])
  BY DEF DeliveryInv, FlushInv, TypeOK
<1>2. flush[c].pc # "returned" => Status(flush[c]) = "held"
  BY <1>1, StatusValue DEF CallInv
<1>3. CASE Start(c) \/ StartFails(c)
  <2>1. flush[c].pc = "idle" \/ (flush[c].ret = "FLB_RETRY" /\ flush[c].calls < MaxCalls)
    BY <1>3 DEF Start, StartFails, Callable
  <2>2. flush[c].calls < MaxCalls => flush[c].calls # MaxCalls
    BY <1>1, FlushAssumption DEF Flush
  <2>3. Status(flush[c]) = "held"
    BY <1>1, <1>2, <2>1, <2>2, StatusValue
  <2> QED
    BY <1>1, <1>3, <2>3, NewCallView
<1>4. CASE DecodeRecord(c) \/ DecodeRecordOom(c)
  <2>1. PICK built, counted : AddRecord(c, built, counted)
    BY <1>4 DEF DecodeRecord, DecodeRecordOom
  <2> QED
    BY <1>1, <1>2, <2>1, AddRecordView DEF InLoop
<1>5. CASE DecodeDone(c)
  BY <1>1, <1>2, <1>5, DecodeDoneView DEF InLoop
<1>6. CASE PutRejected(c) \/ PutUnsent(c) \/ ReceiveAnswer(c)
  <2>1. PICK code : PutReturns(c, code) /\ flush[c].pc \in {"put", "sent"}
    BY <1>6 DEF PutRejected, PutUnsent, ReceiveAnswer, Answer
  <2> QED
    BY <1>2, <2>1 DEF PutReturns
<1>7. CASE \/ HandleRetryable(c) \/ HandleFatal(c)
           \/ HandleOk(c) \/ HandleOkNoGroup(c) \/ HandleOkTail(c)
  BY <1>1, <1>2, <1>7, ClosingView DEF Closing
<1> QED
  BY <1>3, <1>4, <1>5, <1>6, <1>7 DEF Unseen, Compute

LEMMA RefinesInit == DeliveryInit => Delivery!Init
<1> SUFFICES ASSUME DeliveryInit PROVE Delivery!Init
  OBVIOUS
<1>1. ASSUME NEW c \in Chunk PROVE Delivered[c] = 0 /\ Statuses[c] = "held"
  <2>1. Known(c) = {}
    BY <1>1 DEF DeliveryInit, Known, StoredOf, Range
  <2>2. Prefix(c, {}) = 0
    <3>1. Prefix(c, {}) \in 0 .. Goal[c] /\ Goal[c] \in Nat /\ 1 .. Prefix(c, {}) \subseteq {}
      BY PrefixValue
    <3> QED
      BY <3>1
  <2>3. Status(Idle) = "held"
    BY DEF Status, Idle
  <2> QED
    BY <2>1, <2>2, <2>3 DEF Delivered, Statuses, DeliveryInit, Init
<1>2. Delivered = [c \in Chunk |-> 0] /\ Statuses = [c \in Chunk |-> "held"]
  BY <1>1 DEF Delivered, Statuses
<1> QED
  BY <1>2, Mapping

LEMMA RefinesStep ==
  DeliveryInv /\ DeliveryInv' /\ OkMeansChunkStored' /\ [DeliveryNext]_dvars
    => [Delivery!Next]_(Delivery!vars)
<1> SUFFICES ASSUME DeliveryInv, DeliveryInv', OkMeansChunkStored', [DeliveryNext]_dvars
             PROVE  Delivery!Next \/ UNCHANGED <<Delivered, Statuses>>
  BY Mapping DEF Delivery!vars, Delivered, Statuses, Prefix, Covers, Known, Accounted
<1>0. /\ TypeOK /\ TypeOK' /\ flush \in [Chunk -> Flush] /\ flush' \in [Chunk -> Flush]
      /\ stored \in Seq(RequestType) /\ network \subseteq RequestType
      /\ lost \in [Chunk -> SUBSET (Nat \ {0})]
  BY DEF DeliveryInv, FlushInv, TypeOK, ServiceInv, DeliveryType
\* The store and what is lost stay: the callback may end, well or not.
<1>1. ASSUME NEW c \in Chunk, NEW g, flush' = [flush EXCEPT ![c] = g],
             Status(flush[c]) = "held", UNCHANGED <<service, lost>>
      PROVE  Delivery!Next \/ UNCHANGED <<Delivered, Statuses>>
  <2>1. Delivered' = Delivered /\ \A d : Known(d)' = Known(d)
    BY <1>1 DEF Delivered, Known, StoredOf, service
  <2>2. g \in Flush /\ flush'[c] = g
    BY <1>0, <1>1
  <2>3. Statuses' = [Statuses EXCEPT ![c] = Status(g)] /\ Statuses[c] = "held"
    BY <1>0, <1>1, <2>2 DEF Statuses
  <2>4. CASE Status(g) = "held"
    BY <2>1, <2>3, <2>4 DEF Statuses
  <2>5. CASE Status(g) = "done"
    <3>1. flush'[c].ret = "FLB_OK"
      BY <2>2, <2>5, StatusValue
    <3>2. 1 .. Goal[c] \subseteq Known(c)
      BY <2>1, <3>1 DEF OkMeansChunkStored, Known
    <3>3. Delivered[c] = Goal[c]
      <4>1. Prefix(c, Known(c)) \in 0 .. Goal[c] /\ Goal[c] \in Nat
            /\ Goal[c] <= Prefix(c, Known(c))
        BY <3>2, PrefixValue, GoalValue
      <4> QED
        BY <4>1 DEF Delivered
    <3> QED
      BY <2>1, <2>3, <2>5, <3>3, Mapping
  <2>6. CASE Status(g) = "dropped"
    BY <2>1, <2>3, <2>6, Mapping
  <2> QED
    BY <2>2, <2>4, <2>5, <2>6, StatusValue
\* More is stored, or lost, of one chunk.
<1>2. ASSUME NEW c \in Chunk, Statuses' = Statuses, Known(c) \subseteq Known(c)',
             \A d \in Chunk : d # c => Known(d)' = Known(d)
      PROVE  Delivery!Next \/ UNCHANGED <<Delivered, Statuses>>
  <2>1. Delivered' = [Delivered EXCEPT ![c] = Prefix(c, Known(c)')]
    BY <1>2 DEF Delivered
  <2>2. Delivered[c] = Prefix(c, Known(c))
    BY DEF Delivered
  <2>3. Prefix(c, Known(c)') = Delivered[c] \/ Prefix(c, Known(c)') \in Delivered[c] + 1 .. Goal[c]
    BY <1>2, <2>2, PrefixGrows
  <2>4. CASE Prefix(c, Known(c)') = Delivered[c]
    BY <1>2, <2>1, <2>4 DEF Delivered
  <2>5. CASE Prefix(c, Known(c)') \in Delivered[c] + 1 .. Goal[c]
    BY <1>2, <2>1, <2>5, Mapping
  <2> QED
    BY <2>3, <2>4, <2>5
<1>3. ASSUME NEW c \in Chunk, Unseen(c) \/ ReceiveAnswer(c)
      PROVE  Delivery!Next \/ UNCHANGED <<Delivered, Statuses>>
  <2>1. PICK g : flush' = [flush EXCEPT ![c] = g] /\ Status(flush[c]) = "held"
    BY <1>3, StepsOfHeld
  <2>2. UNCHANGED <<service, lost>>
    BY <1>3 DEF Unseen, ReceiveAnswer
  <2> QED
    BY <1>1, <2>1, <2>2
\* A call that is under way keeps its chunk held.
<1>4. ASSUME NEW c \in Chunk, NEW g, flush' = [flush EXCEPT ![c] = g],
             g.ret = flush[c].ret, flush[c].pc # "returned"
      PROVE  Statuses' = Statuses
  <2>1. flush[c].ret = "none"
    BY <1>4 DEF DeliveryInv, FlushInv, CallInv
  <2>2. g \in Flush /\ flush'[c] = g /\ \A d \in Chunk : d # c => flush'[d] = flush[d]
    BY <1>0, <1>4
  <2>3. Status(g) = "held" /\ Status(flush[c]) = "held"
    BY <1>0, <1>4, <2>1, <2>2, StatusValue
  <2> QED
    BY <2>2, <2>3 DEF Statuses
<1>5. ASSUME NEW c \in Chunk, SkipRecord(c)
      PROVE  Delivery!Next \/ UNCHANGED <<Delivered, Statuses>>
  <2>1. Statuses' = Statuses
    BY <1>0, <1>4, <1>5, AddLogFailsView DEF SkipRecord, InLoop
  <2>2. lost' = [lost EXCEPT ![c] = @ \cup {flush[c].next}] /\ UNCHANGED service
    BY <1>5 DEF SkipRecord
  <2>3. Known(c) \subseteq Known(c)' /\ \A d \in Chunk : d # c => Known(d)' = Known(d)
    BY <1>0, <2>2 DEF Known, StoredOf, service
  <2> QED
    BY <1>2, <2>1, <2>3
<1>6. ASSUME NEW c \in Chunk, SendRequest(c)
      PROVE  Delivery!Next \/ UNCHANGED <<Delivered, Statuses>>
  <2>1. Statuses' = Statuses
    BY <1>0, <1>4, <1>6, SendView DEF SendRequest, Send
  <2>2. \A d : Known(d)' = Known(d)
    BY <1>6 DEF SendRequest, Known, StoredOf
  <2> QED
    BY <1>2, <2>1, <2>2
<1>7. ASSUME NEW q \in network, Store(q)
      PROVE  Delivery!Next \/ UNCHANGED <<Delivered, Statuses>>
  <2>1. Statuses' = Statuses /\ lost' = lost /\ stored' = Append(stored, q)
    BY <1>7 DEF Store, vars, Statuses
  <2>2. q \in RequestType /\ q.chunk \in Chunk
    BY <1>0 DEF RequestType
  <2>3. /\ \A d : StoredOf(d) \subseteq StoredOf(d)'
        /\ \A d : d # q.chunk => StoredOf(d)' \subseteq StoredOf(d)
    BY <1>0, <2>1, <2>2, AppendStored
  <2>4. Known(q.chunk) \subseteq Known(q.chunk)' /\ \A d \in Chunk : d # q.chunk => Known(d)' = Known(d)
    BY <2>1, <2>3 DEF Known
  <2> QED
    BY <1>2, <2>1, <2>2, <2>4
<1>8. ASSUME NEW q \in network, Lose(q)
      PROVE  Delivery!Next \/ UNCHANGED <<Delivered, Statuses>>
  BY <1>8 DEF Lose, vars, Delivered, Statuses, Known, StoredOf
<1>9. CASE UNCHANGED dvars
  BY <1>9 DEF dvars, vars, service, Delivered, Statuses, Known, StoredOf
<1> QED
  BY <1>3, <1>5, <1>6, <1>7, <1>8, <1>9 DEF DeliveryNext

\* Whatever the service and the engine do, what the store holds of a chunk and what
\* becomes of the chunk are steps that ChunkDelivery allows: the stored prefix only
\* grows, a chunk is done only when all of it is there, and what is done or dropped
\* stays so.
THEOREM DeliveryRefinesChunkDelivery ==
  DeliverySpec => Delivery!Init /\ [][Delivery!Next]_(Delivery!vars)
BY RefinesInit, RefinesStep, OkStored, DeliveryInvariant, PTL DEF DeliverySpec

=============================================================================
