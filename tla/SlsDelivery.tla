----------------------------- MODULE SlsDelivery -----------------------------
(***************************************************************************)
(* The flush coroutines (SlsFlush) together with the network and the SLS   *)
(* service, which the repository does not contain: a request that was sent *)
(* is stored or lost, at any time, even long after the call that sent it   *)
(* has timed out and the engine has the chunk flushed again. What the      *)
(* coroutine learns is one of three codes; only OK says something about    *)
(* the store.                                                              *)
(***************************************************************************)
EXTENDS SlsFlush

VARIABLES
  network,  \* the requests on their way
  stored,   \* the requests the service has stored, in order
  lost      \* ghost: of each chunk, the records that had no log in some call

service == <<network, stored>>
dvars == <<vars, service, lost>>

DeliveryInit ==
  /\ Init
  /\ network = {}
  /\ stored = <<>>
  /\ lost = [c \in Chunk |-> {}]

\* The request of the put under way, named by its call and its place in it.
Request(c) ==
  [chunk |-> c, call |-> flush[c].calls, batch |-> Len(flush[c].batches) + 1,
   records |-> {flush[c].group[i].pos : i \in DOMAIN flush[c].group}]

SendRequest(c) ==
  /\ Send(c)
  /\ network' = network \cup {Request(c)}
  /\ UNCHANGED <<stored, lost>>

Store(request) ==
  /\ request \in network
  /\ network' = network \ {request}
  /\ stored' = Append(stored, request)
  /\ UNCHANGED <<vars, lost>>

Lose(request) ==
  /\ request \in network
  /\ network' = network \ {request}
  /\ UNCHANGED <<vars, stored, lost>>

\* A 2xx answers a request that is stored. The other codes are returned for a
\* stored request too: the answer was lost, late or could not be taken in.
ReceiveAnswer(c) ==
  /\ \E code \in {"OK", "RETRYABLE", "FATAL"} :
       /\ Answer(c, code)
       /\ code = "OK" => Request(c) \in Range(stored)
  /\ UNCHANGED <<service, lost>>

\* The record has no log in this call.
SkipRecord(c) ==
  /\ AddLogFails(c)
  /\ lost' = [lost EXCEPT ![c] = @ \cup {flush[c].next}]
  /\ UNCHANGED service

Unseen(c) ==
  /\ \/ Start(c) \/ StartFails(c)
     \/ Compute(c)
     \/ DecodeRecordOom(c) \/ PutUnsent(c) \/ HandleOkNoGroup(c)
  /\ UNCHANGED <<service, lost>>

DeliveryNext ==
  \/ \E c \in Chunk : Unseen(c) \/ SkipRecord(c) \/ SendRequest(c) \/ ReceiveAnswer(c)
  \/ \E request \in network : Store(request) \/ Lose(request)

\* The fairness of SlsFlush; the service promises nothing.
DeliverySpec ==
  /\ DeliveryInit /\ [][DeliveryNext]_dvars
  /\ \A c \in Chunk :
       /\ WF_dvars(Start(c) /\ Unseen(c))
       /\ WF_dvars((Compute(c) /\ Unseen(c)) \/ SendRequest(c))
       /\ WF_dvars(ReceiveAnswer(c))

-----------------------------------------------------------------------------

RequestType ==
  [chunk : Chunk, call : Nat \ {0}, batch : Nat \ {0}, records : SUBSET (Nat \ {0})]

StoredOf(c) == UNION {r.records : r \in {r \in Range(stored) : r.chunk = c}}

\* The store never has a gap: a record is stored only if every record before it
\* in the chunk is (or had no log in some call), at any time, over all calls of
\* the chunk and in whatever order late requests arrive.
StoredIsPrefix ==
  \A c \in Chunk : \A m \in StoredOf(c) : 1 .. m - 1 \subseteq StoredOf(c) \cup lost[c]

\* The records of a chunk that can be delivered: the decoder stops at the first
\* event it cannot decode.
Goal == [c \in Chunk |->
  CHOOSE n \in 0 .. Len(Events[c]) :
    /\ \A m \in 1 .. n : Events[c][m].form # "corrupt"
    /\ n = Len(Events[c]) \/ Events[c][n + 1].form = "corrupt"]

\* When FLB_OK is returned the whole chunk is in the store, not just accepted.
OkMeansChunkStored ==
  \A c \in Chunk :
    flush[c].ret = "FLB_OK" => 1 .. Goal[c] \subseteq StoredOf(c) \cup lost[c]

Copies(c, n) ==
  Cardinality({i \in DOMAIN stored : stored[i].chunk = c /\ n \in stored[i].records})

\* A record is stored at most once for each call the engine made: duplicates
\* come from the engine's retries and from nothing else.
DuplicatesNeedRetries ==
  \A c \in Chunk : \A n \in 1 .. Len(Events[c]) : Copies(c, n) <= flush[c].calls

\* The requests of one call are stored in the order of the chunk, even when the
\* last of them arrives late.
StoredInBatchOrder ==
  \A i, j \in DOMAIN stored :
    i < j /\ stored[i].chunk = stored[j].chunk /\ stored[i].call = stored[j].call =>
      stored[i].batch < stored[j].batch

\* The store holds a chunk's records without a gap and each call's in their order.
StoredInOrder == StoredIsPrefix /\ StoredInBatchOrder

\* The first n records are stored, or had no log.
Accounted(c, n) == n <= Goal[c] /\ 1 .. n \subseteq StoredOf(c) \cup lost[c]

Status(f) ==
  CASE f.ret = "FLB_OK" -> "done"
    [] f.ret = "FLB_ERROR" -> "dropped"
    [] f.ret = "FLB_RETRY" /\ f.calls = MaxCalls -> "dropped"
    [] OTHER -> "held"

\* The output delivers chunks as ChunkDelivery promises.
Delivery == INSTANCE ChunkDelivery WITH
  delivered <- [c \in Chunk |->
                  CHOOSE n \in 0 .. Goal[c] : Accounted(c, n) /\ ~Accounted(c, n + 1)],
  status    <- [c \in Chunk |-> Status(flush[c])]

DeliversChunks == Delivery!Spec

=============================================================================
