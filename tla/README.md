# Verification of the SLS output plugin for Fluent Bit

TLA+ models, TLC configurations and TLAPS proofs for `aliyun-log-fluent-bit-plugin`: a
Fluent Bit output plugin in C (`src/fluent_bit_out_aliyun_sls_plugin.c`) on top of a C++
client library for Alibaba Cloud SLS (`src/*.cpp`, `include/aliyun_sls/`). The paths in this
file are relative to the repository; `PROJECT.json` maps every definition to its lines.

## 1. The system

```
 Fluent Bit engine                                     (external)
   |  chunk                        ^ FLB_OK / FLB_RETRY / FLB_ERROR
   v                               |
 cb_sls_flush  (one coroutine per chunk, several workers)      plugin.c
   |  add_log / add_content / encoded_size      | metric_inc
   v                                            v
 log group handles                          two cmetrics counters
   |  put_logs                                            sls_c_api.cpp
   v
 Client::putLogs: encode -> compress -> sign -> send      sls_client.cpp
   |                                                      sls_protobuf / _compress / _crypto
   v
 CTransportBridge -> sls_transport_cb -> flb_http_client  sls_c_api.cpp, plugin.c
   |
   v
 network, SLS service                                  (external)
```

| Component | State | Operations | What makes it correct |
|---|---|---|---|
| flush callback, `plugin.c:406-553` | per coroutine: decoder, current group, `log_count`, result; shared: two metrics | entry; decode loop; put in the loop and after it; eight ways out | no record is lost, repeated or reordered between decoder and requests; a batch is cut at the limit; the first failed put ends the call with its code; `FLB_OK` only for a chunk that was accepted; every handle is destroyed once; each call ends |
| log group C API, `sls_c_api.cpp:152-247` | group, running `encoded_size`, open items | create, add_log, add_content, item_destroy, encoded_size, destroy | the running size is what the encoder produces, in any order of the calls and with any failed allocation |
| protobuf encoder, `sls_protobuf.cpp` | none | encodeLogGroup | its size; rejects an empty group, an empty log and an empty key |
| client, `sls_client.cpp` | configuration only | putLogs, create/delete project and logstore | what is sent verifies; the result code tells a hopeless call from one worth repeating; OK is the service's own |
| signing, `sls_crypto.cpp` | none | MD5, HMAC-SHA1, string to sign, date | covers what is sent |
| compression, `sls_compress.cpp` | none | encodeLz4 | refuses what LZ4 cannot take |
| batch builder, `sls_batch.cpp` | local variables of one call | buildPutLogRequests | requests within two limits, none closed early, every log once and in order |
| C API of the client, transport bridge, `sls_c_api.cpp:64-150, 249-310` | client, response buffers of a call | client_create/destroy, put_logs, send, cleanup | no exception escapes into C; buffers freed once |
| transport callback, `plugin.c:69-199` | connection, HTTP client, response copies of a call | sls_transport_cb | releases the connection on each way out; coherent response or an error |
| plugin lifecycle, `plugin.c:304-402, 555-622` | context: strings, upstream, client, metrics | cb_sls_init, cb_sls_exit | what init made is released once and in an order in which nothing outlives what it points to; one host from one endpoint, for all that read it |
| record conversion, `plugin.c:205-302, 443-473` | none | msgpack value to string, time stamps | bounded depth; the log has the event's fields; a log the encoder takes whenever a field has a key (unless the key starts with a NUL: the C API takes C strings, see section 3) |
| metrics, `plugin.c:304-330` | two counters | metric_inc | nothing forwarded or retried is missed (more than was forwarded is counted, see section 3) |
| curl transport, `sls_http.cpp` | handle, two lists of a call | send | what it allocated is freed when it returns an answer or throws a `std::runtime_error` (not on a `std::bad_alloc`); the address override is for the host it requests |
| engine, network, service | chunks held, requests under way, logs stored | retry, store, lose | external |

What is hard about it:

* **Partial failure.** A chunk is cut into several requests; any of them can fail after others
  were stored, and `FLB_RETRY` makes the engine repeat *the whole chunk*. Every allocation in
  the C API is checked separately, and a failed one may leave a half-made log behind.
* **Unreliable delivery.** The wait for an answer can end without one while the request is, or
  will be, stored. A retry then races a request of the call before it.
* **Several ways out.** `cb_sls_flush` returns at eight places with different handles alive.
* **Two computations of one number.** The group's size is summed up by arithmetic of its own
  beside the encoder.
* **Error classes by exception type.** The code that decides retry or drop sees only the type.
* **C and C++ on one path.** A call goes from C through C++ into C again; buffers change hands in
  between, any of their allocations may fail, and an exception may pass where nobody frees them.
* **One endpoint, three readers.** Plugin, client and curl transport each take the endpoint apart.
* **Concurrency** is limited: coroutines share the two metrics, the connections of one upstream and
  read-only configuration.

The full list of hazards, each with its line and the properties that cover it, is
`hazards` in `PROJECT.json`.

## 2. The modules

| Module | Models | State and actions |
|---|---|---|
| `SlsProtobuf` | encoder | pure operators: `Varint` byte by byte, sizes of fields, logs and groups, `LogEncodable`, `GroupEncodable` |
| `SlsLogGroup` | log group C API | `group`, `encoded_size`, `items` as in `aliyun_sls_log_group`/`_item`; one action per API call, one more for each allocation whose failure leaves a trace (`AddLogNoItem`, `ItemDestroyUnsized`) |
| `SlsFlush` | flush callback | `flush[c]`: the locals of the coroutine of chunk `c` and its position `pc`; `m_records`, `m_requests` |
| `SlsPut` | *abstract*: one PutLogs call | `sendable`, `phase`, `code` |
| `SlsClient` | client, signing, compression, C API of put_logs, bridge | one call as a pipeline of stages, each with an action for the exceptions it throws |
| `SlsBatch` | batch builder | the loop's locals; one action per pass |
| `SlsTransport` | transport bridge and transport callback, several calls | `call[c]`: position, connection and HTTP client, the buffers of the C response, the result; one action per call into Fluent Bit's network code and per way out |
| `SlsPlugin` | `cb_sls_init`, `client_create`, `cb_sls_exit` | `owned`: how often each block is held; one action per acquisition, one per step of exit |
| `SlsEndpoint` | URL, host and port of plugin, client and curl transport | pure operators on words |
| `SlsRecord` | one event to one log: time stamp, `msgpack_object_to_sds` | `log`, the memory `m` (allocations that fail, strings alive, a crash); one action per pair of the body's map |
| `SlsCurl` | `CurlTransport::send` | the handle, `header_list`, `resolve`; one action per library call |
| `SlsText` | URL encoding, base64, JSON escaping, reading of error bodies | pure operators on bytes, over a growing `input` |
| `ChunkDelivery` | *abstract*: what an output promises of chunks | `delivered[c]`, `status[c]` |
| `SlsDelivery` | flush callback, network and service together | extends `SlsFlush` by `network` and `stored` |
| `SlsFlushProofs` | theorems about `SlsFlush` and `SlsDelivery` | |
| `SlsClientProofs` | theorems about `SlsClient` and `SlsBatch`, the client library's two entries | |
| `SlsTextProofs` | theorems about `SlsRecord` and `SlsText`, the conversions | |
| `SlsLogGroupProofs`, `SlsTransportProofs`, `SlsPluginProofs`, `SlsCurlProofs` | theorems about the module each is named for | |
| `SlsLemmas` | facts about sums, sequences and the strings of an endpoint, for the proofs of several modules | |
| `MC*` | small instances for TLC | |

How they fit together: `SlsLogGroup` shows that the size the flush loop reads is the size of the
encoded group, which is why an event in `SlsFlush` can be a number (`wire`: the bytes its log
adds) and a form. `SlsClient` implements `SlsPut`, whose three outcomes (refused, sent and
answered, sent and not answered) are the outcomes a put has in `SlsFlush`. `SlsDelivery` adds the
world to `SlsFlush` and implements `ChunkDelivery`. `SlsTransport` opens the one step in which
`SlsClient` hands a request to its transport, and implements `SlsPut` once more, for any number of
calls at a time; `SlsCurl` opens it for the standalone client. `SlsRecord` shows which events become
which forms of `SlsFlush`. `SlsPlugin` and `SlsCurl` extend `SlsEndpoint`, so that the same endpoint
is read by all three readers in one model.

### SlsFlush

`pc` names the places where the coroutine can be seen: `loop` (before
`flb_log_event_decoder_next`), `put` (before `put_logs`), `sent` (in the wait, the only place
where the coroutine yields), `answered`, `returned`. `site` tells the put in the loop from the
one after it. One pass of the loop body is one action (`DecodeRecord`): nothing another coroutine
does can be seen in it. An event has a form: `fields`, `empty` (no usable key: an empty map, or
empty keys only, `plugin.c:457-460`), `nul` (a key that the C API cuts to nothing, see SlsRecord) or
`corrupt` (the decoder does not return SUCCESS). Logs of `empty` and `nul` events are ones the encoder rejects.
`batches`, `skipped`, `calls`, `owned`, `forwarded` and `faults` are history the properties need
and no guard of the code reads, except for the two bounds `MaxCalls` and `MaxFaults`.

Failed allocations: `StartFails`, `DecodeRecordOom` (contents lost, in part or whole, or the size
not counted), `AddLogFails` (no log, or an empty one nobody can fill), `PutUnsent` and
`HandleOkNoGroup`.

### SlsClient

Values are symbolic: a digest is the body it was computed from, a signature the string that was
signed. So `SentRequestVerifies` can ask whether the string the *service* would sign, from the
request as it was received, is the string that was signed.

### SlsDelivery

A request leaves `network` by being stored or lost, at any time, long after its call timed out. A
2xx is returned only for a stored request; the other codes mean nothing. The engine calls again
after `FLB_RETRY`, up to `MaxCalls` times.

### SlsTransport

A call has an error path at every library call, and an allocation may fail in it. The buffers of the
C response are named one by one, so that the copying can fail in any subset of them
(`Receive`), with the callback's return value still 0, as in the code (`plugin.c:130-198`). A
request from which a header is missing (`flb_http_add_header` failed, `plugin.c:116`) never gets a
2xx: the service verifies the signature. `TakeInThrows` is the bridge's copying running out of memory
half way (`sls_c_api.cpp:97-107`).

### SlsPlugin and SlsEndpoint

A string is a sequence of words, because the readers of an endpoint look only for schemes, colons
and slashes. `owned` counts, so that a block released twice shows as -1.
The readers do not make the same of an endpoint that has a port or a path. The plugin drops both, and
connects to its own `port` option or the default (`plugin.c:324, 339-343`); the client keeps both in the URL and in the `Host`
header it signs and sends (`sls_client.cpp:41-58`); curl connects to the port in the URL.
`EndpointsAgree` says what is common: the `Host` header is the plugin's host behind the project,
once, followed by the endpoint's own `Rest`; curl's host is the same without it; curl's port is the endpoint's, or its scheme's; and the two
transports connect to one port where the configuration says it once (`SamePort`: `port` repeats the endpoint's port, or
neither is given and `tls` is what the scheme says). With any other configuration the plugin and the standalone client connect to different ports of that host.
`EndpointsAgree` is about an instance that came up with an endpoint that names a host (`Connected`): of
`https://` alone each reader makes something else, and no host.

### SlsRecord

Allocations are numbered in the order the code makes them; `m.failing` is the set of those that fail,
`m.live` the number of strings that were created and not destroyed. `msgpack_object_to_sds` is
`ToSds[levels]`, a function of the levels that may still be written out (`MaxDepth + 1` of them; none
is `depth > 8` in the code), which maps a memory and a value to the memory after it and the string or
NULL. The two loops are `AddEntry` and `AddElement`, one pass each, with every conversion, concatenation and
destruction in the code's order. `CString` is what the C API makes of a key or value with a NUL in it
(`safeString`, `sls_c_api.cpp:29-31`); the plugin's own test for empty keys comes before and sees the whole length (`Usable`). A concatenation to the NULL a concatenation before it
returned is undefined behaviour in Fluent Bit's string library; the model ends the program there
(`m.crashed`). `TextOf(value)` is the
reference: a value in full, down to the last level that is written, without memory and its failures.

### SlsCurl

A failed `curl_slist_append` returns NULL, and the code assigns it to the list. `outcome` is how the call
ends: an answer of any status, a `std::runtime_error` or a `std::bad_alloc`. The last one has no handler on the way and
leaves the handle and both lists allocated, which the model shows and `CurlReleased` does not ask for. An exception thrown out
of curl's callbacks passes through curl's own C frames, which is undefined: the model lets it end the
program or arrive.

### SlsText

`SlsText` compares each conversion with a reader written from the format: percent decoding, base64
decoding, a JSON string reader. A reader is a table: what it makes of the string at each position, a byte and
over how many positions it was written, and `Read` goes through it from the first position on. Anything the
format does not allow is read as 256, which is no byte. The base64 reader is strict: the bits that are over in
the last group have to be 0, and the padding where it belongs. `ExtractJsonString` is the code's own search and
copy, and is asked to find what is in an error body the service could send.

## 3. The runs

| Run | Question | States | Shows |
|---|---|---|---|
| `log_group` | is the running size the encoder's? | 12,327 | `EncodedSizeExact`, `CountedIsFinal`, over all orders of two open items and all failed allocations |
| `flush` | what becomes of the records of a chunk? | 275,366 | `NoRecordLost`, `RecordsInOrder`, `OkMeansAccepted`, `FailureEndsCall`, `NoEmptyPut`, `CutAtLimit`, `HandlesBalanced`, `MetricsComplete`, and that every chunk ends (`ChunkEnds`) |
| `client` | is a call's code right, and what it sends verifiable? | 2,224 | `SentRequestVerifies`, `OkMeansStored`, refinement of `SlsPut`: a request that can never be sent is refused for good |
| `batch` | are the requests a partition within the limits? | 10,482 | `RequestsFit`, `RequestsFill`, `RequestsComplete` |
| `delivery` | what is in the store after retries and late requests? | 264,374 | `StoredInOrder`, `OkMeansChunkStored`, `DuplicatesNeedRetries`, refinement of `ChunkDelivery` |
| `plugin` | what do init and exit hold and release, and do all readers of an endpoint agree? | 20,240 | `InstanceReleased`, `BridgeHasContext`, `EndpointsAgree` |
| `transport` | do two calls on one connection keep their promise, whatever fails? | 76,127 | `ConnectionsReturned`, `AnswerDecides`, `ResponseSound`, `RequestIdTrue`, `CallsReturn`, refinement of `SlsPut` |
| `record` | does a log hold what the event does, and does the encoder take it? | 42,431 | `LogFaithful`, `LogEncodable`, `FailuresContained` |
| `curl` | are the lists right and freed, and the override the one curl uses? | 4,992 | `CurlReleased`, `HeadersAreSuffix`, `OverrideMatchesUrl` |
| `text` | do the encoders say what a reader reads? | 22,621 | `EncodersReadBack` (URL encoding, base64, JSON escaping), `ExtractReadsBack` |

Some invariants are conjunctions of named parts, each with a comment of its own in the module:
`ResponseSound` (`CountIsBacked`, `BuffersFreed`), `StoredInOrder` (`StoredIsPrefix`,
`StoredInBatchOrder`), `RequestsComplete` (`LogsPartitioned`, `UnencodableThrows`), `InstanceReleased`
(`ExitReleasesAll`, `FailedInitLeaves`), `MetricsComplete` (`RetriesCounted`, `ForwardedCounted`), `EndpointsAgree`
(`HostsAgree`, `PortsAgree`), `LogFaithful` (`FieldsFaithful`, `TimeFaithful`), `FailuresContained`
(`LeaksAtMostFaults`, `FlatRecordSurvives`). Type invariants are checked in the runs of the modules
`SlsFlush` and `SlsPlugin`, whose proofs start from them.

Every property of these runs has a mutant of the code in `PROJECT.json`, kept beside the
definition it changes (`RenewNotCount`, `RenewNotSize`, `HandleRetryableGoOn`, ...), under which TLC
finds it violated.

Two runs show a disagreement between the documentation and the code. Each checks what the
documentation says, and TLC returns the behaviour in which the code does something else:

| Run | Written | Done |
|---|---|---|
| `flush_limit` | "Maximum uncompressed bytes per LogGroup" (`plugin.c:605`, `customer-guide.md:168`) | the limit is tested after the log is in; a group of several logs exceeds it |
| `client_5xx` | "408/429/5xx" are retried (`customer-guide.md:212`) | of the 5xx only 500, 502, 503, 504; a batch answered by another one is FATAL |

The models follow the code where it departs from the documentation in other places, too; no run
is spent on them:

| Written | Done |
|---|---|
| an oversize log "is still sent alone" (`design.md:64`, `customer-guide.md:179`) | it is sent with the logs before it. `SlsBatch`, which the plugin does not use, does what is written |
| `sls_records_total`: "forwarded to SLS" (`plugin.c:391`) | records are counted before the put's result is looked at (`plugin.c:483, 526`): those of a request that failed or was never sent, too; `MetricsComplete` says only that none is missed |
| a request that cannot be built is not retried (`customer-guide.md:213`) | it is, when the failure is a `std::runtime_error` (date, HMAC) |
| `FLB_OK` means written (`customer-guide.md:211`) | it is returned for a chunk some of whose records were skipped: after an event the decoder rejects, or for want of memory |
| a "transport exception" is retried (`customer-guide.md:212`) | `std::bad_alloc` from the bridge is FATAL, the chunk is dropped |
| a "non-positive" time stamp is replaced by the current time (`design.md:55`) | only 0 is; -1 is sent as 4294967295 |
| "Nested maps and arrays are written as compact string values" (`README_EN.md:361`) | below a depth of 8, `<nested>` is written in their place |

Some of what the code does is a weakness that no document speaks of; a property that forbade it would not hold,
so the properties say what is true around it:

* A key or value is cut at its first NUL byte (`sls_c_api.cpp:235-236`). A key that starts with one passes the plugin's
  test, becomes an empty key and makes the encoder reject the batch, which is FATAL: one such record
  drops what is left of the chunk. `LogEncodable` states both directions.
* A client that cannot be created leaves the three strings and its shell (`plugin.c:381-386`); `FailedInitLeaves` bounds it.
* A bridge that runs out of memory while it copies an answer does not free the C response (`sls_c_api.cpp:96-109`);
  `ResponseSound` exempts that case.
* A `std::bad_alloc` in `CurlTransport::send` leaves the curl handle and the lists; `CurlReleased` exempts it.
* A nested value may run into a concatenation to NULL when an allocation fails (`plugin.c:247-248`);
  `FailuresContained` says that a record of plain values cannot.

### Bounds, and why they are enough

* `flush`: two chunks, because coroutines meet only in the metrics and two are enough to interleave.
  `long` is cut into three batches: one that reaches the limit exactly, one where a log over the
  limit follows a small one, a tail. `odd` has events whose logs the encoder rejects (no key, a key cut to nothing) among sound ones and an event
  the decoder rejects. `MaxCalls = 2` gives one retry, `MaxFaults = 1` one failed allocation at any
  place (in either chunk).
* `delivery`: one chunk of several batches (chunks share nothing a request depends on), `MaxCalls = 3`
  so that requests of two earlier calls can still be under way, one fault.
* `log_group`: two logs with two contents, sizes on both sides of 127/128, where a length's varint
  grows; topics of 0 and 127 bytes, sources of 0 and 128. `VarintRoundTrip` in `MCSlsLogGroup` compares `Varint` with
  a reader of the format around every change of length up to four bytes; `VarintReadsBack` proves it for
  every number.
* `client`: every operation and every combination of token and hash key; `IntMax = 8` and
  `Lz4MaxInput = 6` stand for the real limits, with raw sizes 1, 6, 7 and 9 on each side of both;
  status codes at the edges of each class.
* `batch`: all sequences of up to four logs over three sizes and one unencodable log; limits on
  both sides of the sizes that occur, and 0.
* `transport`: two calls and one connection, so that one of them finds none; up to two failed
  allocations in the copying of an answer: an array and a string of the other, or both strings of a
  header. Three would only add combinations of these.
* `plugin`: every form of endpoint (scheme or none, project in front or not, port, slashes, path) with
  all optional strings and with and without a `port` option that repeats the endpoint's, and every subset of optional strings with two endpoints. Each acquisition fails in
  turn, any subset of the strings.
* `record`: `MaxDepth = 1` stands for 8, with values on both sides of it; keys and values that begin with a NUL or have one inside; any two of the first 14
  allocations fail. `TimeRange = 16` stands for 2^32, with times below zero, at zero and over the width.
* `curl`: every form of endpoint, three headers, two failed allocations.
* `text`: all strings of up to four bytes (a whole group of base64 and each remainder) over twelve
  bytes: zero, controls, quote, backslash, slash, colon, reserved and unreserved characters, 255.

`CHECK_DEADLOCK FALSE` is set wherever the program stops: a call that has returned, a chunk that
is done. `log_group` never stops and is checked for deadlock.

### Fairness

`SlsFlush`: weak fairness, per chunk, of `Start` (the engine calls for what it holds, and again
for what it retries), `Step` (an event loop resumes a coroutine that can run) and `Answers` (a
wait ends: the engine's connect and io timeouts break the connection; the client's own
`request_timeout` is not used by the plugin's transport). None of the failures is fair. Nothing is
assumed about the service: a request may stay under way for ever. `SlsClient`: weak
fairness of `Next` for a function that runs. `SlsTransport`: weak fairness of each call, which waits
for nothing but the network, and Fluent Bit's timeouts end that. A call that finds no connection fails
in the code rather than wait for one, so `CallsReturn` needs no fairness between calls. In
`SlsTransport` `KeepsPutPromise` is the safety part of `SlsPut`.

## 4. What is proved

The theorems hold for every set of chunks, every sequence of events, every limit, every number
of retries and failures, every endpoint and every length of a string. They assume of the constants
only what their `...Assumption` says, which TLC evaluates in every run: the types, finitely many
chunks and calls, limits of at least 1 where the code has them, a project name that is one word
without `:` and `/`, request paths that begin with `/`, values whose parts are values, bytes up to 255.

Every safety invariant the runs check is a theorem.

### SlsFlushProofs: the flush callback

* `FlushTypeCorrect`, `Spec => []TypeOK`. One lemma per helper (`Take`, `Destroy`, `Put`, `Close`,
  `Renew`) says that it maps a coroutine record to one; one step per action puts them together.
* `FlushHandlesBalanced` and `FlushFailureEndsCall`. Neither property is inductive: `HandlesBalanced`
  speaks of the returned coroutine, and what has to be destroyed there depends on how it got
  there. `CallInv(f)` says which handles are owned at each `pc` and `site` (decoder and group in the
  loop, the result too once the put came back, no decoder after the loop), that before the return
  all batches of the call were accepted, and how the return code follows from the last batch.
  `CallInvStep` proves it for each action, `UpdateInv` lifts it to all chunks.
* `FlushLosesNoRecord`, `FlushKeepsOrder`, `FlushOkMeansAccepted`. `RecordInv(f)` says that what is
  before `next` is placed (in a batch, in the group, or lost with a trace) and nothing else is, that the batches and the
  group are one increasing chain that ends before `next`, and that a group with `log_count = 0` has only logs
  nobody could fill; this last part is what makes dropping such a group sound. A step changes
  the five fields it looks at in one of five ways (nothing, a log is appended, an event is skipped, the group becomes a
  batch, the orphans are dropped), with a lemma for each. `EndInv` adds that a call that puts its tail has
  passed every event the decoder can return.
* `FlushNoEmptyPut`. The tail is put if `log_count > 0`, a number that is reset beside the group and not with it. `GroupInv(f)` says
  that the group is not shorter than the count, and that the count is positive before a put; each action
  keeps it (`AddRecordRegroups`, `LoopRegroups`, `HandleRegroups`).
* `FlushCutAtLimit` and `FlushMetricsComplete`. `CutInv` says that `encoded_size` is the sum over the
  group, that the loop goes on only below the limit, and that each batch but the tail reached it with
  its last log and not before. The metrics are counted after the put, by several coroutines: the
  invariant is not that the counter has all that was forwarded, but that it has all but what is in
  puts under way, `forwarded <= m_records + PendingSum`, a sum over all coroutines of which a
  step changes one term (`SumUpdate`).

### SlsFlushProofs: what the store holds

`SlsDelivery` runs the callback against a service that stores late or loses. `DeliveryInv` is the
callback's invariant and `ServiceInv`, which relates the requests, stored and under way, to the callback's locals.

* `DeliveryStoredInOrder`. A stored record has everything before it in the store, in its own request,
  or known to have had no log (`GapInv`); a request that is on its way belongs to the last batch of
  its call (`SeparateInv`), because the callback goes on only after a 2xx and a 2xx is for a stored request
  (`WaitOf`). So a late request can fill in, but never leave a gap.
* `DeliveryOkMeansStored`, from `AcceptedInv` and `FlushOkMeansAccepted`;
  `DeliveryDuplicatesNeedRetries`: requests of one call have disjoint records.
* `DeliveryRefinesChunkDelivery`: the initial state and every step, under the refinement mapping of
  `SlsDelivery`, is the initial state, a step or a stutter of `ChunkDelivery`.

### SlsLogGroupProofs

* `LogGroupSizeExact`: the size the flush loop reads is the number of bytes the encoder makes of the
  logs that were counted. `GroupInv` says that the running size is `LogsSize` of these, which are
  in general not a prefix: an item may be destroyed out of order, or never. `Effect` says what any
  API call does to the sum: nothing, or one log with its frame, which `SizeMore` inserts anywhere.
  Beneath it, `VarintLength`: the loop over `varint_len` in `aliyun_sls_log_item_destroy` counts the bytes `Varint` makes, for
  every number.
* `VarintReadsBack`: a reader of the wire format gets every number back from its varint, stops at its
  last byte, and has no shorter form to read. `Formed` is what holds of a varint, by induction on the
  number (its smallest counterexample has a smaller one); the reader of `Decoded` is the only function
  that satisfies its equation (`DecodedIs`).
* `LogGroupCountedIsFinal`, the action property, from the same invariant.

### SlsClientProofs: a call

`ClientInv` says what has been made by each stage (`StageInv`), that what is on the network is
the one request of the call, signed (`NetworkInv`), and why a code was returned (`CodeInv`).

* `ClientRequestVerifies`: the string the service would sign is the string that was signed, for every
  configuration and clock.
* `ClientOkMeansStored`.
* `ClientImplementsPut`: initial states and steps are those of `SlsPut`; a call that can never be sent
  is refused for good.

### SlsClientProofs: the batch builder

* `BatchTypeCorrect`.
* `BatchLimits`, `Spec => []RequestsFit`. `FitInv` adds that the group under construction already
  fits and that options were validated.
* `BatchComplete`, from `BatchPartitions` and `BatchReportsUnencodable`. `PartInv` says that the finished requests are a chain of
  consecutive positions that ends where the current group begins, which ends at `next`, and that every log
  taken after the first one was measured. `ChainGrows` is the step that appends a request to a chain.
* `BatchFillsRequests`: a group is closed only when one more log would have gone over a limit
  (`FillInv`). Nothing is asked of the encoder, not even that a longer group is larger.

The encoder is a parameter in `SlsBatch` (`Encodable`, `RawSize`), so these theorems hold for any encoder.

### SlsTransportProofs

* `ConnectionsSafe`, `ResponseSafe`, `AnswerSafe`. The inductive invariant is one of a single
  call: what it has open follows from its position; while the bridge has the response, every
  allocated buffer is within the reach of `Cleanup` for the count the callback left (`AllocatedInReach`, the
  heart of `ResponseSafe`); the code follows from the answer. `StepAllowed` proves it for each action, and
  that a connection is taken only where there is one; `NotOverdrawn` counts.
* `RequestIdSafe`: the request id reported is one the service sent, and is reported when the service sent one and no
  allocation failed. `IdInv` follows the header from the list of lines to the bridge; lemmas on `Headers` say
  that the copying keeps each line that is a header, in order.
* `PromiseKept`, `Spec => KeepsPutPromise`: every call implements `SlsPut`. `StepForward` says that a
  step leads on, never back, which with the invariant makes it a step or a stutter of `SlsPut`.

### SlsPluginProofs

* `PluginTypeCorrect`, `BridgeBacked` and `InstanceReleases` (from `ExitComplete` and `FailureBounded`). The invariant gives the
  set of blocks held at each acquisition of init (`InitHolds`) and after each step of exit (`ExitHolds`).
* `EndpointsReadAlike`. The state is simple (`PeerInv`); the work is in the strings. `HeaderIs` says what the `Host` header
  is, `HostRead` and `PortRead` what host and port curl finds in the URL of a PutLogs request that was built from an endpoint, with a case for each form of
  scheme, port, path and project prefix, on top of what each reader's loop finds (`UpToIs`, `HostIs`,
  `FirstOccurrence`).

### SlsCurlProofs

* `CurlFrees`, `CurlSendsSuffix`. `ListInv` says that the list is the last `k` headers of those passed,
  all of them while nothing has failed; `HeldInv` that without a failure everything held can be reached
  from the handle and the two lists. `CurlFrees` is about every answer and every `std::runtime_error`.
* `CurlOverrideFits`: the address override is for the host and port curl takes from the URL (`ResolveInv`,
  and the lemmas on endpoints).

### SlsTextProofs: records

`RecordLogFaithful`, `RecordLogEncodable` and `RecordFailuresContained`: a log says what its event says, up to the first NUL
of each key and value, whatever is in it, however deep and long, and whichever allocations fail; and the encoder takes it, unless
a key is cut to nothing. `RecordInv` is the first and the last of them with the types and
with what each `pc` says of the log; the work is in one step, which converts a key and a value of any depth. What
is missing from the log has to be paid for by an allocation that failed, and each failure pays once, so the
proof keeps accounts:

* `Good(r, mem, text, held)` says of a result `r` that began with memory `mem`: unless the program crashed, it is `text`
  or NULL, a NULL costs a failed allocation made since (`Cost`), and so does each string left
  behind besides the `held` ones. Creation, concatenation, destruction (`CreateGood`, `CatGood`, `ReleaseGood`,
  `AbandonGood`) and then a pass of each loop keep it, with `text` growing by the part as it reads (`AddElementGood`,
  `AddEntryGood`); through the passes (`AddPartsGood`) and the levels (`NextSdsGood`, `SdsGood`) it is an induction, which gives
  that `Sds` is `Good` for `TextOf`.
* `ToldBy` says the same of the log: its contents are the fields passed, in order, but for at most as many gaps and
  blank values as allocations failed. `ToldOfOneMore` is the step.
* A plain value is converted without a concatenation (`ScalarSds`), so a `Flat` record never crashes and owns
  nothing between two pairs.

`AddPairStep` and `AddMessageStep` put these together.

### SlsTextProofs: text

`TextEncodersReadBack` and `TextExtractReadsBack`, for strings of any length over any bytes.

* An encoded string is `FlattenSeq` of chunks, one per byte, or per three bytes. `Located` says where
  each chunk lies in the whole, and that nothing else is in it (`FlattenLocated`). A reader that makes of every chunk the
  byte it was written for therefore reads the string back (`FoundReads`, `ChunksRead`). What is left is about single
  chunks: `UrlChunkRead` (hexadecimal digits), `JsonChunkRead` (four ways to write a byte), `GroupRead` (three
  octets cut into digits of six bits, `Sextets`, and put together again, `OctetsAre`, with one or two of them missing).
* `TextExtractReadsBack` is about an error body whose message is arbitrary. The copy ends at the first quote without a
  backslash before it, and `QuotesEscaped` says that an escaped string has none: so the message is copied
  to its end, and no key in quotes can begin within it (`CodeKeyFound`), whatever the message contains.

### Induction over data

The provers cannot instantiate a rule that has a predicate as parameter, so the induction rules of the
library are of no use here. Where a proof has to go through the numbers, the elements of a sequence or the
subsets of a set, it goes by a *set*: `Least` (a set of numbers has a least element), `NatSetInduction` and
`SubsetInduction` of `SlsLemmas` say that a set that is closed under the step is the whole. What a
recursive function computes takes two steps: that a function with its equation exists
(`StepRecursion`, `SumExists`, `SevenBitRecursion`, `UpToExists`, `HostExists`, `FoundExists`, `ReadFrom`), so that
`CHOOSE` yields one, and then what the equation implies. The folds of the community modules are opened in
the same way.

### Only model-checked

* Liveness: `ChunkEnds`, `CallsReturn`, and the fair parts of `DeliversChunks` and of `KeepsPutPromise` in
  `SlsClient`. TLAPS 1.4 has no `ENABLED`.

## 5. Not modelled

* The bytes of the encoding other than varints and tags, the LZ4 compressor, MD5, SHA1, hex and the
  form of the date: library code, or data no property tells apart.
* How `msgpack_object_to_sds` prints numbers.
* Undefined uses of the C API (a handle destroyed twice, an item used after its group).
* libcurl, `getaddrinfo`, Fluent Bit's upstream and HTTP client, cmetrics: external, by what the
  code that calls them relies on.
* The test for a missing context at `plugin.c:422`: the engine calls only plugins whose init
  succeeded. A flush that is under way while the instance exits: the engine ends its
  coroutines first.
* The example `examples/putlogs_smoke.cpp`, run by hand and no part of the output; tests, build and
  release scripts.

## 6. Next steps

The composition of `SlsPlugin` and `SlsFlush`: a flush under way while the instance exits, should
the engine's order ever change.
