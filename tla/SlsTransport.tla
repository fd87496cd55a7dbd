---------------------------- MODULE SlsTransport ----------------------------
(***************************************************************************)
(* How a signed request leaves the plugin: CTransportBridge::send          *)
(* (sls_c_api.cpp) hands it to sls_transport_cb (the plugin's C code),     *)
(* which takes a connection of the upstream, sends it with Fluent Bit's    *)
(* HTTP client and copies the answer into buffers of its own; the bridge   *)
(* takes the buffers in and frees them, and putLogs maps the answer to a   *)
(* result.                                                                 *)
(*                                                                         *)
(* Calls run in the coroutines of several chunks. They share the upstream, *)
(* whose connections are limited. Any allocation may fail. A buffer of the *)
(* C response is a tuple: <<"body">>, <<"keys">> and <<"values">> (the two *)
(* arrays), <<"key", i>> and <<"value", i>> (the strings of header i).     *)
(*                                                                         *)
(* An answer is [status, body, lines]: the class of its status, whether it *)
(* has a body, and its header lines after the status line ("junk" has no   *)
(* colon or is blank).                                                     *)
(***************************************************************************)
EXTENDS FiniteSets, SequencesExt

CONSTANTS
  Call,      \* the calls
  Answer,    \* the answers of the service
  MaxConn,   \* connections the upstream keeps open at a time
  MaxFaults  \* bound: failed allocations in the copying of one answer

StatusClass == {"2xx", "retryable", "other"}

ASSUME TransportAssumption ==
  /\ IsFiniteSet(Call)
  /\ Answer \subseteq [status : StatusClass, body : BOOLEAN,
                       lines : Seq({"requestid", "other", "junk"})]
  /\ MaxConn \in Nat \ {0}
  /\ MaxFaults \in Nat

VARIABLES call  \* call[c] : a record, see Called

vars == <<call>>

NoAnswer == [status |-> "none", body |-> FALSE, lines |-> <<>>]
NoHeader == 0

\* `holds`: what the callback has open; `blocks` and `count`: the buffers and
\* header_count of the C response; `request_id`: the header the result's request
\* id came from. `answer`, `whole` (every signed header is in the request) and
\* `oom` (an allocation of this call failed) are ghosts.
Called ==
  [pc |-> "called", holds |-> {}, blocks |-> {}, count |-> 0, answer |-> NoAnswer,
   request_id |-> NoHeader, code |-> "none", whole |-> TRUE, oom |-> FALSE]

Init == call = [c \in Call |-> Called]

Return(d, code) == [d EXCEPT !.pc = "returned", !.code = code]

\* The exception escapes every handler that knows it as retryable: std::bad_alloc.
OutOfMemory(d) == Return([d EXCEPT !.oom = TRUE], "FATAL")

\* The callback has returned -1 with nothing in the response: std::runtime_error,
\* if there is memory for it.
Failures(d) == {Return(d, "RETRYABLE"), OutOfMemory(d)}

Becomes(c, outcomes) == \E d \in outcomes : call' = [call EXCEPT ![c] = d]

-----------------------------------------------------------------------------
(* sls_transport_cb, up to the answer.                                     *)

\* The bridge's arrays of header names and values cannot be allocated.
BridgeThrows(c) ==
  /\ call[c].pc = "called"
  /\ Becomes(c, {OutOfMemory(call[c])})

Connections == Cardinality({c \in Call : "conn" \in call[c].holds})

ConnGet(c) ==
  /\ call[c].pc = "called"
  /\ Connections < MaxConn
  /\ Becomes(c, {[call[c] EXCEPT !.pc = "connected", !.holds = {"conn"}]})

\* The peer refuses, the wait for it times out, or every connection is taken.
ConnGetFails(c) ==
  /\ call[c].pc = "called"
  /\ Becomes(c, Failures(call[c]))

\* flb_http_client, and flb_http_add_header for every header; a header that
\* cannot be added is left out, its return value is not looked at.
HttpClient(c) ==
  /\ call[c].pc = "connected"
  /\ \E whole, oom \in BOOLEAN :
       /\ whole \/ oom
       /\ Becomes(c, {[call[c] EXCEPT !.pc = "ready", !.holds = @ \cup {"hc"},
                                     !.whole = whole, !.oom = oom]})

\* What the callback gives back when it has no HTTP client, and after flb_http_do.
ReleasedWithoutClient == {"conn"}

\* Mutant of ReleasedAfterDo: the connection is kept.
ReleasedClientOnly == {"hc"}

ReleasedAfterDo == {"hc", "conn"}

Released(d, handles) == [d EXCEPT !.holds = @ \ handles]

HttpClientFails(c) ==
  /\ call[c].pc = "connected"
  /\ Becomes(c, Failures(Released(call[c], ReleasedWithoutClient)))

\* flb_http_do writes the request ...
HttpDo(c) ==
  /\ call[c].pc = "ready"
  /\ Becomes(c, {[call[c] EXCEPT !.pc = "sent"]})

\* ... or cannot write it.
HttpDoFails(c) ==
  /\ call[c].pc = "ready"
  /\ Becomes(c, Failures(Released(call[c], ReleasedAfterDo)))

\* Mutant of NoAnswerComes: the callback sends the request again.
SendAgain(c) ==
  /\ call[c].pc = "sent"
  /\ Becomes(c, {[call[c] EXCEPT !.pc = "ready"]})

NoAnswerComes(c) ==
  /\ call[c].pc = "sent"
  /\ Becomes(c, Failures(Released(call[c], ReleasedAfterDo)))

-----------------------------------------------------------------------------
(* The answer.                                                             *)

\* What a pass over the header lines finds: those with a colon, in their order.
Headers(lines) ==
  LET found[n \in 0 .. Len(lines)] ==
        IF n = 0 THEN <<>>
        ELSE IF lines[n] = "junk" THEN found[n - 1]
        ELSE Append(found[n - 1], lines[n])
  IN  found[Len(lines)]

\* Mutant of Pairs: the line after the status line is skipped with it.
PairsAfterFirst(answer) == Headers(IF answer.lines = <<>> THEN <<>> ELSE Tail(answer.lines))

\* The header lines both passes over the answer look at.
Pairs(answer) == Headers(answer.lines)

Strings(n) == {"key", "value"} \X (1 .. n)

Wanted(answer) ==
  (IF answer.body THEN {<<"body">>} ELSE {})
  \cup (IF Pairs(answer) = <<>> THEN {} ELSE {<<"keys">>, <<"values">>})
  \cup Strings(Len(Pairs(answer)))

\* Without either array no header is copied.
HasArrays(answer, failed) ==
  Pairs(answer) # <<>> /\ {<<"keys">>, <<"values">>} \cap failed = {}

Allocated(answer, failed) ==
  Wanted(answer) \ (failed \cup IF HasArrays(answer, failed) THEN {} ELSE Strings(Len(Pairs(answer))))

HeaderCount(answer, failed) == IF HasArrays(answer, failed) THEN Len(Pairs(answer)) ELSE 0

\* Mutant of CopyReturns: an answer that could not be copied is a failure.
CopyOrFail(failed) == IF failed = {} THEN 0 ELSE -1

\* The callback's return value, whichever of its allocations failed.
CopyReturns(failed) == 0

\* The service answers; a request without all its signed headers does not verify.
\* The callback fills the response, destroys the HTTP client and returns.
Receive(c) ==
  /\ call[c].pc = "sent"
  /\ \E answer \in Answer : \E failed \in SUBSET Wanted(answer) :
       /\ Cardinality(failed) <= MaxFaults
       /\ answer.status = "2xx" => call[c].whole
       /\ LET d == [Released(call[c], ReleasedAfterDo) EXCEPT
                      !.pc = "copied", !.answer = answer, !.oom = @ \/ failed # {},
                      !.blocks = Allocated(answer, failed), !.count = HeaderCount(answer, failed)]
          IN  Becomes(c, {IF CopyReturns(failed) = 0 THEN d ELSE Return(d, "RETRYABLE")})

\* Mutant of Cleanup: the arrays are freed, the strings in them are not.
CleanupArrays(d) == [d EXCEPT !.blocks = @ \ {<<"body">>, <<"keys">>, <<"values">>}, !.count = 0]

\* aliyun_sls_http_response_cleanup
Cleanup(d) ==
  [d EXCEPT !.blocks = @ \ ({<<"body">>, <<"keys">>, <<"values">>} \cup Strings(d.count)),
            !.count = 0]

\* The headers the bridge takes over: both strings are there.
Taken(d) == {i \in 1 .. d.count : {<<"key", i>>, <<"value", i>>} \subseteq d.blocks}

RequestId(d) ==
  LET ids == {i \in Taken(d) : Pairs(d.answer)[i] = "requestid"}
  IN  IF ids = {} THEN NoHeader ELSE CHOOSE i \in ids : TRUE

\* resultFromResponse
ResultCode(status) ==
  CASE status = "2xx" -> "OK" [] status = "retryable" -> "RETRYABLE" [] OTHER -> "FATAL"

\* The bridge takes the response over and frees the buffers; putLogs returns. The
\* C API copies the request id, if it can.
TakeIn(c) ==
  /\ call[c].pc = "copied"
  /\ LET d == Return(Cleanup(call[c]), ResultCode(call[c].answer.status))
     IN  Becomes(c, {[d EXCEPT !.request_id = RequestId(call[c])], [d EXCEPT !.oom = TRUE]})

\* It runs out of memory in the middle, and the buffers stay; or after it.
TakeInThrows(c) ==
  /\ call[c].pc = "copied"
  /\ Becomes(c, {OutOfMemory(call[c]), OutOfMemory(Cleanup(call[c]))})

CallNext(c) ==
  \/ BridgeThrows(c)
  \/ ConnGet(c) \/ ConnGetFails(c)
  \/ HttpClient(c) \/ HttpClientFails(c)
  \/ HttpDo(c) \/ HttpDoFails(c)
  \/ Receive(c) \/ NoAnswerComes(c)
  \/ TakeIn(c) \/ TakeInThrows(c)

Next == \E c \in Call : CallNext(c)

Spec == Init /\ [][Next]_vars

\* A call waits for nothing but the network, and Fluent Bit's timeouts end that.
FairSpec == Spec /\ \A c \in Call : WF_vars(CallNext(c))

-----------------------------------------------------------------------------

Returned(c) == call[c].pc = "returned"

\* The upstream is never overdrawn, and a call has a connection only while it
\* needs one: whatever fails, a call that is done with the network has given its
\* connection back and destroyed its HTTP client, or a few failures would leave
\* the plugin without connections for good.
ConnectionsReturned ==
  /\ Connections <= MaxConn
  /\ \A c \in Call :
       call[c].holds =
         CASE call[c].pc = "connected"         -> {"conn"}
           [] call[c].pc \in {"ready", "sent"} -> {"conn", "hc"}
           [] OTHER                            -> {}

\* header_count tells how far both arrays may be read.
CountIsBacked ==
  \A c \in Call : call[c].count > 0 => {<<"keys">>, <<"values">>} \subseteq call[c].blocks

\* Which allocations of the callback failed makes no difference: unless the
\* bridge itself ran out of memory, every buffer that was allocated is freed.
BuffersFreed ==
  \A c \in Call :
    call[c].pc \in {"called", "connected", "ready", "sent"} \/ call[c].code \in {"OK", "RETRYABLE"}
      => call[c].blocks = {}

\* The C response is sound in every combination of failed allocations.
ResponseSound == CountIsBacked /\ BuffersFreed

\* The answer decides, if there is one, and all the copying around it does not:
\* a stored request is never sent again because its answer could not be copied,
\* and a call is given up for good only on the service's word or for want of memory.
AnswerDecides ==
  \A c \in Call :
    /\ call[c].code = "OK" => call[c].answer.status = "2xx" /\ call[c].whole
    /\ call[c].code = "RETRYABLE" => call[c].answer.status \in {"none", "retryable"}
    /\ call[c].code = "FATAL" => call[c].oom \/ call[c].answer.status = "other"

\* The request id of the result is the service's, and it is lost only when
\* memory is short.
RequestIdTrue ==
  \A c \in Call :
    /\ call[c].request_id # NoHeader =>
         Pairs(call[c].answer)[call[c].request_id] = "requestid"
    /\ Returned(c) /\ "requestid" \in Range(call[c].answer.lines) /\ ~call[c].oom =>
         call[c].request_id # NoHeader

\* Every call keeps the promise of SlsPut, for a request that could be built.
Put(c) == INSTANCE SlsPut WITH
  sendable <- TRUE,
  phase    <- CASE Returned(c) -> "returned"
                [] call[c].pc \in {"sent", "copied"} -> "sent"
                [] OTHER -> "called",
  code     <- call[c].code

KeepsPutPromise ==
  /\ \A c \in Call : Put(c)!Init
  /\ [][\A c \in Call : [Put(c)!Next]_(Put(c)!vars)]_vars

\* Every call comes back.
CallsReturn == \A c \in Call : <>Returned(c)

=============================================================================
