-------------------------- MODULE SlsClientProofs --------------------------
(***************************************************************************)
(* Proofs about SlsClient, for every configuration, input, set of status   *)
(* codes and clock: a request that reached the network carries a signature *)
(* the service can recompute from what it received, OK is the service's    *)
(* answer to that request, and every step of a call is one SlsPut allows.  *)
(* The second part is about SlsBatch, the client library's other module.   *)
(***************************************************************************)
EXTENDS SlsClient, SlsBatch, SequenceTheorems, TLAPS

\* The group, or the call without one, can be made into a request.
Sendable == input.op # "putLogs" \/ (input.encodable /\ Compressible)

\* The body the request is signed with: the compressed group with its raw size,
\* the JSON text, or none.
BodyMade ==
  \/ input.op = "putLogs" /\ \E size \in Nat \ {0} :
       body = [form |-> "lz4", of |-> input.raw, size |-> size]
  \/ input.op # "putLogs" /\ \E size \in Nat :
       \E form \in {"json", "none"} : body = [form |-> form, of |-> size, size |-> size]

Signed == \E date \in Dates : request = SignedRequest(date)

\* What a call has made by the time it reaches a stage, and what it has not yet.
StageInv ==
  /\ pc \in {"encode", "compress", "sign", "send", "wait", "returned"}
  /\ pc \in {"encode", "compress"} => input.op = "putLogs"
  /\ pc = "compress" => input.encodable
  /\ pc \in {"sign", "send", "wait"} => BodyMade /\ Sendable
  /\ pc \in {"send", "wait"} => Signed
  /\ pc \notin {"wait", "returned"} => network = {}

\* What is on the network is the one request of the call, made and signed.
NetworkInv ==
  /\ pc = "wait" => network # {}
  /\ network # {} => network = {request} /\ BodyMade /\ Signed /\ Sendable

\* The code is the service's answer, or says why there is none.
CodeInv ==
  /\ pc # "returned" => code = None
  /\ pc = "returned" => code \in {"OK", "RETRYABLE", "FATAL"}
  /\ code = "OK" => network # {} /\ status \in 200 .. 299
  /\ pc = "returned" /\ ~Sendable => code = "FATAL"

ClientInv ==
  /\ input \in Input
  /\ StageInv /\ NetworkInv /\ CodeInv

-----------------------------------------------------------------------------
(* The signature.                                                          *)

\* The request body has a size.
LEMMA BodySize == ASSUME BodyMade, input \in Input PROVE body.size \in Nat /\ body.of \in Nat
BY ClientAssumption DEF BodyMade

\* The headers of a request but its signature, by name.
LEMMA HeaderValues ==
  ASSUME NEW date
  PROVE  LET headers == Set(BaseHeaders(date), ExtraHeaders)
         IN  /\ headers = [name \in DOMAIN headers |-> headers[name]]
             /\ "Content-MD5" \in DOMAIN headers <=> body.size > 0
             /\ body.size > 0 => headers["Content-MD5"] = MD5(body)
             /\ "Content-Type" \in DOMAIN headers <=> ContentType # None
             /\ ContentType # None => headers["Content-Type"] = ContentType
             /\ "Date" \in DOMAIN headers /\ headers["Date"] = date
             /\ "x-log-bodyrawsize" \in DOMAIN headers
             /\ headers["x-log-bodyrawsize"] = IF input.op = "putLogs" THEN body.of ELSE body.size
             /\ "Authorization" \notin DOMAIN headers
<1> DEFINE base    == BaseHeaders(date)
           extra   == ExtraHeaders
           headers == Set(base, extra)
<1>1. /\ "Content-MD5" \in DOMAIN base <=> body.size > 0
      /\ body.size > 0 => base["Content-MD5"] = MD5(body)
      /\ "Content-Type" \in DOMAIN base <=> ContentType # None
      /\ ContentType # None => base["Content-Type"] = ContentType
      /\ "Date" \in DOMAIN base /\ base["Date"] = date
      /\ "x-log-bodyrawsize" \in DOMAIN base /\ base["x-log-bodyrawsize"] = body.size
      /\ "Authorization" \notin DOMAIN base
  BY DEF BaseHeaders, BaseNames, Optional
<1>2. /\ DOMAIN extra \subseteq {"x-log-bodyrawsize", "x-log-compresstype"}
      /\ "x-log-bodyrawsize" \in DOMAIN extra <=> input.op = "putLogs"
      /\ input.op = "putLogs" => extra["x-log-bodyrawsize"] = body.of
  BY DEF ExtraHeaders
<1> HIDE DEF base, extra
<1>3. /\ DOMAIN headers = DOMAIN base \cup DOMAIN extra
      /\ \A name \in DOMAIN headers :
           headers[name] = IF name \in DOMAIN extra THEN extra[name] ELSE base[name]
      /\ headers = [name \in DOMAIN headers |-> headers[name]]
  BY DEF Set
<1> HIDE DEF headers
<1> QED
  BY <1>1, <1>2, <1>3 DEF headers, base, extra

\* Adding the signature changes no header that it covers.
LEMMA SignatureCoversHeaders ==
  ASSUME NEW headers, "Authorization" \notin DOMAIN headers, NEW signature
  PROVE  LET sent == Authorized(headers, signature)
         IN  /\ DOMAIN sent = DOMAIN headers \cup {"Authorization"}
             /\ sent["Authorization"] = signature
             /\ \A name \in DOMAIN headers : sent[name] = headers[name]
             /\ LogHeaders(sent) = LogHeaders(headers)
<1> DEFINE sent == Authorized(headers, signature)
           Signable == {"x-log-apiversion", "x-log-bodyrawsize", "x-log-signaturemethod",
                        "x-log-compresstype", "x-acs-security-token"}
<1>1. /\ DOMAIN sent = DOMAIN headers \cup {"Authorization"}
      /\ sent["Authorization"] = signature
      /\ \A name \in DOMAIN headers : sent[name] = headers[name]
  BY DEF Authorized, Set
<1> HIDE DEF sent
<1>2. DOMAIN sent \cap Signable = DOMAIN headers \cap Signable
  BY <1>1
<1>3. LogHeaders(sent) = LogHeaders(headers)
  BY <1>1, <1>2 DEF LogHeaders, Restrict
<1> QED
  BY <1>1, <1>3 DEF sent

\* A request signed for the body as it is verifies.
LEMMA SignedVerifies ==
  ASSUME BodyMade, input \in Input, Signed
  PROVE  /\ request.headers["Authorization"] = Expected(request)
         /\ request.body.size > 0 <=> "Content-MD5" \in DOMAIN request.headers
         /\ request.body.size > 0 => request.headers["Content-MD5"] = MD5(request.body)
         /\ request.headers["x-log-bodyrawsize"] = request.body.of
<1>1. PICK date \in Dates : request = SignedRequest(date)
  BY DEF Signed
<1> DEFINE md5     == IF body.size > 0 THEN MD5(body) ELSE [md5 |-> None]
           headers == Set(BaseHeaders(date), ExtraHeaders)
           string  == StringToSign(Method, md5, ContentType, date, headers, Path)
           sent    == Authorized(headers, HMAC("secret", string))
<1>2. /\ request.method = Method /\ request.path = Path
      /\ request.body = body /\ request.headers = sent
  BY <1>1 DEF SignedRequest
<1>3. /\ "Content-MD5" \in DOMAIN headers <=> body.size > 0
      /\ body.size > 0 => headers["Content-MD5"] = MD5(body)
      /\ "Content-Type" \in DOMAIN headers <=> ContentType # None
      /\ ContentType # None => headers["Content-Type"] = ContentType
      /\ "Date" \in DOMAIN headers /\ headers["Date"] = date
      /\ "x-log-bodyrawsize" \in DOMAIN headers
      /\ headers["x-log-bodyrawsize"] = IF input.op = "putLogs" THEN body.of ELSE body.size
      /\ "Authorization" \notin DOMAIN headers
  BY HeaderValues
<1> HIDE DEF headers, string
<1>4. /\ DOMAIN sent = DOMAIN headers \cup {"Authorization"}
      /\ sent["Authorization"] = HMAC("secret", string)
      /\ \A name \in DOMAIN headers : sent[name] = headers[name]
      /\ LogHeaders(sent) = LogHeaders(headers)
  BY <1>3, SignatureCoversHeaders, Zenon
<1> HIDE DEF sent
<1>5. (IF "Content-MD5" \in DOMAIN sent THEN sent["Content-MD5"] ELSE [md5 |-> None]) = md5
  BY <1>3, <1>4
<1>6. Received(request, "Content-Type") = ContentType /\ Received(request, "Date") = date
  BY <1>2, <1>3, <1>4 DEF Received
<1>7. request.headers["Authorization"] = Expected(request)
  BY <1>2, <1>4, <1>5, <1>6 DEF Expected, StringToSign, string
<1>8. sent["x-log-bodyrawsize"] = body.of
  BY <1>3, <1>4 DEF BodyMade
<1> QED
  BY <1>2, <1>3, <1>4, <1>7, <1>8, BodySize

-----------------------------------------------------------------------------
(* The invariant.                                                          *)

LEMMA ClientInit == Init => ClientInv
<1> SUFFICES ASSUME Init PROVE ClientInv
  OBVIOUS
<1>1. input \in Input /\ input.op \in Operation /\ input.raw \in Nat
  BY ClientAssumption DEF Init
<1>2. input.op # "putLogs" => BodyMade
  BY <1>1 DEF Init, BodyMade, NoBody, Operation
<1>3. input.op # "putLogs" => Sendable
  BY DEF Sendable
<1> QED
  BY <1>1, <1>2, <1>3 DEF Init, ClientInv, StageInv, NetworkInv, CodeInv, None

\* A request is made from the call and its body, and from the date.
LEMMA SameRequest ==
  ASSUME UNCHANGED <<config, input, body>>, NEW CONSTANT date
  PROVE  SignedRequest(date)' = SignedRequest(date)
BY DEF SignedRequest, BaseHeaders, BaseNames, Optional, Set, Authorized, ExtraHeaders,
       StringToSign, LogHeaders, Method, Path, ContentType, MD5, HMAC, None

\* What a call was made with does not change, nor what is said of it.
LEMMA SameCall ==
  ASSUME UNCHANGED <<config, input>>
  PROVE  /\ Sendable' = Sendable
         /\ UNCHANGED body => BodyMade' = BodyMade
         /\ UNCHANGED <<body, request>> => Signed' = Signed
<1>1. Sendable' = Sendable
  BY DEF Sendable, Compressible
<1>2. UNCHANGED body => BodyMade' = BodyMade
  BY DEF BodyMade
<1>3. ASSUME UNCHANGED <<body, request>> PROVE Signed' = Signed
  BY <1>3, SameRequest DEF Signed
<1> QED
  BY <1>1, <1>2, <1>3

\* A stage that throws ends the call with the code of its exception.
LEMMA ThrowStep ==
  ASSUME ClientInv, NEW exception, Throw(exception), exception # "runtime_error" \/ Sendable
  PROVE  ClientInv'
<1>1. /\ pc' = "returned" /\ code' \in {"RETRYABLE", "FATAL"} /\ (~Sendable => code' = "FATAL")
      /\ UNCHANGED <<config, input, body, request, network, status>>
  BY DEF Throw, Return, Caught
<1>2. Sendable' = Sendable /\ BodyMade' = BodyMade /\ Signed' = Signed
  BY <1>1, SameCall
<1> QED
  BY <1>1, <1>2 DEF ClientInv, StageInv, NetworkInv, CodeInv

\* Every exception the stages throw is fatal for a group that cannot be sent.
LEMMA Throws ==
  ASSUME ClientInv, EncodeThrows \/ CompressThrows \/ SignThrows \/ SendThrows \/ ReceiveThrows
  PROVE  \E exception : Throw(exception) /\ (exception # "runtime_error" \/ Sendable)
BY DEF EncodeThrows, CompressThrows, SignThrows, SendThrows, ReceiveThrows, ClientInv, StageInv

\* The compressed group is a body, and its raw size is the group's.
LEMMA CompressMakes ==
  ASSUME ClientInv, Compress
  PROVE  BodyMade' /\ Sendable
<1>1. input.op = "putLogs" /\ input.encodable /\ input.raw \in Nat
  BY ClientAssumption DEF ClientInv, StageInv, Compress
<1>2. CompressBound(input.raw) \in Nat \ {0}
  BY <1>1, ClientAssumption DEF Compress, Compressible, CompressBound
<1>3. \E size \in Nat \ {0} : body' = [form |-> "lz4", of |-> input.raw, size |-> size]
  BY <1>2 DEF Compress
<1> QED
  BY <1>1, <1>3 DEF Compress, BodyMade, Sendable

LEMMA ClientStep == ClientInv /\ [Next]_vars => ClientInv'
<1> SUFFICES ASSUME ClientInv, [Next]_vars PROVE ClientInv'
  OBVIOUS
<1> USE DEF ClientInv, StageInv, NetworkInv, CodeInv
<1>1. CASE Encode
  BY <1>1, SameCall DEF Encode
<1>2. CASE Compress
  <2>1. BodyMade' /\ Sendable' = Sendable /\ Sendable
    BY <1>2, CompressMakes, SameCall DEF Compress
  <2> QED
    BY <1>2, <2>1 DEF Compress
<1>3. CASE Sign
  <2>1. PICK date \in Dates : request' = SignedRequest(date)
    BY <1>3 DEF Sign
  <2>2. UNCHANGED <<config, input, body>>
    BY <1>3 DEF Sign
  <2>3. SignedRequest(date)' = SignedRequest(date)
    BY <2>2, SameRequest
  <2>4. Signed'
    BY <2>1, <2>3 DEF Signed
  <2> QED
    BY <1>3, <2>4, SameCall DEF Sign
<1>4. CASE Send
  <2>1. Sendable' = Sendable /\ BodyMade' = BodyMade /\ Signed' = Signed
    BY <1>4, SameCall DEF Send
  <2> QED
    BY <1>4, <2>1 DEF Send
<1>5. CASE Receive
  <2>1. Sendable' = Sendable /\ BodyMade' = BodyMade /\ Signed' = Signed
    BY <1>5, SameCall DEF Receive, Return
  <2>2. code' \in {"OK", "RETRYABLE", "FATAL"} /\ (code' = "OK" => status' \in 200 .. 299)
    BY <1>5 DEF Receive, Return, ResultFromResponse
  <2> QED
    BY <1>5, <2>1, <2>2 DEF Receive, Return
<1>6. CASE EncodeThrows \/ CompressThrows \/ SignThrows \/ SendThrows \/ ReceiveThrows
  BY <1>6, Throws, ThrowStep, Zenon
<1>7. CASE UNCHANGED vars
  BY <1>7, SameCall DEF vars
<1> QED
  BY <1>1, <1>2, <1>3, <1>4, <1>5, <1>6, <1>7 DEF Next

LEMMA ClientInvariant == Spec => []ClientInv
BY ClientInit, ClientStep, PTL DEF Spec

\* A request on the network carries the signature the service computes from the
\* headers, date, digest and resource it received, and the digest and raw size
\* are those of the body that was sent (buildSignedRequest), for every call.
THEOREM ClientRequestVerifies == Spec => []SentRequestVerifies
<1>1. ClientInv => SentRequestVerifies
  BY SignedVerifies DEF ClientInv, NetworkInv, SentRequestVerifies
<1> QED
  BY <1>1, ClientInvariant, PTL

\* OK is a 2xx status of the service in answer to the one request of the call
\* (resultFromResponse), and no exception on the way turns into it.
THEOREM ClientOkMeansStored == Spec => []OkMeansStored
<1>1. ClientInv => OkMeansStored
  BY DEF ClientInv, NetworkInv, CodeInv, OkMeansStored
<1> QED
  BY <1>1, ClientInvariant, PTL

-----------------------------------------------------------------------------
(* The call implements SlsPut.                                             *)

\* A call starts as SlsPut does.
LEMMA PutStarts == Init => Put!Init
<1> SUFFICES ASSUME Init PROVE Put!Init
  OBVIOUS
<1>1. input.op # "putLogs" \/ (input.encodable /\ Compressible) \in BOOLEAN
  OBVIOUS
<1> QED
  BY <1>1 DEF Init, Put!Init, None

\* Until the request is written a call is "called" to SlsPut, then "sent" until it
\* returns, and each step is a step of SlsPut or none.
LEMMA PutSteps == ClientInv /\ [Next]_vars => [Put!Next]_(Put!vars)
<1> SUFFICES ASSUME ClientInv, [Next]_vars PROVE [Put!Next]_(Put!vars)
  OBVIOUS
<1> DEFINE able  == input.op # "putLogs" \/ (input.encodable /\ Compressible)
           phase == IF pc = "returned" THEN "returned"
                    ELSE IF network # {} THEN "sent" ELSE "called"
<1>1. able = Sendable /\ able' = Sendable'
  BY DEF Sendable
<1> HIDE DEF able
<1> USE DEF ClientInv, StageInv, NetworkInv, CodeInv
<1>2. CASE Encode \/ Compress \/ Sign \/ UNCHANGED vars
  <2>1. Sendable' = Sendable
    BY <1>2, SameCall DEF Encode, Compress, Sign, vars
  <2>2. code' = code /\ phase' = phase
    BY <1>2 DEF Encode, Compress, Sign, vars
  <2> QED
    BY <1>1, <2>1, <2>2 DEF Put!vars, able
<1>3. CASE Send
  <2>1. Sendable' = Sendable /\ Sendable
    BY <1>3, SameCall DEF Send
  <2>2. code' = code /\ phase = "called" /\ phase' = "sent"
    BY <1>3 DEF Send
  <2> QED
    BY <1>1, <2>1, <2>2 DEF Put!Next, Put!Send, able
<1>4. CASE Receive
  <2>1. Sendable' = Sendable
    BY <1>4, SameCall DEF Receive, Return
  <2>2. phase = "sent" /\ phase' = "returned" /\ code' \in {"OK", "RETRYABLE", "FATAL"}
    BY <1>4 DEF Receive, Return, ResultFromResponse
  <2> QED
    BY <1>1, <2>1, <2>2 DEF Put!Next, Put!Respond, Put!Return, Put!Code, able
<1>5. CASE EncodeThrows \/ CompressThrows \/ SignThrows \/ SendThrows \/ ReceiveThrows
  <2>1. PICK exception : Throw(exception) /\ (exception # "runtime_error" \/ Sendable)
    BY <1>5, Throws
  <2>2. /\ phase' = "returned" /\ code' \in {"RETRYABLE", "FATAL"}
        /\ ~Sendable => code' = "FATAL"
        /\ Sendable' = Sendable
    BY <2>1, SameCall DEF Throw, Return, Caught
  <2>3. phase \in {"called", "sent"}
    BY <1>5 DEF EncodeThrows, CompressThrows, SignThrows, SendThrows, ReceiveThrows
  <2> QED
    BY <1>1, <2>2, <2>3 DEF Put!Next, Put!Refuse, Put!Respond, Put!Return, Put!Code, able
<1> QED
  BY <1>2, <1>3, <1>4, <1>5 DEF Next

\* Put of the C++ client keeps the promise the flush callback relies on, except that
\* it returns at all, which is a matter of fairness: a group that cannot be sent is
\* refused for good, another is written at most once, and OK is never returned for
\* a group that was not sent.
THEOREM ClientImplementsPut == Spec => Put!Init /\ [][Put!Next]_(Put!vars)
BY PutStarts, PutSteps, ClientInvariant, PTL DEF Spec

-----------------------------------------------------------------------------
(* buildPutLogRequests cuts any sequence of logs into requests that are    *)
(* within both limits and hold every log once and in order, whatever the   *)
(* encoder makes of the logs.                                              *)

USE BatchAssumption

LEMMA BatchTypeInit == BatchInit => TypeOK
<1> SUFFICES ASSUME BatchInit PROVE TypeOK
  OBVIOUS
<1>1. logs \in Seq(Log) /\ options \in [max_logs : Nat, max_bytes : Nat]
  BY DEF BatchInit
<1>2. 1 \in 1 .. Len(logs) + 1
  BY <1>1
<1>3. QED
  BY <1>1, <1>2 DEF BatchInit, TypeOK, Group

LEMMA BatchTypeStep == TypeOK /\ [BatchNext]_bvars => TypeOK'
<1> SUFFICES ASSUME TypeOK, [BatchNext]_bvars PROVE TypeOK'
  OBVIOUS
<1> USE DEF TypeOK, Group, arguments
<1>1. CASE Validate
  BY <1>1 DEF Validate
<1>2. CASE AddLog
  <2>1. UNCHANGED <<logs, options, outcome>> /\ next \in 1 .. Len(logs) /\ next' = next + 1
    BY <1>2 DEF AddLog
  <2>2. Candidate \in Group
    BY <2>1 DEF Candidate
  <2>3. <<next>> \in Group
    BY <2>1
  <2>4. Append(requests, current) \in Seq(Group)
    OBVIOUS
  <2>5. current' \in Group /\ requests' \in Seq(Group)
    BY <1>2, <2>2, <2>3, <2>4 DEF AddLog
  <2>6. QED
    BY <2>1, <2>5
<1>3. CASE AddLogThrows
  BY <1>3 DEF AddLogThrows
<1>4. CASE Finish
  <2>1. UNCHANGED <<logs, options, next>> /\ outcome' = "returned" /\ current' = <<>>
    BY <1>4 DEF Finish
  <2>2. Append(requests, current) \in Seq(Group)
    OBVIOUS
  <2>3. requests' \in Seq(Group)
    BY <1>4, <2>2 DEF Finish
  <2>4. <<>> \in Group
    OBVIOUS
  <2>5. QED
    BY <2>1, <2>3, <2>4
<1>5. CASE UNCHANGED bvars
  BY <1>5 DEF bvars
<1>6. QED
  BY <1>1, <1>2, <1>3, <1>4, <1>5 DEF BatchNext

\* The arguments, the loop's variables and the requests keep their types.
THEOREM BatchTypeCorrect == BatchSpec => []TypeOK
BY BatchTypeInit, BatchTypeStep, PTL DEF BatchSpec

-----------------------------------------------------------------------------
(* The limits.                                                             *)

\* The limits are positive once they were validated, and the group under
\* construction is within them as soon as it has a log.
FitInv ==
  /\ TypeOK
  /\ outcome = "loop" => options.max_logs > 0
  /\ current # <<>> => Fits(current)
  /\ RequestsFit

LEMMA FitStep == FitInv /\ [BatchNext]_bvars => FitInv'
<1> SUFFICES ASSUME FitInv, [BatchNext]_bvars PROVE FitInv'
  OBVIOUS
<1>1. TypeOK'
  BY BatchTypeStep DEF FitInv
<1>2. CASE Validate
  BY <1>1, <1>2 DEF Validate, FitInv, TypeOK, arguments, RequestsFit, Fits, Oversize, Size
<1>3. CASE AddLog
  <2>1. UNCHANGED <<logs, options, outcome>> /\ outcome = "loop" /\ next \in 1 .. Len(logs)
    BY <1>3 DEF AddLog, arguments, FitInv, TypeOK
  <2>2. \A g : Fits(g)' <=> Fits(g)
    BY <2>1 DEF Fits, Oversize, Size
  <2>3. current \in Seq(1 .. Len(logs)) /\ options.max_logs \in Nat /\ options.max_logs > 0
    BY <2>1 DEF FitInv, TypeOK, Group
  <2>4. Fits(<<next>>)
    BY <2>3 DEF Fits
  <2>5. CASE too_many_logs \/ too_many_bytes
    <3>1. requests' = Append(requests, current) /\ current' = <<next>>
      BY <1>3, <2>5 DEF AddLog
    <3>2. current # <<>>
      BY <2>3, <2>5 DEF too_many_logs, too_many_bytes, Measured, Candidate
    <3>3. requests \in Seq(Seq(1 .. Len(logs)))
      BY DEF FitInv, TypeOK, Group
    <3>4. \A r \in DOMAIN requests' : Fits(requests'[r])
      BY <3>1, <3>2, <3>3, <2>3 DEF FitInv, RequestsFit
    <3>5. QED
      BY <1>1, <2>1, <2>2, <2>4, <3>1, <3>4 DEF FitInv, RequestsFit
  <2>6. CASE ~too_many_logs /\ ~too_many_bytes
    <3>1. current' = Candidate /\ requests' = requests
      BY <1>3, <2>6 DEF AddLog
    <3>2. Len(Candidate) = Len(current) + 1
      BY <2>3 DEF Candidate
    <3>3. Len(Candidate) > 1 => Measured
      BY <2>3, <3>2 DEF Measured
    <3>4. Fits(Candidate)
      BY <2>3, <2>6, <3>2, <3>3 DEF Fits, too_many_logs, too_many_bytes
    <3>5. QED
      BY <1>1, <2>1, <2>2, <3>1, <3>4 DEF FitInv, RequestsFit
  <2>7. QED
    BY <2>5, <2>6
<1>4. CASE AddLogThrows
  BY <1>1, <1>4 DEF AddLogThrows, FitInv, arguments, RequestsFit, Fits, Oversize, Size
<1>5. CASE Finish
  <2>1. UNCHANGED <<logs, options>> /\ outcome' = "returned" /\ current' = <<>>
    BY <1>5 DEF Finish, arguments
  <2>2. \A g : Fits(g)' <=> Fits(g)
    BY <2>1 DEF Fits, Oversize, Size
  <2>3. current \in Seq(1 .. Len(logs)) /\ requests \in Seq(Seq(1 .. Len(logs)))
    BY DEF FitInv, TypeOK, Group
  <2>4. \A r \in DOMAIN requests' : Fits(requests'[r])
    BY <1>5, <2>3 DEF Finish, FitInv, RequestsFit
  <2>5. QED
    BY <1>1, <2>1, <2>2, <2>4 DEF FitInv, RequestsFit
<1>6. CASE UNCHANGED bvars
  BY <1>1, <1>6 DEF bvars, arguments, FitInv, RequestsFit, Fits, Oversize, Size
<1>7. QED
  BY <1>2, <1>3, <1>4, <1>5, <1>6 DEF BatchNext

\* No request is empty, none has more logs than max_logs_per_batch, and only a
\* request of a single log can be larger than max_raw_bytes_per_batch.
THEOREM BatchLimits == BatchSpec => []RequestsFit
<1>1. BatchInit => FitInv
  BY BatchTypeInit DEF BatchInit, FitInv, RequestsFit
<1>2. FitInv => RequestsFit
  BY DEF FitInv
<1>3. QED
  BY <1>1, <1>2, FitStep, PTL DEF BatchSpec

-----------------------------------------------------------------------------
(* The partition. The requests and the group under construction are        *)
(* contiguous: each begins where the one before it ends.                   *)

\* The position of the first log that no finished request holds.
Rest == IF current = <<>> THEN next ELSE current[1]

\* Each of the groups q begins where the one before ends, the first with the
\* first log, and the last ends before position `end`.
ChainTo(q, end) ==
  /\ \A r \in DOMAIN q : q[r][1] + Len(q[r]) = IF r < Len(q) THEN q[r + 1][1] ELSE end
  /\ q # <<>> => q[1][1] = 1
  /\ q = <<>> => end = 1

Chained ==
  /\ \A r \in DOMAIN requests : requests[r] # <<>> /\ Consecutive(requests[r])
  /\ ChainTo(requests, Rest)

PartInv ==
  /\ FitInv
  /\ current # <<>> => Consecutive(current) /\ current[1] + Len(current) = next
  /\ Chained
  /\ outcome \in {"validate", "loop"} /\ current = <<>> => next = 1
  /\ outcome = "returned" => current = <<>> /\ next = Len(logs) + 1
  /\ next > 2 => \A n \in 1 .. next - 1 : Encodable(logs[n])

\* A group that begins where the chain ends can be closed.
LEMMA ChainGrows ==
  ASSUME NEW q \in Seq(Seq(Nat)), NEW g \in Seq(Nat), g # <<>>, ChainTo(q, g[1])
  PROVE  ChainTo(Append(q, g), g[1] + Len(g))
<1> DEFINE S == Append(q, g)
<1>1. Len(S) = Len(q) + 1 /\ S[Len(q) + 1] = g /\ DOMAIN S = 1 .. Len(q) + 1
  OBVIOUS
<1>2. \A r \in 1 .. Len(q) : S[r] = q[r]
  OBVIOUS
<1> HIDE DEF S
<1>3. ASSUME NEW r \in 1 .. Len(q)
      PROVE  S[r][1] + Len(S[r]) = S[r + 1][1]
  <2>1. CASE r < Len(q)
    <3>1. r + 1 \in 1 .. Len(q) /\ r \in DOMAIN q
      BY <2>1
    <3>2. S[r + 1] = q[r + 1] /\ S[r] = q[r]
      BY <1>2, <3>1
    <3>3. q[r][1] + Len(q[r]) = q[r + 1][1]
      BY <2>1, <3>1 DEF ChainTo
    <3>4. QED
      BY <3>2, <3>3
  <2>2. CASE r = Len(q)
    <3>1. S[r + 1] = g /\ S[r] = q[r] /\ r \in DOMAIN q /\ ~(r < Len(q))
      BY <1>1, <1>2, <2>2
    <3>2. q[r][1] + Len(q[r]) = g[1]
      BY <3>1 DEF ChainTo
    <3>3. QED
      BY <3>1, <3>2
  <2>3. QED
    BY <2>1, <2>2
<1>4. S[1][1] = 1
  <2>1. CASE q = <<>>
    BY <1>1, <2>1 DEF ChainTo
  <2>2. CASE q # <<>>
    <3>1. 1 \in 1 .. Len(q)
      BY <2>2, EmptySeq
    <3>2. QED
      BY <1>2, <2>2, <3>1 DEF ChainTo
  <2>3. QED
    BY <2>1, <2>2
<1>5. ASSUME NEW r \in DOMAIN S
      PROVE  S[r][1] + Len(S[r]) = IF r < Len(S) THEN S[r + 1][1] ELSE g[1] + Len(g)
  <2>1. CASE r \in 1 .. Len(q)
    <3>1. r < Len(S)
      BY <1>1, <2>1
    <3>2. QED
      BY <1>3, <2>1, <3>1
  <2>2. CASE r = Len(q) + 1
    <3>1. ~(r < Len(S)) /\ S[r] = g
      BY <1>1, <2>2
    <3>2. QED
      BY <3>1
  <2>3. r \in 1 .. Len(q) \/ r = Len(q) + 1
    BY <1>1
  <2>4. QED
    BY <2>1, <2>2, <2>3
<1>6. S # <<>>
  BY <1>1
<1>7. ChainTo(S, g[1] + Len(g))
  BY <1>4, <1>5, <1>6 DEF ChainTo
<1>8. QED
  BY <1>7 DEF S

LEMMA PartStep == PartInv /\ [BatchNext]_bvars => PartInv'
<1> SUFFICES ASSUME PartInv, [BatchNext]_bvars PROVE PartInv'
  OBVIOUS
<1>1. FitInv' /\ TypeOK'
  BY FitStep DEF PartInv, FitInv
<1>2. /\ current \in Seq(1 .. Len(logs)) /\ requests \in Seq(Seq(1 .. Len(logs)))
      /\ next \in 1 .. Len(logs) + 1 /\ logs \in Seq(Log)
  BY DEF PartInv, FitInv, TypeOK, Group
<1>3. CASE Validate
  BY <1>1, <1>3 DEF Validate, PartInv, arguments, Chained, Rest, ChainTo
<1>4. CASE AddLog
  <2>1. UNCHANGED <<logs, outcome>> /\ outcome = "loop" /\ next \in 1 .. Len(logs)
        /\ next' = next + 1
    BY <1>4, <1>2 DEF AddLog, arguments
  <2>2. current = <<>> => next = 1
    BY <2>1 DEF PartInv
  <2>3. \A n \in 1 .. next : next > 1 => Encodable(logs[n])
    <3>1. SUFFICES ASSUME NEW n \in 1 .. next, next > 1 PROVE Encodable(logs[n])
      OBVIOUS
    <3>2. current # <<>> /\ current[1] + Len(current) = next /\ Len(current) > 0
      BY <2>2, <3>1, <1>2 DEF PartInv
    <3>3. \A i \in DOMAIN Candidate : Encodable(logs[Candidate[i]])
      BY <1>4, <3>2 DEF AddLog, MeasureThrows, Measured
    <3>4. CASE n = next
      <4>1. /\ Len(current) + 1 \in DOMAIN Candidate
            /\ Candidate[Len(current) + 1] = next
        BY <1>2 DEF Candidate
      <4>2. QED
        BY <3>3, <3>4, <4>1
    <3>5. CASE n < next /\ next > 2
      <4>1. n \in 1 .. next - 1
        BY <3>5, <1>2
      <4>2. QED
        BY <3>5, <4>1 DEF PartInv
    <3>6. CASE n < next /\ next = 2
      <4>1. current[1] = 1 /\ n = 1
        BY <3>2, <3>6, <1>2
      <4>2. 1 \in DOMAIN Candidate /\ Candidate[1] = 1
        BY <4>1, <3>2, <1>2 DEF Candidate
      <4>3. QED
        BY <3>3, <4>1, <4>2
    <3>7. QED
      BY <3>1, <3>4, <3>5, <3>6, <2>1
  <2>4. CASE too_many_logs \/ too_many_bytes
    <3>1. requests' = Append(requests, current) /\ current' = <<next>>
      BY <1>4, <2>4 DEF AddLog
    <3>2. current # <<>>
      BY <1>2, <2>1, <2>4
         DEF PartInv, FitInv, TypeOK, too_many_logs, too_many_bytes, Measured, Candidate
    <3>3. Consecutive(current) /\ current[1] + Len(current) = next
      BY <3>2 DEF PartInv
    <3>4. Rest = current[1] /\ Rest' = next
      BY <3>1, <3>2 DEF Rest
    <3>5. ChainTo(requests', current[1] + Len(current))
      <4>1. requests \in Seq(Seq(Nat)) /\ current \in Seq(Nat)
        BY <1>2
      <4>2. ChainTo(requests, current[1])
        BY <3>4 DEF PartInv, Chained
      <4>3. QED
        BY ChainGrows, <3>1, <3>2, <4>1, <4>2
    <3>6. \A r \in DOMAIN requests' : requests'[r] # <<>> /\ Consecutive(requests'[r])
      BY <1>2, <3>1, <3>2, <3>3 DEF PartInv, Chained
    <3>7. Chained'
      BY <3>3, <3>4, <3>5, <3>6 DEF Chained, Consecutive
    <3>8. Consecutive(<<next>>) /\ current'[1] + Len(current') = next' /\ current' # <<>>
      BY <2>1, <3>1 DEF Consecutive
    <3>9. QED
      BY <1>1, <2>1, <2>3, <3>1, <3>7, <3>8 DEF PartInv, Consecutive
  <2>5. CASE ~too_many_logs /\ ~too_many_bytes
    <3>1. current' = Append(current, next) /\ requests' = requests
      BY <1>4, <2>5 DEF AddLog, Candidate
    <3>2. current' # <<>> /\ Consecutive(current') /\ current'[1] + Len(current') = next'
      <4>1. CASE current = <<>>
        BY <3>1, <4>1, <2>1 DEF Consecutive
      <4>2. CASE current # <<>>
        <5>1. Consecutive(current) /\ current[1] + Len(current) = next
          BY <4>2 DEF PartInv
        <5>2. /\ Len(current') = Len(current) + 1 /\ current'[Len(current) + 1] = next
              /\ \A i \in 1 .. Len(current) : current'[i] = current[i]
              /\ DOMAIN current' = 1 .. Len(current) + 1 /\ Len(current) > 0
          BY <3>1, <4>2, <1>2
        <5>3. current[1] \in Nat
          BY <4>2, <1>2
        <5>4. \A i \in DOMAIN current' : current'[i] = current'[1] + i - 1
          <6>1. current'[1] = current[1] /\ next = current[1] + Len(current)
            BY <5>1, <5>2
          <6>2. \A i \in 1 .. Len(current) : current'[i] = current'[1] + i - 1
            BY <5>1, <5>2, <6>1 DEF Consecutive
          <6>3. current'[Len(current) + 1] = current'[1] + (Len(current) + 1) - 1
            BY <5>2, <5>3, <6>1, <1>2
          <6>4. QED
            BY <5>2, <6>2, <6>3, <1>2, SMTT(30)
        <5>5. current'[1] + Len(current') = next'
          <6>1. current'[1] = current[1] /\ Len(current) \in Nat
            BY <5>2, <1>2
          <6>2. QED
            BY <5>1, <5>2, <5>3, <6>1, <2>1
        <5>6. QED
          BY <5>2, <5>4, <5>5 DEF Consecutive
      <4>3. QED
        BY <4>1, <4>2
    <3>3. Rest' = Rest
      BY <3>1, <3>2, <1>2, <2>1 DEF Rest
    <3>4. Chained'
      BY <3>1, <3>3 DEF PartInv, Chained, ChainTo, Consecutive
    <3>5. QED
      BY <1>1, <2>1, <2>3, <3>2, <3>4 DEF PartInv, Consecutive
  <2>6. QED
    BY <2>4, <2>5
<1>5. CASE AddLogThrows
  BY <1>1, <1>5 DEF AddLogThrows, PartInv, arguments, Chained, Rest, ChainTo
<1>6. CASE Finish
  <2>1. UNCHANGED <<logs, next>> /\ outcome = "loop" /\ outcome' = "returned"
        /\ current' = <<>> /\ next = Len(logs) + 1
    BY <1>6, <1>2 DEF Finish, arguments
  <2>2. Rest' = next
    BY <2>1 DEF Rest
  <2>3. CASE current = <<>>
    BY <1>1, <1>6, <2>1, <2>2, <2>3 DEF Finish, PartInv, Chained, ChainTo, Rest, Consecutive
  <2>4. CASE current # <<>>
    <3>1. requests' = Append(requests, current)
      BY <1>6, <2>4 DEF Finish
    <3>2. Consecutive(current) /\ current[1] + Len(current) = next /\ Rest = current[1]
      BY <2>4 DEF PartInv, Rest
    <3>3. ChainTo(requests', current[1] + Len(current))
      <4>1. requests \in Seq(Seq(Nat)) /\ current \in Seq(Nat)
        BY <1>2
      <4>2. ChainTo(requests, current[1])
        BY <3>2 DEF PartInv, Chained
      <4>3. QED
        BY ChainGrows, <3>1, <2>4, <4>1, <4>2
    <3>4. \A r \in DOMAIN requests' : requests'[r] # <<>> /\ Consecutive(requests'[r])
      BY <1>2, <3>1, <3>2, <2>4 DEF PartInv, Chained
    <3>5. Chained'
      BY <2>2, <3>2, <3>3, <3>4 DEF Chained, Consecutive
    <3>6. QED
      BY <1>1, <2>1, <3>5 DEF PartInv
  <2>5. QED
    BY <2>3, <2>4
<1>7. CASE UNCHANGED bvars
  BY <1>1, <1>7 DEF bvars, arguments, PartInv, Chained, Rest, ChainTo, Consecutive
<1>8. QED
  BY <1>3, <1>4, <1>5, <1>6, <1>7 DEF BatchNext

LEMMA PartInit == BatchInit => PartInv
BY BatchTypeInit DEF BatchInit, PartInv, FitInv, RequestsFit, Chained, Rest, ChainTo

\* The requests returned hold every log exactly once and in order.
THEOREM BatchPartitions == BatchSpec => []LogsPartitioned
<1>1. PartInv => LogsPartitioned
  <2> SUFFICES ASSUME PartInv, outcome = "returned" PROVE LogsPartitioned
    BY DEF LogsPartitioned
  <2>1. Rest = Len(logs) + 1 /\ logs \in Seq(Log)
    BY DEF PartInv, Rest, FitInv, TypeOK
  <2>2. QED
    BY <2>1 DEF PartInv, Chained, ChainTo, First, LogsPartitioned
<1>2. QED
  BY <1>1, PartInit, PartStep, PTL DEF BatchSpec

\* A log the encoder rejects never passes unnoticed among others.
THEOREM BatchReportsUnencodable == BatchSpec => []UnencodableThrows
<1>1. PartInv => UnencodableThrows
  BY DEF PartInv, FitInv, TypeOK, UnencodableThrows
<1>2. QED
  BY <1>1, PartInit, PartStep, PTL DEF BatchSpec

\* What buildPutLogRequests returns holds every log once and in order, and none among
\* others that the encoder rejects.
THEOREM BatchComplete == BatchSpec => []RequestsComplete
<1>1. LogsPartitioned /\ UnencodableThrows => RequestsComplete
  BY DEF RequestsComplete
<1>2. QED
  BY <1>1, BatchPartitions, BatchReportsUnencodable, PTL

-----------------------------------------------------------------------------
(* The requests are full.                                                  *)

\* One more log would take the group over a limit, if there is one.
Filled(g) ==
  LET following == g[1] + Len(g)
      more      == Append(g, following)
  IN  following > Len(logs) \/ Len(more) > options.max_logs \/ Oversize(more)

FillInv == \A r \in DOMAIN requests : Filled(requests[r])

\* A step that closes a full group, or none, keeps the requests full.
LEMMA FillGrows ==
  ASSUME TypeOK, FillInv, UNCHANGED <<logs, options>>,
         \/ requests' = requests
         \/ requests' = Append(requests, current) /\ Filled(current)
  PROVE  FillInv'
<1>1. \A g : Filled(g)' <=> Filled(g)
  BY DEF Filled, Oversize, Size
<1>2. requests \in Seq(Group) /\ current \in Group
  BY DEF TypeOK
<1>3. \A r \in DOMAIN requests' : Filled(requests'[r])
  <2>1. CASE requests' = requests
    BY <2>1 DEF FillInv
  <2>2. CASE requests' = Append(requests, current) /\ Filled(current)
    <3>1. \A r \in DOMAIN requests' :
            \/ r \in DOMAIN requests /\ requests'[r] = requests[r]
            \/ requests'[r] = current
      BY <1>2, <2>2
    <3> QED
      BY <2>2, <3>1 DEF FillInv
  <2> QED
    BY <2>1, <2>2
<1> QED
  BY <1>1, <1>3 DEF FillInv

LEMMA FillStep == PartInv /\ FillInv /\ [BatchNext]_bvars => FillInv'
<1> SUFFICES ASSUME PartInv, FillInv, [BatchNext]_bvars PROVE FillInv'
  OBVIOUS
<1>1. /\ TypeOK /\ current \in Seq(1 .. Len(logs)) /\ logs \in Seq(Log)
      /\ next \in 1 .. Len(logs) + 1
  BY DEF PartInv, FitInv, TypeOK, Group
<1>2. CASE AddLog
  <2>1. UNCHANGED <<logs, options>> /\ outcome = "loop"
    BY <1>2 DEF AddLog, arguments
  <2>2. CASE too_many_logs \/ too_many_bytes
    <3>1. requests' = Append(requests, current)
      BY <1>2, <2>2 DEF AddLog
    <3>2. current # <<>>
      BY <1>1, <2>1, <2>2
         DEF PartInv, FitInv, TypeOK, too_many_logs, too_many_bytes, Measured, Candidate
    <3>3. Candidate = Append(current, current[1] + Len(current))
      BY <3>2 DEF PartInv, Candidate
    <3>4. Filled(current)
      BY <2>2, <3>3 DEF Filled, too_many_logs, too_many_bytes
    <3> QED
      BY <1>1, <2>1, <3>1, <3>4, FillGrows
  <2>3. CASE ~too_many_logs /\ ~too_many_bytes
    <3>1. requests' = requests
      BY <1>2, <2>3 DEF AddLog
    <3> QED
      BY <1>1, <2>1, <3>1, FillGrows
  <2> QED
    BY <2>2, <2>3
<1>3. CASE Finish
  <2>1. UNCHANGED <<logs, options>> /\ next > Len(logs)
    BY <1>3 DEF Finish, arguments
  <2>2. CASE current = <<>>
    BY <1>1, <1>3, <2>1, <2>2, FillGrows DEF Finish
  <2>3. CASE current # <<>>
    <3>1. requests' = Append(requests, current)
      BY <1>3, <2>3 DEF Finish
    <3>2. current[1] + Len(current) > Len(logs)
      BY <2>1, <2>3 DEF PartInv
    <3>3. Filled(current)
      BY <3>2 DEF Filled
    <3> QED
      BY <1>1, <2>1, <3>1, <3>3, FillGrows
  <2> QED
    BY <2>2, <2>3
<1>4. CASE Validate \/ AddLogThrows \/ UNCHANGED bvars
  <2>1. UNCHANGED <<logs, options, requests>>
    BY <1>4 DEF Validate, AddLogThrows, bvars, arguments
  <2> QED
    BY <1>1, <2>1, FillGrows
<1> QED
  BY <1>2, <1>3, <1>4 DEF BatchNext

\* No request is closed before it must be: with the log that follows it, it would be
\* over max_logs_per_batch or over max_raw_bytes_per_batch.
THEOREM BatchFillsRequests == BatchSpec => []RequestsFill
<1>1. BatchInit => PartInv /\ FillInv
  BY PartInit DEF BatchInit, FillInv
<1>2. PartInv /\ FillInv /\ [BatchNext]_bvars => (PartInv /\ FillInv)'
  BY PartStep, FillStep
<1>3. FillInv => RequestsFill
  BY DEF FillInv, Filled, RequestsFill, First
<1> QED
  BY <1>1, <1>2, <1>3, PTL DEF BatchSpec

=============================================================================
