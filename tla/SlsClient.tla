------------------------------ MODULE SlsClient ------------------------------
(***************************************************************************)
(* One call of the C++ client (sls_client.cpp): PutLogs and the four       *)
(* project and logstore operations. A call encodes, compresses, signs and  *)
(* sends a request and maps the answer, or the exception a stage throws, to *)
(* a result. PutLogs is reached through the C API, which turns whatever    *)
(* escapes into FATAL. Calls share nothing but the configuration.          *)
(*                                                                         *)
(* Values are symbolic: a digest is the body it was computed from, a       *)
(* signature the string that was signed, a body its form and sizes.        *)
(***************************************************************************)
EXTENDS Integers, Functions

CONSTANTS
  Config,      \* the client configurations: [token, hash_key_mode]
  Input,       \* the calls: [op, raw, encodable, hash_key]
  Status,      \* HTTP status codes the service answers with
  Dates,       \* readings of the clock
  IntMax,      \* numeric_limits<int>::max()
  Lz4MaxInput  \* LZ4_MAX_INPUT_SIZE

Operation == {"putLogs", "createProject", "deleteProject", "createLogStore", "deleteLogStore"}

ASSUME ClientAssumption ==
  /\ Config \subseteq [token : BOOLEAN, hash_key_mode : BOOLEAN]
  /\ Input \subseteq [op : Operation, raw : Nat, encodable : BOOLEAN, hash_key : BOOLEAN]
  /\ Status \subseteq Nat
  /\ Lz4MaxInput \in Nat /\ IntMax \in Nat

VARIABLES
  config, input,  \* what the call is made with
  pc,             \* the stage the call has reached
  body,           \* the request body
  request,        \* the signed request, None before it is built
  network,        \* the requests written to the network
  status,         \* the status of the answer, 0 before
  code            \* the result's code

vars == <<config, input, pc, body, request, network, status, code>>

None == "none"
NoBody == [form |-> "none", of |-> 0, size |-> 0]

Init ==
  /\ config \in Config
  /\ input \in Input
  /\ pc = IF input.op = "putLogs" THEN "encode" ELSE "sign"
  /\ body = IF input.op \in {"createProject", "createLogStore"}
            THEN [form |-> "json", of |-> input.raw, size |-> input.raw]
            ELSE NoBody
  /\ request = [method |-> None]
  /\ network = {}
  /\ status = 0
  /\ code = None

-----------------------------------------------------------------------------
(* The request and its signature.                                          *)

Method == IF input.op \in {"deleteProject", "deleteLogStore"} THEN "DELETE" ELSE "POST"

Path ==
  CASE input.op = "putLogs" ->
         IF config.hash_key_mode \/ input.hash_key
         THEN <<"logstores", "logstore", "shards", "route?key=">>
         ELSE <<"logstores", "logstore", "shards", "lb">>
    [] input.op \in {"createProject", "deleteProject"} -> <<>>
    [] input.op = "createLogStore" -> <<"logstores">>
    [] input.op = "deleteLogStore" -> <<"logstores", "logstore">>

ContentType ==
  CASE input.op = "putLogs" -> "application/x-protobuf"
    [] input.op \in {"createProject", "createLogStore"} -> "application/json"
    [] OTHER -> None

ExtraHeaders ==
  IF input.op = "putLogs"
  THEN [name \in {"x-log-bodyrawsize", "x-log-compresstype"} |->
          IF name = "x-log-bodyrawsize" THEN body.of ELSE "lz4"]
  ELSE [name \in {} |-> None]

MD5(b) == [md5 |-> b]
HMAC(key, string) == [hmac |-> string, key |-> key]

\* A header that is left out when it has no value.
Optional(name, present) == IF present THEN {name} ELSE {}

\* Headers are set by name: what was set before under a name is overwritten.
Set(headers, more) ==
  [name \in DOMAIN headers \cup DOMAIN more |->
     IF name \in DOMAIN more THEN more[name] ELSE headers[name]]

Authorized(headers, signature) == Set(headers, [name \in {"Authorization"} |-> signature])

\* canonicalizedLogHeaders: the headers whose name starts with x-log- or x-acs-.
LogHeaders(headers) ==
  Restrict(headers, DOMAIN headers \cap
    {"x-log-apiversion", "x-log-bodyrawsize", "x-log-signaturemethod", "x-log-compresstype",
     "x-acs-security-token"})

StringToSign(method, md5, type, date, headers, resource) ==
  [method |-> method, md5 |-> md5, type |-> type, date |-> date,
   headers |-> LogHeaders(headers), resource |-> resource]

BaseNames ==
  {"Date", "x-log-apiversion", "x-log-bodyrawsize", "x-log-signaturemethod"}
  \cup Optional("Content-MD5", body.size > 0)
  \cup Optional("Content-Type", ContentType # None)
  \cup Optional("x-acs-security-token", config.token)

BaseHeaders(date) ==
  [name \in BaseNames |->
     CASE name = "Content-MD5"           -> MD5(body)
       [] name = "Content-Type"          -> ContentType
       [] name = "Date"                  -> date
       [] name = "x-log-apiversion"      -> "0.6.0"
       [] name = "x-log-bodyrawsize"     -> body.size
       [] name = "x-log-signaturemethod" -> "hmac-sha1"
       [] name = "x-acs-security-token"  -> "token"]

\* Mutant of SignedRequest: signed before the caller's headers are added.
SignedTooEarly(date) ==
  LET md5     == IF body.size > 0 THEN MD5(body) ELSE [md5 |-> None]
      headers == BaseHeaders(date)
      string  == StringToSign(Method, md5, ContentType, date, headers, Path)
  IN  [method |-> Method, path |-> Path, body |-> body,
       headers |-> Authorized(Set(headers, ExtraHeaders), HMAC("secret", string))]

\* buildSignedRequest
SignedRequest(date) ==
  LET md5     == IF body.size > 0 THEN MD5(body) ELSE [md5 |-> None]
      headers == Set(BaseHeaders(date), ExtraHeaders)
      string  == StringToSign(Method, md5, ContentType, date, headers, Path)
  IN  [method |-> Method, path |-> Path, body |-> body,
       headers |-> Authorized(headers, HMAC("secret", string))]

-----------------------------------------------------------------------------
(* The stages of a call.                                                   *)

Return(result) ==
  /\ pc' = "returned"
  /\ code' = result
  /\ UNCHANGED <<config, input>>

\* Mutant of Caught: every exception is worth a retry.
CaughtAll(exception) == "RETRYABLE"

\* The handlers around every operation: std::runtime_error is retryable, any
\* other exception is fatal.
Caught(exception) == IF exception = "runtime_error" THEN "RETRYABLE" ELSE "FATAL"

Throw(exception) == Return(Caught(exception)) /\ UNCHANGED <<body, request, network, status>>

\* The C API copies the group; protobuf::encodeLogGroup rejects an empty group,
\* an empty log or an empty key with std::invalid_argument.
Encode ==
  /\ pc = "encode"
  /\ input.encodable
  /\ pc' = "compress"
  /\ UNCHANGED <<config, input, body, request, network, status, code>>

EncodeThrows ==
  /\ pc = "encode"
  /\ \/ ~input.encodable /\ Throw("invalid_argument")
     \/ Throw("bad_alloc")

CompressBound(size) == IF size > Lz4MaxInput THEN 0 ELSE size + (size \div 255) + 16

Compressible == input.raw <= IntMax /\ CompressBound(input.raw) > 0

\* compress::encodeLz4; the output is never empty.
Compress ==
  /\ pc = "compress"
  /\ Compressible
  /\ \E size \in {1, CompressBound(input.raw)} :
       body' = [form |-> "lz4", of |-> input.raw, size |-> size]
  /\ pc' = "sign"
  /\ UNCHANGED <<config, input, request, network, status, code>>

CompressThrows ==
  /\ pc = "compress"
  /\ \/ ~Compressible /\ Throw("logic_error")
     \/ Throw("bad_alloc")

Sign ==
  /\ pc = "sign"
  /\ \E date \in Dates : request' = SignedRequest(date)
  /\ pc' = "send"
  /\ UNCHANGED <<config, input, body, network, status, code>>

\* rfc1123Now or hmacSha1Base64 fails, or an allocation.
SignThrows ==
  /\ pc = "sign"
  /\ Throw("runtime_error") \/ Throw("bad_alloc")

\* The transport writes the request.
Send ==
  /\ pc = "send"
  /\ network' = network \cup {request}
  /\ pc' = "wait"
  /\ UNCHANGED <<config, input, body, request, status, code>>

\* There is no connection, or no HTTP client: the callback returns -1 and the
\* bridge throws std::runtime_error. The bridge may also run out of memory.
SendThrows ==
  /\ pc = "send"
  /\ Throw("runtime_error") \/ Throw("bad_alloc")

isRetryableStatus(s) == s \in {408, 429, 500, 502, 503, 504}

\* Mutant of ResultFromResponse: whatever is not an error is a success.
ResultIfBelow400(s) == IF s < 400 THEN "OK" ELSE IF isRetryableStatus(s) THEN "RETRYABLE" ELSE "FATAL"

\* resultFromResponse
ResultFromResponse(s) ==
  IF s \in 200 .. 299 THEN "OK" ELSE IF isRetryableStatus(s) THEN "RETRYABLE" ELSE "FATAL"

Receive ==
  /\ pc = "wait"
  /\ \E s \in Status :
       /\ status' = s
       /\ Return(ResultFromResponse(s))
  /\ UNCHANGED <<body, request, network>>

\* The connection breaks or times out after the request went out, or there is
\* no memory left for the response.
ReceiveThrows ==
  /\ pc = "wait"
  /\ Throw("runtime_error") \/ Throw("bad_alloc")

Next ==
  \/ Encode \/ EncodeThrows
  \/ Compress \/ CompressThrows
  \/ Sign \/ SignThrows
  \/ Send \/ SendThrows
  \/ Receive \/ ReceiveThrows

Spec == Init /\ [][Next]_vars

\* No stage waits for anything but the network, whose wait the transport's
\* timeouts end.
FairSpec == Spec /\ WF_vars(Next)

-----------------------------------------------------------------------------

\* What the service computes from a request it has received, before it believes
\* the signature in it.
Received(req, name) == IF name \in DOMAIN req.headers THEN req.headers[name] ELSE None

Expected(req) ==
  HMAC("secret",
       StringToSign(req.method,
                    IF "Content-MD5" \in DOMAIN req.headers
                    THEN req.headers["Content-MD5"] ELSE [md5 |-> None],
                    Received(req, "Content-Type"), Received(req, "Date"),
                    req.headers, req.path))

\* A request on the network verifies: its signature covers the headers, the date
\* and the resource as they are sent, its digest is that of the body as it is
\* sent (compressed), and its bodyrawsize is the size after decompression.
SentRequestVerifies ==
  \A req \in network :
    /\ req.headers["Authorization"] = Expected(req)
    /\ req.body.size > 0 <=> "Content-MD5" \in DOMAIN req.headers
    /\ req.body.size > 0 => req.headers["Content-MD5"] = MD5(req.body)
    /\ req.headers["x-log-bodyrawsize"] = req.body.of

\* The call keeps the promise of SlsPut.
Put == INSTANCE SlsPut WITH
  sendable <- input.op # "putLogs" \/ (input.encodable /\ Compressible),
  phase    <- IF pc = "returned" THEN "returned" ELSE IF network # {} THEN "sent" ELSE "called"

KeepsPutPromise == Put!Spec

\* OK is the service's answer to this request, and nothing else: not a redirect,
\* not an answer that was never received.
OkMeansStored == code = "OK" => network = {request} /\ status \in 200 .. 299

\* The guide's "408/429/5xx -> FLB_RETRY", in its table of what a flush returns: a batch
\* that is answered by a 5xx is worth another try.
ServerErrorsRetried ==
  input.op = "putLogs" /\ pc = "returned" /\ status \in 500 .. 599 => code = "RETRYABLE"

=============================================================================
