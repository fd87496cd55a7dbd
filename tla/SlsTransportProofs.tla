------------------------- MODULE SlsTransportProofs -------------------------
(***************************************************************************)
(* Proofs about SlsTransport, for any number of calls, any connection      *)
(* limit, any answers and any number of failed allocations. A call is      *)
(* never touched by another one, except that both take from the upstream:  *)
(* so the inductive invariant is an invariant of one call, for every call, *)
(* and the bound on connections.                                           *)
(***************************************************************************)
EXTENDS SlsTransport, SlsLemmas

Arrays == {<<"body">>, <<"keys">>, <<"values">>}

\* The types of a call; nothing is said of what it has open or of its buffers.
Typed(d) ==
  d \in [pc : {"called", "connected", "ready", "sent", "copied", "returned"},
         holds : {d.holds}, blocks : {d.blocks}, count : {d.count}, answer : {d.answer},
         request_id : {d.request_id}, code : {"none", "OK", "RETRYABLE", "FATAL"},
         whole : BOOLEAN, oom : BOOLEAN]

Early(d) == d.pc \in {"called", "connected", "ready", "sent"}

\* What the callback has open.
HoldsWhatItNeeds(d) ==
  d.holds = CASE d.pc = "connected"         -> {"conn"}
              [] d.pc \in {"ready", "sent"} -> {"conn", "hc"}
              [] OTHER                      -> {}

\* The buffers: none before the answer, all within the reach of the cleanup while
\* the bridge has them, none after it.
BuffersInReach(d) ==
  /\ Early(d) \/ d.code \in {"OK", "RETRYABLE"} => d.blocks = {}
  /\ d.pc = "copied" => d.blocks \subseteq Arrays \cup Strings(d.count)
  /\ d.count > 0 => {<<"keys">>, <<"values">>} \subseteq d.blocks

\* The code follows from the answer, or from a failed allocation.
CodeFollows(d) ==
  /\ Early(d) => d.answer = NoAnswer
  /\ d.pc = "copied" => d.answer \in Answer /\ (d.answer.status = "2xx" => d.whole)
  /\ d.code = "none" <=> d.pc # "returned"
  /\ d.code = "OK" => d.answer.status = "2xx" /\ d.whole
  /\ d.code = "RETRYABLE" => d.answer.status \in {"none", "retryable"}
  /\ d.code = "FATAL" => d.oom \/ d.answer.status = "other"

CallInv(d) == Typed(d) /\ HoldsWhatItNeeds(d) /\ BuffersInReach(d) /\ CodeFollows(d)

IInv ==
  /\ call = [c \in Call |-> call[c]]
  /\ \A c \in Call : CallInv(call[c])
  /\ Connections <= MaxConn

-----------------------------------------------------------------------------
(* One call.                                                               *)

\* A new call satisfies the invariant.
LEMMA CalledInv == CallInv(Called)
BY DEF CallInv, Typed, HoldsWhatItNeeds, BuffersInReach, CodeFollows, Called, NoAnswer, NoHeader,
       Early, Arrays

\* A call that failed keeps the invariant, if it holds nothing by then and had no
\* answer.
LEMMA FailuresInv ==
  ASSUME NEW d, CallInv(d), Early(d), NEW handles, d.holds \ handles = {},
         NEW e \in Failures(Released(d, handles))
  PROVE  CallInv(e) /\ e.holds = {}
<1>1. d.answer = NoAnswer /\ d.blocks = {} /\ d.code = "none"
  BY DEF CallInv, CodeFollows, BuffersInReach, Early
<1>2. Typed(e) /\ e.pc = "returned" /\ e.holds = {} /\ e.blocks = {} /\ e.count = d.count
      /\ e.answer = NoAnswer /\ (e.code = "RETRYABLE" \/ (e.code = "FATAL" /\ e.oom))
  BY <1>1 DEF Failures, Released, Return, OutOfMemory, CallInv, Typed
<1> QED
  BY <1>1, <1>2 DEF CallInv, HoldsWhatItNeeds, BuffersInReach, CodeFollows, Early, NoAnswer

\* What the callback allocates is within the reach of the cleanup for the count it
\* leaves, and a count above zero has its arrays, whatever failed.
LEMMA AllocatedInReach ==
  ASSUME NEW answer, NEW failed
  PROVE  /\ Allocated(answer, failed) \subseteq Arrays \cup Strings(HeaderCount(answer, failed))
         /\ HeaderCount(answer, failed) > 0 =>
              {<<"keys">>, <<"values">>} \subseteq Allocated(answer, failed)
<1>1. CASE HasArrays(answer, failed)
  <2>1. HeaderCount(answer, failed) = Len(Pairs(answer))
    BY <1>1 DEF HeaderCount
  <2>2. Allocated(answer, failed) \subseteq Arrays \cup Strings(HeaderCount(answer, failed))
    BY <2>1 DEF Allocated, Wanted, Arrays
  <2>3. {<<"keys">>, <<"values">>} \subseteq Allocated(answer, failed)
    BY <1>1 DEF Allocated, Wanted, HasArrays
  <2> QED
    BY <2>2, <2>3
<1>2. CASE ~HasArrays(answer, failed)
  BY <1>2 DEF Allocated, Wanted, HeaderCount, Arrays
<1> QED
  BY <1>1, <1>2

\* The cleanup empties a response whose buffers are within its reach.
LEMMA CleanupEmpties ==
  ASSUME NEW d, CallInv(d), d.pc = "copied"
  PROVE  Cleanup(d) = [d EXCEPT !.blocks = {}, !.count = 0]
<1>1. d.blocks \subseteq Arrays \cup Strings(d.count)
  BY DEF CallInv, BuffersInReach
<1>2. d.blocks \ (Arrays \cup Strings(d.count)) = {}
  BY <1>1
<1> QED
  BY <1>2 DEF Cleanup, Arrays, CallInv, Typed

\* A call the callback has copied an answer into.
Copied(d, answer, failed) ==
  [Released(d, ReleasedAfterDo) EXCEPT
     !.pc = "copied", !.answer = answer, !.oom = @ \/ failed # {},
     !.blocks = Allocated(answer, failed), !.count = HeaderCount(answer, failed)]

\* An answer is always copied, however much of it: the callback returns 0.
LEMMA ReceiveCopies ==
  ASSUME NEW c \in Call, Receive(c)
  PROVE  \E answer \in Answer : \E failed :
           /\ answer.status = "2xx" => call[c].whole
           /\ call' = [call EXCEPT ![c] = Copied(call[c], answer, failed)]
<1>1. PICK answer \in Answer : \E failed \in SUBSET Wanted(answer) :
        /\ answer.status = "2xx" => call[c].whole
        /\ Becomes(c, {IF CopyReturns(failed) = 0 THEN Copied(call[c], answer, failed)
                       ELSE Return(Copied(call[c], answer, failed), "RETRYABLE")})
  BY Zenon DEF Receive, Copied
<1>2. PICK failed : /\ answer.status = "2xx" => call[c].whole
                    /\ Becomes(c, {Copied(call[c], answer, failed)})
  BY <1>1 DEF CopyReturns
<1> QED
  BY <1>2 DEF Becomes

-----------------------------------------------------------------------------
(* One step.                                                               *)

\* What a step may make of call c.
Allowed(c, d) ==
  /\ CallInv(d)
  /\ "conn" \in d.holds => "conn" \in call[c].holds \/ Connections < MaxConn

\* Every step of a call leaves the invariant of the call true, and takes a
\* connection only where the upstream has one.
LEMMA StepAllowed ==
  ASSUME IInv, NEW c \in Call, CallNext(c)
  PROVE  \E d : Allowed(c, d) /\ call' = [call EXCEPT ![c] = d]
<1> DEFINE d0 == call[c]
<1>inv. CallInv(d0)
  BY DEF IInv
<1>ty. Typed(d0)
  BY <1>inv DEF CallInv
<1>early. Early(d0) => d0.blocks = {} /\ d0.answer = NoAnswer /\ d0.code = "none"
  BY <1>inv DEF CallInv, BuffersInReach, CodeFollows, Early
<1>count. Early(d0) => ~(d0.count > 0)
  BY <1>inv, <1>early DEF CallInv, BuffersInReach
<1>fail. ASSUME NEW handles, d0.holds \ handles = {}, Early(d0),
                NEW e \in Failures(Released(d0, handles))
         PROVE  Allowed(c, e)
  BY <1>inv, <1>fail, FailuresInv DEF Allowed
<1>conn. d0.holds = CASE d0.pc = "connected"         -> {"conn"}
                      [] d0.pc \in {"ready", "sent"} -> {"conn", "hc"}
                      [] OTHER                       -> {}
  BY <1>inv DEF CallInv, HoldsWhatItNeeds
<1> HIDE DEF d0
<1>1. CASE BridgeThrows(c) \/ ConnGetFails(c)
  <2>1. d0.pc = "called" /\ d0.holds = {} /\ Early(d0)
    BY <1>1, <1>conn DEF BridgeThrows, ConnGetFails, Early, d0
  <2>2. Released(d0, {}) = d0
    BY <2>1, <1>ty DEF Released, Typed
  <2>3. PICK e \in Failures(d0) : call' = [call EXCEPT ![c] = e]
    BY <1>1 DEF BridgeThrows, ConnGetFails, Becomes, Failures, d0
  <2>4. Allowed(c, e)
    BY <2>1, <2>2, <2>3, <1>fail
  <2> QED
    BY <2>3, <2>4
<1>2. CASE ConnGet(c)
  <2> DEFINE e == [d0 EXCEPT !.pc = "connected", !.holds = {"conn"}]
  <2>1. d0.pc = "called" /\ Early(d0) /\ Connections < MaxConn /\ call' = [call EXCEPT ![c] = e]
    BY <1>2 DEF ConnGet, Becomes, Early, d0
  <2>2. Typed(e) /\ e.pc = "connected" /\ e.holds = {"conn"} /\ e.blocks = {}
        /\ e.answer = NoAnswer /\ e.code = "none" /\ e.count = d0.count
    BY <2>1, <1>ty, <1>early DEF Typed
  <2>3. CallInv(e)
    BY <2>1, <2>2, <1>count DEF CallInv, HoldsWhatItNeeds, BuffersInReach, CodeFollows, Early
  <2> QED
    BY <2>1, <2>3 DEF Allowed
<1>3. CASE HttpClient(c)
  <2>1. d0.pc = "connected" /\ Early(d0) /\ d0.holds = {"conn"}
    BY <1>3, <1>conn DEF HttpClient, Early, d0
  <2>2. PICK whole \in BOOLEAN, oom \in BOOLEAN :
          call' = [call EXCEPT ![c] = [d0 EXCEPT !.pc = "ready", !.holds = @ \cup {"hc"},
                                                !.whole = whole, !.oom = oom]]
    BY <1>3 DEF HttpClient, Becomes, d0
  <2> DEFINE e == [d0 EXCEPT !.pc = "ready", !.holds = @ \cup {"hc"}, !.whole = whole, !.oom = oom]
  <2>3. Typed(e) /\ e.pc = "ready" /\ e.holds = {"conn", "hc"} /\ e.blocks = {}
        /\ e.answer = NoAnswer /\ e.code = "none" /\ e.count = d0.count
    BY <2>1, <1>ty, <1>early DEF Typed
  <2>4. CallInv(e)
    BY <2>1, <2>3, <1>count DEF CallInv, HoldsWhatItNeeds, BuffersInReach, CodeFollows, Early
  <2>5. "conn" \in call[c].holds
    BY <2>1 DEF d0
  <2> QED
    BY <2>2, <2>4, <2>5 DEF Allowed
<1>4. CASE HttpClientFails(c)
  <2>1. d0.pc = "connected" /\ Early(d0) /\ d0.holds \ ReleasedWithoutClient = {}
    BY <1>4, <1>conn DEF HttpClientFails, Early, ReleasedWithoutClient, d0
  <2>2. PICK e \in Failures(Released(d0, ReleasedWithoutClient)) : call' = [call EXCEPT ![c] = e]
    BY <1>4 DEF HttpClientFails, Becomes, d0
  <2> QED
    BY <2>1, <2>2, <1>fail
<1>5. CASE HttpDo(c)
  <2> DEFINE e == [d0 EXCEPT !.pc = "sent"]
  <2>1. d0.pc = "ready" /\ Early(d0) /\ d0.holds = {"conn", "hc"} /\ call' = [call EXCEPT ![c] = e]
    BY <1>5, <1>conn DEF HttpDo, Becomes, Early, d0
  <2>2. Typed(e) /\ e.pc = "sent" /\ e.holds = {"conn", "hc"} /\ e.blocks = {}
        /\ e.answer = NoAnswer /\ e.code = "none" /\ e.count = d0.count
    BY <2>1, <1>ty, <1>early DEF Typed
  <2>3. CallInv(e)
    BY <2>1, <2>2, <1>count DEF CallInv, HoldsWhatItNeeds, BuffersInReach, CodeFollows, Early
  <2>4. "conn" \in call[c].holds
    BY <2>1 DEF d0
  <2> QED
    BY <2>1, <2>3, <2>4 DEF Allowed
<1>6. CASE HttpDoFails(c) \/ NoAnswerComes(c)
  <2>1. d0.pc \in {"ready", "sent"} /\ Early(d0) /\ d0.holds \ ReleasedAfterDo = {}
    BY <1>6, <1>conn DEF HttpDoFails, NoAnswerComes, Early, ReleasedAfterDo, d0
  <2>2. PICK e \in Failures(Released(d0, ReleasedAfterDo)) : call' = [call EXCEPT ![c] = e]
    BY <1>6 DEF HttpDoFails, NoAnswerComes, Becomes, d0
  <2> QED
    BY <2>1, <2>2, <1>fail
<1>7. CASE Receive(c)
  <2>1. d0.pc = "sent" /\ Early(d0) /\ d0.holds \ ReleasedAfterDo = {}
    BY <1>7, <1>conn DEF Receive, Early, ReleasedAfterDo, d0
  <2>2. PICK answer \in Answer : \E failed :
          /\ answer.status = "2xx" => d0.whole
          /\ call' = [call EXCEPT ![c] = Copied(d0, answer, failed)]
    BY <1>7, ReceiveCopies DEF d0
  <2>2a. PICK failed :
          /\ answer.status = "2xx" => d0.whole
          /\ call' = [call EXCEPT ![c] = Copied(d0, answer, failed)]
    BY <2>2
  <2> DEFINE e == Copied(d0, answer, failed)
  <2>3. Typed(e) /\ e.pc = "copied" /\ e.holds = {} /\ e.code = "none" /\ e.answer = answer
        /\ e.whole = d0.whole
        /\ e.blocks = Allocated(answer, failed) /\ e.count = HeaderCount(answer, failed)
    BY <2>1, <1>ty, <1>early DEF Typed, Released, Copied
  <2> HIDE DEF e
  <2>4. CallInv(e)
    BY <2>2a, <2>3, AllocatedInReach
       DEF CallInv, HoldsWhatItNeeds, BuffersInReach, CodeFollows, Early
  <2>5. "conn" \notin e.holds
    BY <2>3
  <2> QED
    BY <2>2a, <2>4, <2>5 DEF Allowed, e
<1>8. CASE TakeIn(c) \/ TakeInThrows(c)
  <2>1. d0.pc = "copied" /\ d0.holds = {}
    BY <1>8, <1>conn DEF TakeIn, TakeInThrows, d0
  <2>2. d0.answer \in Answer /\ (d0.answer.status = "2xx" => d0.whole) /\ d0.code = "none"
        /\ (d0.count > 0 => {<<"keys">>, <<"values">>} \subseteq d0.blocks)
    BY <1>inv, <2>1 DEF CallInv, CodeFollows, BuffersInReach
  <2>3. d0.answer.status \in StatusClass
    BY <2>2, TransportAssumption
  <2> DEFINE clean == [d0 EXCEPT !.blocks = {}, !.count = 0]
  <2>4. Cleanup(d0) = clean
    BY <1>inv, <2>1, CleanupEmpties
  <2>5. PICK e : /\ call' = [call EXCEPT ![c] = e]
                 /\ \/ e \in {OutOfMemory(d0), OutOfMemory(clean)}
                    \/ \E id : e = [Return(clean, ResultCode(d0.answer.status)) EXCEPT !.request_id = id]
                    \/ e = [Return(clean, ResultCode(d0.answer.status)) EXCEPT !.oom = TRUE]
    BY <1>8, <2>4 DEF TakeIn, TakeInThrows, Becomes, d0
  <2>6. CallInv(e) /\ "conn" \notin e.holds
    <3>1. CASE e \in {OutOfMemory(d0), OutOfMemory(clean)}
      <4>1. Typed(e) /\ e.pc = "returned" /\ e.holds = {} /\ e.code = "FATAL" /\ e.oom
            /\ (e.count > 0 => {<<"keys">>, <<"values">>} \subseteq e.blocks)
        <5>1. CASE e = OutOfMemory(d0)
          BY <5>1, <2>1, <2>2, <1>ty DEF OutOfMemory, Return, Typed
        <5>2. CASE e = OutOfMemory(clean)
          <6>1. Typed(clean) /\ clean.holds = {} /\ clean.count = 0
            BY <2>1, <1>ty DEF Typed
          <6> HIDE DEF clean
          <6>2. Typed(e) /\ e.pc = "returned" /\ e.holds = clean.holds /\ e.code = "FATAL" /\ e.oom
                /\ e.count = clean.count
            BY <5>2, <6>1 DEF OutOfMemory, Return, Typed
          <6>3. ~(e.count > 0)
            BY <6>1, <6>2
          <6> QED
            BY <6>1, <6>2, <6>3
        <5> QED
          BY <3>1, <5>1, <5>2
      <4> QED
        BY <4>1 DEF CallInv, HoldsWhatItNeeds, BuffersInReach, CodeFollows, Early
    <3>2. CASE e \notin {OutOfMemory(d0), OutOfMemory(clean)}
      <4>1. ResultCode(d0.answer.status) \in {"OK", "RETRYABLE", "FATAL"}
        BY DEF ResultCode
      <4>2. Typed(e) /\ e.pc = "returned" /\ e.holds = {} /\ e.blocks = {} /\ e.count = 0
            /\ e.answer = d0.answer /\ e.whole = d0.whole /\ e.code = ResultCode(d0.answer.status)
        BY <3>2, <4>1, <2>1, <2>5, <1>ty, ZenonT(30) DEF Return, Typed
      <4> QED
        BY <4>2, <2>2, <2>3 DEF CallInv, HoldsWhatItNeeds, BuffersInReach, CodeFollows, Early,
           ResultCode, StatusClass
    <3> QED
      BY <3>1, <3>2
  <2> QED
    BY <2>5, <2>6 DEF Allowed
<1> QED
  BY <1>1, <1>2, <1>3, <1>4, <1>5, <1>6, <1>7, <1>8 DEF CallNext

\* Connections counts the calls that have one, and is a natural number, because
\* there are finitely many calls.
LEMMA ConnectionsNat ==
  Connections \in Nat /\ IsFiniteSet({c \in Call : "conn" \in call[c].holds})
<1>1. IsFiniteSet({c \in Call : "conn" \in call[c].holds})
  BY FS_Subset, TransportAssumption
<1> QED
  BY <1>1, FS_CardinalityType DEF Connections

\* A step that only takes a connection where there is one does not overdraw the
\* upstream.
LEMMA NotOverdrawn ==
  ASSUME IInv, NEW c \in Call, NEW d, Allowed(c, d), call' = [call EXCEPT ![c] = d]
  PROVE  Connections' <= MaxConn
<1> DEFINE Holding == {x \in Call : "conn" \in call[x].holds}
<1>1. IsFiniteSet(Holding) /\ Connections = Cardinality(Holding) /\ Connections \in Nat
  BY ConnectionsNat DEF Connections
<1>2. MaxConn \in Nat /\ Connections <= MaxConn
  BY TransportAssumption DEF IInv
<1>3. \A x \in Call : call'[x] = IF x = c THEN d ELSE call[x]
  BY DEF IInv
<1>4. Connections' = Cardinality(Holding')
  BY DEF Connections
<1>5. CASE Holding' \subseteq Holding
  <2>1. Cardinality(Holding') \in Nat /\ Cardinality(Holding') <= Cardinality(Holding)
    BY <1>1, <1>5, FS_Subset, FS_CardinalityType
  <2> QED
    BY <2>1, <1>1, <1>2, <1>4
<1>6. CASE ~(Holding' \subseteq Holding)
  <2>1. c \notin Holding /\ "conn" \in d.holds /\ Connections < MaxConn
    BY <1>3, <1>6 DEF Allowed
  <2>2. Holding' \subseteq Holding \cup {c}
    BY <1>3
  <2>3. IsFiniteSet(Holding \cup {c}) /\ Cardinality(Holding \cup {c}) = Cardinality(Holding) + 1
    BY <1>1, <2>1, FS_AddElement
  <2>4. Cardinality(Holding') \in Nat /\ Cardinality(Holding') <= Cardinality(Holding \cup {c})
    BY <2>2, <2>3, FS_Subset, FS_CardinalityType
  <2> HIDE DEF Holding
  <2> QED
    BY <1>1, <1>2, <1>4, <2>1, <2>3, <2>4
<1> QED
  BY <1>5, <1>6

-----------------------------------------------------------------------------
(* The inductive invariant.                                                *)

\* The inductive invariant holds in the initial states.
LEMMA InitInv == Init => IInv
<1> SUFFICES ASSUME Init PROVE IInv
  OBVIOUS
<1>1. \A c \in Call : call[c] = Called
  BY DEF Init
<1>2. {c \in Call : "conn" \in call[c].holds} = {}
  BY <1>1 DEF Called
<1>3. Connections <= MaxConn
  <2>1. Connections = Cardinality({})
    BY <1>2 DEF Connections
  <2>2. Connections = 0
    BY <2>1, FS_EmptySet
  <2> QED
    BY <2>2, TransportAssumption
<1>4. call = [c \in Call |-> call[c]]
  BY DEF Init
<1> QED
  BY <1>1, <1>3, <1>4, CalledInv DEF IInv

\* Every step keeps it.
LEMMA NextInv == IInv /\ [Next]_vars => IInv'
<1> SUFFICES ASSUME IInv, [Next]_vars PROVE IInv'
  OBVIOUS
<1>1. CASE Next
  <2>1. PICK c \in Call : CallNext(c)
    BY <1>1 DEF Next
  <2>2. PICK d : Allowed(c, d) /\ call' = [call EXCEPT ![c] = d]
    BY <2>1, StepAllowed
  <2>3. Connections' <= MaxConn
    BY <2>2, NotOverdrawn
  <2>4. call' = [x \in Call |-> call'[x]]
    BY <2>2 DEF IInv
  <2>5. \A x \in Call : CallInv(call'[x])
    BY <2>2 DEF IInv, Allowed
  <2> QED
    BY <2>3, <2>4, <2>5 DEF IInv
<1>2. CASE UNCHANGED vars
  <2>1. call' = call
    BY <1>2 DEF vars
  <2>2. Connections' = Connections
    BY <2>1 DEF Connections
  <2> QED
    BY <2>1, <2>2 DEF IInv
<1> QED
  BY <1>1, <1>2

\* The inductive invariant is an invariant of the transport.
THEOREM Invariance == Spec => []IInv
<1> QED
  BY InitInv, NextInv, PTL DEF Spec

-----------------------------------------------------------------------------
(* What follows.                                                           *)

\* sls_transport_cb returns every connection, on every way out, and Fluent Bit's
\* upstream is never overdrawn, for any number of chunks being flushed at once.
THEOREM ConnectionsSafe == Spec => []ConnectionsReturned
<1>1. IInv => ConnectionsReturned
  BY DEF IInv, CallInv, HoldsWhatItNeeds, ConnectionsReturned
<1> QED
  BY <1>1, Invariance, PTL

\* Whichever allocations of the callback failed, header_count never exceeds what
\* the two arrays of the response hold, and the bridge frees every buffer, unless
\* it runs out of memory itself.
THEOREM ResponseSafe == Spec => []ResponseSound
<1>1. IInv => CountIsBacked
  BY DEF IInv, CallInv, BuffersInReach, CountIsBacked
<1>2. IInv => BuffersFreed
  BY DEF IInv, CallInv, BuffersInReach, BuffersFreed, Early
<1> QED
  BY <1>1, <1>2, Invariance, PTL DEF ResponseSound

\* The result of a call is the service's word: no failure around the copying of
\* the answer makes a stored group one that is sent again.
THEOREM AnswerSafe == Spec => []AnswerDecides
<1>1. IInv => AnswerDecides
  BY DEF IInv, CallInv, CodeFollows, AnswerDecides
<1> QED
  BY <1>1, Invariance, PTL

-----------------------------------------------------------------------------
(* The request id.                                                         *)

\* found holds, for each n, the headers among the first n lines.
IsFound(found, lines, top) ==
  found = [n \in 0 .. top |->
             IF n = 0 THEN <<>>
             ELSE IF lines[n] = "junk" THEN found[n - 1]
             ELSE Append(found[n - 1], lines[n])]

\* No header among the lines is missed.
MissesNone(found, lines, n) ==
  \A j \in 1 .. n : lines[j] # "junk" => \E i \in 1 .. Len(found[n]) : found[n][i] = lines[j]

\* The pass over the first lines exists, and misses none of their headers.
LEMMA FoundExists ==
  ASSUME NEW X, NEW lines \in Seq(X), NEW top \in 0 .. Len(lines)
  PROVE  \E found \in [0 .. top -> Seq(X)] :
           IsFound(found, lines, top) /\ \A n \in 0 .. top : MissesNone(found, lines, n)
<1> DEFINE Found(t) == \E found \in [0 .. t -> Seq(X)] :
                         IsFound(found, lines, t) /\ \A n \in 0 .. t : MissesNone(found, lines, n)
           G == {t \in Nat : t <= Len(lines) => Found(t)}
<1>1. 0 \in G
  <2> DEFINE found == [n \in 0 .. 0 |-> <<>>]
  <2>1. found \in [0 .. 0 -> Seq(X)] /\ IsFound(found, lines, 0)
    BY DEF IsFound
  <2>2. \A n \in 0 .. 0 : MissesNone(found, lines, n)
    BY DEF MissesNone
  <2> QED
    BY <2>1, <2>2
<1>2. ASSUME NEW t \in G PROVE t + 1 \in G
  <2> SUFFICES ASSUME t + 1 <= Len(lines) PROVE Found(t + 1)
    <3> HIDE DEF Found
    <3> QED
      OBVIOUS
  <2>1. t \in Nat /\ t <= Len(lines) /\ lines[t + 1] \in X
    OBVIOUS
  <2>2. PICK before \in [0 .. t -> Seq(X)] :
          IsFound(before, lines, t) /\ \A n \in 0 .. t : MissesNone(before, lines, n)
    BY <2>1
  <2> DEFINE more  == IF lines[t + 1] = "junk" THEN before[t] ELSE Append(before[t], lines[t + 1])
             found == [n \in 0 .. t + 1 |-> IF n = t + 1 THEN more ELSE before[n]]
  <2>3. before[t] \in Seq(X) /\ more \in Seq(X)
    BY <2>1
  <2> HIDE DEF more
  <2>4. found \in [0 .. t + 1 -> Seq(X)]
    BY <2>1, <2>3
  <2>5. \A n \in 0 .. t : found[n] = before[n]
    BY <2>1
  <2>6. found[t + 1] = more
    BY <2>1
  <2>7. IsFound(found, lines, t + 1)
    <3>1. ASSUME NEW n \in 0 .. t + 1
          PROVE  found[n] = IF n = 0 THEN <<>>
                            ELSE IF lines[n] = "junk" THEN found[n - 1]
                            ELSE Append(found[n - 1], lines[n])
      <4>1. CASE n \in 0 .. t
        <5>1. before[n] = IF n = 0 THEN <<>>
                          ELSE IF lines[n] = "junk" THEN before[n - 1]
                          ELSE Append(before[n - 1], lines[n])
          BY <2>2, <4>1 DEF IsFound
        <5>2. n # 0 => n - 1 \in 0 .. t
          BY <2>1, <4>1
        <5> HIDE DEF found
        <5> QED
          BY <2>5, <4>1, <5>1, <5>2
      <4>2. CASE n = t + 1
        <5>1. n # 0 /\ n - 1 = t /\ found[n - 1] = before[t]
          BY <2>1, <4>2
        <5> HIDE DEF found
        <5> QED
          BY <2>6, <4>2, <5>1 DEF more
      <4> QED
        BY <2>1, <4>1, <4>2
    <3> QED
      BY <3>1 DEF IsFound
  <2>8. ASSUME NEW n \in 0 .. t + 1 PROVE MissesNone(found, lines, n)
    <3>1. CASE n \in 0 .. t
      <4>1. MissesNone(before, lines, n) /\ found[n] = before[n]
        BY <2>2, <2>5, <3>1
      <4> HIDE DEF found
      <4> QED
        BY <4>1 DEF MissesNone
    <3>2. CASE n = t + 1
      <4> SUFFICES ASSUME NEW j \in 1 .. t + 1, lines[j] # "junk"
                   PROVE  \E i \in 1 .. Len(more) : more[i] = lines[j]
        BY <2>6, <3>2 DEF MissesNone
      <4>1. CASE j = t + 1
        <5>1. more = Append(before[t], lines[t + 1])
          BY <4>1 DEF more
        <5>2. Len(more) \in 1 .. Len(more) /\ more[Len(more)] = lines[j]
          BY <2>3, <4>1, <5>1
        <5> QED
          BY <5>2
      <4>2. CASE j # t + 1
        <5>1. j \in 1 .. t /\ MissesNone(before, lines, t)
          BY <2>1, <2>2, <4>2
        <5>2. PICK i \in 1 .. Len(before[t]) : before[t][i] = lines[j]
          BY <5>1 DEF MissesNone
        <5>3. i \in 1 .. Len(more) /\ more[i] = before[t][i]
          BY <2>3, <5>2 DEF more
        <5> QED
          BY <5>2, <5>3
      <4> QED
        BY <4>1, <4>2
    <3> QED
      BY <2>1, <3>1, <3>2
  <2> HIDE DEF found
  <2> QED
    BY <2>4, <2>7, <2>8
<1> HIDE DEF G
<1>3. G = Nat
  <2>1. G \in SUBSET Nat
    BY DEF G
  <2> QED
    BY <1>1, <1>2, <2>1, NatSetInduction
<1>4. top \in Nat /\ top <= Len(lines)
  OBVIOUS
<1> QED
  BY <1>3, <1>4 DEF G

\* A header among the lines is among the headers found.
LEMMA HeadersComplete ==
  ASSUME NEW X, NEW lines \in Seq(X), NEW w \in Range(lines), w # "junk"
  PROVE  /\ Headers(lines) \in Seq(X)
         /\ \E i \in 1 .. Len(Headers(lines)) : Headers(lines)[i] = w
<1> DEFINE top == Len(lines)
           found == CHOOSE f : IsFound(f, lines, top)
<1>1. Headers(lines) = found[top]
  BY DEF Headers, IsFound
<1>2. PICK f \in [0 .. top -> Seq(X)] :
        IsFound(f, lines, top) /\ \A n \in 0 .. top : MissesNone(f, lines, n)
  <2>1. top \in 0 .. Len(lines)
    OBVIOUS
  <2> HIDE DEF top
  <2> QED
    BY <2>1, FoundExists
<1>3. IsFound(found, lines, top)
  BY <1>2
<1> HIDE DEF found
<1>4. \A n \in 0 .. top : found[n] = f[n]
  <2> DEFINE E == {n \in Nat : n <= top => found[n] = f[n]}
  <2>1. 0 \in E
    BY <1>2, <1>3 DEF IsFound
  <2>2. ASSUME NEW n \in E PROVE n + 1 \in E
    <3> SUFFICES ASSUME n + 1 <= top PROVE found[n + 1] = f[n + 1]
      OBVIOUS
    <3>1. n + 1 \in 0 .. top /\ n + 1 # 0 /\ (n + 1) - 1 = n /\ found[n] = f[n]
      OBVIOUS
    <3> HIDE DEF top, E
    <3>2. found[n + 1] = IF lines[n + 1] = "junk" THEN found[n] ELSE Append(found[n], lines[n + 1])
      BY <1>3, <3>1 DEF IsFound
    <3>3. f[n + 1] = IF lines[n + 1] = "junk" THEN f[n] ELSE Append(f[n], lines[n + 1])
      BY <1>2, <3>1 DEF IsFound
    <3> QED
      BY <3>1, <3>2, <3>3
  <2> HIDE DEF E
  <2>3. E = Nat
    <3>1. E \in SUBSET Nat
      BY DEF E
    <3> QED
      BY <2>1, <2>2, <3>1, NatSetInduction
  <2> QED
    BY <2>3 DEF E
<1>5. PICK j \in 1 .. top : lines[j] = w
  BY DEF Range
<1>6. top \in 0 .. top /\ Headers(lines) = f[top]
  BY <1>1, <1>4
<1> QED
  BY <1>2, <1>5, <1>6 DEF MissesNone

\* Where the request id of a call stands. Without a failed allocation, every header
\* is there while the bridge has the response.
IdInv(d) ==
  /\ d.pc # "returned" => d.request_id = NoHeader
  /\ d.pc = "copied" /\ ~d.oom =>
       d.blocks = Wanted(d.answer) /\ d.count = Len(Pairs(d.answer))
  /\ d.request_id # NoHeader => Pairs(d.answer)[d.request_id] = "requestid"
  /\ d.pc = "returned" /\ "requestid" \in Range(d.answer.lines) /\ ~d.oom =>
       d.request_id # NoHeader

\* Nothing is missing of an answer none of whose allocations failed.
LEMMA AllCopied ==
  ASSUME NEW answer
  PROVE  Allocated(answer, {}) = Wanted(answer) /\ HeaderCount(answer, {}) = Len(Pairs(answer))
<1>1. CASE Pairs(answer) = <<>>
  <2>1. Len(Pairs(answer)) = 0 /\ Strings(0) = {}
    BY <1>1 DEF Strings
  <2> QED
    BY <1>1, <2>1 DEF Allocated, HeaderCount, HasArrays
<1>2. CASE Pairs(answer) # <<>>
  BY <1>2 DEF Allocated, HeaderCount, HasArrays
<1> QED
  BY <1>1, <1>2

\* A call without an answer, or one that is still ahead of it, satisfies IdInv.
LEMMA NoIdYet ==
  ASSUME NEW d, d.answer = NoAnswer, d.request_id = NoHeader, d.pc # "copied"
  PROVE  IdInv(d)
BY DEF IdInv, NoAnswer, Range

\* What the bridge takes from a response it copied whole.
LEMMA RequestIdFound ==
  ASSUME NEW d, d.answer \in Answer,
         ~d.oom => d.blocks = Wanted(d.answer) /\ d.count = Len(Pairs(d.answer))
  PROVE  /\ RequestId(d) # NoHeader => Pairs(d.answer)[RequestId(d)] = "requestid"
         /\ "requestid" \in Range(d.answer.lines) /\ ~d.oom => RequestId(d) # NoHeader
<1> DEFINE ids == {i \in Taken(d) : Pairs(d.answer)[i] = "requestid"}
<1>1. RequestId(d) = IF ids = {} THEN NoHeader ELSE CHOOSE i \in ids : TRUE
  BY DEF RequestId
<1>2. RequestId(d) # NoHeader => Pairs(d.answer)[RequestId(d)] = "requestid"
  BY <1>1
<1>3. ASSUME "requestid" \in Range(d.answer.lines), ~d.oom
      PROVE  RequestId(d) # NoHeader
  <2> DEFINE Line == {"requestid", "other", "junk"}
  <2>1. d.answer.lines \in Seq(Line)
    BY TransportAssumption
  <2> HIDE DEF Line
  <2>2. Pairs(d.answer) \in Seq(Line)
        /\ \E i \in 1 .. Len(Pairs(d.answer)) : Pairs(d.answer)[i] = "requestid"
    BY <1>3, <2>1, HeadersComplete DEF Pairs
  <2>3. PICK i \in 1 .. Len(Pairs(d.answer)) : Pairs(d.answer)[i] = "requestid"
    BY <2>2
  <2>4. <<"key", i>> \in Wanted(d.answer) /\ <<"value", i>> \in Wanted(d.answer)
    BY <2>3 DEF Wanted, Strings
  <2>5. i \in ids
    BY <1>3, <2>3, <2>4 DEF Taken
  <2>6. (CHOOSE x \in ids : TRUE) \in ids
    BY <2>5
  <2>7. ids \subseteq 1 .. Len(Pairs(d.answer)) /\ 0 \notin 1 .. Len(Pairs(d.answer))
    BY <1>3, <2>2 DEF Taken
  <2> HIDE DEF ids
  <2> QED
    BY <1>1, <2>5, <2>6, <2>7 DEF NoHeader
<1> QED
  BY <1>2, <1>3

\* Every step keeps IdInv.
LEMMA StepId ==
  ASSUME IInv, NEW c \in Call, IdInv(call[c]), CallNext(c),
         NEW d, call' = [call EXCEPT ![c] = d]
  PROVE  IdInv(d)
<1> DEFINE d0 == call[c]
<1>ty. Typed(d0) /\ call'[c] = d /\ IdInv(d0) /\ CallInv(d0)
  BY DEF IInv, CallInv
<1>early. Early(d0) => d0.answer = NoAnswer /\ d0.request_id = NoHeader
  BY <1>ty DEF CallInv, CodeFollows, Early, IdInv
<1>fail. ASSUME NEW handles, NEW e \in Failures(Released(d0, handles)), Early(d0)
         PROVE  IdInv(e)
  <2>1. e.answer = d0.answer /\ e.request_id = d0.request_id /\ e.pc = "returned"
    BY <1>ty, <1>fail DEF Failures, Released, Return, OutOfMemory, Typed
  <2> QED
    BY <1>early, <1>fail, <2>1, NoIdYet
<1> HIDE DEF d0
<1>1. CASE BridgeThrows(c) \/ ConnGetFails(c)
  <2>1. Early(d0) /\ Released(d0, {}) = d0
    BY <1>1, <1>ty DEF BridgeThrows, ConnGetFails, Released, Early, Typed, d0
  <2>2. d \in Failures(d0)
    BY <1>1, <1>ty DEF BridgeThrows, ConnGetFails, Becomes, Failures, d0, IInv
  <2> QED
    BY <2>1, <2>2, <1>fail
<1>2. CASE ConnGet(c) \/ HttpClient(c) \/ HttpDo(c)
  <2>1. Early(d0) /\ d.answer = d0.answer /\ d.request_id = d0.request_id /\ d.pc # "copied"
    <3>1. CASE ConnGet(c)
      BY <3>1, <1>ty DEF ConnGet, Becomes, Typed, Early, IInv, d0
    <3>2. CASE HttpClient(c)
      BY <3>2, <1>ty, ZenonT(30) DEF HttpClient, Becomes, Typed, Early, IInv, d0
    <3>3. CASE HttpDo(c)
      BY <3>3, <1>ty DEF HttpDo, Becomes, Typed, Early, IInv, d0
    <3> QED
      BY <1>2, <3>1, <3>2, <3>3
  <2> QED
    BY <2>1, <1>early, NoIdYet
<1>3. CASE HttpClientFails(c)
  <2>1. Early(d0) /\ d \in Failures(Released(d0, ReleasedWithoutClient))
    BY <1>3, <1>ty DEF HttpClientFails, Becomes, Early, IInv, d0
  <2> QED
    BY <2>1, <1>fail
<1>4. CASE HttpDoFails(c) \/ NoAnswerComes(c)
  <2>1. Early(d0) /\ d \in Failures(Released(d0, ReleasedAfterDo))
    BY <1>4, <1>ty DEF HttpDoFails, NoAnswerComes, Becomes, Early, IInv, d0
  <2> QED
    BY <2>1, <1>fail
<1>5. CASE Receive(c)
  <2>1. Early(d0)
    BY <1>5 DEF Receive, Early, d0
  <2>2. PICK answer, failed : call' = [call EXCEPT ![c] = Copied(d0, answer, failed)]
    BY <1>5, ReceiveCopies DEF d0
  <2>3. d = Copied(d0, answer, failed)
    BY <2>2, <1>ty DEF IInv
  <2>4. d.pc = "copied" /\ d.answer = answer /\ d.request_id = NoHeader
        /\ (~d.oom => failed = {})
        /\ d.blocks = Allocated(answer, failed) /\ d.count = HeaderCount(answer, failed)
    BY <2>1, <2>3, <1>ty, <1>early DEF Copied, Released, Typed
  <2> QED
    BY <2>4, AllCopied DEF IdInv
<1>6. CASE TakeIn(c) \/ TakeInThrows(c)
  <2>1. d0.pc = "copied" /\ d0.answer \in Answer /\ d0.request_id = NoHeader
        /\ (~d0.oom => d0.blocks = Wanted(d0.answer) /\ d0.count = Len(Pairs(d0.answer)))
    BY <1>6, <1>ty DEF TakeIn, TakeInThrows, CallInv, CodeFollows, IdInv, d0
  <2> DEFINE clean == [d0 EXCEPT !.blocks = {}, !.count = 0]
             taken == Return(clean, ResultCode(d0.answer.status))
  <2>2. Cleanup(d0) = clean
    BY <1>ty, <2>1, CleanupEmpties
  <2>3. \/ d \in {OutOfMemory(d0), OutOfMemory(clean)}
        \/ d = [taken EXCEPT !.request_id = RequestId(d0)]
        \/ d = [taken EXCEPT !.oom = TRUE]
    BY <1>6, <1>ty, <2>2 DEF TakeIn, TakeInThrows, Becomes, IInv, d0
  <2>4. Typed(clean) /\ clean.answer = d0.answer /\ clean.request_id = d0.request_id
        /\ clean.oom = d0.oom
    BY <1>ty DEF Typed
  <2>5. /\ taken.answer = d0.answer /\ taken.oom = d0.oom /\ taken.pc = "returned"
        /\ taken.request_id = d0.request_id
        /\ \A id : LET e == [taken EXCEPT !.request_id = id]
                  IN  e.answer = d0.answer /\ e.oom = d0.oom /\ e.pc = "returned"
                      /\ e.request_id = id
        /\ LET e == [taken EXCEPT !.oom = TRUE]
           IN  e.answer = d0.answer /\ e.oom /\ e.pc = "returned" /\ e.request_id = d0.request_id
    BY <2>4 DEF Return, Typed
  <2>6. ASSUME NEW e \in {OutOfMemory(d0), OutOfMemory(clean)}
        PROVE  e.pc = "returned" /\ e.oom /\ e.request_id = d0.request_id
    BY <1>ty, <2>4 DEF OutOfMemory, Return, Typed
  <2> HIDE DEF taken, clean
  <2>7. CASE d = [taken EXCEPT !.request_id = RequestId(d0)]
    <3>1. d.answer = d0.answer /\ d.oom = d0.oom /\ d.pc = "returned" /\ d.request_id = RequestId(d0)
      BY <2>5, <2>7
    <3> QED
      BY <2>1, <3>1, RequestIdFound DEF IdInv
  <2>8. CASE d # [taken EXCEPT !.request_id = RequestId(d0)]
    <3>1. d.pc = "returned" /\ d.oom /\ d.request_id = NoHeader
      BY <2>1, <2>3, <2>5, <2>6, <2>8
    <3> QED
      BY <3>1 DEF IdInv
  <2> QED
    BY <2>7, <2>8
<1> QED
  BY <1>1, <1>2, <1>3, <1>4, <1>5, <1>6, <1>ty DEF CallNext

\* The request id of a result is the one the service sent, and it is there unless an
\* allocation failed, for any answer and any number of its header lines.
THEOREM RequestIdSafe == Spec => []RequestIdTrue
<1> DEFINE AllIds == \A c \in Call : IdInv(call[c])
<1>1. Init => AllIds
  <2> SUFFICES ASSUME Init, NEW c \in Call PROVE IdInv(call[c])
    OBVIOUS
  <2>1. call[c].answer = NoAnswer /\ call[c].request_id = NoHeader /\ call[c].pc # "copied"
    BY DEF Init, Called
  <2> QED
    BY <2>1, NoIdYet
<1>2. IInv /\ AllIds /\ [Next]_vars => AllIds'
  <2> SUFFICES ASSUME IInv, AllIds, [Next]_vars, NEW x \in Call PROVE IdInv(call'[x])
    OBVIOUS
  <2>1. CASE Next
    <3>1. PICK c \in Call : CallNext(c)
      BY <2>1 DEF Next
    <3>2. PICK d : Allowed(c, d) /\ call' = [call EXCEPT ![c] = d]
      BY <3>1, StepAllowed
    <3>3. IdInv(d)
      BY <3>1, <3>2, StepId
    <3>4. call'[x] = IF x = c THEN d ELSE call[x]
      BY <3>2 DEF IInv
    <3> QED
      BY <3>3, <3>4
  <2>2. CASE UNCHANGED vars
    BY <2>2 DEF vars
  <2> QED
    BY <2>1, <2>2
<1>3. AllIds => RequestIdTrue
  BY DEF RequestIdTrue, IdInv, Returned
<1> QED
  BY <1>1, <1>2, <1>3, Invariance, PTL DEF Spec

-----------------------------------------------------------------------------
(* The refinement of SlsPut.                                               *)

Before(d) == d.pc \in {"called", "connected", "ready"}

\* Where a step takes a call that was d: on, never back, and to a 2xx result only
\* after the request was sent.
Forward(d, e) ==
  /\ d.pc # "returned"
  /\ Before(d) /\ e.pc = "returned" => e.code # "OK"
  /\ ~Before(d) => ~Before(e)

\* Every step takes its call forward.
LEMMA StepForward ==
  ASSUME IInv, NEW c \in Call, CallNext(c), NEW d, call' = [call EXCEPT ![c] = d]
  PROVE  Forward(call[c], d)
<1> DEFINE d0 == call[c]
<1>ty. Typed(d0) /\ call'[c] = d
  BY DEF IInv, CallInv
<1>fail. ASSUME NEW handles, NEW e \in Failures(Released(d0, handles))
         PROVE  e.pc = "returned" /\ e.code \in {"RETRYABLE", "FATAL"}
  BY <1>ty DEF Failures, Released, Return, OutOfMemory, Typed
<1> HIDE DEF d0
<1>1. CASE BridgeThrows(c) \/ ConnGetFails(c)
  <2>1. d0.pc = "called" /\ Released(d0, {}) = d0
    BY <1>1, <1>ty DEF BridgeThrows, ConnGetFails, Released, Typed, d0
  <2>2. d \in Failures(d0)
    BY <1>1, <1>ty DEF BridgeThrows, ConnGetFails, Becomes, Failures, d0, IInv
  <2> QED
    BY <2>1, <2>2, <1>fail DEF Forward, Before, d0
<1>2. CASE ConnGet(c)
  <2>1. d0.pc = "called" /\ d.pc = "connected"
    BY <1>2, <1>ty DEF ConnGet, Becomes, Typed, IInv, d0
  <2> QED
    BY <2>1 DEF Forward, Before, d0
<1>3. CASE HttpClient(c)
  <2>1. d0.pc = "connected" /\ d.pc = "ready"
    BY <1>3, <1>ty, ZenonT(30) DEF HttpClient, Becomes, Typed, IInv, d0
  <2> QED
    BY <2>1 DEF Forward, Before, d0
<1>4. CASE HttpClientFails(c)
  <2>1. d0.pc = "connected" /\ d \in Failures(Released(d0, ReleasedWithoutClient))
    BY <1>4, <1>ty DEF HttpClientFails, Becomes, IInv, d0
  <2> QED
    BY <2>1, <1>fail DEF Forward, Before, d0
<1>5. CASE HttpDo(c)
  <2>1. d0.pc = "ready" /\ d.pc = "sent"
    BY <1>5, <1>ty DEF HttpDo, Becomes, Typed, IInv, d0
  <2> QED
    BY <2>1 DEF Forward, Before, d0
<1>6. CASE HttpDoFails(c) \/ NoAnswerComes(c)
  <2>1. d0.pc \in {"ready", "sent"} /\ d \in Failures(Released(d0, ReleasedAfterDo))
    BY <1>6, <1>ty DEF HttpDoFails, NoAnswerComes, Becomes, IInv, d0
  <2> QED
    BY <2>1, <1>fail DEF Forward, Before, d0
<1>7. CASE Receive(c)
  <2>1. d0.pc = "sent"
    BY <1>7 DEF Receive, d0
  <2>2. d.pc \in {"copied", "returned"}
    <3>1. PICK answer, failed : call' = [call EXCEPT ![c] = Copied(d0, answer, failed)]
      BY <1>7, ReceiveCopies DEF d0
    <3>2. d = Copied(d0, answer, failed)
      BY <3>1, <1>ty DEF IInv
    <3> QED
      BY <3>2, <1>ty DEF Copied, Released, Typed
  <2> QED
    BY <2>1, <2>2 DEF Forward, Before, d0
<1>8. CASE TakeIn(c) \/ TakeInThrows(c)
  <2>1. d0.pc = "copied"
    BY <1>8 DEF TakeIn, TakeInThrows, d0
  <2>2. d.pc = "returned"
    <3>1. PICK e : e.pc = "returned" /\ call' = [call EXCEPT ![c] = e]
      BY <1>8, <1>ty DEF TakeIn, TakeInThrows, Becomes, OutOfMemory, Return, Cleanup, Typed, d0
    <3> QED
      BY <3>1, <1>ty DEF IInv
  <2> QED
    BY <2>1, <2>2 DEF Forward, Before, d0
<1> QED
  BY <1>1, <1>2, <1>3, <1>4, <1>5, <1>6, <1>7, <1>8 DEF CallNext

\* Every call keeps the promise the flush callback relies on: it writes the
\* request at most once and returns once, OK only after it was sent.
THEOREM PromiseKept == Spec => KeepsPutPromise
<1> DEFINE Kept == \A c \in Call : [Put(c)!Next]_(Put(c)!vars)
<1>1. Init => \A c \in Call : Put(c)!Init
  BY DEF Init, Called, Returned, Put!Init
<1>2. IInv /\ [Next]_vars => [Kept]_vars
  <2> SUFFICES ASSUME IInv, Next PROVE Kept
    OBVIOUS
  <2>1. PICK c \in Call : CallNext(c)
    BY DEF Next
  <2>2. PICK d : Allowed(c, d) /\ call' = [call EXCEPT ![c] = d]
    BY <2>1, StepAllowed
  <2>3. Forward(call[c], d)
    BY <2>1, <2>2, StepForward
  <2>4. \A x \in Call : call'[x] = IF x = c THEN d ELSE call[x]
    BY <2>2 DEF IInv
  <2>5. ASSUME NEW x \in Call, x # c
        PROVE  [Put(x)!Next]_(Put(x)!vars)
    BY <2>4, <2>5 DEF Put!vars, Returned
  <2>6. [Put(c)!Next]_(Put(c)!vars)
    <3>1. call'[c] = d /\ Typed(d) /\ Typed(call[c])
          /\ (d.code = "none" <=> d.pc # "returned")
          /\ (call[c].code = "none" <=> call[c].pc # "returned")
      BY <2>2, <2>4 DEF Allowed, IInv, CallInv, CodeFollows
    <3> QED
      BY <2>3, <3>1 DEF Put!vars, Put!Next, Put!Refuse, Put!Send, Put!Respond, Put!Return,
         Put!Code, Returned, Forward, Before, Typed
  <2> QED
    BY <2>5, <2>6
<1> QED
  BY <1>1, <1>2, Invariance, PTL DEF Spec, KeepsPutPromise

=============================================================================
