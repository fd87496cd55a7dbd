---------------------------- MODULE SlsCurlProofs ----------------------------
(***************************************************************************)
(* Theorems about CurlTransport::send, for every set of endpoints, every   *)
(* number of headers and any number of failed allocations: what is freed,  *)
(* which headers are sent, and what curl is told of the endpoint.          *)
(***************************************************************************)
EXTENDS SlsCurl, SlsLemmas

\* The list of the last k of n headers.
LastOf(n, k) == [i \in 1 .. k |-> n - k + i]

\* The list holds the headers that were added after the last failure.
ListInv ==
  /\ faults \in Nat
  /\ next \in 1 .. HeaderCount + 1
  /\ \E k \in 0 .. next - 1 :
       header_list = LastOf(next - 1, k) /\ (faults = 0 => k = next - 1)
  /\ pc \in {"resolve", "perform", "wait"} => next = HeaderCount + 1

SentInv ==
  /\ sent = NotSent \/ (sent = header_list /\ next = HeaderCount + 1)
  /\ pc = "wait" => sent = header_list

Handles == {<<"curl">>, <<"resolve">>}

ListNodes == {Header(i) : i \in Range(header_list)}

\* Without a failure nothing is held that cannot be reached, and what was freed is
\* all that could be.
HeldInv ==
  /\ held \subseteq Handles \cup HeaderNodes
  /\ faults = 0 => held \subseteq Handles \cup ListNodes
  /\ pc = "init" => held = {}
  /\ outcome # "none" => pc = "returned"
  /\ CurlReleased

\* The override is for the host of the URL, which needs one.
ResolveInv ==
  /\ endpoint \in Endpoint
  /\ \E path \in Paths : url = Url(endpoint, Project, path)
  /\ resolve # None =>
       /\ resolve = Override(ConnectHost(endpoint))
       /\ NeedsOverride /\ Resolvable(ConnectHost(endpoint))

CurlInv == ListInv /\ SentInv /\ HeldInv /\ ResolveInv

-----------------------------------------------------------------------------
(* The lists.                                                              *)

\* The last k of n, and what one more header makes of them.
LEMMA LastOfIs ==
  ASSUME NEW n \in Nat, NEW k \in 0 .. n
  PROVE  /\ LastOf(n, k) \in Seq(Nat) /\ Len(LastOf(n, k)) = k
         /\ Append(LastOf(n, k), n + 1) = LastOf(n + 1, k + 1)
         /\ LastOf(n, 0) = <<>>
         /\ Range(LastOf(n, k)) = n - k + 1 .. n
<1> DEFINE s == LastOf(n, k)
           t == LastOf(n + 1, k + 1)
<1>1. s \in Seq(Nat) /\ Len(s) = k /\ \A i \in 1 .. k : s[i] = n - k + i
  BY DEF LastOf
<1>2. t \in Seq(Nat) /\ Len(t) = k + 1 /\ \A i \in 1 .. k + 1 : t[i] = n - k + i
  BY DEF LastOf
<1>3. LastOf(n, 0) = <<>>
  BY DEF LastOf
<1> HIDE DEF s, t
<1>4. Append(s, n + 1) = t
  <2> DEFINE u == Append(s, n + 1)
  <2>1. u \in Seq(Nat) /\ Len(u) = k + 1 /\ \A i \in 1 .. k + 1 : u[i] = n - k + i
    BY <1>1
  <2> HIDE DEF u
  <2>2. u = t
    BY <1>2, <2>1, SeqEqual
  <2> QED
    BY <2>2 DEF u
<1>5. Range(s) = n - k + 1 .. n
  <2>1. \A j \in n - k + 1 .. n : j - (n - k) \in 1 .. k /\ s[j - (n - k)] = j
    BY <1>1
  <2>2. \A i \in 1 .. k : s[i] \in n - k + 1 .. n
    BY <1>1
  <2>3. DOMAIN s = 1 .. k
    BY <1>1
  <2>4. Range(s) \subseteq n - k + 1 .. n
    BY <2>2, <2>3 DEF Range
  <2>5. n - k + 1 .. n \subseteq Range(s)
    BY <2>1, <2>3 DEF Range
  <2> QED
    BY <2>4, <2>5
<1> QED
  BY <1>1, <1>3, <1>4, <1>5 DEF s, t

\* A list that lacks no header leads to every node.
LEMMA WholeList ==
  ASSUME ListInv, next = HeaderCount + 1, Len(header_list) = HeaderCount
  PROVE  ListNodes = HeaderNodes
<1>1. PICK k \in 0 .. HeaderCount : header_list = LastOf(HeaderCount, k)
  BY CurlAssumption DEF ListInv
<1>2. k = HeaderCount /\ Range(header_list) = 1 .. HeaderCount
  BY <1>1, CurlAssumption, LastOfIs
<1> QED
  BY <1>2 DEF ListNodes, HeaderNodes

\* A list is one of numbers of headers.
LEMMA ListInRange ==
  ASSUME ListInv
  PROVE  /\ header_list \in Seq(Nat) /\ Len(header_list) \in 0 .. HeaderCount
         /\ ListNodes \subseteq HeaderNodes /\ header_list # NotSent
<1>1. PICK k \in 0 .. next - 1 : header_list = LastOf(next - 1, k)
  BY DEF ListInv
<1>2. next - 1 \in Nat /\ next - 1 <= HeaderCount /\ HeaderCount \in Nat
  BY CurlAssumption DEF ListInv
<1>3. /\ header_list \in Seq(Nat) /\ Len(header_list) = k
      /\ Range(header_list) = (next - 1) - k + 1 .. next - 1
  BY <1>1, <1>2, LastOfIs
<1>4. Range(header_list) \subseteq 1 .. HeaderCount
  BY <1>1, <1>2, <1>3
<1>5. header_list # NotSent
  <2>1. ASSUME header_list = NotSent PROVE 0 \in Range(header_list)
    BY <2>1 DEF NotSent, Range
  <2> QED
    BY <1>4, <2>1
<1> QED
  BY <1>1, <1>2, <1>3, <1>4, <1>5 DEF ListNodes, HeaderNodes

-----------------------------------------------------------------------------
(* The steps.                                                              *)

LEMMA CurlInit == Init => CurlInv
<1> SUFFICES ASSUME Init PROVE CurlInv
  OBVIOUS
<1>1. ListInv
  <2>1. 0 \in Nat /\ 0 \in 0 .. 0 /\ LastOf(0, 0) = <<>>
    BY LastOfIs
  <2> QED
    BY <2>1, CurlAssumption DEF Init, ListInv
<1>2. SentInv /\ HeldInv
  BY CurlAssumption DEF Init, SentInv, HeldInv, CurlReleased
<1>3. ResolveInv
  BY DEF Init, ResolveInv
<1> QED
  BY <1>1, <1>2, <1>3 DEF CurlInv

\* What may happen to the ghost: it only grows.
LEMMA FaultsGrow ==
  ASSUME CurlInv, [Next]_vars
  PROVE  faults' \in Nat /\ (faults' = 0 => faults = 0)
<1>1. faults' = faults \/ faults' = faults + 1
  BY DEF Next, vars, Fault, InitCurl, Throw, AppendHeader, HeadersDone, AddOverride, NoOverride,
         Write, PerformFails, Receive, ReceiveThrows
<1>2. faults \in Nat
  BY DEF CurlInv, ListInv
<1> QED
  BY <1>1, <1>2

LEMMA ListStep == CurlInv /\ [Next]_vars => ListInv'
<1> SUFFICES ASSUME CurlInv, [Next]_vars PROVE ListInv'
  OBVIOUS
<1>1. faults' \in Nat /\ (faults' = 0 => faults = 0)
  BY FaultsGrow
<1>2. next \in 1 .. HeaderCount + 1 /\ HeaderCount \in Nat
  BY CurlAssumption DEF CurlInv, ListInv
<1>3. PICK k \in 0 .. next - 1 :
        header_list = LastOf(next - 1, k) /\ (faults = 0 => k = next - 1)
  BY DEF CurlInv, ListInv
<1>4. CASE AppendHeader
  <2>1. next' = next + 1 /\ next' \in 1 .. HeaderCount + 1 /\ pc' = "headers"
    BY <1>2, <1>4 DEF AppendHeader
  <2>2. CASE header_list' = Append(header_list, next)
    <3>1. header_list' = LastOf(next, k + 1)
      <4>1. next - 1 \in Nat /\ (next - 1) + 1 = next
        BY <1>2
      <4>2. Append(LastOf(next - 1, k), (next - 1) + 1) = LastOf((next - 1) + 1, k + 1)
        BY <1>3, <4>1, LastOfIs
      <4> QED
        BY <1>3, <2>2, <4>1, <4>2
    <3>2. k + 1 \in 0 .. next' - 1 /\ next' - 1 = next /\ (faults' = 0 => k + 1 = next' - 1)
      BY <1>1, <1>2, <1>3, <2>1
    <3> QED
      BY <1>1, <2>1, <3>1, <3>2 DEF ListInv
  <2>3. CASE header_list' = <<>> /\ faults' = faults + 1
    <3>1. 0 \in 0 .. next' - 1 /\ next' - 1 \in Nat /\ faults' # 0
      BY <1>2, <2>1, <2>3 DEF CurlInv, ListInv
    <3>2. header_list' = LastOf(next' - 1, 0)
      BY <2>3, <3>1, LastOfIs
    <3> QED
      BY <1>1, <2>1, <3>1, <3>2 DEF ListInv
  <2> QED
    BY <1>4, <2>2, <2>3 DEF AppendHeader, Appended, Fault
<1>5. CASE ~AppendHeader
  <2>1. UNCHANGED <<next, header_list>>
    BY <1>5 DEF Next, vars, lists, InitCurl, Throw, HeadersDone, AddOverride, NoOverride, Write,
                PerformFails, Finish, Receive, ReceiveThrows
  <2>2. pc' \in {"resolve", "perform", "wait"} =>
          pc \in {"resolve", "perform", "wait"} \/ next > HeaderCount
    BY <1>5 DEF Next, vars, InitCurl, Throw, HeadersDone, AddOverride, NoOverride, Write, Return,
                PerformFails, Finish, Receive, ReceiveThrows
  <2>3. pc' \in {"resolve", "perform", "wait"} => next = HeaderCount + 1
    BY <1>2, <2>2 DEF CurlInv, ListInv
  <2> QED
    BY <1>1, <1>2, <1>3, <2>1, <2>3 DEF ListInv
<1> QED
  BY <1>4, <1>5

LEMMA SentStep == CurlInv /\ [Next]_vars => SentInv'
<1> SUFFICES ASSUME CurlInv, [Next]_vars PROVE SentInv'
  OBVIOUS
<1>1. CASE AppendHeader
  <2>1. next <= HeaderCount /\ pc' = "headers" /\ sent' = sent
    BY <1>1 DEF AppendHeader
  <2>2. sent = NotSent
    BY <2>1, CurlAssumption DEF CurlInv, ListInv, SentInv
  <2> QED
    BY <2>1, <2>2 DEF SentInv
<1>2. CASE Write
  BY <1>2 DEF Write, lists, CurlInv, ListInv, SentInv
<1>3. CASE ~AppendHeader /\ ~Write
  <2>1. UNCHANGED <<next, header_list, sent>> /\ (pc' = "wait" => pc = "wait")
    BY <1>3 DEF Next, vars, lists, InitCurl, Throw, HeadersDone, AddOverride, NoOverride, Return,
                PerformFails, Finish, Receive, ReceiveThrows
  <2> QED
    BY <2>1 DEF CurlInv, SentInv
<1> QED
  BY <1>1, <1>2, <1>3

\* What is freed at the end is all there is, unless an append failed on the way.
LEMMA FinishFrees ==
  ASSUME CurlInv, NEW result, Finish(result)
  PROVE  /\ held' \subseteq HeaderNodes \ ListNodes
         /\ faults = 0 => held' = {}
<1>1. held' = held \ ({<<"curl">>, <<"resolve">>} \cup ListNodes)
  BY DEF Finish, FreedAtEnd, ListNodes
<1>2. held \subseteq Handles \cup HeaderNodes /\ (faults = 0 => held \subseteq Handles \cup ListNodes)
  BY DEF CurlInv, HeldInv
<1> QED
  BY <1>1, <1>2 DEF Handles

LEMMA HeldStep == CurlInv /\ [Next]_vars => HeldInv'
<1> SUFFICES ASSUME CurlInv, [Next]_vars PROVE HeldInv'
  OBVIOUS
<1>1. faults' \in Nat /\ (faults' = 0 => faults = 0)
  BY FaultsGrow
<1>2. /\ held \subseteq Handles \cup HeaderNodes
      /\ faults = 0 => held \subseteq Handles \cup ListNodes
      /\ pc = "init" => held = {}
      /\ outcome # "none" => pc = "returned"
  BY DEF CurlInv, HeldInv
<1>3. UNCHANGED header_list => UNCHANGED ListNodes
  BY DEF ListNodes
<1>4. CASE InitCurl
  <2>1. held = {} /\ outcome = "none"
    BY <1>2, <1>4 DEF InitCurl
  <2>2. CASE held' = {<<"curl">>} /\ pc' = "headers" /\ outcome' = outcome
    BY <1>1, <2>1, <2>2 DEF HeldInv, Handles, CurlReleased
  <2>3. CASE held' = {} /\ pc' = "returned"
    BY <1>1, <2>3 DEF HeldInv, CurlReleased
  <2> QED
    BY <1>4, <2>1, <2>2, <2>3 DEF InitCurl, Return
<1>5. CASE AppendHeader
  <2>1. pc = "headers" /\ pc' = "headers" /\ outcome' = outcome /\ next \in 1 .. HeaderCount
    BY <1>5, CurlAssumption DEF AppendHeader, CurlInv, ListInv
  <2>2. outcome' = "none"
    BY <1>2, <2>1
  <2>3. CASE held' = held \cup {Header(next)} /\ header_list' = Append(header_list, next)
    <3>1. Header(next) \in HeaderNodes
      BY <2>1 DEF HeaderNodes
    <3>2. header_list \in Seq(Nat) /\ next \in Nat
      BY <2>1, ListInRange DEF CurlInv
    <3>3. Range(header_list') = Range(header_list) \cup {next}
      BY <2>3, <3>2, SMTT(30) DEF Range
    <3>4. ListNodes' = ListNodes \cup {Header(next)}
      BY <3>3 DEF ListNodes
    <3> QED
      BY <1>1, <1>2, <2>1, <2>2, <2>3, <3>1, <3>4 DEF HeldInv, CurlReleased
  <2>4. CASE held' = held /\ faults' = faults + 1
    <3>1. faults' # 0
      BY <2>4 DEF CurlInv, ListInv
    <3> QED
      BY <1>2, <2>1, <2>2, <2>4, <3>1 DEF HeldInv, CurlReleased
  <2> QED
    BY <1>5, <2>3, <2>4 DEF AppendHeader, Appended, Fault
<1>6. CASE AddOverride
  <2>1. /\ pc = "resolve" /\ pc' = "perform" /\ UNCHANGED <<header_list, outcome>>
        /\ held' \subseteq held \cup {<<"resolve">>}
    BY <1>6 DEF AddOverride
  <2> QED
    BY <1>1, <1>2, <1>3, <2>1 DEF HeldInv, Handles, CurlReleased
<1>7. CASE PerformFails \/ Receive
  <2>1. PICK result \in {"runtime_error", "bad_alloc", "response"} : Finish(result)
    BY <1>7 DEF PerformFails, Receive
  <2>2. pc' = "returned" /\ outcome' # "none" /\ UNCHANGED header_list
    BY <2>1 DEF Finish, Return, lists
  <2>3. held' \subseteq HeaderNodes \ ListNodes /\ (faults = 0 => held' = {})
    BY <2>1, FinishFrees
  <2> QED
    BY <1>1, <1>3, <2>2, <2>3 DEF HeldInv, CurlReleased, ListNodes
<1>8. CASE Throw \/ ReceiveThrows
  <2>1. /\ pc # "init" /\ pc' \in {"returned", "terminated"} /\ UNCHANGED <<header_list, held>>
        /\ outcome' = IF pc' = "returned" THEN "bad_alloc" ELSE outcome
        /\ pc # "returned"
    BY <1>8 DEF Throw, ReceiveThrows, Return, lists
  <2>2. outcome = "none"
    BY <1>2, <2>1
  <2> QED
    BY <1>1, <1>2, <1>3, <2>1, <2>2 DEF HeldInv, CurlReleased
<1>9. CASE HeadersDone \/ NoOverride \/ Write
  <2>1. /\ pc # "init" /\ pc # "returned" /\ pc' \in {"resolve", "perform", "wait"}
        /\ UNCHANGED <<header_list, held, outcome, faults>>
    BY <1>9 DEF HeadersDone, NoOverride, Write, lists
  <2>2. outcome' = "none"
    BY <1>2, <2>1
  <2> QED
    BY <1>1, <1>2, <1>3, <2>1, <2>2 DEF HeldInv, CurlReleased
<1>10. CASE UNCHANGED vars
  BY <1>3, <1>10 DEF vars, lists, CurlInv, HeldInv, CurlReleased
<1> QED
  BY <1>4, <1>5, <1>6, <1>7, <1>8, <1>9, <1>10 DEF Next

LEMMA ResolveStep == CurlInv /\ [Next]_vars => ResolveInv'
<1> SUFFICES ASSUME CurlInv, [Next]_vars PROVE ResolveInv'
  OBVIOUS
<1>1. UNCHANGED <<endpoint, url>>
  BY DEF Next, vars, request, InitCurl, Throw, AppendHeader, HeadersDone, AddOverride, NoOverride,
         Write, PerformFails, Finish, Receive, ReceiveThrows
<1>2. \/ resolve' = resolve
      \/ /\ resolve' = Override(ConnectHost(endpoint))
         /\ NeedsOverride /\ Resolvable(ConnectHost(endpoint))
  BY DEF Next, vars, lists, InitCurl, Throw, AppendHeader, HeadersDone, AddOverride, NoOverride,
         Write, PerformFails, Finish, Receive, ReceiveThrows
<1> QED
  BY <1>1, <1>2 DEF CurlInv, ResolveInv, Override, NeedsOverride

LEMMA CurlInvariant == Spec => []CurlInv
<1>1. CurlInv /\ [Next]_vars => CurlInv'
  BY ListStep, SentStep, HeldStep, ResolveStep DEF CurlInv
<1> QED
  BY <1>1, CurlInit, PTL DEF Spec

-----------------------------------------------------------------------------
(* What follows.                                                           *)

\* A call that returned an answer of any status, or threw a std::runtime_error, has
\* freed the handle and both lists, but for the nodes that a failed append cut off, and
\* everything if no allocation failed. What a std::bad_alloc leaves is not bounded.
THEOREM CurlFrees == Spec => []CurlReleased
<1>1. CurlInv => CurlReleased
  BY DEF CurlInv, HeldInv
<1> QED
  BY <1>1, CurlInvariant, PTL

\* The headers of a request are those after the last failed append, without a gap and
\* in the order of the map: all of them, unless an append failed.
THEOREM CurlSendsSuffix == Spec => []HeadersAreSuffix
<1>1. CurlInv => HeadersAreSuffix
  <2> SUFFICES ASSUME CurlInv, sent # NotSent
               PROVE  /\ sent = [i \in DOMAIN sent |-> HeaderCount - Len(sent) + i]
                      /\ faults = 0 => Len(sent) = HeaderCount
    BY DEF HeadersAreSuffix
  <2>1. sent = header_list /\ next - 1 = HeaderCount /\ HeaderCount \in Nat
    BY CurlAssumption DEF CurlInv, SentInv
  <2>2. PICK k \in 0 .. HeaderCount :
          header_list = LastOf(HeaderCount, k) /\ (faults = 0 => k = HeaderCount)
    BY <2>1 DEF CurlInv, ListInv
  <2>3. Len(sent) = k /\ DOMAIN sent = 1 .. k
    BY <2>1, <2>2, LastOfIs
  <2> QED
    BY <2>1, <2>2, <2>3 DEF LastOf
<1> QED
  BY <1>1, CurlInvariant, PTL

\* The override is for the host and the port curl takes from the URL, and it leads to
\* the endpoint, for every endpoint and every project.
THEOREM CurlOverrideFits == Spec => []OverrideMatchesUrl
<1>1. CurlInv => OverrideMatchesUrl
  <2> SUFFICES ASSUME CurlInv, resolve # None PROVE OverrideMatchesUrl
    BY DEF OverrideMatchesUrl
  <2> DEFINE c == ConnectHost(endpoint)
  <2>1. /\ resolve = [host |-> HostFromUrl(url), port |-> PortFromUrl(url), address |-> c]
        /\ HostFromUrl(url) # c /\ Range(c) \cap {":", "/"} = {}
    BY DEF CurlInv, ResolveInv, Override, NeedsOverride, Resolvable
  <2>2. PICK path \in Paths : url = Url(endpoint, Project, path)
    BY DEF CurlInv, ResolveInv
  <2>3. /\ endpoint \in Seq(Word) /\ Project \in Word \ {":", "/"}
        /\ path \in Seq(Word) /\ path[1] = "/"
    BY CurlAssumption DEF CurlInv, ResolveInv, Word
  <2>4. /\ Authority(url) = ProjectHost(endpoint, Project)
        /\ HostFromUrl(url) = ProjectHost(endpoint, Project)
        /\ PortFromUrl(url) = IF SchemeOf(endpoint) = "https" THEN <<"443">> ELSE <<"80">>
    BY <2>1, <2>2, <2>3, AuthorityRead
  <2>5. IsPrefix(Scheme("https"), url) <=> SchemeOf(endpoint) = "https"
    BY <2>2, <2>3, UrlIs
  <2>6. ProjectHost(endpoint, Project) = <<Project, ".">> \o c
    BY <2>1, <2>4 DEF ProjectHost
  <2> HIDE DEF c
  <2> QED
    BY <2>1, <2>4, <2>5, <2>6 DEF OverrideMatchesUrl
<1> QED
  BY <1>1, CurlInvariant, PTL

=============================================================================
