------------------------------- MODULE SlsCurl -------------------------------
(***************************************************************************)
(* The standalone client's transport (sls_http.cpp): CurlTransport::send.  *)
(* The URL names the project's host, which need not resolve; the request   *)
(* is sent to the address of the endpoint by an override that tells curl   *)
(* where the URL's host and port are.                                      *)
(*                                                                         *)
(* Headers are numbers in the order of the request's map. A failed append  *)
(* to a curl list returns NULL, which is then the list: what was in it is  *)
(* gone, and its nodes with it. A std::bad_alloc on the way leaves the curl *)
(* handle and the lists behind.                                            *)
(***************************************************************************)
EXTENDS SlsEndpoint

CONSTANTS
  Endpoint,     \* configured endpoints
  Project,      \* the project
  Paths,        \* request paths
  HeaderCount,  \* headers of a request
  MaxFaults     \* bound: failed allocations

ASSUME CurlAssumption ==
  /\ Endpoint \subseteq Seq(STRING)
  /\ Project \in STRING \ {":", "/"}
  /\ \A path \in Paths : path \in Seq(STRING) /\ path # <<>> /\ path[1] = "/"
  /\ HeaderCount \in Nat /\ MaxFaults \in Nat

VARIABLES
  endpoint, url,  \* the configured endpoint and the request's URL
  pc,             \* the next library call
  next,           \* the header the loop is at
  header_list,    \* the headers in the list
  resolve,        \* the override in resolve_list, None without one
  held,           \* what is allocated: the handle and the nodes of the lists
  sent,           \* the headers the request was written with
  outcome,        \* how the call ended: an answer of any status, or an exception
  faults          \* ghost: failed allocations

request == <<endpoint, url>>
lists == <<next, header_list, resolve>>
vars == <<request, pc, lists, held, sent, outcome, faults>>

None == [host |-> <<>>, port |-> <<>>, address |-> <<>>]
NotSent == <<0>>

Header(i) == <<"header", i>>
HeaderNodes == {Header(i) : i \in 1 .. HeaderCount}

Init ==
  /\ endpoint \in Endpoint
  /\ \E path \in Paths : url = Url(endpoint, Project, path)
  /\ pc = "init"
  /\ next = 1
  /\ header_list = <<>>
  /\ resolve = None
  /\ held = {}
  /\ sent = NotSent
  /\ outcome = "none"
  /\ faults = 0

Fault == faults < MaxFaults /\ faults' = faults + 1

Return(result) == pc' = "returned" /\ outcome' = result

\* curl_easy_init; its failure is a std::runtime_error.
InitCurl ==
  /\ pc = "init"
  /\ \/ pc' = "headers" /\ held' = {<<"curl">>} /\ UNCHANGED <<outcome, faults>>
     \/ Fault /\ Return("runtime_error") /\ UNCHANGED held
  /\ UNCHANGED <<request, lists, sent>>

\* std::bad_alloc from one of the strings on the way.
Throw ==
  /\ pc \in {"headers", "resolve"}
  /\ Fault
  /\ Return("bad_alloc")
  /\ UNCHANGED <<request, lists, held, sent>>

-----------------------------------------------------------------------------
(* The lists.                                                              *)

\* Mutant of Appended: the header goes to the front.
Prepended(list, header) == <<header>> \o list

Appended(list, header) == Append(list, header)

AppendHeader ==
  /\ pc = "headers" /\ next <= HeaderCount
  /\ next' = next + 1
  /\ \/ header_list' = Appended(header_list, next) /\ held' = held \cup {Header(next)}
        /\ UNCHANGED faults
     \/ Fault /\ header_list' = <<>> /\ UNCHANGED held
  /\ UNCHANGED <<request, pc, resolve, sent, outcome>>

HeadersDone ==
  /\ pc = "headers" /\ next > HeaderCount
  /\ pc' = "resolve"
  /\ UNCHANGED <<request, lists, held, sent, outcome, faults>>

\* Whether the URL's host has to be told its address.
NeedsOverride ==
  /\ ConnectHost(endpoint) # <<>> /\ HostFromUrl(url) # <<>>
  /\ HostFromUrl(url) # ConnectHost(endpoint)

\* Mutant of Override: for the host of the endpoint, which needs none.
OverrideForEndpoint(address) ==
  [host |-> ConnectHost(endpoint), port |-> PortFromUrl(url), address |-> address]

Override(address) ==
  [host |-> HostFromUrl(url), port |-> PortFromUrl(url), address |-> address]

\* getaddrinfo takes a host name, not a port or a path.
Resolvable(host) == Range(host) \cap {":", "/"} = {}

\* Without an address, or if it cannot be appended, curl looks the host up itself.
AddOverride ==
  /\ pc = "resolve"
  /\ NeedsOverride /\ Resolvable(ConnectHost(endpoint))
  /\ \/ resolve' = Override(ConnectHost(endpoint)) /\ held' = held \cup {<<"resolve">>}
        /\ UNCHANGED faults
     \/ Fault /\ UNCHANGED <<resolve, held>>
  /\ pc' = "perform"
  /\ UNCHANGED <<request, next, header_list, sent, outcome>>

NoOverride ==
  /\ pc = "resolve"
  /\ pc' = "perform"
  /\ UNCHANGED <<request, lists, held, sent, outcome, faults>>

-----------------------------------------------------------------------------
(* curl_easy_perform.                                                      *)

\* The request is written.
Write ==
  /\ pc = "perform"
  /\ sent' = header_list
  /\ pc' = "wait"
  /\ UNCHANGED <<request, lists, held, outcome, faults>>

\* Mutant of FreedAtEnd: as on a path without an override.
FreedWithoutResolve ==
  {<<"curl">>} \cup {Header(i) : i \in Range(header_list)}

\* What is freed after curl_easy_perform, whatever it returned.
FreedAtEnd ==
  {<<"curl">>, <<"resolve">>} \cup {Header(i) : i \in Range(header_list)}

Finish(result) ==
  /\ Return(result)
  /\ held' = held \ FreedAtEnd
  /\ UNCHANGED <<request, lists, sent>>

\* No connection, no answer, or none in time: the options bound the whole call.
\* The exception that says so may itself lack memory.
PerformFails ==
  /\ pc \in {"perform", "wait"}
  /\ \/ Finish("runtime_error") /\ UNCHANGED faults
     \/ Fault /\ Finish("bad_alloc")

\* An answer, whatever its status.
Receive ==
  /\ pc = "wait"
  /\ Finish("response")
  /\ UNCHANGED faults

\* The answer, or the error's text, cannot be copied: std::bad_alloc. Out of
\* writeBody and writeHeader it goes through curl's own frames, which is undefined:
\* the program ends or the exception arrives.
ReceiveThrows ==
  /\ pc \in {"perform", "wait"}
  /\ Fault
  /\ \/ Return("bad_alloc")
     \/ pc = "wait" /\ pc' = "terminated" /\ UNCHANGED outcome
  /\ UNCHANGED <<request, lists, held, sent>>

Next ==
  \/ InitCurl \/ Throw
  \/ AppendHeader \/ HeadersDone
  \/ AddOverride \/ NoOverride
  \/ Write \/ PerformFails \/ Receive \/ ReceiveThrows

Spec == Init /\ [][Next]_vars

-----------------------------------------------------------------------------

\* A call that returned an answer, whatever its status, or threw a std::runtime_error,
\* whatever failed, has freed the handle and both lists: only nodes that a failed
\* append cut off are lost, none without a failed allocation. Of a std::bad_alloc it
\* says nothing: sls_http.cpp has no handler, and the handle and the lists stay.
CurlReleased ==
  pc = "returned" /\ outcome # "bad_alloc" =>
    /\ held \subseteq HeaderNodes \ {Header(i) : i \in Range(header_list)}
    /\ faults = 0 => held = {}

\* The request carries the headers that were added after the last failed append,
\* in order and without a gap: all of them, unless an append failed.
HeadersAreSuffix ==
  sent # NotSent =>
    /\ sent = [i \in DOMAIN sent |-> HeaderCount - Len(sent) + i]
    /\ faults = 0 => Len(sent) = HeaderCount

\* The override is one curl will use: it is for the very host and port curl takes
\* from the URL, and leads to the endpoint.
OverrideMatchesUrl ==
  resolve # None =>
    /\ Authority(url) = resolve.host
    /\ resolve.port = IF IsPrefix(Scheme("https"), url) THEN <<"443">> ELSE <<"80">>
    /\ resolve.host = <<Project, ".">> \o resolve.address

=============================================================================
