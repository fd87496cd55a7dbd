----------------------------- MODULE SlsEndpoint -----------------------------
(***************************************************************************)
(* What becomes of the configured endpoint: the plugin, the client and the *)
(* curl transport each read it with string functions of their own.         *)
(*                                                                         *)
(* A string is a sequence of words: "https", "http", ":", "/", "." and the *)
(* labels and numbers between them.                                        *)
(***************************************************************************)
EXTENDS Integers, SequencesExt

Drop(s, n) == SubSeq(s, n + 1, Len(s))

\* The part of s before the first w, or all of it.
UpTo(s, w) ==
  LET i == SelectInSeq(s, LAMBDA x : x = w)
  IN  IF i = 0 THEN s ELSE SubSeq(s, 1, i - 1)

Scheme(name) == <<name, ":", "/", "/">>

StripScheme(s) ==
  IF IsPrefix(Scheme("https"), s) \/ IsPrefix(Scheme("http"), s) THEN Drop(s, 4) ELSE s

SchemeOf(s) == IF IsPrefix(Scheme("https"), s) THEN "https" ELSE "http"

TrimTrailingSlash(s) == SubSeq(s, 1, SelectLastInSeq(s, LAMBDA x : x # "/"))

\* The host cb_sls_init connects to (it fits the 512 bytes of its buffer).
PluginHost(endpoint) == UpTo(UpTo(StripScheme(endpoint), "/"), ":")

\* buildConnectHost
ConnectHost(endpoint) == StripScheme(TrimTrailingSlash(endpoint))

\* Mutant of ProjectHost: the project is put in front of whatever is there.
ProjectHostTwice(endpoint, project) == <<project, ".">> \o ConnectHost(endpoint)

\* buildHost, which is also the Host header.
ProjectHost(endpoint, project) ==
  IF IsPrefix(<<project, ".">>, ConnectHost(endpoint))
  THEN ConnectHost(endpoint)
  ELSE <<project, ".">> \o ConnectHost(endpoint)

\* buildUrl
Url(endpoint, project, path) ==
  Scheme(SchemeOf(endpoint)) \o ProjectHost(endpoint, project) \o path

Authority(url) == UpTo(StripScheme(url), "/")

HostFromUrl(url) == UpTo(Authority(url), ":")

PortFromUrl(url) ==
  LET explicit == Drop(Authority(url), Len(HostFromUrl(url)) + 1)
  IN  IF ":" \in Range(Authority(url))
      THEN explicit
      ELSE IF SchemeOf(url) = "https" THEN <<"443">> ELSE <<"80">>

-----------------------------------------------------------------------------
(* What an endpoint says.                                                  *)

\* A project's host: the project in front of the service's host, once.
WithProject(project, host) ==
  IF IsPrefix(<<project, ".">>, host) THEN host ELSE <<project, ".">> \o host

\* What an endpoint has behind its host: a port, a path, both or nothing.
Rest(endpoint) == Drop(ConnectHost(endpoint), Len(PluginHost(endpoint)))

NamesPort(endpoint) == Rest(endpoint) # <<>> /\ Head(Rest(endpoint)) = ":"

\* The port an endpoint names, or that of its scheme.
EndpointPort(endpoint) ==
  IF NamesPort(endpoint) THEN UpTo(Tail(Rest(endpoint)), "/")
  ELSE IF SchemeOf(endpoint) = "https" THEN <<"443">> ELSE <<"80">>

=============================================================================
