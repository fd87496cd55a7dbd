------------------------------ MODULE SlsPlugin ------------------------------
(***************************************************************************)
(* The life of one output instance (fluent_bit_out_aliyun_sls_plugin.c):   *)
(* cb_sls_init, which acquires an upstream, a context, three strings and a *)
(* client one after the other, and cb_sls_exit, which gives them back. The *)
(* client is made by aliyun_sls_client_create (sls_c_api.cpp) of a shell,  *)
(* the transport bridge and the C++ client, whose constructor throws for a *)
(* configuration that lacks a value.                                       *)
(*                                                                         *)
(* Every acquisition may fail. The engine calls exit after a successful    *)
(* init with the context, after a failed one with NULL.                    *)
(***************************************************************************)
EXTENDS SlsEndpoint

CONSTANTS
  Config  \* the configurations: [endpoint, project, complete, optional, port, tls]

Strings == {"topic", "source", "hash_key"}

\* An endpoint that is not configured.
NoEndpoint == <<>>

\* A port that is not configured; ports are their decimal digits.
NoPort == "0"

\* `complete`: project, logstore and both access keys are configured;
\* `optional`: which of the three strings are. A project's name is one word.
ASSUME PluginAssumption ==
  Config \subseteq [endpoint : Seq(STRING), project : STRING \ {":", "/"}, complete : BOOLEAN,
                    optional : SUBSET Strings, port : STRING, tls : BOOLEAN]

VARIABLES
  config,   \* the instance's section of the configuration
  pc,       \* the next acquisition of init, or where init and exit ended
  owned,    \* owned[b] : how many times block b is held
  context,  \* what the engine was left with: the context or NULL
  exiting,  \* the blocks exit has yet to look at, in its order
  peer      \* the host and port the upstream connects to

vars == <<config, pc, owned, context, exiting, peer>>

Client == {"shell", "bridge", "impl"}
Block == {"upstream", "ctx"} \cup Client \cup Strings

Nobody == [host |-> <<>>, port |-> NoPort]

Init ==
  /\ config \in Config
  /\ pc = "config"
  /\ owned = [b \in Block |-> 0]
  /\ context = "NULL"
  /\ exiting = <<>>
  /\ peer = Nobody

Held == {b \in Block : owned[b] # 0}

Acquire(blocks) == owned' = [b \in Block |-> owned[b] + (IF b \in blocks THEN 1 ELSE 0)]
Release(blocks) == owned' = [b \in Block |-> owned[b] - (IF b \in blocks THEN 1 ELSE 0)]

Goto(label) == pc' = label /\ UNCHANGED config

-----------------------------------------------------------------------------
(* cb_sls_init.                                                            *)

\* The properties cannot be loaded, or there is no endpoint.
LoadConfigFails ==
  /\ pc = "config"
  /\ Goto("failed")
  /\ UNCHANGED <<owned, context, exiting, peer>>

LoadConfig ==
  /\ pc = "config"
  /\ config.endpoint # NoEndpoint
  /\ Goto("upstream")
  /\ UNCHANGED <<owned, context, exiting, peer>>

ConnectPort ==
  IF config.port # NoPort THEN config.port ELSE IF config.tls THEN "443" ELSE "80"

CreateUpstream ==
  /\ pc = "upstream"
  /\ \/ /\ Acquire({"upstream"})
        /\ peer' = [host |-> PluginHost(config.endpoint), port |-> ConnectPort]
        /\ Goto("ctx")
     \/ Goto("failed") /\ UNCHANGED <<owned, peer>>
  /\ UNCHANGED <<context, exiting>>

\* calloc
CreateContext ==
  /\ pc = "ctx"
  /\ \/ Acquire({"ctx"}) /\ Goto("strings")
     \/ Release({"upstream"}) /\ Goto("failed")
  /\ UNCHANGED <<context, exiting, peer>>

\* A string that cannot be allocated is NULL, as one that is not configured.
CopyStrings ==
  /\ pc = "strings"
  /\ \E copied \in SUBSET config.optional : Acquire(copied)
  /\ Goto("client")
  /\ UNCHANGED <<context, exiting, peer>>

\* validateConfig
Valid == config.complete

\* Mutants of AfterClientFailure: the upstream is forgotten; a client that is not
\* there is destroyed too.
ContextOnly == {"ctx"}
ShellToo == {"upstream", "ctx", "shell"}

\* What init destroys when it gets no client.
AfterClientFailure == {"upstream", "ctx"}

CreateClient ==
  /\ pc = "client"
  /\ Valid
  /\ Acquire(Client)
  /\ Goto("metrics")
  /\ UNCHANGED <<context, exiting, peer>>

\* aliyun_sls_client_create caught an exception and returned NULL: from a copy or
\* `new` of the shell, or from the bridge, the client's allocation or its
\* constructor, which unwind to everything but the shell.
CreateClientThrows ==
  /\ pc = "client"
  /\ \E shell \in {{}, {"shell"}} :
       owned' = [b \in Block |-> owned[b] + (IF b \in shell THEN 1 ELSE 0)
                                          - (IF b \in AfterClientFailure THEN 1 ELSE 0)]
  /\ Goto("failed")
  /\ UNCHANGED <<context, exiting, peer>>

\* cmetrics owns the counters; one that could not be created is skipped at its use.
CreateMetrics ==
  /\ pc = "metrics"
  /\ context' = "ctx"
  /\ Goto("ready")
  /\ UNCHANGED <<owned, exiting, peer>>

-----------------------------------------------------------------------------
(* cb_sls_exit.                                                            *)

\* Mutants of ExitOrder: the source is forgotten; the context goes first.
ExitForgets == <<Client, {"upstream"}, {"topic"}, {"hash_key"}, {"ctx"}>>
ExitContextFirst == <<{"ctx"}, Client, {"upstream"}, {"topic"}, {"source"}, {"hash_key"}>>

\* What exit destroys, each where the context's pointer is not NULL; deleting the
\* shell deletes the client and with it the bridge.
ExitOrder == <<Client, {"upstream"}, {"topic"}, {"source"}, {"hash_key"}, {"ctx"}>>

\* A failed init left no context with the engine.
Exit ==
  /\ pc \in {"ready", "failed"}
  /\ IF context = "NULL"
     THEN Goto("exited") /\ UNCHANGED exiting
     ELSE Goto("exiting") /\ exiting' = ExitOrder
  /\ UNCHANGED <<owned, context, peer>>

ExitDestroy ==
  /\ pc = "exiting"
  /\ exiting # <<>>
  /\ Release(Head(exiting) \cap Held)
  /\ exiting' = Tail(exiting)
  /\ Goto(IF exiting' = <<>> THEN "exited" ELSE "exiting")
  /\ UNCHANGED <<context, peer>>

Next ==
  \/ LoadConfigFails \/ LoadConfig
  \/ CreateUpstream \/ CreateContext \/ CopyStrings
  \/ CreateClient \/ CreateClientThrows \/ CreateMetrics
  \/ Exit \/ ExitDestroy

Spec == Init /\ [][Next]_vars

-----------------------------------------------------------------------------

\* The types of the variables; every block is held once or not at all, and the
\* upstream's port is one a configuration names or a default.
TypeOK ==
  /\ config \in Config
  /\ pc \in {"config", "upstream", "ctx", "strings", "client", "metrics", "ready", "failed",
             "exiting", "exited"}
  /\ owned \in [Block -> {0, 1}]
  /\ context \in {"NULL", "ctx"}
  /\ peer.port \in {c.port : c \in Config} \cup {NoPort, "443", "80"}

\* An instance that came up leaves nothing behind, whichever of its strings are
\* configured or could be allocated.
ExitReleasesAll == pc = "exited" /\ context = "ctx" => Held = {}

\* Nothing outlives what it points to: the bridge calls back with the context
\* and over its upstream, so it goes first, in init's error paths as in exit.
BridgeHasContext == "bridge" \in Held => {"ctx", "upstream"} \subseteq Held

\* What an init that failed leaves allocated: nothing, unless it was the client
\* that could not be created; then the shell and the three strings at most.
FailedInitLeaves ==
  pc = "failed" => Held = {} \/ (peer # Nobody /\ Held \subseteq Strings \cup {"shell"})

\* What an instance has taken is given back, by exit or by the init that failed, but for
\* the blocks that are lost with the client's failure.
InstanceReleased == ExitReleasesAll /\ FailedInitLeaves

\* An instance that came up, of a configuration whose endpoint names a host.
Connected == pc = "ready" /\ peer.host # <<>>

\* The path of a PutLogs request, by its first word.
PutPath == <<"/", "logstores">>

\* The host the client sends and signs for (the Host header) is the one the plugin
\* connects to, behind the project once, with the port and the path the endpoint has;
\* the host curl takes from the client's URL is the same one without them.
HostsAgree ==
  Connected =>
    LET host == WithProject(config.project, peer.host)
    IN  /\ ProjectHost(config.endpoint, config.project) = host \o Rest(config.endpoint)
        /\ HostFromUrl(Url(config.endpoint, config.project, PutPath)) = host

\* Where both transports should come to one port: the plugin goes by `port` and `tls`
\* and never reads an endpoint's port, curl goes by the endpoint alone.
SamePort ==
  IF config.port = NoPort
  THEN ~NamesPort(config.endpoint) /\ config.tls = (SchemeOf(config.endpoint) = "https")
  ELSE <<config.port>> = EndpointPort(config.endpoint)

\* curl takes the endpoint's port from the client's URL, whatever else is in it; and
\* the plugin connects to the same one if `port` repeats it, or if there is none in
\* either and `tls` is what the scheme says.
PortsAgree ==
  Connected =>
    LET port == PortFromUrl(Url(config.endpoint, config.project, PutPath))
    IN  /\ port = EndpointPort(config.endpoint)
        /\ SamePort => port = <<peer.port>>

\* Plugin, client and curl read the endpoint alike.
EndpointsAgree == HostsAgree /\ PortsAgree

=============================================================================
