--------------------------- MODULE SlsPluginProofs ---------------------------
(***************************************************************************)
(* Proofs about SlsPlugin, for every set of configurations: what init and  *)
(* exit hold at each of their steps, and what the readers of the endpoint  *)
(* make of it.                                                             *)
(***************************************************************************)
EXTENDS SlsPlugin, SlsLemmas

\* Exit has destroyed the first k entries of its order.
Left(k) ==
  CASE k = 0 -> <<Client, {"upstream"}, {"topic"}, {"source"}, {"hash_key"}, {"ctx"}>>
    [] k = 1 -> <<{"upstream"}, {"topic"}, {"source"}, {"hash_key"}, {"ctx"}>>
    [] k = 2 -> <<{"topic"}, {"source"}, {"hash_key"}, {"ctx"}>>
    [] k = 3 -> <<{"source"}, {"hash_key"}, {"ctx"}>>
    [] k = 4 -> <<{"hash_key"}, {"ctx"}>>
    [] k = 5 -> <<{"ctx"}>>

\* What may still be held then.
MayHold(k) ==
  CASE k = 0 -> Block
    [] k = 1 -> Block \ Client
    [] k = 2 -> {"topic", "source", "hash_key", "ctx"}
    [] k = 3 -> {"source", "hash_key", "ctx"}
    [] k = 4 -> {"hash_key", "ctx"}
    [] k = 5 -> {"ctx"}

Types ==
  /\ config \in Config
  /\ owned \in [Block -> {0, 1}]
  /\ peer.port \in {c.port : c \in Config} \cup {NoPort, "443", "80"}
  /\ pc \in {"config", "upstream", "ctx", "strings", "client", "metrics", "ready", "failed",
             "exiting", "exited"}

\* What is held where, in init.
InitHolds ==
  /\ pc \in {"config", "upstream"} => Held = {}
  /\ pc = "ctx" => Held = {"upstream"}
  /\ pc = "strings" => Held = {"upstream", "ctx"}
  /\ pc = "client" => {"upstream", "ctx"} \subseteq Held /\ Held \subseteq {"upstream", "ctx"} \cup Strings
  /\ pc \in {"metrics", "ready"} => {"upstream", "ctx"} \subseteq Held
  /\ pc = "failed" \/ (pc = "exited" /\ context = "NULL") =>
       Held = {} \/ (peer # Nobody /\ Held \subseteq Strings \cup {"shell"})
  /\ pc \in {"ctx", "strings", "client"} => peer # Nobody

\* The engine has the context from the end of init on, if init came that far.
ContextKnown ==
  /\ pc \in {"config", "upstream", "ctx", "strings", "client", "metrics", "failed"} => context = "NULL"
  /\ pc \in {"ready", "exiting"} => context = "ctx"
  /\ context \in {"NULL", "ctx"}

\* What is held where, in exit.
ExitHolds ==
  /\ pc = "exiting" =>
       \E k \in 0 .. 5 : exiting = Left(k) /\ Held \subseteq MayHold(k)
                         /\ (k = 0 => {"upstream", "ctx"} \subseteq Held)
  /\ pc = "exited" /\ context = "ctx" => Held = {}

IInv == Types /\ InitHolds /\ ContextKnown /\ ExitHolds

\* Acquiring blocks that are not held adds them to what is held.
LEMMA Acquiring ==
  ASSUME owned \in [Block -> {0, 1}], NEW blocks \in SUBSET Block, blocks \cap Held = {},
         Acquire(blocks)
  PROVE  owned' \in [Block -> {0, 1}] /\ Held' = Held \cup blocks
BY DEF Acquire, Held

\* Releasing blocks that are held takes them away.
LEMMA Releasing ==
  ASSUME owned \in [Block -> {0, 1}], NEW blocks \in SUBSET Held, Release(blocks)
  PROVE  owned' \in [Block -> {0, 1}] /\ Held' = Held \ blocks
BY DEF Release, Held

\* The inductive invariant holds in the initial states.
LEMMA InitInv == Init => IInv
BY DEF Init, IInv, Types, InitHolds, ContextKnown, ExitHolds, Held, Nobody

\* Exit takes the next entry of its order.
LEMMA ExitAdvances ==
  ASSUME NEW k \in 0 .. 5
  PROVE  /\ Left(k) # <<>>
         /\ k < 5 => Tail(Left(k)) = Left(k + 1)
         /\ k = 5 => Tail(Left(k)) = <<>>
         /\ Head(Left(k)) \subseteq Block
         /\ k < 5 => MayHold(k) \ Head(Left(k)) \subseteq MayHold(k + 1)
         /\ k = 5 => MayHold(k) \ Head(Left(k)) = {}
<1>1. CASE k = 0
  BY <1>1 DEF Left, MayHold, Block, Client, Strings
<1>2. CASE k = 1
  BY <1>2 DEF Left, MayHold, Block, Client, Strings
<1>3. CASE k = 2
  BY <1>3 DEF Left, MayHold, Block, Client, Strings
<1>4. CASE k = 3
  BY <1>4 DEF Left, MayHold, Block, Client, Strings
<1>5. CASE k = 4
  BY <1>5 DEF Left, MayHold, Block, Client, Strings
<1>6. CASE k = 5
  BY <1>6 DEF Left, MayHold, Block, Client, Strings
<1> QED
  BY <1>1, <1>2, <1>3, <1>4, <1>5, <1>6

\* Every step keeps the inductive invariant.
LEMMA NextInv == IInv /\ [Next]_vars => IInv'
<1> SUFFICES ASSUME IInv, [Next]_vars PROVE IInv'
  OBVIOUS
<1>o. owned \in [Block -> {0, 1}]
  BY DEF IInv, Types
<1>c. config \in Config /\ peer.port \in {c.port : c \in Config} \cup {NoPort, "443", "80"}
  BY DEF IInv, Types
<1>same. owned' = owned => Held' = Held
  BY DEF Held
<1> USE DEF Goto
<1>1. CASE LoadConfigFails \/ LoadConfig
  BY <1>1, <1>same DEF LoadConfigFails, LoadConfig, IInv, Types, InitHolds, ContextKnown, ExitHolds
<1>2. CASE CreateUpstream
  <2>1. pc = "upstream" /\ Held = {} /\ context = "NULL" /\ context' = "NULL" /\ config' = config
    BY <1>2 DEF CreateUpstream, IInv, InitHolds, ContextKnown
  <2>2. CASE pc' = "failed" /\ UNCHANGED <<owned, peer>>
    BY <2>1, <2>2, <1>same, <1>o, <1>c DEF IInv, Types, InitHolds, ContextKnown, ExitHolds
  <2>3. CASE /\ Acquire({"upstream"}) /\ pc' = "ctx"
             /\ peer' = [host |-> PluginHost(config.endpoint), port |-> ConnectPort]
    <3>1. owned' \in [Block -> {0, 1}] /\ Held' = {"upstream"}
      BY <2>1, <2>3, <1>o, Acquiring DEF Block
    <3>2. /\ ConnectPort # NoPort
          /\ ConnectPort \in {c.port : c \in Config} \cup {NoPort, "443", "80"}
      BY <1>c DEF ConnectPort, NoPort
    <3>3. /\ peer'.port \in {c.port : c \in Config} \cup {NoPort, "443", "80"}
          /\ peer' # Nobody
      BY <2>3, <3>2 DEF Nobody
    <3> QED
      BY <2>1, <2>3, <3>1, <3>3, <1>c DEF IInv, Types, InitHolds, ContextKnown, ExitHolds
  <2> QED
    BY <1>2, <2>2, <2>3 DEF CreateUpstream
<1>3. CASE CreateContext
  <2>1. pc = "ctx" /\ Held = {"upstream"} /\ context = "NULL" /\ peer # Nobody
        /\ UNCHANGED <<config, context, exiting, peer>>
    BY <1>3 DEF CreateContext, IInv, InitHolds, ContextKnown
  <2>2. CASE Acquire({"ctx"}) /\ pc' = "strings"
    <3>1. owned' \in [Block -> {0, 1}] /\ Held' = {"upstream", "ctx"}
      BY <2>1, <2>2, <1>o, Acquiring DEF Block
    <3> QED
      BY <2>1, <2>2, <3>1, <1>c DEF IInv, Types, InitHolds, ContextKnown, ExitHolds
  <2>3. CASE Release({"upstream"}) /\ pc' = "failed"
    <3>1. owned' \in [Block -> {0, 1}] /\ Held' = {}
      BY <2>1, <2>3, <1>o, Releasing
    <3> QED
      BY <2>1, <2>3, <3>1, <1>c DEF IInv, Types, InitHolds, ContextKnown, ExitHolds
  <2> QED
    BY <1>3, <2>2, <2>3 DEF CreateContext
<1>4. CASE CopyStrings
  <2>1. pc = "strings" /\ pc' = "client" /\ Held = {"upstream", "ctx"} /\ context = "NULL"
        /\ peer # Nobody /\ UNCHANGED <<config, context, exiting, peer>>
    BY <1>4 DEF CopyStrings, IInv, InitHolds, ContextKnown
  <2>2. PICK copied \in SUBSET config.optional : Acquire(copied)
    BY <1>4 DEF CopyStrings
  <2>3. copied \subseteq Strings
    BY <2>2, <1>c, PluginAssumption
  <2>4. owned' \in [Block -> {0, 1}] /\ Held' = {"upstream", "ctx"} \cup copied
    BY <2>1, <2>2, <2>3, <1>o, Acquiring DEF Block, Strings
  <2> QED
    BY <2>1, <2>3, <2>4, <1>c DEF IInv, Types, InitHolds, ContextKnown, ExitHolds
<1>5. CASE CreateClient
  <2>1. pc = "client" /\ pc' = "metrics" /\ {"upstream", "ctx"} \subseteq Held
        /\ Held \subseteq {"upstream", "ctx"} \cup Strings /\ context = "NULL"
        /\ UNCHANGED <<config, context, exiting, peer>> /\ Acquire(Client)
    BY <1>5 DEF CreateClient, IInv, InitHolds, ContextKnown
  <2>2. owned' \in [Block -> {0, 1}] /\ Held' = Held \cup Client
    BY <2>1, <1>o, Acquiring DEF Block, Client, Strings
  <2> QED
    BY <2>1, <2>2, <1>c DEF IInv, Types, InitHolds, ContextKnown, ExitHolds
<1>6. CASE CreateClientThrows
  <2>1. pc = "client" /\ pc' = "failed" /\ {"upstream", "ctx"} \subseteq Held
        /\ Held \subseteq {"upstream", "ctx"} \cup Strings /\ context = "NULL" /\ peer # Nobody
        /\ UNCHANGED <<config, context, exiting, peer>>
    BY <1>6 DEF CreateClientThrows, IInv, InitHolds, ContextKnown
  <2>2. PICK shell \in {{}, {"shell"}} :
          owned' = [b \in Block |-> owned[b] + (IF b \in shell THEN 1 ELSE 0)
                                             - (IF b \in {"upstream", "ctx"} THEN 1 ELSE 0)]
    BY <1>6 DEF CreateClientThrows, AfterClientFailure
  <2>3. \A b \in Block : /\ b \in shell => owned[b] = 0 /\ b \notin {"upstream", "ctx"}
                         /\ b \in {"upstream", "ctx"} => owned[b] = 1
                         /\ owned[b] \in {0, 1}
    BY <2>1, <1>o DEF Held, Block, Client, Strings
  <2>4. owned' \in [Block -> {0, 1}]
    BY <2>2, <2>3
  <2>5. Held' \subseteq Strings \cup {"shell"}
    BY <2>1, <2>2, <2>3 DEF Held
  <2> QED
    BY <2>1, <2>4, <2>5, <1>c DEF IInv, Types, InitHolds, ContextKnown, ExitHolds
<1>7. CASE CreateMetrics
  BY <1>7, <1>same DEF CreateMetrics, IInv, Types, InitHolds, ContextKnown, ExitHolds
<1>8. CASE Exit
  <2>1. pc \in {"ready", "failed"} /\ UNCHANGED <<config, owned, context, peer>> /\ Held' = Held
    BY <1>8, <1>same DEF Exit
  <2>2. CASE context = "NULL"
    <3>1. pc = "failed" /\ pc' = "exited"
      BY <1>8, <2>1, <2>2 DEF Exit, IInv, ContextKnown
    <3> QED
      BY <2>1, <2>2, <3>1, <1>c, <1>o DEF IInv, Types, InitHolds, ContextKnown, ExitHolds
  <2>3. CASE context # "NULL"
    <3>1. pc = "ready" /\ context = "ctx" /\ pc' = "exiting" /\ exiting' = ExitOrder
      BY <1>8, <2>1, <2>3 DEF Exit, IInv, ContextKnown
    <3>2. {"upstream", "ctx"} \subseteq Held /\ Held \subseteq Block
      BY <3>1 DEF IInv, InitHolds, Held
    <3>3. exiting' = Left(0) /\ Held' \subseteq MayHold(0)
      BY <2>1, <3>1, <3>2 DEF ExitOrder, Left, MayHold
    <3>4. ExitHolds'
      BY <2>1, <3>1, <3>2, <3>3 DEF ExitHolds
    <3> QED
      BY <2>1, <3>1, <3>4, <1>c, <1>o DEF IInv, Types, InitHolds, ContextKnown
  <2> QED
    BY <2>2, <2>3
<1>9. CASE ExitDestroy
  <2>1. pc = "exiting" /\ context = "ctx" /\ UNCHANGED <<config, context, peer>>
        /\ Release(Head(exiting) \cap Held) /\ exiting' = Tail(exiting)
        /\ pc' = IF exiting' = <<>> THEN "exited" ELSE "exiting"
    BY <1>9 DEF ExitDestroy, IInv, ContextKnown
  <2>2. PICK k \in 0 .. 5 : exiting = Left(k) /\ Held \subseteq MayHold(k)
    BY <2>1 DEF IInv, ExitHolds
  <2>3. owned' \in [Block -> {0, 1}] /\ Held' = Held \ Head(exiting)
    BY <2>1, <1>o, Releasing
  <2>4. CASE k < 5
    <3>1. exiting' = Left(k + 1) /\ k + 1 \in 0 .. 5 /\ k + 1 # 0
      <4>1. Tail(Left(k)) = Left(k + 1)
        BY <2>4, ExitAdvances
      <4>2. exiting' = Left(k + 1)
        BY <2>1, <2>2, <4>1
      <4> QED
        BY <4>2, <2>4
    <3>2. exiting' # <<>> /\ pc' = "exiting"
      BY <2>1, <3>1, ExitAdvances
    <3>3. Held' \subseteq MayHold(k + 1)
      BY <2>2, <2>3, <2>4, ExitAdvances
    <3>4. ExitHolds'
      BY <3>1, <3>2, <3>3 DEF ExitHolds
    <3> QED
      BY <2>1, <2>3, <3>2, <3>4, <1>c DEF IInv, Types, InitHolds, ContextKnown
  <2>5. CASE k = 5
    <3>1. pc' = "exited" /\ Held' = {}
      BY <2>1, <2>2, <2>3, <2>5, ExitAdvances
    <3> QED
      BY <2>1, <2>3, <3>1, <1>c DEF IInv, Types, InitHolds, ContextKnown, ExitHolds
  <2> QED
    BY <2>4, <2>5
<1>10. CASE UNCHANGED vars
  BY <1>10, <1>same DEF vars, IInv, Types, InitHolds, ContextKnown, ExitHolds
<1> QED
  BY <1>1, <1>2, <1>3, <1>4, <1>5, <1>6, <1>7, <1>8, <1>9, <1>10 DEF Next

\* The inductive invariant is an invariant of the plugin's life.
THEOREM Invariance == Spec => []IInv
BY InitInv, NextInv, PTL DEF Spec

-----------------------------------------------------------------------------

\* The variables keep their types: no block is ever held twice or released
\* without being held.
THEOREM PluginTypeCorrect == Spec => []TypeOK
<1>1. IInv => TypeOK
  BY DEF IInv, Types, ContextKnown, TypeOK
<1> QED
  BY <1>1, Invariance, PTL

\* cb_sls_exit leaves nothing of an instance that came up.
THEOREM ExitComplete == Spec => []ExitReleasesAll
<1>1. IInv => ExitReleasesAll
  BY DEF IInv, ExitHolds, ExitReleasesAll
<1> QED
  BY <1>1, Invariance, PTL

\* The bridge never outlives the context and the upstream it calls back with.
THEOREM BridgeBacked == Spec => []BridgeHasContext
<1>1. IInv => BridgeHasContext
  <2> SUFFICES ASSUME IInv, "bridge" \in Held PROVE {"ctx", "upstream"} \subseteq Held
    BY DEF BridgeHasContext
  <2>1. CASE pc \in {"metrics", "ready"}
    BY <2>1 DEF IInv, InitHolds
  <2>2. CASE pc = "exiting"
    <3>1. PICK k \in 0 .. 5 : Held \subseteq MayHold(k) /\ (k = 0 => {"upstream", "ctx"} \subseteq Held)
      BY <2>2 DEF IInv, ExitHolds
    <3>2. k # 0 => "bridge" \notin MayHold(k)
      BY DEF MayHold, Block, Client, Strings
    <3> QED
      BY <3>1, <3>2
  <2>3. CASE pc \notin {"metrics", "ready", "exiting"}
    BY <2>3 DEF IInv, Types, InitHolds, ContextKnown, ExitHolds, Strings
  <2> QED
    BY <2>1, <2>2, <2>3
<1> QED
  BY <1>1, Invariance, PTL

\* What cb_sls_init leaves allocated when it fails.
THEOREM FailureBounded == Spec => []FailedInitLeaves
<1>1. IInv => FailedInitLeaves
  BY DEF IInv, InitHolds, FailedInitLeaves
<1> QED
  BY <1>1, Invariance, PTL

\* Whatever an instance has taken is given back, by cb_sls_exit or by the cb_sls_init
\* that failed, but for the three strings and the shell when the client failed.
THEOREM InstanceReleases == Spec => []InstanceReleased
<1>1. ExitReleasesAll /\ FailedInitLeaves => InstanceReleased
  BY DEF InstanceReleased
<1> QED
  BY <1>1, ExitComplete, FailureBounded, PTL

-----------------------------------------------------------------------------
(* The endpoint.                                                           *)

\* What init connected to.
PeerInv ==
  /\ config \in Config
  /\ pc \in {"ctx", "strings", "client", "metrics", "ready"} =>
       peer = [host |-> PluginHost(config.endpoint), port |-> ConnectPort]

LEMMA PeerStep == PeerInv /\ [Next]_vars => PeerInv'
<1> SUFFICES ASSUME PeerInv, [Next]_vars PROVE PeerInv'
  OBVIOUS
<1>1. config' = config
  BY DEF Next, vars, Goto, LoadConfigFails, LoadConfig, CreateUpstream, CreateContext, CopyStrings,
         CreateClient, CreateClientThrows, CreateMetrics, Exit, ExitDestroy
<1>2. ConnectPort' = ConnectPort
  BY <1>1 DEF ConnectPort
<1>3. CASE CreateUpstream
  BY <1>1, <1>2, <1>3 DEF CreateUpstream, Goto, PeerInv
<1>4. CASE ~CreateUpstream
  <2>1. /\ peer' = peer
        /\ pc' \in {"ctx", "strings", "client", "metrics", "ready"} =>
             pc \in {"ctx", "strings", "client", "metrics", "ready"}
    BY <1>4 DEF Next, vars, Goto, LoadConfigFails, LoadConfig, CreateContext, CopyStrings,
                CreateClient, CreateClientThrows, CreateMetrics, Exit, ExitDestroy
  <2> QED
    BY <1>1, <1>2, <2>1 DEF PeerInv
<1> QED
  BY <1>3, <1>4

\* For every endpoint that names a host, whatever its scheme, port, path or project
\* prefix: the Host header is the host the plugin connects to behind the project, with
\* the endpoint's port and path; curl takes that host and the endpoint's port from the
\* URL; and where `port` and `tls` say what the endpoint says, the plugin's port is the
\* same.
THEOREM EndpointsReadAlike == Spec => []EndpointsAgree
<1>1. Init => PeerInv
  BY DEF Init, PeerInv
<1>2. PeerInv => EndpointsAgree
  <2> SUFFICES ASSUME PeerInv, Connected PROVE EndpointsAgree
    BY DEF EndpointsAgree, HostsAgree, PortsAgree
  <2> DEFINE e == config.endpoint
             project == config.project
  <2>1. e \in Seq(Word) /\ project \in Word \ {":", "/"} /\ config.tls \in BOOLEAN
    BY PluginAssumption DEF PeerInv, Word
  <2>2. peer.host = PluginHost(e) /\ PluginHost(e) # <<>> /\ peer.port = ConnectPort
    BY DEF PeerInv, Connected
  <2>3. PutPath \in Seq(Word) /\ PutPath # <<>> /\ PutPath[1] = "/"
    <3>1. "/" \in Word /\ "logstores" \in Word
      BY DEF Word
    <3> QED
      BY <3>1 DEF PutPath
  <2>4. HostsAgree
    <3>1. ProjectHost(e, project) = WithProject(project, PluginHost(e)) \o Rest(e)
      BY <2>1, <2>2, HeaderIs, Zenon
    <3>2. HostFromUrl(Url(e, project, PutPath)) = WithProject(project, PluginHost(e))
      BY <2>1, <2>2, <2>3, HostRead
    <3> QED
      BY <2>2, <3>1, <3>2, Zenon DEF HostsAgree
  <2>5. PortsAgree
    <3>1. PortFromUrl(Url(e, project, PutPath)) = EndpointPort(e)
      BY <2>1, <2>2, <2>3, PortRead
    <3>2. ASSUME SamePort PROVE EndpointPort(e) = <<peer.port>>
      <4>1. CASE config.port = NoPort /\ config.tls
        <5>1. ~NamesPort(e) /\ SchemeOf(e) = "https"
          BY <3>2, <4>1 DEF SamePort
        <5> QED
          BY <2>2, <4>1, <5>1 DEF ConnectPort, EndpointPort
      <4>2. CASE config.port = NoPort /\ ~config.tls
        <5>1. ~NamesPort(e) /\ SchemeOf(e) # "https"
          BY <3>2, <4>2 DEF SamePort
        <5> QED
          BY <2>2, <4>2, <5>1 DEF ConnectPort, EndpointPort
      <4>3. CASE config.port # NoPort
        BY <2>2, <3>2, <4>3 DEF SamePort, ConnectPort
      <4> QED
        BY <2>1, <4>1, <4>2, <4>3
    <3> QED
      BY <3>1, <3>2 DEF PortsAgree
  <2> QED
    BY <2>4, <2>5 DEF EndpointsAgree
<1> QED
  BY <1>1, <1>2, PeerStep, PTL DEF Spec

=============================================================================
