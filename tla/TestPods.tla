------------------------------ MODULE TestPods -------------------------------
(***************************************************************************)
(* What one instance of a test case asks of the cluster: its tasks render  *)
(* manifests to files, apply the services and the policies of the server,  *)
(* take or create their pods, start the server and look up the address at  *)
(* which the client finds it - in the forward direction and, with the pods *)
(* that are there, in the reverse one.  Every task makes up the name of    *)
(* its pod alone, and files and pods are shared by name.                   *)
(*                                                                         *)
(* The threads and what they measure is TestInstance; what instances leave *)
(* to each other is TestRun.  A name is the tuple of its parts:            *)
(* str_sanitize() doubles the dashes of a node's name, so that the string  *)
(* tells the parts.  Images, labels that nothing selects and the resources *)
(* of SR-IOV pods are left out of the manifests.                           *)
(*                                                                         *)
(* A definition marked "variation" is a faulty form of the definition that *)
(* follows it; no other definition uses it.                                *)
(***************************************************************************)
EXTENDS TestCases, Naturals, Sequences, FiniteSets

CONSTANTS
  Conns,           \* the connections that may be configured
  Index,           \* instance_index
  Environ,         \* $TFT_PRIVILEGED_POD, or None
  TestPrivileged,  \* ConfTest.privileged_pod
  None

Cases == {infos[c] : c \in DOMAIN infos}

TestTypes ==
  {"iperf-tcp", "iperf-udp", "http", "netperf-tcp-stream", "netperf-tcp-rr", "simple"}

(* ConfNodeServer, ConfNodeClient and ConfConnection.  A client has no     *)
(* "persistent", and is_persistent_server is False for it.                 *)
Nodes == [name : STRING, sriov : BOOLEAN, default_network : STRING,
          privileged : BOOLEAN \cup {None}, persistent : BOOLEAN]
Connections == [server : Nodes, client : Nodes, plugins : Seq(STRING),
                nad : BOOLEAN, type : TestTypes]

(* What can be rendered for an instance: see Manifest.                     *)
Port == 5201 + Index
Networks == {"primary", "secondary"} \cup STRING  \* or a node's default_network
Templates == {"pod-secondary-network", "sriov-pod", "pod", "host-pod", "tools-pod"}
Manifests ==
  [template : Templates, node : STRING, port : {Port, None}, args : {<<>>, <<"server">>},
   privileged : BOOLEAN, networks : SUBSET Networks]

ASSUME ConnsAssumption ==
  /\ Conns \subseteq Connections
  /\ \A c \in Conns : ~c.client.persistent
  /\ Index \in Nat
  /\ Environ \in BOOLEAN \cup {None} /\ TestPrivileged \in BOOLEAN
  /\ None \notin BOOLEAN \cup Nat \cup Manifests

VARIABLES
  case, conn,  \* the test case's info and the connection: chosen at first
  leg,         \* "forward" or "reverse"
  pc, cur,     \* main thread: which loop, at which task
  files,       \* manifests by the name of the pod
  pods,        \* the pods, by name
  services,    \* what a service selects and offers, by name
  policies,    \* what the policies on the secondary network admit
  serving,     \* the server processes: where, and started by what
  target       \* the places that the client's address stands for

config == <<case, conn>>
cluster == <<pods, services, policies>>
vars == <<config, leg, pc, cur, files, cluster, serving, target>>

-----------------------------------------------------------------------------
(* TestSettings                                                            *)
ServerNode == IF case.same THEN conn.client ELSE conn.server

ClientNode == conn.client
ServerPodType == GetPodType(case.server_host, ServerNode.sriov)
ClientPodType == GetPodType(case.client_host, ClientNode.sriov)

External   == case.mode = "external_ip"
Secondary  == case.mode \in {"multi_home", "multi_network"}
Persistent == ServerNode.persistent

(* can_run_reverse()                                                       *)
CanRunReverse == conn.type = "iperf-tcp"

-----------------------------------------------------------------------------
(* The tasks and the manifests that they render.                           *)

TemplateOf(podType) ==
  CASE Secondary -> "pod-secondary-network"
    [] ~Secondary /\ podType = "sriov" -> "sriov-pod"
    [] ~Secondary /\ podType = "normal" -> "pod"
    [] ~Secondary /\ podType = "hostbacked" -> "host-pod"

(* _get_template_args_privileged_pod()                                     *)
PrivilegedPod(node) ==
  IF node.privileged # None THEN node.privileged
    ELSE IF Environ # None THEN Environ ELSE TestPrivileged

(* The networks that a template's annotations ask for.                     *)
NetworksOf(template, node) ==
  CASE template = "pod-secondary-network" -> {"primary", "secondary"}
    [] template = "sriov-pod" ->
         IF conn.nad THEN {"primary", "secondary"} ELSE {node.default_network}
    [] OTHER -> {"primary"}

(* get_template_args() and the template.  args is what the entry point of  *)
(* the container executes; without any it sleeps.                          *)
Manifest(template, node, port, args) ==
  [template |-> template, node |-> node.name, port |-> port, args |-> args,
   privileged |-> template = "tools-pod" \/ PrivilegedPod(node),
   networks |-> NetworksOf(template, node)]

(* Variation: the pods of server and client are named alike.               *)
PodNameNoRole(podType, node, role) == <<TemplateOf(podType), node.name, Port>>

PodName(podType, node, role) == <<TemplateOf(podType), node.name, role, Port>>

(* Variation: the pod of every server runs it.                             *)
TemplateArgsAlways == <<"server">>

(* ServerTask._get_template_args_args()                                    *)
TemplateArgs == IF Persistent THEN <<"server">> ELSE <<>>

(* Variation: the client's pod has the port of the connection too.         *)
ClientPortOfServer == Port

ClientPort == None

ServerTask ==
  [role |-> "server",
   pod |-> IF External THEN <<"external-perf-server">>
                       ELSE PodName(ServerPodType, ServerNode, "server"),
   manifest |-> IF External THEN None
                  ELSE Manifest(TemplateOf(ServerPodType), ServerNode, Port, TemplateArgs)]
ClientTask ==
  [role |-> "client", pod |-> PodName(ClientPodType, ClientNode, "client"),
   manifest |-> Manifest(TemplateOf(ClientPodType), ClientNode, ClientPort, <<>>)]

(* measure_power names its pod after measure_cpu.                          *)
ToolsPod(plugin, node) ==
  <<"tools-pod", node.name,
    IF plugin = "validate_offload" THEN "validate-offload" ELSE "measure-cpu">>
PluginTask(plugin, node) ==
  [role |-> plugin, pod |-> ToolsPod(plugin, node),
   manifest |-> Manifest("tools-pod", node, None, <<>>)]

(* servers + clients + monitors; a plugin has a task on either side.       *)
NTasks == 2 + 2 * Len(conn.plugins)
Task(i) ==
  CASE i = 1 -> ServerTask
    [] i = 2 -> ClientTask
    [] i > 2 /\ i % 2 = 1 -> PluginTask(conn.plugins[(i - 1) \div 2], ServerNode)
    [] i > 2 /\ i % 2 = 0 -> PluginTask(conn.plugins[(i - 2) \div 2], ClientNode)
Current == Task(cur)

-----------------------------------------------------------------------------
(* The manifests of the services and of the two policies.                  *)
Service  == [port |-> Port, protocols |-> {"TCP", "UDP"}]
Policies == {<<"ingress", "TCP", Port>>, <<"egress", "TCP", Port>>}

(* What the client's command sends to the server's port: iperf3 has its    *)
(* control connection beside the datagrams of a UDP test.                  *)
Protocols == IF conn.type = "iperf-udp" THEN {"TCP", "UDP"} ELSE {"TCP"}

Put(f, x, v) == [y \in DOMAIN f \cup {x} |-> IF y = x THEN v ELSE f[y]]
Nothing == [x \in {} |-> None]
Pod == ServerTask.pod

Init ==
  /\ case \in Cases /\ conn \in Conns
  /\ leg = "forward" /\ pc = "initialize" /\ cur = 1
  /\ files = Nothing /\ pods = Nothing /\ services = Nothing /\ policies = {}
  /\ serving = {} /\ target = {}

(* The body of a loop over the tasks is done for the current one.          *)
Advance(loop, next) ==
  /\ pc = loop
  /\ IF cur < NTasks THEN cur' = cur + 1 /\ pc' = pc ELSE cur' = 1 /\ pc' = next

(* initialize(): rendering, and for the server the services and policies,  *)
(* which are applied over the ones that are there.                         *)
Initialize ==
  /\ Advance("initialize", "setup")
  /\ files' = IF Current.manifest = None THEN files
                ELSE Put(files, Current.pod, Current.manifest)
  /\ services' = IF cur = 1 /\ ~External
                   THEN Put(Put(services, "tft-clusterip-service", Service),
                            "tft-nodeport-service", Service)
                   ELSE services
  /\ policies' = IF cur = 1 /\ case.mode = "multi_network" THEN Policies ELSE policies
  /\ UNCHANGED <<config, leg, pods, serving, target>>

(* setup_pod()                                                             *)
SetupPod(p) == pods' = IF p \in DOMAIN pods THEN pods ELSE Put(pods, p, files[p])

(* The process that a new container begins with.                           *)
Entered(p) == IF p \in DOMAIN pods \/ files[p].args = <<>> THEN {} ELSE {<<p, "container">>}

(* start_setup(): the pods, and the thread that runs the server - in its   *)
(* pod unless the pod does so itself, or in a container of podman.         *)
StartSetup ==
  /\ Advance("setup", "start")
  /\ IF cur = 1 /\ External
       THEN serving' = {<<Pod, "podman">>} /\ pods' = pods
       ELSE /\ SetupPod(Current.pod)
            /\ serving' = serving \cup Entered(Current.pod)
                 \cup (IF cur = 1 /\ ~Persistent THEN {<<Pod, "exec">>} ELSE {})
  /\ UNCHANGED <<config, leg, files, services, policies, target>>

Endpoints(service) == {p \in DOMAIN pods : pods[p].port = services[service].port}

(* The address that get_target_ip() asks the server's pod for is there.    *)
HasAddress ==
  /\ Secondary => "secondary" \in pods[Pod].networks
  /\ case.mode = "pod_ip" /\ conn.nad => "secondary" \in pods[Pod].networks

(* ClientTask.get_target_ip(), at the start of the client's task.          *)
StartTask ==
  /\ pc = "start"
  /\ IF HasAddress
       THEN /\ pc' = "traffic"
            /\ target' = CASE case.mode = "cluster_ip" -> Endpoints("tft-clusterip-service")
                           [] case.mode = "node_port_ip" -> Endpoints("tft-nodeport-service")
                           [] OTHER -> {Pod}
       ELSE pc' = "no_address" /\ UNCHANGED target
  /\ UNCHANGED <<config, leg, cur, files, cluster, serving>>

(* finish_setup(): the command ends or is cancelled, and the container of  *)
(* podman is removed; for a persistent server there is nothing to cancel.  *)
Finish ==
  /\ pc = "traffic"
  /\ serving' = {s \in serving : s[2] = "container"}
  /\ target' = {}
  /\ IF CanRunReverse /\ leg = "forward"
       THEN leg' = "reverse" /\ pc' = "initialize" ELSE leg' = leg /\ pc' = "returned"
  /\ UNCHANGED <<config, cur, files, cluster>>

(* Rendering, "oc apply", "oc get" or "oc wait" fails.                     *)
Raise ==
  /\ pc \in {"initialize", "setup", "start"}
  /\ pc' = "raised"
  /\ UNCHANGED <<config, leg, cur, files, cluster, serving, target>>

Over == pc \in {"returned", "raised", "no_address"} /\ UNCHANGED vars

Next == Initialize \/ StartSetup \/ StartTask \/ Finish \/ Raise \/ Over

Spec == Init /\ [][Next]_vars

-----------------------------------------------------------------------------
TypeOK ==
  /\ case \in Cases /\ conn \in Conns
  /\ leg \in {"forward", "reverse"} /\ (leg = "reverse" => CanRunReverse)
  /\ pc \in {"initialize", "setup", "start", "traffic", "returned", "raised", "no_address"}
  /\ cur \in 1..NTasks
  /\ DOMAIN pods \subseteq DOMAIN files /\ \A p \in DOMAIN files : files[p] \in Manifests
  /\ \A p \in DOMAIN pods : pods[p] \in Manifests
  /\ services \in {Nothing, [s \in {"tft-clusterip-service", "tft-nodeport-service"} |-> Service]}
  /\ policies \in {{}, Policies}
  /\ \A s \in serving : s[2] \in {"container", "exec", "podman"}
  /\ target \subseteq DOMAIN pods \cup {Pod}

(* Whatever the test case and whatever the client's address is - the pod's *)
(* own, a service that selects pods by label, one on the secondary network *)
(* - it stands for the pod of the client's own server and for no other pod *)
(* of the instance; with two nodes in the configuration that pod is on the *)
(* client's node exactly in the test cases that say so                     *)
(* (src/task.py:1022-1045, src/testSettings.py:60-65).  Whether traffic    *)
(* may pass on the way there is another matter: see DatagramsStopped.      *)
FindsItsServer ==
  pc = "traffic" =>
    /\ target = {Pod}
    /\ ~External /\ conn.server.name # conn.client.name =>
         (pods[Pod].node = pods[ClientTask.pod].node <=> case.same)

(* Whether the service on the way, or the policies on the secondary        *)
(* network if there are any, let a protocol through to the server's port.  *)
Admitted(protocol) ==
  /\ case.mode = "cluster_ip" => protocol \in services["tft-clusterip-service"].protocols
  /\ case.mode = "node_port_ip" => protocol \in services["tft-nodeport-service"].protocols
  /\ policies # {} =>
       {<<"ingress", protocol, Port>>, <<"egress", protocol, Port>>} \subseteq policies

(* Whatever the test case, the TCP of a client is let through to its       *)
(* server, and datagrams are too except under the policies, which forget   *)
(* them (src/task.py:572-633, src/manifests/allow-ingress-mnp.yaml.j2:17). *)
(* The thresholds of src/eval-config.yaml:238-242 ask for a rate of        *)
(* iperf-udp in POD_TO_POD_MULTI_NETWORK_POLICY all the same.              *)
DatagramsStopped ==
  pc = "traffic" =>
    \A protocol \in Protocols :
      Admitted(protocol) <=> protocol = "TCP" \/ case.mode # "multi_network"

(* While traffic flows exactly one server listens there: the pod of a      *)
(* persistent server runs it, or else the thread does, in either direction *)
(* and never both, which would fight for the port (src/task.py:841-844,    *)
(* 949-959).                                                               *)
OneServerRuns ==
  pc = "traffic" => Cardinality({s \in serving : s[1] = Pod}) = 1

(* Files and pods are shared by name, and all tasks render before any pod  *)
(* is created: still every task works in a pod as it rendered it itself,   *)
(* although both sides of a test on one node, and two plugins, share theirs*)
(* (src/task.py:335-338, 652-659, src/pluginMeasurePower.py:65).           *)
OwnManifests ==
  pc = "traffic" =>
    \A i \in 1..NTasks : Task(i).manifest # None =>
      /\ Task(i).pod \in DOMAIN pods
      /\ pods[Task(i).pod] = Task(i).manifest
=============================================================================
