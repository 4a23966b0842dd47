--------------------------- MODULE TestPods_proofs ---------------------------
(***************************************************************************)
(* What holds of the files, the pods and the servers of a test instance    *)
(* for every test case, every connection with any list of plugins, and     *)
(* every instance index.                                                   *)
(***************************************************************************)
EXTENDS TestPods, FiniteSetTheorems, TLAPS

TaskIds == 1..NTasks
HasPod(i) == Task(i).manifest # None

Running  == pc \in {"initialize", "setup", "start", "traffic"}
AtWork   == pc \in {"start", "traffic"}

(* Which tasks have rendered their manifest, and have seen to their pod.   *)
Rendered(i) == leg = "reverse" \/ AtWork \/ pc = "setup" \/ i < cur
Created(i)  == leg = "reverse" \/ AtWork \/ (pc = "setup" /\ i < cur)

(* A file or a pod is as the task that its name is of has rendered it.     *)
OfTask(p, m) == \E i \in TaskIds : HasPod(i) /\ p = Task(i).pod /\ m = Task(i).manifest

FilesInv ==
  /\ \A p \in DOMAIN files : OfTask(p, files[p])
  /\ Running => \A i \in TaskIds : HasPod(i) /\ Rendered(i) => Task(i).pod \in DOMAIN files

PodsInv ==
  /\ \A p \in DOMAIN pods : OfTask(p, pods[p])
  /\ Running => \A i \in TaskIds : HasPod(i) /\ Created(i) => Task(i).pod \in DOMAIN pods

(* The services are there once the server has rendered its own.            *)
ServicesInv ==
  Running /\ ~External /\ Rendered(1) =>
    services = [s \in {"tft-clusterip-service", "tft-nodeport-service"} |-> Service]

(* So are the policies, in the test cases that have them.                  *)
PoliciesInv ==
  /\ case.mode # "multi_network" => policies = {}
  /\ case.mode = "multi_network" /\ Running /\ Rendered(1) => policies = Policies

(* Who runs the server, if anybody does.                                   *)
Started == AtWork \/ (pc = "setup" /\ cur > 1)
RunBy ==
  {by \in {"podman", "container", "exec"} :
     \/ by = "podman" /\ External /\ Started
     \/ by = "container" /\ ~External /\ Persistent /\ Pod \in DOMAIN pods
     \/ by = "exec" /\ ~External /\ ~Persistent /\ Started}
ServingInv == Running => serving = {<<Pod, by>> : by \in RunBy}

TargetInv == pc = "traffic" => target = {Pod}

IInv ==
  /\ TypeOK
  /\ AtWork => cur = 1
  /\ FilesInv /\ PodsInv /\ ServicesInv /\ PoliciesInv /\ ServingInv /\ TargetInv

-----------------------------------------------------------------------------
(* The two sides of a connection, and the tasks of an instance.            *)
LEMMA Sides ==
  ASSUME TypeOK, NEW node \in {ServerNode, ClientNode}
  PROVE  node \in Nodes
<1>1. conn \in Connections
  BY ConnsAssumption DEF TypeOK
<1>2. conn.server \in Nodes /\ conn.client \in Nodes
  BY <1>1 DEF Connections
<1> QED
  BY <1>2 DEF ServerNode, ClientNode

LEMMA TaskKinds ==
  ASSUME TypeOK, NEW i \in TaskIds
  PROVE  /\ i = 1 => Task(i) = ServerTask
         /\ i = 2 => Task(i) = ClientTask
         /\ i > 2 => \E node \in {ServerNode, ClientNode} : \E plugin :
                       Task(i) = PluginTask(plugin, node)
         /\ i = 1 \/ i = 2 \/ i > 2
<1>1. conn.plugins \in Seq(STRING)
  BY ConnsAssumption DEF TypeOK, Connections
<1>2. i \in Nat /\ i >= 1
  BY <1>1 DEF TaskIds, NTasks
<1>3. i = 1 => Task(i) = ServerTask
  BY DEF Task
<1>4. i = 2 => Task(i) = ClientTask
  BY DEF Task
<1>5. ASSUME i > 2
      PROVE  \E node \in {ServerNode, ClientNode} : \E plugin : Task(i) = PluginTask(plugin, node)
  <2>1. i % 2 = 1 \/ i % 2 = 0
    BY <1>2
  <2>2. CASE i % 2 = 1
    <3>1. Task(i) = PluginTask(conn.plugins[(i - 1) \div 2], ServerNode)
      BY <1>2, <1>5, <2>2 DEF Task
    <3> QED
      BY <3>1
  <2>3. CASE i % 2 = 0
    <3>1. Task(i) = PluginTask(conn.plugins[(i - 2) \div 2], ClientNode)
      BY <1>2, <1>5, <2>3 DEF Task
    <3> QED
      BY <3>1
  <2> QED
    BY <2>1, <2>2, <2>3
<1> QED
  BY <1>2, <1>3, <1>4, <1>5

(* A manifest is well formed, and is never taken for none.                 *)
LEMMA ManifestTypes ==
  ASSUME TypeOK, NEW node \in {ServerNode, ClientNode}, NEW template \in Templates,
         NEW port \in {Port, None}, NEW args \in {<<>>, <<"server">>}
  PROVE  /\ Manifest(template, node, port, args) \in Manifests
         /\ Manifest(template, node, port, args) # None
<1>1. node \in Nodes
  BY Sides
<1>2. PrivilegedPod(node) \in BOOLEAN
  BY <1>1, ConnsAssumption DEF PrivilegedPod, Nodes
<1>3. NetworksOf(template, node) \in SUBSET Networks
  <2>1. node.default_network \in STRING
    BY <1>1 DEF Nodes
  <2>2. \/ NetworksOf(template, node) = {"primary", "secondary"}
        \/ NetworksOf(template, node) = {"primary"}
        \/ NetworksOf(template, node) = {node.default_network}
    BY Zenon DEF NetworksOf
  <2> QED
    BY <2>1, <2>2 DEF Networks
<1>4. Manifest(template, node, port, args) \in Manifests
  BY <1>1, <1>2, <1>3 DEF Manifest, Manifests, Nodes
<1> QED
  BY <1>4, ConnsAssumption

(* The template of a pod.                                                  *)
LEMMA TemplateTypes ==
  ASSUME TypeOK, NEW podType \in {"sriov", "normal", "hostbacked"}
  PROVE  TemplateOf(podType) \in Templates
BY Zenon DEF TemplateOf, Templates

LEMMA PodTypeOf ==
  ASSUME NEW host, NEW sriov
  PROVE  GetPodType(host, sriov) \in {"sriov", "normal", "hostbacked"}
BY DEF GetPodType

(* Only the server's task may be without a pod, and only its pod has the   *)
(* port and may run something.                                             *)
LEMMA ServerManifest ==
  ASSUME TypeOK
  PROVE  /\ HasPod(1) <=> ~External
         /\ ~External => /\ Task(1).manifest \in Manifests
                         /\ Task(1).manifest.port = Port
                         /\ Task(1).manifest.args = TemplateArgs
         /\ Task(1).pod = Pod
<1>1. Task(1) = ServerTask
  BY DEF Task
<1>2. TemplateOf(ServerPodType) \in Templates
  BY TemplateTypes, PodTypeOf DEF ServerPodType
<1>3. Manifest(TemplateOf(ServerPodType), ServerNode, Port, TemplateArgs) \in Manifests
  BY <1>2, ManifestTypes DEF TemplateArgs
<1>4. Manifest(TemplateOf(ServerPodType), ServerNode, Port, TemplateArgs) # None
  BY <1>2, ManifestTypes DEF TemplateArgs
<1>5. CASE External
  BY <1>1, <1>5 DEF HasPod, ServerTask, Pod
<1>6. CASE ~External
  <2>1. Task(1).manifest = Manifest(TemplateOf(ServerPodType), ServerNode, Port, TemplateArgs)
    BY <1>1, <1>6 DEF ServerTask
  <2>2. Task(1).manifest.port = Port /\ Task(1).manifest.args = TemplateArgs
    BY <2>1 DEF Manifest
  <2> QED
    BY <1>1, <1>3, <1>4, <1>6, <2>1, <2>2 DEF HasPod, Pod
<1> QED
  BY <1>5, <1>6

LEMMA ClientManifest ==
  ASSUME TypeOK
  PROVE  /\ ClientTask.manifest # None /\ ClientTask.manifest \in Manifests
         /\ ClientTask.manifest.port = None /\ ClientTask.manifest.args = <<>>
<1>1. TemplateOf(ClientPodType) \in Templates
  BY TemplateTypes, PodTypeOf DEF ClientPodType
<1>2. ClientTask.manifest = Manifest(TemplateOf(ClientPodType), ClientNode, None, <<>>)
  BY DEF ClientTask, ClientPort
<1>3. ClientTask.manifest \in Manifests /\ ClientTask.manifest # None
  BY <1>1, <1>2, ManifestTypes
<1> QED
  BY <1>2, <1>3 DEF Manifest

LEMMA PluginManifest ==
  ASSUME TypeOK, NEW plugin, NEW node \in {ServerNode, ClientNode}
  PROVE  LET m == PluginTask(plugin, node).manifest
         IN  m # None /\ m \in Manifests /\ m.port = None /\ m.args = <<>>
<1>1. PluginTask(plugin, node).manifest = Manifest("tools-pod", node, None, <<>>)
  BY DEF PluginTask
<1>2. "tools-pod" \in Templates
  BY DEF Templates
<1>3. /\ Manifest("tools-pod", node, None, <<>>) \in Manifests
      /\ Manifest("tools-pod", node, None, <<>>) # None
  BY <1>2, ManifestTypes
<1> QED
  BY <1>1, <1>3 DEF Manifest

(* The names of the three kinds of pods differ in their parts.             *)
LEMMA Names ==
  ASSUME TypeOK, NEW plugin, NEW node \in {ServerNode, ClientNode}
  PROVE  /\ ClientTask.pod # Pod
         /\ PluginTask(plugin, node).pod # Pod
         /\ PluginTask(plugin, node).pod # ClientTask.pod
<1>1. \E tool : PluginTask(plugin, node).pod = <<"tools-pod", node.name, tool>>
  BY DEF PluginTask, ToolsPod
<1>2. ClientTask.pod = <<TemplateOf(ClientPodType), ClientNode.name, "client", Port>>
  BY DEF ClientTask, PodName
<1>3. \/ Pod = <<"external-perf-server">>
      \/ Pod = <<TemplateOf(ServerPodType), ServerNode.name, "server", Port>>
  BY DEF Pod, ServerTask, PodName
<1> QED
  BY <1>1, <1>2, <1>3

LEMMA OtherManifests ==
  ASSUME TypeOK, NEW i \in TaskIds, i # 1
  PROVE  /\ HasPod(i) /\ Task(i).pod # Pod
         /\ Task(i).manifest \in Manifests
         /\ Task(i).manifest.port = None
         /\ Task(i).manifest.args = <<>>
<1>1. CASE i = 2
  <2>1. Task(i) = ClientTask
    BY <1>1, TaskKinds
  <2> QED
    BY <2>1, ClientManifest, Names DEF HasPod
<1>2. CASE i > 2
  <2>1. PICK node \in {ServerNode, ClientNode} : \E plugin : Task(i) = PluginTask(plugin, node)
    BY <1>2, TaskKinds
  <2> QED
    BY <2>1, PluginManifest, Names DEF HasPod
<1> QED
  BY <1>1, <1>2, TaskKinds

(* Tasks that name their pods alike have rendered the same manifest: the   *)
(* tools pods of a node do not differ.                                     *)
LEMMA OneManifestPerName ==
  ASSUME TypeOK, NEW i \in TaskIds, NEW j \in TaskIds, HasPod(i), HasPod(j),
         Task(i).pod = Task(j).pod
  PROVE  Task(i).manifest = Task(j).manifest
<1>1. CASE i = 1 \/ j = 1
  <2>1. Task(1).pod = Pod
    BY ServerManifest
  <2>2. i = j
    BY <1>1, <2>1, OtherManifests
  <2> QED
    BY <2>2
<1>2. CASE i = 2 /\ j = 2
  BY <1>2
<1>3. ASSUME i > 2 \/ j > 2, i # 1, j # 1
      PROVE  Task(i).manifest = Task(j).manifest
  <2>1. i > 2 /\ j > 2
    <3>1. i = 2 \/ j = 2 => \E k \in {i, j} : k > 2 /\ Task(k).pod = ClientTask.pod
      BY <1>3, TaskKinds
    <3> QED
      BY <1>3, <3>1, TaskKinds, Names
  <2>2. PICK n \in {ServerNode, ClientNode} : \E p : Task(i) = PluginTask(p, n)
    BY <2>1, TaskKinds
  <2>3. PICK o \in {ServerNode, ClientNode} : \E q : Task(j) = PluginTask(q, o)
    BY <2>1, TaskKinds
  <2>4. n.name = o.name
    BY <2>2, <2>3 DEF PluginTask, ToolsPod
  <2>5. /\ NetworksOf("tools-pod", n) = {"primary"}
        /\ NetworksOf("tools-pod", o) = {"primary"}
    BY DEF NetworksOf
  <2>6. Manifest("tools-pod", n, None, <<>>) = Manifest("tools-pod", o, None, <<>>)
    BY <2>4, <2>5 DEF Manifest
  <2> QED
    BY <2>2, <2>3, <2>6 DEF PluginTask
<1> QED
  BY <1>1, <1>2, <1>3, TaskKinds

LEMMA OfTaskTypes ==
  ASSUME TypeOK, NEW p, NEW m, OfTask(p, m)
  PROVE  /\ m \in Manifests
         /\ p = Pod => ~External /\ m = Task(1).manifest
         /\ m.port = Port => p = Pod
         /\ p # Pod => m.args = <<>>
         /\ \A i \in TaskIds : HasPod(i) /\ Task(i).pod = p => m = Task(i).manifest
<1>1. PICK i \in TaskIds : HasPod(i) /\ p = Task(i).pod /\ m = Task(i).manifest
  BY DEF OfTask
<1>2. Port \in Nat /\ None \notin Nat
  BY ConnsAssumption DEF Port
<1>3. CASE i = 1
  BY <1>1, <1>3, ServerManifest, OneManifestPerName
<1>4. CASE i # 1
  BY <1>1, <1>2, <1>4, OtherManifests, OneManifestPerName
<1> QED
  BY <1>3, <1>4

(* No step but the first chooses a test case or a connection.              *)
LEMMA TasksStay ==
  ASSUME UNCHANGED config
  PROVE  /\ case' = case /\ conn' = conn
         /\ NTasks' = NTasks /\ TaskIds' = TaskIds
         /\ External' = External /\ Persistent' = Persistent /\ Secondary' = Secondary
         /\ Pod' = Pod /\ TemplateArgs' = TemplateArgs /\ CanRunReverse' = CanRunReverse
         /\ \A i \in TaskIds : Task(i)' = Task(i)
<1>1. case' = case /\ conn' = conn
  BY DEF config
<1>2. /\ ServerNode' = ServerNode /\ ClientNode' = ClientNode
      /\ External' = External /\ Secondary' = Secondary
  BY <1>1 DEF ServerNode, ClientNode, External, Secondary
<1>3. Persistent' = Persistent /\ NTasks' = NTasks
  BY <1>1, <1>2 DEF Persistent, NTasks
<1>4. TemplateArgs' = TemplateArgs /\ TaskIds' = TaskIds
  BY <1>3 DEF TemplateArgs, TaskIds
<1>5. ServerPodType' = ServerPodType /\ ClientPodType' = ClientPodType
  BY <1>1, <1>2 DEF ServerPodType, ClientPodType
<1>6. /\ TemplateOf(ServerPodType)' = TemplateOf(ServerPodType)
      /\ TemplateOf(ClientPodType)' = TemplateOf(ClientPodType)
  BY <1>2, <1>5, Zenon DEF TemplateOf
<1>7. \A template, node, port, args :
        Manifest(template, node, port, args)' = Manifest(template, node, port, args)
  <2>1. \A template, node : NetworksOf(template, node)' = NetworksOf(template, node)
    BY <1>1, Zenon DEF NetworksOf
  <2>2. \A node : PrivilegedPod(node)' = PrivilegedPod(node)
    BY Zenon DEF PrivilegedPod
  <2> QED
    BY <2>1, <2>2, Zenon DEF Manifest
<1>8. ServerTask' = ServerTask
  BY <1>2, <1>4, <1>5, <1>6, <1>7 DEF ServerTask, PodName
<1>9. ClientTask' = ClientTask
  BY <1>2, <1>4, <1>5, <1>6, <1>7 DEF ClientTask, PodName, ClientPort
<1>10. ASSUME NEW i \in TaskIds
       PROVE  Task(i)' = Task(i)
  BY <1>1, <1>2, <1>7, <1>8, <1>9, Zenon DEF Task, PluginTask, ToolsPod
<1> QED
  BY <1>1, <1>2, <1>3, <1>4, <1>8, <1>10 DEF Pod, CanRunReverse

LEMMA OwnersStay ==
  ASSUME UNCHANGED config
  PROVE  /\ \A i \in TaskIds : HasPod(i)' <=> HasPod(i)
         /\ \A p, m : OfTask(p, m)' <=> OfTask(p, m)
<1>1. \A i \in TaskIds : HasPod(i)' <=> HasPod(i)
  BY TasksStay DEF HasPod
<1>2. ASSUME NEW p, NEW m
      PROVE  OfTask(p, m)' <=> OfTask(p, m)
  BY <1>1, TasksStay DEF OfTask
<1> QED
  BY <1>1, <1>2

LEMMA Counts ==
  ASSUME TypeOK
  PROVE  NTasks \in Nat /\ NTasks >= 2 /\ 1 \in TaskIds /\ 2 \in TaskIds /\ cur \in TaskIds
<1>1. conn.plugins \in Seq(STRING)
  BY ConnsAssumption DEF TypeOK, Connections
<1>2. Len(conn.plugins) \in Nat
  BY <1>1
<1> QED
  BY <1>2 DEF NTasks, TaskIds, TypeOK

-----------------------------------------------------------------------------
LEMMA InitEstablishes == Init => IInv
<1> SUFFICES ASSUME Init
             PROVE  IInv
  OBVIOUS
<1> USE DEF Init
<1>1. conn.plugins \in Seq(STRING)
  BY ConnsAssumption DEF Connections
<1>2. NTasks \in Nat /\ NTasks >= 1
  BY <1>1 DEF NTasks
<1>3. DOMAIN Nothing = {}
  BY DEF Nothing
<1>4. TypeOK
  BY <1>2, <1>3 DEF TypeOK
<1>5. FilesInv /\ PodsInv /\ ServicesInv /\ PoliciesInv
  BY <1>2, <1>3 DEF FilesInv, PodsInv, ServicesInv, PoliciesInv, Rendered, Created, AtWork,
                    TaskIds
<1>6. RunBy = {}
  BY <1>3 DEF RunBy, Started, AtWork
<1> QED
  BY <1>4, <1>5, <1>6 DEF IInv, ServingInv, TargetInv, AtWork

(* The next task, or the next loop.                                        *)
LEMMA Advances ==
  ASSUME TypeOK, UNCHANGED config, NEW loop, NEW next, Advance(loop, next)
  PROVE  /\ pc = loop /\ cur' \in TaskIds'
         /\ \/ cur < NTasks /\ cur' = cur + 1 /\ pc' = loop
            \/ cur = NTasks /\ cur' = 1 /\ pc' = next
         /\ \A i \in TaskIds : (cur' = 1 \/ i < cur') => (i < cur \/ i = cur)
BY Counts, TasksStay DEF Advance, TaskIds

LEMMA InitializeKeeps == IInv /\ Initialize => IInv'
<1> SUFFICES ASSUME IInv, Initialize
             PROVE  IInv'
  OBVIOUS
<1> DEFINE services2 == [s \in {"tft-clusterip-service", "tft-nodeport-service"} |-> Service]
<1>1. TypeOK /\ UNCHANGED <<config, leg, pods, serving, target>>
  BY DEF IInv, Initialize
<1>2. /\ pc = "initialize" /\ cur' \in TaskIds'
      /\ \/ cur < NTasks /\ cur' = cur + 1 /\ pc' = "initialize"
         \/ cur = NTasks /\ cur' = 1 /\ pc' = "setup"
      /\ \A i \in TaskIds : (cur' = 1 \/ i < cur') => (i < cur \/ i = cur)
  BY <1>1, Advances DEF Initialize
<1>3. cur \in TaskIds /\ cur \in Nat /\ NTasks \in Nat
  BY <1>1, Counts DEF TaskIds
<1>4. FilesInv'
  <2>1. /\ \A p \in DOMAIN files : p \in DOMAIN files'
        /\ HasPod(cur) => Task(cur).pod \in DOMAIN files'
        /\ \A p \in DOMAIN files' : OfTask(p, files'[p])
    <3>1. CASE HasPod(cur)
      <4>1. files' = Put(files, Task(cur).pod, Task(cur).manifest)
        BY <3>1 DEF Initialize, Current, HasPod
      <4>2. OfTask(Task(cur).pod, Task(cur).manifest)
        BY <1>3, <3>1 DEF OfTask
      <4>3. /\ DOMAIN files' = DOMAIN files \cup {Task(cur).pod}
            /\ \A p \in DOMAIN files' :
                 files'[p] = IF p = Task(cur).pod THEN Task(cur).manifest ELSE files[p]
        BY <4>1 DEF Put
      <4>4. \A p \in DOMAIN files : OfTask(p, files[p])
        BY DEF IInv, FilesInv
      <4>5. ASSUME NEW p \in DOMAIN files'
            PROVE  OfTask(p, files'[p])
        <5>1. CASE p = Task(cur).pod
          BY <4>2, <4>3, <5>1
        <5>2. CASE p # Task(cur).pod
          <6>1. p \in DOMAIN files /\ files'[p] = files[p]
            BY <4>3, <5>2
          <6> QED
            BY <4>4, <6>1
        <5> QED
          BY <5>1, <5>2
      <4> QED
        BY <4>3, <4>5
    <3>2. CASE ~HasPod(cur)
      BY <3>2 DEF Initialize, Current, HasPod, IInv, FilesInv
    <3> QED
      BY <3>1, <3>2
  <2>2. ASSUME NEW i \in TaskIds, HasPod(i), Rendered(i)'
        PROVE  Task(i).pod \in DOMAIN files'
    <3>1. Rendered(i) \/ i = cur
      BY <1>1, <1>2, <2>2 DEF Rendered, AtWork
    <3> QED
      BY <1>2, <2>1, <2>2, <3>1 DEF IInv, FilesInv, Running
  <2> QED
    BY <1>1, <2>1, <2>2, TasksStay, OwnersStay DEF FilesInv
<1>5. PodsInv'
  <2>1. ASSUME NEW i \in TaskIds, Created(i)'
        PROVE  Created(i)
    BY <1>1, <1>2, <2>1 DEF Created, AtWork, TaskIds
  <2>2. Running
    BY <1>2 DEF Running
  <2> QED
    BY <1>1, <2>1, <2>2, TasksStay, OwnersStay DEF IInv, PodsInv
<1>6. services' = IF cur = 1 /\ ~External THEN services2 ELSE services
  <2>1. ASSUME cur = 1 /\ ~External
        PROVE  services' = services2
    <3>1. services' = Put(Put(services, "tft-clusterip-service", Service),
                          "tft-nodeport-service", Service)
      BY <2>1 DEF Initialize
    <3>2. services = Nothing \/ services = services2
      BY <1>1 DEF TypeOK
    <3>3. DOMAIN services \subseteq {"tft-clusterip-service", "tft-nodeport-service"}
      BY <3>2 DEF Nothing
    <3> QED
      BY <3>1, <3>3 DEF Put
  <2> QED
    BY <2>1 DEF Initialize
<1>7. ServicesInv'
  <2>1. Rendered(1)' => Rendered(1) \/ cur = 1
    BY <1>1, <1>2, <1>3 DEF Rendered, AtWork, TaskIds
  <2> QED
    BY <1>1, <1>2, <1>6, <2>1, TasksStay DEF IInv, ServicesInv, Running
<1>8. ServingInv'
  <2>1. ~Started /\ ~Started' /\ Running
    BY <1>2 DEF Started, Running, AtWork
  <2>2. RunBy' = RunBy
    BY <1>1, <2>1, TasksStay DEF RunBy
  <2> QED
    BY <1>1, <2>1, <2>2, TasksStay DEF IInv, ServingInv
<1>9. TypeOK'
  <2>1. /\ leg' \in {"forward", "reverse"} /\ (leg' = "reverse" => CanRunReverse')
        /\ pc' \in {"initialize", "setup"}
        /\ cur' \in (1..NTasks)'
        /\ case' \in Cases /\ conn' \in Conns
    BY <1>1, <1>2, TasksStay DEF TypeOK, TaskIds
  <2>2. \A p \in DOMAIN files' : files'[p] \in Manifests
    BY <1>1, <1>4, TasksStay, OwnersStay, OfTaskTypes DEF FilesInv
  <2>3. DOMAIN pods' \subseteq DOMAIN files'
    <3>1. DOMAIN files \subseteq DOMAIN files'
      BY DEF Put, Initialize
    <3> QED
      BY <1>1, <3>1 DEF TypeOK
  <2>4. /\ services' \in {Nothing, services2}
        /\ policies' \in {{}, Policies}
    BY <1>1, <1>6 DEF TypeOK, Initialize
  <2> QED
    BY <1>1, <2>1, <2>2, <2>3, <2>4, TasksStay DEF TypeOK
<1>10. PoliciesInv'
  <2>1. Rendered(1)' => Rendered(1) \/ cur = 1
    BY <1>1, <1>2, <1>3 DEF Rendered, AtWork, TaskIds
  <2>2. policies' = IF cur = 1 /\ case.mode = "multi_network" THEN Policies ELSE policies
    BY DEF Initialize
  <2> QED
    BY <1>1, <1>2, <2>1, <2>2, TasksStay DEF IInv, PoliciesInv, Running
<1> QED
  BY <1>2, <1>4, <1>5, <1>7, <1>8, <1>9, <1>10 DEF IInv, AtWork, TargetInv

(* A pod that a task starts with is one that a file is for.                *)
LEMMA FileOfTask ==
  ASSUME IInv, NEW i \in TaskIds, HasPod(i), Running, Rendered(i)
  PROVE  Task(i).pod \in DOMAIN files /\ files[Task(i).pod] = Task(i).manifest
BY OfTaskTypes DEF IInv, FilesInv

LEMMA PodOfTask ==
  ASSUME IInv, NEW i \in TaskIds, HasPod(i), Running, Created(i)
  PROVE  Task(i).pod \in DOMAIN pods /\ pods[Task(i).pod] = Task(i).manifest
BY OfTaskTypes DEF IInv, PodsInv

LEMMA StartSetupKeeps == IInv /\ StartSetup => IInv'
<1> SUFFICES ASSUME IInv, StartSetup
             PROVE  IInv'
  OBVIOUS
<1>1. TypeOK /\ UNCHANGED <<config, leg, files, services, policies, target>>
  BY DEF IInv, StartSetup
<1>2. /\ pc = "setup" /\ cur' \in TaskIds'
      /\ \/ cur < NTasks /\ cur' = cur + 1 /\ pc' = "setup"
         \/ cur = NTasks /\ cur' = 1 /\ pc' = "start"
      /\ \A i \in TaskIds : (cur' = 1 \/ i < cur') => (i < cur \/ i = cur)
  BY <1>1, Advances DEF StartSetup
<1>3. cur \in TaskIds /\ cur \in Nat /\ NTasks \in Nat /\ NTasks >= 2 /\ 1 \in TaskIds
  BY <1>1, Counts DEF TaskIds
<1>4. Running /\ Running' /\ \A i \in TaskIds : Rendered(i) /\ Rendered(i)'
  BY <1>2 DEF Running, Rendered, AtWork
<1>5. ASSUME HasPod(cur)
      PROVE  /\ Current.pod \in DOMAIN files
             /\ files[Current.pod] = Current.manifest
             /\ SetupPod(Current.pod)
             /\ OfTask(Current.pod, Current.manifest)
  <2>1. ~(cur = 1 /\ External)
    BY <1>1, <1>5, ServerManifest
  <2>2. OfTask(Current.pod, Current.manifest)
    BY <1>3, <1>5 DEF OfTask, Current
  <2> QED
    BY <1>3, <1>4, <1>5, <2>1, <2>2, FileOfTask DEF StartSetup, Current
<1>6. ASSUME ~HasPod(cur)
      PROVE  cur = 1 /\ External /\ pods' = pods
  <2>1. cur = 1
    BY <1>1, <1>3, <1>6, OtherManifests
  <2>2. External
    BY <1>1, <1>6, <2>1, ServerManifest
  <2> QED
    BY <2>1, <2>2 DEF StartSetup
<1>7. /\ \A p \in DOMAIN pods : p \in DOMAIN pods'
      /\ \A p \in DOMAIN pods' : p \in DOMAIN pods \/ (HasPod(cur) /\ p = Current.pod)
      /\ HasPod(cur) => Current.pod \in DOMAIN pods'
      /\ \A p \in DOMAIN pods' : OfTask(p, pods'[p])
      /\ DOMAIN pods' \subseteq DOMAIN files
  <2>1. /\ \A p \in DOMAIN pods : OfTask(p, pods[p])
        /\ DOMAIN pods \subseteq DOMAIN files
    BY DEF IInv, PodsInv, TypeOK
  <2>2. CASE HasPod(cur) /\ Current.pod \notin DOMAIN pods
    <3>1. /\ DOMAIN pods' = DOMAIN pods \cup {Current.pod}
          /\ \A p \in DOMAIN pods' :
               pods'[p] = IF p = Current.pod THEN Current.manifest ELSE pods[p]
      BY <1>5, <2>2 DEF SetupPod, Put
    <3>2. ASSUME NEW p \in DOMAIN pods'
          PROVE  OfTask(p, pods'[p])
      <4>1. CASE p = Current.pod
        BY <1>5, <2>2, <3>1, <4>1
      <4>2. CASE p # Current.pod
        <5>1. p \in DOMAIN pods /\ pods'[p] = pods[p]
          BY <3>1, <4>2
        <5> QED
          BY <2>1, <5>1
      <4> QED
        BY <4>1, <4>2
    <3> QED
      BY <1>5, <2>1, <2>2, <3>1, <3>2
  <2>3. CASE HasPod(cur) /\ Current.pod \in DOMAIN pods
    BY <1>5, <2>1, <2>3 DEF SetupPod
  <2>4. CASE ~HasPod(cur)
    BY <1>6, <2>1, <2>4
  <2> QED
    BY <2>2, <2>3, <2>4
<1>8. PodsInv'
  <2>1. ASSUME NEW i \in TaskIds, HasPod(i), Created(i)'
        PROVE  Task(i).pod \in DOMAIN pods'
    <3>1. Created(i) \/ i = cur
      BY <1>1, <1>2, <2>1 DEF Created, AtWork
    <3> QED
      BY <1>4, <1>7, <2>1, <3>1 DEF IInv, PodsInv, Current
  <2> QED
    BY <1>1, <1>7, <2>1, TasksStay, OwnersStay DEF PodsInv
<1>9. FilesInv'
  BY <1>1, <1>4, TasksStay, OwnersStay DEF IInv, FilesInv
<1>10. ServicesInv'
  BY <1>1, <1>3, <1>4, TasksStay DEF IInv, ServicesInv
<1>11. ServingInv'
  <2>1. /\ Started <=> cur > 1
        /\ Started'
    BY <1>2, <1>3 DEF Started, AtWork
  <2>2. serving = {<<Pod, by>> : by \in RunBy}
    BY <1>4 DEF IInv, ServingInv
  <2> SUFFICES serving' = {<<Pod, by>> : by \in RunBy'}
    BY <1>1, TasksStay DEF ServingInv
  <2>3. /\ External' = External /\ Persistent' = Persistent /\ Pod' = Pod
    BY <1>1, TasksStay
  <2>4. CASE cur = 1 /\ External
    <3>1. RunBy' = {"podman"}
      BY <2>1, <2>3, <2>4 DEF RunBy
    <3> QED
      BY <2>4, <3>1 DEF StartSetup
  <2>5. CASE cur = 1 /\ ~External
    <3>1. HasPod(1) /\ Task(1).pod = Pod /\ Current.pod = Pod
      BY <1>1, <2>5, ServerManifest DEF Current
    <3>2. files[Pod].args = TemplateArgs /\ Pod \in DOMAIN pods'
      BY <1>1, <1>5, <1>7, <2>5, <3>1, ServerManifest DEF Current
    <3>3. serving' = serving \cup Entered(Pod)
                     \cup (IF ~Persistent THEN {<<Pod, "exec">>} ELSE {})
      BY <2>5, <3>1 DEF StartSetup
    <3>4. CASE Persistent
      <4>1. RunBy' = {"container"}
        BY <2>3, <2>5, <3>2, <3>4 DEF RunBy
      <4>2. RunBy = IF Pod \in DOMAIN pods THEN {"container"} ELSE {}
        BY <2>5, <3>4 DEF RunBy
      <4>3. Entered(Pod) = IF Pod \in DOMAIN pods THEN {} ELSE {<<Pod, "container">>}
        BY <3>2, <3>4 DEF Entered, TemplateArgs
      <4> QED
        BY <2>2, <3>3, <3>4, <4>1, <4>2, <4>3
    <3>5. CASE ~Persistent
      <4>1. RunBy' = {"exec"} /\ RunBy = {}
        BY <2>1, <2>3, <2>5, <3>5 DEF RunBy
      <4>2. Entered(Pod) = {}
        BY <3>2, <3>5 DEF Entered, TemplateArgs
      <4> QED
        BY <2>2, <3>3, <3>5, <4>1, <4>2
    <3> QED
      BY <3>4, <3>5
  <2>6. CASE cur # 1
    <3>1. HasPod(cur) /\ Current.pod # Pod /\ Current.manifest.args = <<>>
      BY <1>1, <1>3, <2>6, OtherManifests DEF Current
    <3>2. Entered(Current.pod) = {}
      BY <1>5, <3>1 DEF Entered
    <3>3. serving' = serving
      BY <2>6, <3>2 DEF StartSetup
    <3>4. Pod \in DOMAIN pods' <=> Pod \in DOMAIN pods
      BY <1>7, <3>1
    <3>5. RunBy' = RunBy
      BY <1>3, <2>1, <2>3, <2>6, <3>4 DEF RunBy, TaskIds
    <3> QED
      BY <2>2, <3>3, <3>5
  <2> QED
    BY <2>4, <2>5, <2>6
<1>12. TypeOK'
  <2>1. /\ leg' \in {"forward", "reverse"} /\ (leg' = "reverse" => CanRunReverse')
        /\ pc' \in {"setup", "start"}
        /\ cur' \in (1..NTasks)'
        /\ case' \in Cases /\ conn' \in Conns
    BY <1>1, <1>2, TasksStay DEF TypeOK, TaskIds
  <2>2. \A p \in DOMAIN pods' : pods'[p] \in Manifests
    BY <1>1, <1>7, OfTaskTypes
  <2>3. \A s \in serving' : s[2] \in {"container", "exec", "podman"}
    BY <1>4, <1>11 DEF ServingInv, RunBy
  <2>4. target' \subseteq DOMAIN pods' \cup {Pod'}
    BY <1>1, <1>7, TasksStay DEF TypeOK
  <2> QED
    BY <1>1, <1>7, <2>1, <2>2, <2>3, <2>4, TasksStay DEF TypeOK
<1>13. AtWork' => cur' = 1
  BY <1>2 DEF AtWork
<1>14. TargetInv'
  BY <1>2 DEF TargetInv
<1>15. PoliciesInv'
  BY <1>1, <1>3, <1>4, TasksStay DEF IInv, PoliciesInv
<1> QED
  BY <1>8, <1>9, <1>10, <1>11, <1>12, <1>13, <1>14, <1>15 DEF IInv

(* Of all the pods a service selects only the server's.                    *)
LEMMA ServiceSelectsServer ==
  ASSUME IInv, pc = "start", ~External,
         NEW service \in {"tft-clusterip-service", "tft-nodeport-service"}
  PROVE  Endpoints(service) = {Pod}
<1>1. TypeOK /\ Running /\ Rendered(1) /\ Created(1) /\ 1 \in TaskIds
  BY Counts DEF IInv, Running, Rendered, Created, AtWork
<1>2. services[service].port = Port
  BY <1>1 DEF IInv, ServicesInv, Service
<1>3. Pod \in DOMAIN pods /\ pods[Pod].port = Port
  BY <1>1, ServerManifest, PodOfTask
<1>4. \A p \in DOMAIN pods : pods[p].port = Port => p = Pod
  BY <1>1, OfTaskTypes DEF IInv, PodsInv
<1> QED
  BY <1>2, <1>3, <1>4 DEF Endpoints

LEMMA StartTaskKeeps == IInv /\ StartTask => IInv'
<1> SUFFICES ASSUME IInv, StartTask
             PROVE  IInv'
  OBVIOUS
<1>1. TypeOK /\ pc = "start" /\ UNCHANGED <<config, leg, cur, files, cluster, serving>>
  BY DEF IInv, StartTask
<1>2. UNCHANGED <<pods, services, policies>>
  BY <1>1 DEF cluster
<1>3. /\ pc' \in {"traffic", "no_address"} /\ Running /\ AtWork /\ 1 \in TaskIds
      /\ \A i \in TaskIds : Rendered(i) /\ Created(i)
  BY <1>1, Counts DEF StartTask, Running, AtWork, Rendered, Created
<1>4. pc' = "traffic" => target' = {Pod}
  <2> SUFFICES ASSUME pc' = "traffic"
               PROVE  target' = {Pod}
    OBVIOUS
  <2>1. CASE case.mode = "cluster_ip"
    BY <1>1, <2>1, ServiceSelectsServer DEF StartTask, External
  <2>2. CASE case.mode = "node_port_ip"
    BY <1>1, <2>2, ServiceSelectsServer DEF StartTask, External
  <2>3. CASE case.mode \notin {"cluster_ip", "node_port_ip"}
    BY <1>1, <2>3, Zenon DEF StartTask
  <2> QED
    BY <2>1, <2>2, <2>3
<1>5. TargetInv'
  BY <1>1, <1>4, TasksStay DEF TargetInv
<1>6. FilesInv' /\ PodsInv'
  BY <1>1, <1>2, <1>3, TasksStay, OwnersStay DEF IInv, FilesInv, PodsInv
<1>7. ServicesInv' /\ PoliciesInv'
  BY <1>1, <1>2, <1>3, TasksStay DEF IInv, ServicesInv, PoliciesInv
<1>8. ServingInv'
  <2>1. Running' => Started' /\ Started
    BY <1>1, <1>3 DEF Started, Running, AtWork
  <2>2. Running' => RunBy' = RunBy
    BY <1>1, <1>2, <2>1, TasksStay DEF RunBy
  <2> QED
    BY <1>1, <1>3, <2>2, TasksStay DEF IInv, ServingInv
<1>9. TypeOK'
  <2>1. target' \subseteq DOMAIN pods' \cup {Pod'}
    BY <1>1, <1>2, <1>3, <1>4, TasksStay DEF TypeOK, StartTask
  <2> QED
    BY <1>1, <1>2, <1>3, <2>1, TasksStay DEF TypeOK
<1>10. AtWork' => cur' = 1
  BY <1>1, <1>3 DEF IInv, AtWork
<1> QED
  BY <1>5, <1>6, <1>7, <1>8, <1>9, <1>10 DEF IInv

LEMMA FinishKeeps == IInv /\ Finish => IInv'
<1> SUFFICES ASSUME IInv, Finish
             PROVE  IInv'
  OBVIOUS
<1>1. TypeOK /\ pc = "traffic" /\ UNCHANGED <<config, cur, files, cluster>>
  BY DEF IInv, Finish
<1>2. UNCHANGED <<pods, services, policies>>
  BY <1>1 DEF cluster
<1>3. /\ Running /\ AtWork /\ cur = 1 /\ 1 \in TaskIds
      /\ \A i \in TaskIds : Rendered(i) /\ Created(i)
  BY <1>1, Counts DEF IInv, Running, AtWork, Rendered, Created
<1>4. /\ \/ pc' = "initialize" /\ leg' = "reverse" /\ CanRunReverse
         \/ pc' = "returned" /\ leg' = leg
      /\ target' = {}
      /\ ~AtWork' /\ ~Started'
  BY <1>1 DEF Finish, AtWork, Started
<1>5. FilesInv' /\ PodsInv'
  BY <1>1, <1>2, <1>3, TasksStay, OwnersStay DEF IInv, FilesInv, PodsInv
<1>6. ServicesInv' /\ PoliciesInv'
  BY <1>1, <1>2, <1>3, TasksStay DEF IInv, ServicesInv, PoliciesInv
<1>7. ServingInv'
  <2>1. serving = {<<Pod, by>> : by \in RunBy} /\ Started
    BY <1>1, <1>3 DEF IInv, ServingInv, Started
  <2>2. RunBy' = RunBy \cap {"container"}
    BY <1>1, <1>2, <1>4, <2>1, TasksStay DEF RunBy
  <2>3. serving' = {s \in serving : s[2] = "container"}
    BY DEF Finish
  <2>4. serving' = {<<Pod, by>> : by \in RunBy \cap {"container"}}
    BY <2>1, <2>3
  <2> QED
    BY <1>1, <2>2, <2>4, TasksStay DEF ServingInv
<1>8. TypeOK'
  <2>1. \A s \in serving' : s[2] \in {"container", "exec", "podman"}
    BY DEF Finish
  <2>2. /\ leg' \in {"forward", "reverse"} /\ (leg' = "reverse" => CanRunReverse')
        /\ pc' \in {"initialize", "returned"}
    BY <1>1, <1>4, TasksStay DEF TypeOK
  <2> QED
    BY <1>1, <1>2, <1>4, <2>1, <2>2, TasksStay DEF TypeOK
<1> QED
  BY <1>4, <1>5, <1>6, <1>7, <1>8 DEF IInv, TargetInv, AtWork

LEMMA RaiseKeeps == IInv /\ Raise => IInv'
<1> SUFFICES ASSUME IInv, Raise
             PROVE  IInv'
  OBVIOUS
<1>1. /\ TypeOK /\ pc' = "raised"
      /\ UNCHANGED <<config, leg, cur, files, cluster, serving, target>>
  BY DEF IInv, Raise
<1>2. UNCHANGED <<pods, services, policies>> /\ ~Running' /\ ~AtWork'
  BY <1>1 DEF cluster, Running, AtWork
<1>3. FilesInv' /\ PodsInv'
  BY <1>1, <1>2, TasksStay, OwnersStay DEF IInv, FilesInv, PodsInv
<1>4. TypeOK'
  BY <1>1, <1>2, TasksStay DEF TypeOK
<1>5. PoliciesInv'
  BY <1>1, <1>2, TasksStay DEF IInv, PoliciesInv
<1> QED
  BY <1>1, <1>2, <1>3, <1>4, <1>5 DEF IInv, ServicesInv, ServingInv, TargetInv

LEMMA StutterKeeps == IInv /\ UNCHANGED vars => IInv'
<1> SUFFICES ASSUME IInv, UNCHANGED vars
             PROVE  IInv'
  OBVIOUS
<1>1. /\ TypeOK /\ UNCHANGED config
      /\ UNCHANGED <<leg, pc, cur, files, pods, services, policies, serving, target>>
  BY DEF IInv, vars, cluster
<1>2. /\ Running' = Running /\ AtWork' = AtWork /\ Started' = Started
      /\ \A i \in TaskIds : Rendered(i)' = Rendered(i) /\ Created(i)' = Created(i)
      /\ 1 \in TaskIds
  BY <1>1, Counts DEF Running, AtWork, Started, Rendered, Created
<1>3. FilesInv' /\ PodsInv'
  BY <1>1, <1>2, TasksStay, OwnersStay DEF IInv, FilesInv, PodsInv
<1>4. ServicesInv' /\ PoliciesInv' /\ TargetInv' /\ (AtWork' => cur' = 1)
  BY <1>1, <1>2, TasksStay DEF IInv, ServicesInv, PoliciesInv, TargetInv
<1>5. RunBy' = RunBy
  BY <1>1, <1>2, TasksStay DEF RunBy
<1>6. ServingInv'
  BY <1>1, <1>2, <1>5, TasksStay DEF IInv, ServingInv
<1>7. TypeOK'
  BY <1>1, TasksStay DEF TypeOK
<1> QED
  BY <1>3, <1>4, <1>6, <1>7 DEF IInv

LEMMA StepKeeps == IInv /\ [Next]_vars => IInv'
BY InitializeKeeps, StartSetupKeeps, StartTaskKeeps, FinishKeeps, RaiseKeeps, StutterKeeps
   DEF Next, Over

LEMMA Invariance == Spec => []IInv
BY InitEstablishes, StepKeeps, PTL DEF Spec

-----------------------------------------------------------------------------
(* While traffic flows every task has its pod.                             *)
LEMMA InTraffic ==
  ASSUME IInv, pc = "traffic"
  PROVE  /\ TypeOK /\ Running
         /\ 1 \in TaskIds /\ 2 \in TaskIds
         /\ \A i \in TaskIds : HasPod(i) =>
              Task(i).pod \in DOMAIN pods /\ pods[Task(i).pod] = Task(i).manifest
<1>1. TypeOK /\ Running /\ \A i \in TaskIds : Created(i)
  BY DEF IInv, Running, Created, AtWork
<1> QED
  BY <1>1, Counts, PodOfTask

(* The variables of an instance keep to their values in every behaviour,   *)
(* whatever connections and index are configured: every pod is one that a  *)
(* file was rendered for, and the loops over the tasks stop at the last    *)
(* one (src/task.py:652-659).                                              *)
THEOREM Types == Spec => []TypeOK
<1>1. IInv => TypeOK
  BY DEF IInv
<1> QED
  BY <1>1, Invariance, PTL

(* In every test case the address that a client is given - the pod's, a    *)
(* service's or one on the secondary network - stands for the pod of its   *)
(* own server and for no other, on the node that the test case says        *)
(* (src/task.py:1022-1045).  What policies and services let pass on the    *)
(* way is said by DatagramsAreStopped.                                     *)
THEOREM ClientsFindTheirServers == Spec => []FindsItsServer
<1>1. ASSUME IInv, pc = "traffic"
      PROVE  /\ target = {Pod}
             /\ ~External /\ conn.server.name # conn.client.name =>
                  (pods[Pod].node = pods[ClientTask.pod].node <=> case.same)
  <2>1. target = {Pod}
    BY <1>1 DEF IInv, TargetInv
  <2>2. ASSUME ~External, conn.server.name # conn.client.name
        PROVE  pods[Pod].node = pods[ClientTask.pod].node <=> case.same
    <3>1. /\ HasPod(1) /\ Task(1) = ServerTask /\ Task(1).pod = Pod
          /\ HasPod(2) /\ Task(2) = ClientTask
      BY <1>1, <2>2, InTraffic, ServerManifest, OtherManifests, TaskKinds
    <3>2. pods[Pod] = ServerTask.manifest /\ pods[ClientTask.pod] = ClientTask.manifest
      BY <1>1, <3>1, InTraffic
    <3>3. /\ ServerTask.manifest.node = ServerNode.name
          /\ ClientTask.manifest.node = ClientNode.name
      BY <2>2 DEF ServerTask, ClientTask, Manifest
    <3> QED
      BY <2>2, <3>2, <3>3 DEF ServerNode, ClientNode
  <2> QED
    BY <2>1, <2>2
<1>2. IInv => FindsItsServer
  BY <1>1 DEF FindsItsServer
<1> QED
  BY <1>2, Invariance, PTL

(* The services let the TCP and the UDP of a client through to its server, *)
(* the policies only TCP: under them, and nowhere else, the datagrams of   *)
(* iperf-udp are stopped, on any nodes and for any port                    *)
(* (src/manifests/allow-ingress-mnp.yaml.j2:17, src/task.py:572-633).      *)
THEOREM DatagramsAreStopped == Spec => []DatagramsStopped
<1>1. ASSUME IInv, pc = "traffic", NEW protocol \in Protocols
      PROVE  Admitted(protocol) <=> protocol = "TCP" \/ case.mode # "multi_network"
  <2>1. protocol \in {"TCP", "UDP"}
    BY DEF Protocols
  <2>2. /\ ~External => services = [s \in {"tft-clusterip-service", "tft-nodeport-service"} |-> Service]
        /\ policies = IF case.mode = "multi_network" THEN Policies ELSE {}
    BY <1>1 DEF IInv, ServicesInv, PoliciesInv, Running, Rendered, AtWork
  <2>3. /\ case.mode = "cluster_ip" =>
              protocol \in services["tft-clusterip-service"].protocols
        /\ case.mode = "node_port_ip" =>
              protocol \in services["tft-nodeport-service"].protocols
    BY <2>1, <2>2 DEF External, Service
  <2>4. CASE case.mode = "multi_network"
    <3>1. policies = {<<"ingress", "TCP", Port>>, <<"egress", "TCP", Port>>}
      BY <2>2, <2>4 DEF Policies
    <3>2. {<<"ingress", protocol, Port>>, <<"egress", protocol, Port>>} \subseteq policies
            <=> protocol = "TCP"
      BY <2>1, <3>1
    <3> QED
      BY <2>3, <2>4, <3>1, <3>2 DEF Admitted
  <2>5. CASE case.mode # "multi_network"
    BY <2>2, <2>3, <2>5 DEF Admitted
  <2> QED
    BY <2>4, <2>5
<1>2. IInv => DatagramsStopped
  BY <1>1 DEF DatagramsStopped
<1> QED
  BY <1>2, Invariance, PTL

(* Whatever the test case and the server's kind, in either direction, one  *)
(* process serves while traffic flows: the container of a persistent       *)
(* server or the command of the thread, never both and never none          *)
(* (src/task.py:841-844, 949-959).                                         *)
THEOREM OneServer == Spec => []OneServerRuns
<1>1. ASSUME IInv, pc = "traffic"
      PROVE  Cardinality({s \in serving : s[1] = Pod}) = 1
  <2>1. Started /\ (~External => Pod \in DOMAIN pods)
    BY <1>1, InTraffic, ServerManifest DEF Started, AtWork
  <2>2. \E by : RunBy = {by}
    <3>1. CASE External
      <4>1. RunBy = {"podman"}
        BY <2>1, <3>1 DEF RunBy
      <4> QED
        BY <4>1
    <3>2. CASE ~External /\ Persistent
      <4>1. RunBy = {"container"}
        BY <2>1, <3>2 DEF RunBy
      <4> QED
        BY <4>1
    <3>3. CASE ~External /\ ~Persistent
      <4>1. RunBy = {"exec"}
        BY <2>1, <3>3 DEF RunBy
      <4> QED
        BY <4>1
    <3> QED
      BY <3>1, <3>2, <3>3
  <2>3. PICK by : RunBy = {by}
    BY <2>2
  <2>4. serving = {<<Pod, b>> : b \in RunBy}
    BY <1>1, InTraffic DEF IInv, ServingInv
  <2>5. {s \in serving : s[1] = Pod} = {<<Pod, by>>}
    BY <2>3, <2>4
  <2> QED
    BY <2>5, FS_Singleton
<1>2. IInv => OneServerRuns
  BY <1>1 DEF OneServerRuns
<1> QED
  BY <1>2, Invariance, PTL

(* However many tasks share a name, each works in a pod that is as it      *)
(* would have made it: the names of pods that differ are different, for    *)
(* any list of plugins and any nodes (src/task.py:335-338, 652-659).       *)
THEOREM ManifestsAreTheirOwn == Spec => []OwnManifests
<1>1. IInv => OwnManifests
  BY InTraffic DEF OwnManifests, TaskIds, HasPod
<1> QED
  BY <1>1, Invariance, PTL
=============================================================================
