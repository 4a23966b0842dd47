----------------------------- MODULE MCTestPods ------------------------------
(* Connections of TestPods for TLC: server and client on one node or on    *)
(* two, with every combination of SR-IOV, persistence, a secondary network *)
(* and a type of test with a reverse direction, with UDP or with neither;  *)
(* no plugins or all three.                                                *)
EXTENDS TestPods

Node(name, sriov, network, privileged, persistent) ==
  [name |-> name, sriov |-> sriov, default_network |-> network,
   privileged |-> privileged, persistent |-> persistent]

Clients == {Node("w1", sriov, "net1", None, FALSE) : sriov \in BOOLEAN}
Servers == {Node(name, sriov, "net2", privileged, persistent) :
              name \in {"w1", "w2"}, sriov \in BOOLEAN, privileged \in {None, FALSE},
              persistent \in BOOLEAN}
AllPlugins == <<"measure_cpu", "measure_power", "validate_offload">>

MCConns ==
  [server : Servers, client : Clients, plugins : {<<>>, AllPlugins}, nad : BOOLEAN,
   type : {"iperf-tcp", "iperf-udp", "http"}]
=============================================================================
