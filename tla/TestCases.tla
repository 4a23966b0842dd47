------------------------------ MODULE TestCases ------------------------------
(***************************************************************************)
(* The test cases: where a test case puts its server and its client, and   *)
(* over what the client reaches the server.                                *)
(***************************************************************************)

Modes    == {"pod_ip", "cluster_ip", "node_port_ip", "external_ip",
             "multi_home", "multi_network"}
PodTypes == {"normal", "sriov", "hostbacked"}

(* TestCaseTypInfo: connection mode, is_same_node, is_server_hostbacked    *)
(* and is_client_hostbacked.                                               *)
TestCaseInfo == [mode : Modes, same : BOOLEAN, server_host : BOOLEAN, client_host : BOOLEAN]

Info(mode, same, server, client) ==
  [mode |-> mode, same |-> same, server_host |-> server = "host", client_host |-> client = "host"]

(* _test_case_typ_infos                                                    *)
infos ==
  [POD_TO_POD_SAME_NODE                 |-> Info("pod_ip",        TRUE,  "pod",  "pod"),
   POD_TO_POD_DIFF_NODE                 |-> Info("pod_ip",        FALSE, "pod",  "pod"),
   POD_TO_HOST_SAME_NODE                |-> Info("pod_ip",        TRUE,  "host", "pod"),
   POD_TO_HOST_DIFF_NODE                |-> Info("pod_ip",        FALSE, "host", "pod"),
   POD_TO_CLUSTER_IP_TO_POD_SAME_NODE   |-> Info("cluster_ip",    TRUE,  "pod",  "pod"),
   POD_TO_CLUSTER_IP_TO_POD_DIFF_NODE   |-> Info("cluster_ip",    FALSE, "pod",  "pod"),
   POD_TO_CLUSTER_IP_TO_HOST_SAME_NODE  |-> Info("cluster_ip",    TRUE,  "host", "pod"),
   POD_TO_CLUSTER_IP_TO_HOST_DIFF_NODE  |-> Info("cluster_ip",    FALSE, "host", "pod"),
   POD_TO_NODE_PORT_TO_POD_SAME_NODE    |-> Info("node_port_ip",  TRUE,  "pod",  "pod"),
   POD_TO_NODE_PORT_TO_POD_DIFF_NODE    |-> Info("node_port_ip",  FALSE, "pod",  "pod"),
   HOST_TO_POD_SAME_NODE                |-> Info("pod_ip",        TRUE,  "pod",  "host"),
   HOST_TO_POD_DIFF_NODE                |-> Info("pod_ip",        FALSE, "pod",  "host"),
   HOST_TO_CLUSTER_IP_TO_POD_SAME_NODE  |-> Info("cluster_ip",    TRUE,  "pod",  "host"),
   HOST_TO_CLUSTER_IP_TO_POD_DIFF_NODE  |-> Info("cluster_ip",    FALSE, "pod",  "host"),
   HOST_TO_CLUSTER_IP_TO_HOST_SAME_NODE |-> Info("cluster_ip",    TRUE,  "host", "host"),
   HOST_TO_CLUSTER_IP_TO_HOST_DIFF_NODE |-> Info("cluster_ip",    FALSE, "host", "host"),
   HOST_TO_NODE_PORT_TO_POD_SAME_NODE   |-> Info("node_port_ip",  TRUE,  "pod",  "host"),
   HOST_TO_NODE_PORT_TO_POD_DIFF_NODE   |-> Info("node_port_ip",  FALSE, "pod",  "host"),
   HOST_TO_NODE_PORT_TO_HOST_SAME_NODE  |-> Info("node_port_ip",  TRUE,  "host", "host"),
   HOST_TO_NODE_PORT_TO_HOST_DIFF_NODE  |-> Info("node_port_ip",  FALSE, "host", "host"),
   POD_TO_EXTERNAL                      |-> Info("external_ip",   FALSE, "pod",  "host"),
   POD_TO_POD_2ND_INTERFACE_SAME_NODE   |-> Info("multi_home",    TRUE,  "pod",  "pod"),
   POD_TO_POD_2ND_INTERFACE_DIFF_NODE   |-> Info("multi_home",    FALSE, "pod",  "pod"),
   POD_TO_POD_MULTI_NETWORK_POLICY      |-> Info("multi_network", FALSE, "pod",  "pod")]

(* get_server_pod_type() and get_client_pod_type()                         *)
GetPodType(host, sriov) ==
  IF host THEN "hostbacked" ELSE IF sriov THEN "sriov" ELSE "normal"
=============================================================================
