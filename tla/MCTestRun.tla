------------------------------ MODULE MCTestRun ------------------------------
(* Configurations of TestRun for TLC.                                      *)
EXTENDS TestRun

Case(same, mode) == [same |-> same, mode |-> mode]
Conn(plugins, reverse, instances) ==
  [client |-> "w1", server |-> "w2", pod |-> "normal",
   persistent |-> FALSE, plugins |-> plugins, reverse |-> reverse,
   instances |-> instances]

Persistent(co) == [co EXCEPT !.persistent = TRUE]

(* Two tests in one namespace: names are used again by the reverse         *)
(* direction, by the next case and by the next test, and by monitors.  The *)
(* first test has a persistent server.                                     *)
OneNamespace ==
  <<[namespace |-> "ns1", cases |-> <<Case(FALSE, "pod_ip")>>,
     conns |-> <<Persistent(Conn(FALSE, TRUE, 1))>>],
    [namespace |-> "ns1", cases |-> <<Case(TRUE, "multi_network"), Case(FALSE, "external")>>,
     conns |-> <<Conn(TRUE, FALSE, 1)>>]>>
=============================================================================
