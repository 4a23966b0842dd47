--------------------------- MODULE MCTestInstance ----------------------------
(* Instances of TestInstance for TLC.                                      *)
EXTENDS TestInstance

AllPlugins == [t \in 1..5 |-> <<"server", "client", "measure_cpu", "measure_power",
                               "validate_offload">>[t]]
PowerAndOffload == [t \in 1..4 |-> <<"server", "client", "measure_power",
                                    "validate_offload">>[t]]
OnePower == [t \in 1..3 |-> <<"server", "client", "measure_power">>[t]]
=============================================================================
