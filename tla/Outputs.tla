------------------------------- MODULE Outputs -------------------------------
(***************************************************************************)
(* A client's thread and a plugin's, with whatever their commands print,   *)
(* and the main thread, which aggregates the one output after the other.   *)
(* The plugin looks at, or waits for, the event that the client sets       *)
(* before it parses anything; an exception in a thread kills the process.  *)
(***************************************************************************)
EXTENDS MonitorOutputs

vars == <<clientVars, clientFinished, monitorVars>>

Init == ClientInit /\ MonitorInit

Alive == pc \notin {"killed", "raised"} /\ monitorPc \notin {"killed", "raised"}

Client == Alive /\ ClientThread /\ UNCHANGED monitorVars
Monitor == Alive /\ MonitorThread /\ UNCHANGED <<clientVars, clientFinished>>

(* The main thread: finish_task() of both, aggregate_output() of both.     *)
Finished == pc # "command" /\ pc # "parse" /\ monitorPc \in {"returned", "aggregated"}
Aggregate ==
  /\ Alive /\ Finished
  /\ \/ AggregateClient /\ UNCHANGED monitorVars
     \/ pc = "aggregated" /\ AggregateMonitor /\ UNCHANGED <<clientVars, clientFinished>>

Done == Alive => pc = "aggregated" /\ monitorPc = "aggregated"
Over == Done /\ UNCHANGED vars

Next == Client \/ Monitor \/ Aggregate \/ Over

Spec == Init /\ [][Next]_vars

-----------------------------------------------------------------------------
TypeOK == ClientTypeOK /\ MonitorTypeOK

(* Whatever was printed, what was called a success can be logged: for that *)
(* the main thread reads the output of iperf3 and mpstat a second time,    *)
(* after the verdict, and handles nothing (src/testTypeIperf.py:181-185,   *)
(* 201-209, src/pluginMeasureCpu.py:88-97, 114-120).                       *)
SuccessCanBeLogged == pc # "raised" /\ monitorPc # "raised"
=============================================================================
