---------------------------- MODULE MonitorOutputs ---------------------------
(***************************************************************************)
(* What a plugin's thread makes of the output of mpstat, ipmitool and      *)
(* ethtool: from whatever they print to a PluginOutput and to the log of a *)
(* success.                                                                *)
(*                                                                         *)
(* The thread among the others is TestInstance, where a counter is what    *)
(* has gone through the representor; here it is what ethtool prints.  It   *)
(* waits for the client of ClientOutputs.  An output is what the parsers   *)
(* can tell apart in it.                                                   *)
(*                                                                         *)
(* A definition marked "variation" is a faulty form of the definition that *)
(* follows it; no other definition uses it.                                *)
(***************************************************************************)
EXTENDS ClientOutputs

CONSTANTS
  Plugins,     \* plugins
  Watts,       \* the readings that ipmitool may print
  Counts,      \* the counters that ethtool may print
  VF_REP_TRAFFIC_THRESHOLD,
  MaxSamples,  \* bound: rounds of measure_power before the client's end
  Junk         \* a counter that is no number

ASSUME MonitorOutputsAssumption ==
  /\ Plugins \subseteq {"measure_cpu", "measure_power", "validate_offload"}
  /\ Watts \subseteq Nat /\ Counts \subseteq Nat
  /\ VF_REP_TRAFFIC_THRESHOLD \in Nat \ {0} /\ MaxSamples \in Nat
  /\ Junk \notin Nat \cup {None}

Directions == {"rx", "tx"}

VARIABLES
  plugin,
  monitorPc,        \* where the thread or, after it, aggregate_output() is
  idle,             \* mpstat: there is a percent_idle
  readings,         \* history: what ipmitool printed, None if it cannot be read
  total, iteration, \* measure_power's sum and rounds
  vfRep,            \* there is a VF representor
  start, end,       \* what was read, by direction: the counters of parsed_data
  success           \* of the output

power == <<readings, total, iteration>>
offload == <<vfRep, start, end>>
monitorVars == <<plugin, monitorPc, idle, power, offload, success>>

Unread == [d \in Directions |-> None]

MonitorInit ==
  /\ plugin \in Plugins
  /\ monitorPc = CASE plugin = "measure_cpu" -> "mpstat"
            [] plugin = "measure_power" -> "check"
            [] plugin = "validate_offload" -> "detect"
  /\ success = TRUE
  /\ idle = FALSE /\ readings = <<>> /\ total = 0 /\ iteration = 0
  /\ vfRep = FALSE /\ start = Unread /\ end = Unread

-----------------------------------------------------------------------------
(* measure_cpu: the command succeeds, its output is parsed to a list whose *)
(* first element is a dictionary with a percent_idle.                      *)
Mpstat ==
  /\ monitorPc = "mpstat"
  /\ \E exit, parsed, hasIdle \in BOOLEAN :
       success' = (exit /\ parsed /\ hasIdle) /\ idle' = success'
  /\ monitorPc' = "returned"
  /\ UNCHANGED <<plugin, power, offload>>

-----------------------------------------------------------------------------
PowerCheck ==
  /\ monitorPc = "check" /\ (clientFinished \/ iteration < MaxSamples)
  /\ monitorPc' = IF clientFinished THEN "average" ELSE "sample"
  /\ UNCHANGED <<plugin, idle, power, offload, success>>

(* Variation: a reading that cannot be parsed is passed over.              *)
PowerSampleForgiving ==
  /\ monitorPc = "sample"
  /\ \E exit \in BOOLEAN, watts \in Watts \cup {None} :
       /\ readings' = Append(readings, IF exit THEN watts ELSE None)
       /\ success' = (success /\ exit)
       /\ total' = IF exit /\ watts # None THEN total + watts ELSE total
  /\ iteration' = iteration + 1
  /\ monitorPc' = "check"
  /\ UNCHANGED <<plugin, idle, offload>>

(* A round that fails counts in the average, and makes the output a        *)
(* failure.                                                                *)
PowerSample ==
  /\ monitorPc = "sample"
  /\ \E watts \in Watts \cup {None} :
       /\ readings' = Append(readings, watts)
       /\ success' = (success /\ watts # None)
       /\ total' = IF watts # None THEN total + watts ELSE total
  /\ iteration' = iteration + 1
  /\ monitorPc' = "check"
  /\ UNCHANGED <<plugin, idle, offload>>

(* total_pwr / iteration                                                   *)
PowerAverage ==
  /\ monitorPc = "average"
  /\ monitorPc' = IF iteration = 0 THEN "killed" ELSE "returned"
  /\ UNCHANGED <<plugin, idle, power, offload, success>>

-----------------------------------------------------------------------------
(* pod_get_vf_rep(): one device of the pod, with a PCI address, and one    *)
(* representor for that address on the host.                               *)
FoundVfRep(devices, hasAddress, representors) ==
  devices = 1 /\ hasAddress /\ representors = 1

DetectVfRep ==
  /\ monitorPc = "detect"
  /\ \E kind \in {"hostbacked", "external", "pod"}, devices, representors \in 0..2,
        hasAddress \in BOOLEAN :
       LET found == kind = "pod" /\ FoundVfRep(devices, hasAddress, representors)
       IN  /\ vfRep' = found
           /\ success' = (kind = "pod" => found)
           /\ monitorPc' = IF found THEN "read_start" ELSE "returned"
  /\ UNCHANGED <<plugin, idle, power, start, end>>

(* The counters of one direction: a total, or two queues to be summed up.  *)
Queues == (Counts \cup {Junk}) \X (Counts \cup {Junk})
Stats == [total : Counts \cup {Junk, None}, queues : {<<>>} \cup Queues]

(* ethtool_stat_get_packets().  int() of junk raises ValueError, which is  *)
(* not what is handled: the outcome is Junk.                               *)
Packets(stats) ==
  CASE stats.total # None -> stats.total
    [] stats.total = None /\ stats.queues = <<>> -> None
    [] stats.total = None /\ stats.queues # <<>> ->
         IF Junk \in {stats.queues[1], stats.queues[2]} THEN Junk
           ELSE stats.queues[1] + stats.queues[2]

(* The counters that a reading with ethtool -S will be parsed to: none if  *)
(* the command failed.                                                     *)
Readings ==
  {Unread} \cup {[d \in Directions |-> Packets(stats[d])] : stats \in [Directions -> Stats]}

ReadStart ==
  /\ monitorPc = "read_start"
  /\ start' \in Readings
  /\ monitorPc' = "await_client"
  /\ UNCHANGED <<plugin, idle, power, vfRep, end, success>>

ReadEnd ==
  /\ monitorPc = "await_client" /\ clientFinished
  /\ end' \in Readings
  /\ monitorPc' = "verdict"
  /\ UNCHANGED <<plugin, idle, power, vfRep, start, success>>

(* Variation: a direction that is not read twice is left alone.            *)
NoTrafficIfBoth(d) ==
  start[d] # None /\ end[d] # None => end[d] < start[d] + VF_REP_TRAFFIC_THRESHOLD

(* check_no_traffic_on_vf_rep()                                            *)
NoTraffic(d) ==
  /\ start[d] = None <=> end[d] = None
  /\ start[d] # None => end[d] < start[d] + VF_REP_TRAFFIC_THRESHOLD

(* ethtool_stat_get_startend() for both readings - without any counter one *)
(* has failed - and the verdict.                                           *)
Verdict ==
  /\ monitorPc = "verdict"
  /\ IF \E d \in Directions : Junk \in {start[d], end[d]}
       THEN monitorPc' = "killed" /\ success' = success
       ELSE /\ monitorPc' = "returned"
            /\ success' = /\ success /\ start # Unread /\ end # Unread
                          /\ \A d \in Directions : NoTraffic(d)
  /\ UNCHANGED <<plugin, idle, power, offload>>

-----------------------------------------------------------------------------
(* aggregate_output(): _aggregate_output_log_success() of measure_cpu      *)
(* reads the percent_idle again.                                           *)
AggregateMonitor ==
  /\ monitorPc = "returned"
  /\ monitorPc' = IF success /\ plugin = "measure_cpu" /\ ~idle THEN "raised" ELSE "aggregated"
  /\ UNCHANGED <<plugin, idle, power, offload, success>>

MonitorThread ==
  \/ Mpstat \/ PowerCheck \/ PowerSample \/ PowerAverage
  \/ DetectVfRep \/ ReadStart \/ ReadEnd \/ Verdict

-----------------------------------------------------------------------------
MonitorTypeOK ==
  /\ plugin \in Plugins
  /\ monitorPc \in {"mpstat", "check", "sample", "average", "detect", "read_start",
                    "await_client", "verdict", "returned", "killed", "raised", "aggregated"}
  /\ idle \in BOOLEAN /\ vfRep \in BOOLEAN /\ success \in BOOLEAN
  /\ readings \in Seq(Watts \cup {None}) /\ total \in Nat /\ iteration \in 0..MaxSamples
  /\ start \in [Directions -> Nat \cup {Junk, None}]
  /\ end \in [Directions -> Nat \cup {Junk, None}]

MonitorSucceeded == monitorPc \in {"returned", "aggregated"} /\ success

(* The average power of a success lies between the lowest and the highest  *)
(* of the readings: no failed round, which counts as 0 W, is in it         *)
(* (src/pluginMeasurePower.py:82-101).                                     *)
AverageOfReadings ==
  MonitorSucceeded /\ plugin = "measure_power" =>
    /\ iteration = Len(readings) /\ iteration > 0
    /\ \E i, j \in DOMAIN readings :
         /\ readings[i] # None /\ readings[j] # None
         /\ readings[i] * iteration <= total /\ total <= readings[j] * iteration

(* A validate_offload that found a representor and no fault has compared   *)
(* something: at least one direction was read at both ends, no direction   *)
(* at one end only, and none went up by the threshold - whichever of the   *)
(* two readings failed and whatever ethtool left out                       *)
(* (src/pluginValidateOffload.py:100-116, 221-249).                        *)
SomethingCompared ==
  MonitorSucceeded /\ vfRep =>
    /\ \E d \in Directions : start[d] # None /\ end[d] # None
    /\ \A d \in Directions :
         /\ start[d] = None <=> end[d] = None
         /\ start[d] # None => end[d] < start[d] + VF_REP_TRAFFIC_THRESHOLD
=============================================================================
