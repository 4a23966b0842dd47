---------------------------- MODULE Outputs_proofs ----------------------------
(***************************************************************************)
(* For all rates, durations, thresholds and numbers of rounds: what is     *)
(* called a success was measured, compared and averaged from readings, and *)
(* can be logged.                                                          *)
(***************************************************************************)
EXTENDS Outputs, TLAPS

(* The client: http goes on only as long as every answer was a success;    *)
(* the output is what its answer makes it.                                 *)
ClientOK ==
  /\ pc = "command" => \A i \in DOMAIN tries : tries[i]
  /\ pc # "command" => answer \in Answers(type)
  /\ pc # "command" /\ type = "HTTP" =>
       tries # <<>> /\ (answer.exit => left = 0 /\ \A i \in DOMAIN tries : tries[i])
  /\ pc \in {"returned", "aggregated"} => output = Flow(type, answer)
  /\ pc # "raised"

(* A plugin runs its own steps only; what it has found at each of them.    *)
MonitorOK ==
  /\ monitorPc = "mpstat" => plugin = "measure_cpu"
  /\ monitorPc \in {"check", "sample", "average"} => plugin = "measure_power"
  /\ monitorPc \in {"detect", "read_start", "await_client", "verdict"} =>
       plugin = "validate_offload"
  /\ monitorPc = "sample" => iteration < MaxSamples
  /\ monitorPc \in {"returned", "aggregated"} /\ success /\ plugin = "measure_cpu" => idle
  /\ plugin # "validate_offload" \/ monitorPc = "detect" => ~vfRep
  /\ monitorPc # "raised"

(* measure_power's sum.                                                    *)
Between(i, j) ==
  /\ readings[i] # None /\ readings[j] # None
  /\ readings[i] * iteration <= total /\ total <= readings[j] * iteration
PowerOK ==
  plugin = "measure_power" =>
    /\ iteration = Len(readings)
    /\ iteration = 0 => total = 0
    /\ success /\ iteration > 0 => \E i, j \in DOMAIN readings : Between(i, j)
    /\ monitorPc \in {"returned", "aggregated"} => iteration > 0

IInv == TypeOK /\ ClientOK /\ MonitorOK /\ PowerOK /\ SomethingCompared

-----------------------------------------------------------------------------
LEMMA Consts ==
  /\ Types \subseteq TestTypes /\ Rates \subseteq Nat /\ Duration \in Nat
  /\ NaN \notin Nat /\ NaN # None /\ None \notin Nat
  /\ Plugins \subseteq {"measure_cpu", "measure_power", "validate_offload"}
  /\ Watts \subseteq Nat /\ Counts \subseteq Nat
  /\ VF_REP_TRAFFIC_THRESHOLD \in Nat \ {0} /\ MaxSamples \in Nat
  /\ Junk \notin Nat /\ Junk # None
BY ClientOutputsAssumption, MonitorOutputsAssumption

(* What each kind of output is made to.                                    *)
LEMMA FlowFacts ==
  ASSUME NEW t \in Types, NEW a \in Answers(t)
  PROVE  /\ Flow(t, a) \in FlowTestOutputs
         /\ Flow(t, a).success =>
              /\ a.exit
              /\ t = "IPERF_TCP" => a.rest /\ a.sent # None /\ a.received # None
              /\ t = "IPERF_UDP" => a.rest /\ a.sum # None
              /\ t \in Iperf =>
                   Flow(t, a).bitrate.tx # None /\ Flow(t, a).bitrate.rx # None
              /\ t \in Netperf => Flow(t, a).bitrate.tx # None
<1> USE Consts
<1>1. CASE t = "IPERF_TCP"
  <2>1. a \in IperfFailures \cup IperfObjects(t)
    BY <1>1 DEF Answers, Iperf, Netperf
  <2>2. /\ a.exit \in BOOLEAN /\ a.error \in BOOLEAN /\ a.rest \in BOOLEAN
        /\ a.sent \in Fields /\ a.received \in Fields
    BY <2>1, <1>1 DEF IperfFailures, IperfObjects, Parts, Fields
  <2>3. CalculateGbps(t, a) \in Bitrates
    BY <2>2, <1>1 DEF CalculateGbps, ResultTcp, NA, Bitrates, Fields
  <2>4. IperfSuccess(t, a) => 
          /\ a.exit /\ a.rest /\ a.sent # None /\ a.received # None
          /\ CalculateGbps(t, a).tx # None /\ CalculateGbps(t, a).rx # None
    BY <2>2, <1>1 DEF IperfSuccess, CalculateGbps, ResultTcp, NA, Loaded
  <2>5. IperfSuccess(t, a) \in BOOLEAN
    BY DEF IperfSuccess
  <2>6. Flow(t, a) = [success |-> IperfSuccess(t, a), bitrate |-> CalculateGbps(t, a)]
    BY <1>1 DEF Flow, Iperf, Netperf
  <2> HIDE DEF IperfSuccess
  <2> QED BY <2>3, <2>4, <2>5, <2>6, <1>1 DEF FlowTestOutputs, Netperf
<1>2. CASE t = "IPERF_UDP"
  <2>1. a \in IperfFailures \cup IperfObjects(t)
    BY <1>2 DEF Answers, Iperf, Netperf
  <2>2. /\ a.exit \in BOOLEAN /\ a.error \in BOOLEAN /\ a.rest \in BOOLEAN
        /\ a.sum \in Fields
    BY <2>1, <1>2 DEF IperfFailures, IperfObjects, Parts, Fields
  <2>3. CalculateGbps(t, a) \in Bitrates
    BY <2>2, <1>2 DEF CalculateGbps, ResultUdp, NA, Bitrates, Fields
  <2>4. IperfSuccess(t, a) => 
          /\ a.exit /\ a.rest /\ a.sum # None
          /\ CalculateGbps(t, a).tx # None /\ CalculateGbps(t, a).rx # None
    BY <2>2, <1>2 DEF IperfSuccess, CalculateGbps, ResultUdp, NA, Loaded
  <2>5. IperfSuccess(t, a) \in BOOLEAN
    BY DEF IperfSuccess
  <2>6. Flow(t, a) = [success |-> IperfSuccess(t, a), bitrate |-> CalculateGbps(t, a)]
    BY <1>2 DEF Flow, Iperf, Netperf
  <2> QED BY <2>3, <2>4, <2>5, <2>6, <1>2 DEF FlowTestOutputs, Netperf
<1>3. CASE t \in Netperf
  <2>1. a \in NetperfAnswers /\ t \notin Iperf
    BY <1>3 DEF Answers, Iperf, Netperf
  <2>2. Flow(t, a) = [success |-> NetperfSuccess(a), bitrate |-> NetperfBitrate(a)]
    BY <2>1, <1>3 DEF Flow
  <2>3. NetperfBitrate(a) \in Bitrates
    BY <2>1 DEF NetperfAnswers, NetperfBitrate, NA, Bitrates, Fields
  <2>4. NetperfSuccess(a) \in BOOLEAN
    BY DEF NetperfSuccess
  <2>5. NetperfSuccess(a) => a.exit /\ NetperfBitrate(a).tx # None
    BY <2>1 DEF NetperfSuccess, NetperfBitrate
  <2> QED BY <2>1, <2>2, <2>3, <2>4, <2>5 DEF FlowTestOutputs, Iperf
<1>4. CASE t \notin Iperf \cup Netperf
  <2>1. a \in [exit : BOOLEAN] /\ Flow(t, a) = [success |-> a.exit, bitrate |-> NA]
    BY <1>4 DEF Answers, Flow
  <2> QED BY <2>1, <1>4 DEF FlowTestOutputs, NA, Bitrates, Iperf
<1> QED BY <1>1, <1>2, <1>3, <1>4 DEF Iperf

-----------------------------------------------------------------------------
LEMMA Initial == Init => IInv
<1> SUFFICES ASSUME Init PROVE IInv
  OBVIOUS
<1> USE Consts DEF Init, ClientInit, MonitorInit
<1>1. plugin \in {"measure_cpu", "measure_power", "validate_offload"}
  OBVIOUS
<1>2. /\ plugin = "measure_cpu" => monitorPc = "mpstat"
      /\ plugin = "measure_power" => monitorPc = "check"
      /\ plugin = "validate_offload" => monitorPc = "detect"
  OBVIOUS
<1>e. tries \in Seq(BOOLEAN) /\ readings \in Seq(Watts \cup {None})
  OBVIOUS
<1>3. ClientTypeOK
  <2>1. left \in 0..Duration
    OBVIOUS
  <2> QED BY <1>e, <2>1, Zenon DEF ClientTypeOK
<1>4. MonitorTypeOK
  <2>1. total \in Nat /\ iteration \in 0..MaxSamples
    OBVIOUS
  <2>2. Unread \in [Directions -> Nat \cup {Junk, None}]
    BY DEF Unread
  <2>3. monitorPc \in {"mpstat", "check", "detect"}
    BY <1>1, <1>2
  <2> QED BY <1>e, <2>1, <2>2, <2>3, Zenon DEF MonitorTypeOK
<1>5. ClientOK
  BY DEF ClientOK
<1>6. MonitorOK /\ PowerOK /\ SomethingCompared
  BY <1>1, <1>2 DEF MonitorOK, PowerOK, SomethingCompared, MonitorSucceeded
<1> QED BY <1>3, <1>4, <1>5, <1>6 DEF IInv, TypeOK

LEMMA HttpAnswers == Answers("HTTP") = [exit : BOOLEAN]
BY DEF Answers, Iperf, Netperf

LEMMA ClientStep ==
  ASSUME ClientTypeOK, ClientOK, ClientThread \/ AggregateClient
  PROVE  ClientTypeOK' /\ ClientOK'
<1> USE Consts DEF ClientTypeOK, ClientOK
<1>1. CASE RunCommand
  <2>1. /\ answer' \in Answers(type') /\ pc' = "parse" /\ clientFinished' = TRUE
        /\ type # "HTTP" /\ UNCHANGED <<type, tries, left, output>>
    BY <1>1 DEF RunCommand
  <2> QED BY <2>1
<1>2. CASE HttpRequest
  <2>1. PICK s \in BOOLEAN, rest \in 0..left :
          /\ answer' = [exit |-> s] /\ tries' = Append(tries, s)
          /\ IF ~s \/ rest = 0
               THEN pc' = "parse" /\ clientFinished' = TRUE /\ left' = rest
               ELSE left' = rest - 1 /\ UNCHANGED <<pc, clientFinished>>
    BY <1>2 DEF HttpRequest
  <2>2. type = "HTTP" /\ pc = "command" /\ UNCHANGED <<type, output>>
    BY <1>2 DEF HttpRequest
  <2>3. answer' \in Answers(type) /\ answer'.exit = s
    BY <2>1, <2>2, HttpAnswers
  <2>4. /\ tries' \in Seq(BOOLEAN) /\ tries' # <<>>
        /\ s => \A i \in DOMAIN tries' : tries'[i]
    BY <2>1, <2>2
  <2>5. left' \in 0..Duration /\ (s /\ pc' = "parse" => left' = 0)
        /\ (pc' = pc => s) /\ pc' \in {"command", "parse"} /\ clientFinished' \in BOOLEAN
    <3>1. rest \in Nat /\ left \in Nat /\ rest <= left /\ left <= Duration
      OBVIOUS
    <3>2. CASE ~s \/ rest = 0
      <4>1. pc' = "parse" /\ clientFinished' = TRUE /\ left' = rest
        BY <2>1, <3>2
      <4> QED BY <2>2, <3>1, <3>2, <4>1
    <3>3. CASE s /\ rest # 0
      <4>1. left' = rest - 1 /\ UNCHANGED <<pc, clientFinished>>
        BY <2>1, <3>3
      <4> QED BY <2>2, <3>1, <3>3, <4>1
    <3> QED BY <3>2, <3>3
  <2> QED BY <2>2, <2>3, <2>4, <2>5
<1>3. CASE Parse
  <2>1. Flow(type, answer) \in FlowTestOutputs
    BY <1>3, FlowFacts DEF Parse
  <2> QED BY <1>3, <2>1 DEF Parse
<1>4. CASE AggregateClient
  <2>1. output.success => CanLog
    <3>1. type \in Types /\ answer \in Answers(type) /\ output = Flow(type, answer)
      BY <1>4 DEF AggregateClient
    <3> DEFINE f == Flow(type, answer)
    <3>2. f.success =>
            /\ type = "IPERF_TCP" => answer.rest /\ answer.sent # None /\ answer.received # None
            /\ type = "IPERF_UDP" => answer.rest /\ answer.sum # None
      BY <3>1, FlowFacts
    <3> QED BY <3>1, <3>2 DEF CanLog, Iperf
  <2> QED BY <1>4, <2>1 DEF AggregateClient
<1> QED BY <1>1, <1>2, <1>3, <1>4 DEF ClientThread

-----------------------------------------------------------------------------
(* What is needed of products.                                             *)
LEMMA Times ==
  ASSUME NEW a \in Nat, NEW b \in Nat, NEW n \in Nat
  PROVE  /\ a * n \in Nat /\ a * (n + 1) = a * n + a
         /\ a <= b => a * n <= b * n
<1>1. a * n \in Nat /\ a * (n + 1) = a * n + a
  OBVIOUS
<1>2. ASSUME a <= b PROVE a * n <= b * n
  <2>1. PICK d \in Nat : b = a + d
    <3>1. b - a \in Nat /\ b = a + (b - a)
      BY <1>2
    <3> QED BY <3>1
  <2>2. b * n = a * n + d * n /\ d * n >= 0
    BY <2>1
  <2> QED BY <2>2
<1> QED BY <1>1, <1>2

(* A further reading keeps the sum between the lowest and the highest.     *)
LEMMA SumBetween ==
  ASSUME NEW n \in Nat, NEW w \in Nat, NEW sum \in Nat,
         NEW lo \in Nat, NEW hi \in Nat, lo * n <= sum, sum <= hi * n
  PROVE  /\ (w <= lo /\ w * (n + 1) <= sum + w) \/ lo * (n + 1) <= sum + w
         /\ (hi <= w /\ sum + w <= w * (n + 1)) \/ sum + w <= hi * (n + 1)
<1>1. /\ w * n \in Nat /\ lo * n \in Nat /\ hi * n \in Nat
      /\ w * (n + 1) = w * n + w /\ lo * (n + 1) = lo * n + lo
      /\ hi * (n + 1) = hi * n + hi
  BY Times
<1>2. /\ w <= lo => w * n <= lo * n
      /\ hi <= w => hi * n <= w * n
  BY Times
<1> QED BY <1>1, <1>2

LEMMA SampleKeepsBetween ==
  ASSUME PowerOK, plugin = "measure_power",
         readings \in Seq(Watts \cup {None}), total \in Nat, iteration \in Nat,
         NEW w \in Watts, success,
         readings' = Append(readings, w), total' = total + w, iteration' = iteration + 1
  PROVE  \E i, j \in DOMAIN readings' : Between(i, j)'
<1> DEFINE n == Len(readings)
<1>1. /\ n \in Nat /\ iteration = n /\ w \in Nat /\ w # None
      /\ DOMAIN readings' = 1..(n + 1) /\ readings'[n + 1] = w
      /\ \A i \in 1..n : readings'[i] = readings[i]
      /\ DOMAIN readings = 1..n
  BY Consts DEF PowerOK
<1> HIDE DEF n
<1>2. CASE n = 0
  <2>1. total' = w /\ iteration' = 1
    BY <1>1, <1>2 DEF PowerOK
  <2>2. w * 1 = w
    BY <1>1
  <2>3. PICK k \in DOMAIN readings' : k = n + 1
    BY <1>1
  <2>4. Between(k, k)'
    BY <1>1, <2>1, <2>2, <2>3 DEF Between
  <2> QED BY <2>3, <2>4
<1>3. CASE n > 0
  <2>1. PICK i, j \in 1..n : Between(i, j)
    BY <1>1, <1>3 DEF PowerOK
  <2> DEFINE lo == readings[i]
             hi == readings[j]
  <2>2. lo \in Nat /\ hi \in Nat /\ lo # None /\ hi # None
    <3>1. readings[i] \in Watts \cup {None} /\ readings[j] \in Watts \cup {None}
      BY <1>1, <2>1
    <3> QED BY <2>1, <3>1, Consts DEF Between
  <2>3. lo * n <= total /\ total <= hi * n
    BY <1>1, <2>1 DEF Between
  <2>4. readings'[i] = lo /\ readings'[j] = hi /\ i \in 1..(n + 1) /\ j \in 1..(n + 1)
        /\ n + 1 \in 1..(n + 1)
    BY <1>1, <2>1
  <2> HIDE DEF lo, hi
  <2>5. /\ (w <= lo /\ w * (n + 1) <= total + w) \/ lo * (n + 1) <= total + w
        /\ (hi <= w /\ total + w <= w * (n + 1)) \/ total + w <= hi * (n + 1)
    BY <1>1, <2>2, <2>3, SumBetween
  <2>6. PICK k \in 1..(n + 1) :
          readings'[k] # None /\ readings'[k] * (n + 1) <= total + w
    BY <1>1, <2>2, <2>4, <2>5
  <2>7. PICK m \in 1..(n + 1) :
          readings'[m] # None /\ total + w <= readings'[m] * (n + 1)
    BY <1>1, <2>2, <2>4, <2>5
  <2>8. Between(k, m)'
    BY <1>1, <2>6, <2>7 DEF Between
  <2> QED BY <1>1, <2>8
<1> QED BY <1>1, <1>2, <1>3

-----------------------------------------------------------------------------
LEMMA ReadingsType == Readings \subseteq [Directions -> Nat \cup {Junk, None}]
<1>1. ASSUME NEW s \in Stats PROVE Packets(s) \in Nat \cup {Junk, None}
  <2>1. s.total \in Nat \cup {Junk, None}
    BY Consts DEF Stats
  <2>2. CASE s.total = None /\ s.queues # <<>>
    <3>1. s.queues \in Queues
      BY <2>2 DEF Stats
    <3>2. s.queues[1] \in Nat \cup {Junk} /\ s.queues[2] \in Nat \cup {Junk}
      BY <3>1, Consts DEF Queues
    <3> QED BY <2>2, <3>2 DEF Packets
  <2> QED BY <2>1, <2>2 DEF Packets
<1> QED BY <1>1 DEF Readings, Unread

LEMMA MonitorStep ==
  ASSUME MonitorTypeOK, MonitorOK, PowerOK, SomethingCompared, clientFinished \in BOOLEAN,
         MonitorThread \/ AggregateMonitor
  PROVE  MonitorTypeOK' /\ MonitorOK' /\ PowerOK' /\ SomethingCompared'
<1> USE Consts DEF MonitorTypeOK, MonitorOK, power, offload
<1> USE DEF MonitorSucceeded, SomethingCompared
<1>1. CASE Mpstat
  <2>1. PICK exit, parsed, hasIdle \in BOOLEAN :
          success' = (exit /\ parsed /\ hasIdle) /\ idle' = success'
    BY <1>1 DEF Mpstat
  <2>2. success' \in BOOLEAN /\ idle' = success'
    BY <2>1
  <2>3. /\ plugin = "measure_cpu" /\ monitorPc' = "returned" /\ plugin' = plugin
        /\ UNCHANGED <<readings, total, iteration, vfRep, start, end>>
    BY <1>1 DEF Mpstat
  <2> QED BY <2>2, <2>3 DEF PowerOK
<1>2. CASE PowerCheck
  <2>1. /\ monitorPc = "check" /\ plugin = "measure_power"
        /\ UNCHANGED <<plugin, idle, readings, total, iteration, vfRep, start, end, success>>
        /\ monitorPc' \in {"average", "sample"}
        /\ monitorPc' = "sample" => iteration < MaxSamples
    BY <1>2 DEF PowerCheck
  <2> QED BY <2>1 DEF PowerOK, Between
<1>3. CASE PowerSample
  <2>1. PICK w \in Watts \cup {None} :
          /\ readings' = Append(readings, w)
          /\ success' = (success /\ w # None)
          /\ total' = IF w # None THEN total + w ELSE total
    BY <1>3 DEF PowerSample
  <2>2. /\ monitorPc = "sample" /\ plugin = "measure_power" /\ iteration < MaxSamples
        /\ monitorPc' = "check" /\ iteration' = iteration + 1
        /\ UNCHANGED <<plugin, idle, vfRep, start, end>>
    BY <1>3 DEF PowerSample
  <2>3. /\ readings' \in Seq(Watts \cup {None}) /\ Len(readings') = Len(readings) + 1
        /\ Len(readings) \in Nat /\ total' \in Nat /\ iteration' \in 1..MaxSamples
    BY <2>1, <2>2
  <2>4. success' \in BOOLEAN /\ (success' => success /\ w \in Watts /\ total' = total + w)
    BY <2>1
  <2>5. success' => \E i, j \in DOMAIN readings' : Between(i, j)'
    BY <2>1, <2>2, <2>4, SampleKeepsBetween
  <2>6. PowerOK'
    BY <2>2, <2>3, <2>5 DEF PowerOK
  <2> QED BY <2>2, <2>3, <2>4, <2>6
<1>4. CASE PowerAverage
  <2>1. /\ monitorPc = "average" /\ plugin = "measure_power"
        /\ UNCHANGED <<plugin, idle, readings, total, iteration, vfRep, start, end, success>>
        /\ monitorPc' \in {"killed", "returned"}
        /\ monitorPc' = "returned" => iteration # 0
    BY <1>4 DEF PowerAverage
  <2> QED BY <2>1 DEF PowerOK, Between
<1>5. CASE DetectVfRep
  <2>1. /\ monitorPc = "detect" /\ plugin = "validate_offload"
        /\ UNCHANGED <<plugin, idle, readings, total, iteration, start, end>>
        /\ vfRep' \in BOOLEAN /\ success' \in BOOLEAN
        /\ monitorPc' = IF vfRep' THEN "read_start" ELSE "returned"
    BY <1>5 DEF DetectVfRep, FoundVfRep
  <2> QED BY <2>1 DEF PowerOK
<1>6. CASE ReadStart
  <2>1. /\ monitorPc = "read_start" /\ plugin = "validate_offload"
        /\ UNCHANGED <<plugin, idle, readings, total, iteration, vfRep, end, success>>
        /\ monitorPc' = "await_client" /\ start' \in Readings
    BY <1>6 DEF ReadStart
  <2> QED BY <2>1, ReadingsType DEF PowerOK
<1>7. CASE ReadEnd
  <2>1. /\ monitorPc = "await_client" /\ plugin = "validate_offload"
        /\ UNCHANGED <<plugin, idle, readings, total, iteration, vfRep, start, success>>
        /\ monitorPc' = "verdict" /\ end' \in Readings
    BY <1>7 DEF ReadEnd
  <2> QED BY <2>1, ReadingsType DEF PowerOK
<1>8. CASE Verdict
  <2>1. /\ monitorPc = "verdict" /\ plugin = "validate_offload"
        /\ UNCHANGED <<plugin, idle, readings, total, iteration, vfRep, start, end>>
        /\ monitorPc' \in {"killed", "returned"} /\ success' \in BOOLEAN
        /\ monitorPc' = "returned" /\ success' =>
             /\ start # Unread
             /\ \A d \in Directions : NoTraffic(d)
    BY <1>8 DEF Verdict
  <2>2. start # Unread => \E d \in Directions : start[d] # None
    BY DEF Unread
  <2>3. monitorPc' = "returned" /\ success' =>
          /\ \E d \in Directions : start[d] # None /\ end[d] # None
          /\ \A d \in Directions :
               /\ start[d] = None <=> end[d] = None
               /\ start[d] # None => end[d] < start[d] + VF_REP_TRAFFIC_THRESHOLD
    BY <2>1, <2>2 DEF NoTraffic
  <2>4. SomethingCompared'
    BY <2>1, <2>3
  <2> QED BY <2>1, <2>4 DEF PowerOK
<1>9. CASE AggregateMonitor
  <2>1. /\ monitorPc = "returned" /\ monitorPc' = "aggregated"
        /\ UNCHANGED <<plugin, idle, readings, total, iteration, vfRep, start, end, success>>
    BY <1>9 DEF AggregateMonitor
  <2> QED BY <2>1 DEF PowerOK, Between
<1> QED
  BY <1>1, <1>2, <1>3, <1>4, <1>5, <1>6, <1>7, <1>8, <1>9 DEF MonitorThread

-----------------------------------------------------------------------------
LEMMA Inductive == IInv /\ [Next]_vars => IInv'
<1> SUFFICES ASSUME IInv, [Next]_vars PROVE IInv'
  OBVIOUS
<1> USE DEF IInv, TypeOK
<1>1. ASSUME ClientThread \/ AggregateClient, UNCHANGED monitorVars
      PROVE  IInv'
  <2>1. ClientTypeOK' /\ ClientOK'
    BY <1>1, ClientStep
  <2>2. MonitorTypeOK' /\ MonitorOK' /\ PowerOK' /\ SomethingCompared'
    BY <1>1 DEF monitorVars, power, offload, MonitorTypeOK, MonitorOK, PowerOK, Between,
                SomethingCompared, MonitorSucceeded
  <2> QED BY <2>1, <2>2
<1>2. ASSUME MonitorThread \/ AggregateMonitor, UNCHANGED <<clientVars, clientFinished>>
      PROVE  IInv'
  <2>1. clientFinished \in BOOLEAN
    BY DEF ClientTypeOK
  <2>2. MonitorTypeOK' /\ MonitorOK' /\ PowerOK' /\ SomethingCompared'
    BY <1>2, <2>1, MonitorStep
  <2>3. ClientTypeOK' /\ ClientOK'
    BY <1>2 DEF clientVars, ClientTypeOK, ClientOK
  <2> QED BY <2>2, <2>3
<1>3. CASE UNCHANGED vars
  BY <1>3 DEF vars, clientVars, ClientTypeOK, ClientOK, monitorVars, power, offload,
              MonitorTypeOK, MonitorOK, PowerOK, Between, SomethingCompared, MonitorSucceeded
<1>4. CASE Next
  BY <1>1, <1>2, <1>3, <1>4 DEF Next, Client, Monitor, Aggregate, Over
<1> QED BY <1>3, <1>4

LEMMA Invariant == Spec => []IInv
BY Initial, Inductive, PTL DEF Spec

(* Every state is one of its type: the time that is left for http's        *)
(* requests never falls below zero (src/testTypeHttp.py:71-82).            *)
THEOREM TypeCorrect == Spec => []TypeOK
BY Invariant, PTL DEF IInv

(* The main thread never raises over an output that was called a success,  *)
(* whatever iperf3 and mpstat print (src/testTypeIperf.py:181-209,         *)
(* src/pluginMeasureCpu.py:88-120).                                        *)
THEOREM SuccessesCanBeLogged == Spec => []SuccessCanBeLogged
<1>1. IInv => SuccessCanBeLogged
  BY DEF IInv, ClientOK, MonitorOK, SuccessCanBeLogged
<1> QED BY <1>1, Invariant, PTL

(* A success of iperf3 has both rates, one of netperf the tx rate; rx it   *)
(* never has (src/testTypeIperf.py:84-91, src/testTypeNetPerf.py:109-136). *)
THEOREM SuccessesAreMeasured == Spec => []SuccessIsMeasured
<1>1. IInv => SuccessIsMeasured
  <2> SUFFICES ASSUME IInv, Succeeded PROVE SuccessIsMeasured
    BY DEF SuccessIsMeasured
  <2>1. type \in Types /\ answer \in Answers(type) /\ output = Flow(type, answer)
    BY DEF IInv, TypeOK, ClientTypeOK, ClientOK, Succeeded
  <2> QED BY <2>1, FlowFacts DEF SuccessIsMeasured, Succeeded
<1> QED BY <1>1, Invariant, PTL

(* A success of http means that no request failed and that they went on    *)
(* until the end of the duration (src/testTypeHttp.py:71-82).              *)
THEOREM FailuresAreNotHidden == Spec => []NoFailureHidden
<1>1. IInv => NoFailureHidden
  <2> SUFFICES ASSUME IInv, Succeeded, type = "HTTP" PROVE NoFailureHidden
    BY DEF NoFailureHidden
  <2>1. type \in Types /\ answer \in Answers(type) /\ output = Flow(type, answer)
    BY DEF IInv, TypeOK, ClientTypeOK, ClientOK, Succeeded
  <2>2. answer.exit
    BY <2>1, FlowFacts DEF Succeeded
  <2> QED BY <2>2 DEF IInv, ClientOK, Succeeded, NoFailureHidden
<1> QED BY <1>1, Invariant, PTL

(* The average of a successful measure_power lies between two readings, so *)
(* that no failed round is in it (src/pluginMeasurePower.py:82-101).       *)
THEOREM AveragesAreOfReadings == Spec => []AverageOfReadings
<1>1. IInv => AverageOfReadings
  <2> SUFFICES ASSUME IInv, MonitorSucceeded, plugin = "measure_power"
               PROVE  AverageOfReadings
    BY DEF AverageOfReadings
  <2>1. iteration = Len(readings) /\ iteration > 0 /\ \E i, j \in DOMAIN readings : Between(i, j)
    BY DEF IInv, PowerOK, MonitorSucceeded
  <2> QED BY <2>1 DEF AverageOfReadings, Between
<1> QED BY <1>1, Invariant, PTL

(* A successful validate_offload has compared a counter at both ends       *)
(* (src/pluginValidateOffload.py:100-116, 221-249).                        *)
THEOREM OffloadComparesSomething == Spec => []SomethingCompared
BY Invariant, PTL DEF IInv
=============================================================================
