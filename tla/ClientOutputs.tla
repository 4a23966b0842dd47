---------------------------- MODULE ClientOutputs ----------------------------
(***************************************************************************)
(* What a client's thread makes of its command's output: from whatever     *)
(* iperf3, netperf, curl or the simple client print, and however they      *)
(* exit, to a FlowTestOutput and to the log of a success.                  *)
(*                                                                         *)
(* The thread among the others is TestInstance, which leaves the verdict   *)
(* open; the thresholds that it is judged by are Evaluator; beside the     *)
(* thread of a plugin it is in Outputs.  An output is what the parsers can *)
(* tell apart in it: a field is None if it is missing or not a number;     *)
(* texts and units are left out.                                           *)
(*                                                                         *)
(* A definition marked "variation" is a faulty form of the definition that *)
(* follows it; no other definition uses it.                                *)
(***************************************************************************)
EXTENDS Integers, Sequences

CONSTANTS
  Types,     \* test types
  Rates,     \* the rates that a command may print
  NaN,       \* float("nan"), and what else is a float and no valid rate
  Duration,  \* get_duration() - sleep_time, in units of sleep_time
  None

TestTypes == {"IPERF_TCP", "IPERF_UDP", "HTTP", "NETPERF_TCP_STREAM",
              "NETPERF_TCP_RR", "SIMPLE"}
Iperf   == {"IPERF_TCP", "IPERF_UDP"}
Netperf == {"NETPERF_TCP_STREAM", "NETPERF_TCP_RR"}

ASSUME ClientOutputsAssumption ==
  /\ Types \subseteq TestTypes /\ Rates \subseteq Nat /\ Duration \in Nat
  /\ NaN \notin Nat \cup {None} /\ None \notin Nat

VARIABLES
  type,            \* connection.test_type
  pc,              \* where the thread or, after it, aggregate_output() is
  answer,          \* what the command printed: the answer of the last one
  tries,           \* history: the verdicts on curl's answers
  left,            \* the time to end_timestamp
  clientFinished,  \* ts.event_client_finished
  output           \* the FlowTestOutput: success, bitrate_gbps

clientVars == <<type, pc, answer, tries, left, output>>

Bitrates == [tx : Rates \cup {NaN, None}, rx : Rates \cup {NaN, None}]
NA == [tx |-> None, rx |-> None]
FlowTestOutputs == [success : BOOLEAN, bitrate : Bitrates]

-----------------------------------------------------------------------------
(* The answers of iperf3: not JSON, JSON but no object, or an object, which *)
(* may have an "error" and may lack any of the parts that are read.         *)
Fields == Rates \cup {NaN, None}
IperfFailures ==
  [exit : BOOLEAN, json : {"invalid", "other"}, error : {FALSE},
   sent : {None}, received : {None}, sum : {None}, rest : {FALSE}]
Parts(t) == IF t = "IPERF_TCP" THEN <<Fields, {None}>> ELSE <<{None}, Fields>>
IperfObjects(t) ==
  [exit : {TRUE}, json : {"object"}, error : BOOLEAN,
   sent : Parts(t)[1], received : Parts(t)[1], sum : Parts(t)[2], rest : BOOLEAN]
NetperfAnswers == [exit : BOOLEAN, rate : Fields]
Answers(t) ==
  CASE t \in Iperf -> IperfFailures \cup IperfObjects(t)
    [] t \in Netperf -> NetperfAnswers
    [] OTHER -> [exit : BOOLEAN]

(* json.loads() runs only when the command succeeded.                      *)
Loaded(a) == a.exit /\ a.json = "object"

(* ResultTcp, where anything that is missing raises.                       *)
ResultTcp(a) ==
  IF a.sent # None /\ a.received # None /\ a.rest
    THEN [tx |-> a.sent, rx |-> a.received] ELSE NA

ResultUdp(a) ==
  IF a.sum # None /\ a.rest THEN [tx |-> a.sum, rx |-> a.sum] ELSE NA

CalculateGbps(t, a) ==
  IF ~Loaded(a) THEN NA
    ELSE IF t = "IPERF_TCP" THEN ResultTcp(a) ELSE ResultUdp(a)

(* Variation: it is not looked at whether there is a bitrate.              *)
IperfSuccessUnmeasured(t, a) == Loaded(a) /\ ~a.error

(* An object without any of the parts has no bitrate either.               *)
IperfSuccess(t, a) == Loaded(a) /\ ~a.error /\ CalculateGbps(t, a) # NA

(* netperf_parse() raises ValueError when a number is missing.  The rate   *)
(* is the transmitted one.                                                 *)
NetperfBitrate(a) == IF a.exit THEN [tx |-> a.rate, rx |-> None] ELSE NA
NetperfSuccess(a) == a.exit /\ a.rate # None

Flow(t, a) ==
  CASE t \in Iperf -> [success |-> IperfSuccess(t, a), bitrate |-> CalculateGbps(t, a)]
    [] t \in Netperf -> [success |-> NetperfSuccess(a), bitrate |-> NetperfBitrate(a)]
    [] OTHER -> [success |-> a.exit, bitrate |-> NA]

(* FlowTestOutput is a strict dataclass: a "result" that is no dictionary  *)
(* raises, in a thread that handles nothing.                               *)
IsDict(t, a) == t \in Iperf /\ a.exit => a.json # "other"

-----------------------------------------------------------------------------
ClientInit ==
  /\ type \in Types
  /\ pc = "command" /\ answer = None /\ tries = <<>> /\ left = Duration
  /\ clientFinished = FALSE /\ output = None

(* The command of all but http.                                            *)
RunCommand ==
  /\ pc = "command" /\ type # "HTTP"
  /\ answer' \in Answers(type)
  /\ clientFinished' = TRUE /\ pc' = "parse"
  /\ UNCHANGED <<type, tries, left, output>>

(* Variation: after a failed request the loop goes on.                     *)
HttpRequestAgain ==
  /\ pc = "command" /\ type = "HTTP"
  /\ \E success \in BOOLEAN, rest \in 0..left :
       /\ answer' = [exit |-> success] /\ tries' = Append(tries, success)
       /\ IF rest = 0
            THEN pc' = "parse" /\ clientFinished' = TRUE /\ left' = 0
            ELSE left' = rest - 1 /\ UNCHANGED <<pc, clientFinished>>
  /\ UNCHANGED <<type, output>>

(* One round of http's loop: curl, which takes its time, and then the end  *)
(* of the loop or the sleep.                                               *)
HttpRequest ==
  /\ pc = "command" /\ type = "HTTP"
  /\ \E success \in BOOLEAN, rest \in 0..left :
       /\ answer' = [exit |-> success] /\ tries' = Append(tries, success)
       /\ IF ~success \/ rest = 0
            THEN pc' = "parse" /\ clientFinished' = TRUE /\ left' = rest
            ELSE left' = rest - 1 /\ UNCHANGED <<pc, clientFinished>>
  /\ UNCHANGED <<type, output>>

(* The rest of _thread_action().                                           *)
Parse ==
  /\ pc = "parse"
  /\ IF IsDict(type, answer)
       THEN output' = Flow(type, answer) /\ pc' = "returned"
       ELSE output' = output /\ pc' = "killed"
  /\ UNCHANGED <<type, answer, tries, left, clientFinished>>

(* _aggregate_output_log_success() reads the result of iperf3 again.       *)
CanLog ==
  type \in Iperf =>
    /\ answer.rest
    /\ IF type = "IPERF_TCP" THEN answer.sent # None /\ answer.received # None
                             ELSE answer.sum # None

AggregateClient ==
  /\ pc = "returned"
  /\ pc' = IF output.success /\ ~CanLog THEN "raised" ELSE "aggregated"
  /\ UNCHANGED <<type, answer, tries, left, clientFinished, output>>

ClientThread == RunCommand \/ HttpRequest \/ Parse

-----------------------------------------------------------------------------
ClientTypeOK ==
  /\ type \in Types
  /\ pc \in {"command", "parse", "returned", "killed", "raised", "aggregated"}
  /\ answer \in Answers(type) \cup {None}
  /\ tries \in Seq(BOOLEAN) /\ left \in 0..Duration /\ clientFinished \in BOOLEAN
  /\ output \in FlowTestOutputs \cup {None}

Succeeded == pc \in {"returned", "aggregated"} /\ output.success

(* A success of iperf3 has both rates, and one of netperf that of its tx,  *)
(* so that is_passing() compares them with their thresholds                *)
(* (src/tftbase.py:333-339).  It says nothing of netperf's rx, which is    *)
(* always missing: the threshold for it that "threshold:" sets too         *)
(* (src/evalConfig.py:138-141) is passed for want of a rate.               *)
SuccessIsMeasured ==
  Succeeded =>
    /\ type \in Iperf => output.bitrate.tx # None /\ output.bitrate.rx # None
    /\ type \in Netperf => output.bitrate.tx # None

(* http looks at the last answer only: still, a success means that no      *)
(* request failed and that they went on to the end of the duration         *)
(* (src/testTypeHttp.py:71-82).                                            *)
NoFailureHidden ==
  Succeeded /\ type = "HTTP" =>
    /\ left = 0 /\ tries # <<>>
    /\ \A i \in DOMAIN tries : tries[i]
=============================================================================
