---------------------------- MODULE TestInstance -----------------------------
(***************************************************************************)
(* One run of one test: TrafficFlowTests._run_test_case_instance().        *)
(*                                                                         *)
(* The main thread walks seven times over the list                         *)
(* servers + clients + monitors, which is task 1 (the server), task 2 (the *)
(* client) and the monitors that the connection's plugins asked for.  Each *)
(* task has one TaskOperation with a thread of its own: the server's is    *)
(* its setup operation, started by start_setup() and finished by           *)
(* finish_setup(); that of the client and of each monitor is its task      *)
(* operation, started by start_task() and finished by finish_task().  The  *)
(* threads meet at the client-monitor barrier, and the main thread and the *)
(* monitors learn from two events that the server listens and that the     *)
(* client is done.                                                         *)
(*                                                                         *)
(* Every command on the cluster may succeed or fail, and takes as long as  *)
(* it takes; timeouts are choices.  A server command may end at any time,  *)
(* or never.                                                               *)
(*                                                                         *)
(* A definition marked "variation" is a faulty form of the definition that *)
(* follows it; no other definition uses it.                                *)
(***************************************************************************)
EXTENDS Integers, FiniteSets

CONSTANTS
  NTasks,       \* len(servers + clients + monitors)
  Kind,         \* what each of the tasks 1..NTasks is
  Volume,       \* packets the client may send through a VF representor
  Threshold,    \* VF_REP_TRAFFIC_THRESHOLD, in the same unit
  ActionFaults  \* may a thread's action raise an unforeseen exception?

Plugins == {"measure_cpu", "measure_power", "validate_offload"}
Tasks   == 1..NTasks
Server  == 1
Client  == 2
Workers == Tasks \ {Server}    \* clients + monitors
Monitors == Workers \ {Client}

ASSUME TasksAssumption ==
  /\ NTasks \in Nat /\ NTasks >= 2
  /\ Kind \in [Tasks -> {"server", "client"} \cup Plugins]
  /\ Kind[Server] = "server" /\ Kind[Client] = "client"
  /\ \A t \in Monitors : Kind[t] \in Plugins

ASSUME TrafficAssumption ==
  /\ Volume \in Nat /\ Threshold \in Nat \ {0}
  /\ ActionFaults \in BOOLEAN

Unread == -1    \* no start or end value in parsed_data

VARIABLES
  phase, cur,       \* main thread: which loop, at which task
  caller, state,    \* each task's operation, as in TaskOperation
  thr,              \* each operation's thread: where in its action
  res,              \* _intermediate_result: "none", or its success
  output,           \* what finish() returned: Task._result
  serverAlive,      \* ts.event_server_alive
  clientFinished,   \* ts.event_client_finished
  arrived,          \* the threads that have called ts.clmo_barrier.wait()
  packets,          \* the representors' packet counter
  iteration,        \* measure_power: min(iteration, 1)
  vfRep,            \* validate_offload: vf_rep is not None
  ok,               \* validate_offload, measure_power: success_result
  startVal, endVal, \* validate_offload: parsed_data
  flow, plugins,    \* TftResultBuilder
  exited            \* a thread called os._exit()

mainVars   == <<phase, cur, caller, state, output, flow, plugins>>
workVars   == <<packets, iteration, vfRep, ok, startVal, endVal>>
syncVars   == <<serverAlive, clientFinished, arrived>>
vars == <<mainVars, workVars, syncVars, thr, res, exited>>

-----------------------------------------------------------------------------
Phases == {"initialize", "setup", "alive", "start", "await", "finish_task",
           "finish_setup", "aggregate", "build", "returned", "raised"}

(* Places of a thread: not created; before the barrier; at the barrier; in *)
(* its activity; result stored; dead.                                      *)
BeforeBarrier == {"none", "detect", "arrive"}
Active  == {"serve", "detect", "arrive", "waiting", "traffic", "parse", "measure",
            "check", "sample", "average", "read_start", "await_client",
            "read_end", "verdict"}
Places  == Active \cup {"none", "stored", "dead"}
Callers == {"new", "starting", "waiting", "ready", "joining", "cancelling",
            "rejoining", "stopping", "done", "raised"}
Values  == {"none", "ok", "fail"}

TypeOK ==
  /\ phase \in Phases /\ cur \in Tasks
  /\ caller \in [Tasks -> Callers]
  /\ state \in [Tasks -> {"NEW", "STARTING", "RUNNING", "STOPPING", "STOPPED"}]
  /\ thr \in [Tasks -> Places]
  /\ res \in [Tasks -> Values]
  /\ output \in [Tasks -> Values \cup {"no_result"}]
  /\ serverAlive \in BOOLEAN /\ clientFinished \in BOOLEAN
  /\ arrived \subseteq Workers
  /\ packets \in 0..Volume
  /\ iteration \in [Tasks -> 0..1]
  /\ vfRep \in [Tasks -> BOOLEAN] /\ ok \in [Tasks -> BOOLEAN]
  /\ startVal \in [Tasks -> 0..Volume \cup {Unread}]
  /\ endVal \in [Tasks -> 0..Volume \cup {Unread}]
  /\ flow \in Values /\ plugins \subseteq Monitors
  /\ exited \in BOOLEAN

Init ==
  /\ phase = "initialize" /\ cur = 1
  /\ caller = [t \in Tasks |-> "new"] /\ state = [t \in Tasks |-> "NEW"]
  /\ thr = [t \in Tasks |-> "none"]
  /\ res = [t \in Tasks |-> "none"] /\ output = [t \in Tasks |-> "none"]
  /\ serverAlive = FALSE /\ clientFinished = FALSE /\ arrived = {}
  /\ packets = 0
  /\ iteration = [t \in Tasks |-> 0]
  /\ vfRep = [t \in Tasks |-> FALSE] /\ ok = [t \in Tasks |-> TRUE]
  /\ startVal = [t \in Tasks |-> Unread] /\ endVal = [t \in Tasks |-> Unread]
  /\ flow = "none" /\ plugins = {}
  /\ exited = FALSE

-----------------------------------------------------------------------------
(* The main thread's loops.                                                *)

NextPhase == [initialize |-> "setup", setup |-> "alive", start |-> "await",
              finish_task |-> "finish_setup", finish_setup |-> "aggregate",
              aggregate |-> "build"]

(* The loop's body is done for the current task.                           *)
Advance == IF cur = NTasks THEN phase' = NextPhase[phase] /\ cur' = 1
                           ELSE phase' = phase /\ cur' = cur + 1

Goto(p) == phase' = p /\ cur' = 1

(* t.initialize() for each task; behind the last one, the barrier.         *)
Initialize ==
  /\ phase = "initialize"
  /\ Advance
  /\ UNCHANGED <<caller, state, output, flow, plugins, workVars, syncVars, thr, res, exited>>

(* start_setup() of a client or of a monitor: the pod, and no operation.   *)
SetupPod ==
  /\ phase = "setup" /\ cur \in Workers
  /\ Advance
  /\ UNCHANGED <<caller, state, output, flow, plugins, workVars, syncVars, thr, res, exited>>

(* What _run_test_case_instance() calls may raise before there is an       *)
(* operation to start: rendering and services, the pods (die_on_error),    *)
(* and the client's get_target_ip().                                       *)
PrepareRaises ==
  /\ \/ phase = "initialize"
     \/ phase = "setup" /\ (cur \in Workers \/ caller[Server] = "new")
     \/ phase = "start" /\ cur = Client /\ caller[Client] = "new"
  /\ phase' = "raised"
  /\ UNCHANGED <<cur, caller, state, output, flow, plugins, workVars, syncVars, thr, res, exited>>

(* A task without an operation in this loop.                               *)
NothingToDo ==
  /\ \/ phase \in {"start", "finish_task"} /\ cur = Server
     \/ phase = "finish_setup" /\ cur \in Workers
  /\ Advance
  /\ UNCHANGED <<caller, state, output, flow, plugins, workVars, syncVars, thr, res, exited>>

(* ts.event_server_alive.wait() and ts.event_client_finished.wait().       *)
AwaitServerAlive ==
  /\ phase = "alive" /\ serverAlive
  /\ Goto("start")
  /\ UNCHANGED <<caller, state, output, flow, plugins, workVars, syncVars, thr, res, exited>>

(* Variation: finish_setup() comes before finish_task().                   *)
AwaitClientThenSetup ==
  /\ phase = "await" /\ clientFinished
  /\ Goto("finish_setup")
  /\ UNCHANGED <<caller, state, output, flow, plugins, workVars, syncVars, thr, res, exited>>

AwaitClientFinished ==
  /\ phase = "await" /\ clientFinished
  /\ Goto("finish_task")
  /\ UNCHANGED <<caller, state, output, flow, plugins, workVars, syncVars, thr, res, exited>>

-----------------------------------------------------------------------------
(* The main thread inside a TaskOperation.                                 *)

HasCancel(t) == t = Server    \* cancel_action and wait_ready are given

(* start(), called by start_setup() for the server and by start_task() for *)
(* the others.                                                             *)
StartOp(t) ==
  /\ t = cur /\ caller[t] = "new" /\ state[t] = "NEW"
  /\ phase = IF t = Server THEN "setup" ELSE "start"
  /\ state' = [state EXCEPT ![t] = "STARTING"]
  /\ caller' = [caller EXCEPT ![t] = "starting"]
  /\ UNCHANGED <<phase, cur, output, flow, plugins, workVars, syncVars, thr, res, exited>>

(* access_thread(): the thread begins its action.                          *)
FirstPlace(t) == CASE t = Server -> "serve"
                   [] Kind[t] = "validate_offload" -> "detect"
                   [] OTHER -> "arrive"

AccessThread(t) ==
  /\ caller[t] = "starting"
  /\ thr' = [thr EXCEPT ![t] = FirstPlace(t)]
  /\ caller' = [caller EXCEPT ![t] = "waiting"]
  /\ UNCHANGED <<phase, cur, state, output, flow, plugins, workVars, syncVars, res, exited>>

(* _start_wait_ready(): confirm_server_alive() sets the event, the         *)
(* operation is RUNNING, and start() returns to the loop.                  *)
SetRunning(t) ==
  /\ caller[t] = "waiting"
  /\ serverAlive' = (serverAlive \/ t = Server)
  /\ state' = [state EXCEPT ![t] = "RUNNING"]
  /\ caller' = [caller EXCEPT ![t] = "ready"]
  /\ Advance
  /\ UNCHANGED <<output, flow, plugins, workVars, clientFinished, arrived, thr, res, exited>>

(* confirm_server_alive() gives up: pod not ready, or nothing listening.   *)
ServerNotAlive ==
  /\ caller[Server] = "waiting"
  /\ caller' = [caller EXCEPT ![Server] = "raised"]
  /\ phase' = "raised"
  /\ UNCHANGED <<cur, state, output, flow, plugins, workVars, syncVars, thr, res, exited>>

(* finish(), called by finish_task() and for the server by finish_setup(). *)
FinishOp(t) ==
  /\ t = cur /\ caller[t] = "ready"
  /\ phase = IF t = Server THEN "finish_setup" ELSE "finish_task"
  /\ state[t] \in {"STARTING", "RUNNING"}
  /\ state' = [state EXCEPT ![t] = "STOPPING"]
  /\ caller' = [caller EXCEPT ![t] = "joining"]
  /\ UNCHANGED <<phase, cur, output, flow, plugins, workVars, syncVars, thr, res, exited>>

Alive(t) == thr[t] \in Active \cup {"stored"}

Joined(t) ==
  /\ caller[t] \in {"joining", "rejoining"} /\ thr[t] = "dead"
  /\ caller' = [caller EXCEPT ![t] = "stopping"]
  /\ UNCHANGED <<phase, cur, state, output, flow, plugins, workVars, syncVars, thr, res, exited>>

JoinThenCancel(t) ==
  /\ caller[t] = "joining" /\ Alive(t) /\ HasCancel(t)
  /\ caller' = [caller EXCEPT ![t] = "cancelling"]
  /\ UNCHANGED <<phase, cur, state, output, flow, plugins, workVars, syncVars, thr, res, exited>>

(* Variation: the thread is not joined again after the cancel command.     *)
CancelOnly(t) ==
  /\ caller[t] = "cancelling"
  /\ caller' = [caller EXCEPT ![t] = "stopping"]
  /\ UNCHANGED <<phase, cur, state, output, flow, plugins, workVars, syncVars, thr, res, exited>>

(* The cancel command (killall, podman rm) has run; its exit code, and for *)
(* a persistent server the command itself, is left out.                    *)
Cancel(t) ==
  /\ caller[t] = "cancelling"
  /\ caller' = [caller EXCEPT ![t] = "rejoining"]
  /\ UNCHANGED <<phase, cur, state, output, flow, plugins, workVars, syncVars, thr, res, exited>>

JoinTimeout(t) ==
  /\ Alive(t)
  /\ caller[t] = "rejoining" \/ (caller[t] = "joining" /\ ~HasCancel(t))
  /\ caller' = [caller EXCEPT ![t] = "raised"]
  /\ phase' = "raised"
  /\ UNCHANGED <<cur, state, output, flow, plugins, workVars, syncVars, thr, res, exited>>

StopOp(t) ==
  /\ caller[t] = "stopping" /\ state[t] = "STOPPING"
  /\ state' = [state EXCEPT ![t] = "STOPPED"]
  /\ output' = [output EXCEPT ![t] = IF res[t] = "none" THEN "no_result" ELSE res[t]]
  /\ caller' = [caller EXCEPT ![t] = "done"]
  /\ Advance
  /\ UNCHANGED <<flow, plugins, workVars, syncVars, thr, res, exited>>

-----------------------------------------------------------------------------
(* Variation: the output of a failed task is not added.                    *)
AggregateSuccess ==
  /\ phase = "aggregate"
  /\ flow' = IF cur = Client /\ output[cur] = "ok" THEN output[cur] ELSE flow
  /\ plugins' = IF cur \in Monitors /\ output[cur] = "ok" THEN plugins \cup {cur} ELSE plugins
  /\ Advance
  /\ UNCHANGED <<caller, state, output, workVars, syncVars, thr, res, exited>>

(* aggregate_output(): the server's output was dropped by finish_setup();  *)
(* a result that is not an AggregatableOutput is not added.                *)
Aggregate ==
  /\ phase = "aggregate"
  /\ flow' = IF cur = Client /\ output[cur] \in {"ok", "fail"} THEN output[cur] ELSE flow
  /\ plugins' = IF cur \in Monitors /\ output[cur] \in {"ok", "fail"}
                  THEN plugins \cup {cur} ELSE plugins
  /\ Advance
  /\ UNCHANGED <<caller, state, output, workVars, syncVars, thr, res, exited>>

(* TftResultBuilder.build() raises when there is no flow test output.      *)
Build ==
  /\ phase = "build"
  /\ phase' = IF flow = "none" THEN "raised" ELSE "returned"
  /\ UNCHANGED <<cur, caller, state, output, flow, plugins, workVars, syncVars, thr, res, exited>>

InOperation(t) ==
  \/ StartOp(t) \/ AccessThread(t) \/ SetRunning(t)
  \/ FinishOp(t) \/ Joined(t) \/ JoinThenCancel(t) \/ Cancel(t)
  \/ JoinTimeout(t) \/ StopOp(t)

Main ==
  \/ Initialize \/ SetupPod \/ PrepareRaises \/ NothingToDo
  \/ AwaitServerAlive \/ AwaitClientFinished \/ ServerNotAlive
  \/ Aggregate \/ Build
  \/ \E t \in Tasks : InOperation(t)

-----------------------------------------------------------------------------
(* The operations' threads.                                                *)

Go(t, from, to) == thr[t] = from /\ thr' = [thr EXCEPT ![t] = to]

(* _run_thread_action(): the action has returned an output.                *)
Return(t, from, success) ==
  /\ Go(t, from, "stored")
  /\ res' = [res EXCEPT ![t] = IF success THEN "ok" ELSE "fail"]

(* The thread is no longer alive.                                          *)
ThreadDies(t) ==
  /\ Go(t, "stored", "dead")
  /\ UNCHANGED <<mainVars, workVars, syncVars, res, exited>>

(* The server's command ends - one client served, killed, failed, or the   *)
(* server is persistent and there was no command.  Its exit code is        *)
(* ignored.                                                                *)
ServeReturns ==
  /\ Return(Server, "serve", TRUE)
  /\ UNCHANGED <<mainVars, workVars, syncVars, exited>>

(* Variations: the barrier does not count the monitors, or counts the      *)
(* server too.                                                             *)
PartiesClientsOnly == 1
PartiesAllTasks == Cardinality(Tasks)

(* ts.clmo_barrier.wait(): the barrier was created for clients + monitors. *)
Parties == Cardinality(Workers)

Arrive(t) ==
  /\ Go(t, "arrive", "waiting")
  /\ arrived' = arrived \cup {t}
  /\ UNCHANGED <<mainVars, workVars, serverAlive, clientFinished, res, exited>>

Activity(t) == CASE Kind[t] = "client" -> "traffic"
                 [] Kind[t] = "measure_cpu" -> "measure"
                 [] Kind[t] = "measure_power" -> "check"
                 [] OTHER -> IF vfRep[t] THEN "read_start" ELSE "verdict"

PassBarrier(t) ==
  /\ Cardinality(arrived) = Parties
  /\ Go(t, "waiting", Activity(t))
  /\ UNCHANGED <<mainVars, workVars, syncVars, res, exited>>

(* The client's command is running, and its packets go through the         *)
(* representors as long as the flow is not offloaded.                      *)
Send ==
  /\ thr[Client] = "traffic" /\ packets < Volume
  /\ packets' = packets + 1
  /\ UNCHANGED <<mainVars, iteration, vfRep, ok, startVal, endVal, syncVars, thr, res, exited>>

(* Variation: the event is set only when the command succeeded.            *)
ClientFinishesOnSuccess ==
  /\ Go(Client, "traffic", "parse")
  /\ \E success \in BOOLEAN : clientFinished' = success
  /\ UNCHANGED <<mainVars, workVars, serverAlive, arrived, res, exited>>

(* The command is over; whatever came of it, the event is set.             *)
ClientFinishes ==
  /\ Go(Client, "traffic", "parse")
  /\ clientFinished' = TRUE
  /\ UNCHANGED <<mainVars, workVars, serverAlive, arrived, res, exited>>

(* The command's output is parsed and judged.                              *)
ClientReturns ==
  /\ \E success \in BOOLEAN : Return(Client, "parse", success)
  /\ UNCHANGED <<mainVars, workVars, syncVars, exited>>

(* measure_cpu: mpstat has run for the test's duration.                    *)
Mpstat(t) ==
  /\ \E success \in BOOLEAN : Return(t, "measure", success)
  /\ UNCHANGED <<mainVars, workVars, syncVars, exited>>

(* measure_power: the loop's condition, its body, and the division.        *)
PowerCheck(t) ==
  /\ Go(t, "check", IF clientFinished THEN "average" ELSE "sample")
  /\ UNCHANGED <<mainVars, workVars, syncVars, res, exited>>

PowerSample(t) ==
  /\ Go(t, "sample", "check")
  /\ iteration' = [iteration EXCEPT ![t] = 1]
  /\ \E success \in BOOLEAN : ok' = [ok EXCEPT ![t] = ok[t] /\ success]
  /\ UNCHANGED <<mainVars, packets, vfRep, startVal, endVal, syncVars, res, exited>>

PowerAverage(t) ==
  /\ thr[t] = "average"
  /\ IF iteration[t] = 0
       THEN exited' = TRUE /\ UNCHANGED <<thr, res>>    \* ZeroDivisionError
       ELSE exited' = exited /\ Return(t, "average", ok[t])
  /\ UNCHANGED <<mainVars, workVars, syncVars>>

(* validate_offload: there is a VF representor, there should be one but it *)
(* is not found, or the pod is a kind without one.                         *)
DetectVfRep(t) ==
  /\ Go(t, "detect", "arrive")
  /\ \E found, wanted \in BOOLEAN :
       /\ found => wanted
       /\ vfRep' = [vfRep EXCEPT ![t] = found]
       /\ ok' = [ok EXCEPT ![t] = wanted => found]
  /\ UNCHANGED <<mainVars, packets, iteration, startVal, endVal, syncVars, res, exited>>

(* validate_offload: ethtool at the start, ts.event_client_finished.wait() *)
(* and ethtool at the end.  A command that fails or has no counter in its  *)
(* output leaves no value.                                                 *)
ReadStart(t) ==
  /\ Go(t, "read_start", "await_client")
  /\ \E success \in BOOLEAN :
       /\ ok' = [ok EXCEPT ![t] = success]
       /\ startVal' = [startVal EXCEPT ![t] = IF success THEN packets ELSE Unread]
  /\ UNCHANGED <<mainVars, packets, iteration, vfRep, endVal, syncVars, res, exited>>

(* Variation: the second reading does not wait for the client.             *)
OffloadNoWait(t) ==
  /\ Go(t, "await_client", "read_end")
  /\ UNCHANGED <<mainVars, workVars, syncVars, res, exited>>

OffloadAwait(t) ==
  /\ clientFinished
  /\ Go(t, "await_client", "read_end")
  /\ UNCHANGED <<mainVars, workVars, syncVars, res, exited>>

ReadEnd(t) ==
  /\ Go(t, "read_end", "verdict")
  /\ \E success \in BOOLEAN :
       /\ ok' = [ok EXCEPT ![t] = ok[t] /\ success]
       /\ endVal' = [endVal EXCEPT ![t] = IF success THEN packets ELSE Unread]
  /\ UNCHANGED <<mainVars, packets, iteration, vfRep, startVal, syncVars, res, exited>>

(* check_no_traffic_on_vf_rep()                                            *)
NoTraffic(t) ==
  IF startVal[t] = Unread \/ endVal[t] = Unread
    THEN startVal[t] = endVal[t]
    ELSE endVal[t] - startVal[t] < Threshold

Verdict(t) ==
  /\ Return(t, "verdict", ok[t] /\ NoTraffic(t))
  /\ UNCHANGED <<mainVars, workVars, syncVars, exited>>

(* An action raises something it does not handle: os._exit().              *)
ActionRaises(t) ==
  /\ ActionFaults /\ thr[t] \in Active
  /\ exited' = TRUE
  /\ UNCHANGED <<mainVars, workVars, syncVars, thr, res>>

ClientThread == Send \/ ClientFinishes \/ ClientReturns

MonitorThread(t) ==
  \/ Mpstat(t)
  \/ PowerCheck(t) \/ PowerSample(t) \/ PowerAverage(t)
  \/ DetectVfRep(t) \/ ReadStart(t) \/ OffloadAwait(t) \/ ReadEnd(t) \/ Verdict(t)

WorkerThread(t) ==
  \/ Arrive(t) \/ PassBarrier(t) \/ ThreadDies(t)
  \/ t = Client /\ ClientThread
  \/ t \in Monitors /\ MonitorThread(t)

Threads ==
  \/ ServeReturns \/ ThreadDies(Server)
  \/ \E t \in Workers : WorkerThread(t)
  \/ \E t \in Tasks : ActionRaises(t)

(* The main thread is out of the function, and no thread can take a step   *)
(* except a server that nobody will stop.                                  *)
Over ==
  /\ exited \/ phase \in {"returned", "raised"}
  /\ UNCHANGED vars

Next == (~exited /\ (Main \/ Threads)) \/ Over

(* The main thread and the threads of client and monitors run; the         *)
(* commands they run come to an end by themselves.  A server's command     *)
(* need not.                                                               *)
Fairness ==
  /\ WF_vars(~exited /\ Main)
  /\ WF_vars(~exited /\ ThreadDies(Server))
  /\ \A t \in Workers : WF_vars(~exited /\ WorkerThread(t))

SafetySpec == Init /\ [][Next]_vars
Spec == SafetySpec /\ Fairness
-----------------------------------------------------------------------------
(* The client's command runs only after the server was seen listening and  *)
(* every monitor has come to the barrier, validate_offload with its VF     *)
(* representor looked up (src/trafficFlowTests.py:100-110).                *)
TrafficNeedsEverybody ==
  thr[Client] \in {"traffic", "parse", "stored", "dead"} =>
    /\ serverAlive
    /\ \A t \in Monitors : thr[t] \notin BeforeBarrier

(* Nobody stops the server while a client or a monitor still has work in   *)
(* flight: finish_setup() of the server comes after finish_task() of all   *)
(* (src/trafficFlowTests.py:112-116).                                      *)
ServerOutlivesWorkers ==
  caller[Server] \in {"joining", "cancelling", "rejoining", "stopping", "done"} =>
    \A t \in Workers : thr[t] = "dead" /\ caller[t] = "done"

(* When the result is built every thread of the instance is dead, the flow *)
(* test is the client's own verdict and each monitor has contributed its   *)
(* output: a run that returns has lost nothing and left nothing behind.    *)
ResultIsComplete ==
  phase \in {"build", "returned"} =>
    /\ \A t \in Tasks : thr[t] = "dead" /\ output[t] = res[t]
    /\ flow = res[Client] /\ flow # "none"
    /\ plugins = Monitors

(* A validate_offload that found no fault has seen all the traffic that    *)
(* followed its first reading: not even the client's last packets, sent    *)
(* after the monitor's thread was done, can exceed the threshold           *)
(* (src/pluginValidateOffload.py:207-216).                                 *)
OffloadCountsToTheEnd ==
  \A t \in Monitors :
    Kind[t] = "validate_offload" /\ vfRep[t] /\ res[t] = "ok" =>
      startVal[t] # Unread /\ packets - startVal[t] < Threshold

(* Nobody waits in vain: whoever waits for the server, for the client or   *)
(* at the barrier - three waits without a timeout - waits for somebody who *)
(* is on the way, whom the main thread will start or who is at work, and   *)
(* that is also so for the threads the main thread has left behind by an   *)
(* exception (src/trafficFlowTests.py:100-110).                            *)
OnTheWay(t) == \/ thr[t] \in {"detect", "arrive"}
               \/ phase = "start" /\ caller[t] \in {"new", "starting"}

NobodyWaitsInVain ==
  /\ phase = "alive" => serverAlive
  /\ (\E t \in Workers : thr[t] = "waiting") /\ Cardinality(arrived) # Parties =>
       \E t \in Workers : OnTheWay(t)
  /\ phase = "await" \/ (\E t \in Workers : thr[t] = "await_client") =>
       clientFinished \/ thr[Client] \in {"arrive", "waiting", "traffic"}

(* The instance always comes to an end - it returns, raises or takes the   *)
(* process down - although two of its waits have no timeout                *)
(* (src/trafficFlowTests.py:105, 110).                                     *)
InstanceEnds == <>(phase \in {"returned", "raised"} \/ exited)

(* Even when the main thread has given up, no thread of a client or of a   *)
(* monitor hangs at the barrier or in a wait for the client: it dies.      *)
NoWorkerStranded ==
  \A t \in Workers : thr[t] # "none" ~> (thr[t] = "dead" \/ exited)

(* Every task's operation is one of TaskOperation's, in whatever order the *)
(* main thread and the operations' threads take their steps.               *)
Op(t) == INSTANCE TaskOperation WITH
  cfg    <- [thread |-> TRUE, collect |-> FALSE, cancel |-> HasCancel(t),
             wait |-> HasCancel(t), timed |-> TRUE],
  state  <- state[t],
  thread <- IF thr[t] \in Active THEN "running" ELSE thr[t],
  result <- res[t] # "none",
  caller <- caller[t],
  output <- IF output[t] \in {"ok", "fail"} THEN "intermediate" ELSE output[t],
  exited <- exited

OperationsAsSpecified ==
  /\ \A t \in Tasks : Op(t)!Init
  /\ [][\A t \in Tasks : [Op(t)!Next]_(Op(t)!opVars)]_vars

(* Without an unforeseen exception nothing kills the process: "It is not   *)
(* expected to fail unless a serious error happened" (src/tft.py:65).      *)
NotKilled == exited => ActionFaults
=============================================================================
