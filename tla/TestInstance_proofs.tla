------------------------- MODULE TestInstance_proofs -------------------------
(***************************************************************************)
(* What holds of every test instance, whatever the number of monitors and  *)
(* whichever plugins they come from: the inductive invariant that relates  *)
(* the main thread's loops, the operations, their threads and the barrier; *)
(* the safety properties of TestInstance that follow from it, the last     *)
(* one with an invariant of its own for validate_offload; and that the     *)
(* instance is made of operations as TaskOperation specifies them.         *)
(***************************************************************************)
EXTENDS TestInstance, FiniteSetTheorems, TLAPS

Starting  == {"starting", "waiting"}
Finishing == {"joining", "cancelling", "rejoining", "stopping"}

(* Where each task's operation is in each of the main thread's loops.      *)
PhaseInv ==
  /\ phase = "initialize" => \A t \in Tasks : caller[t] = "new"
  /\ phase = "setup" =>
       /\ \A t \in Workers : caller[t] = "new"
       /\ IF cur = Server THEN caller[Server] \in {"new"} \cup Starting
                          ELSE caller[Server] = "ready"
  /\ phase = "alive" => /\ caller[Server] = "ready"
                        /\ \A t \in Workers : caller[t] = "new"
  /\ phase = "start" =>
       /\ caller[Server] = "ready"
       /\ \A t \in Workers : /\ t < cur => caller[t] = "ready"
                             /\ t = cur => caller[t] \in {"new"} \cup Starting
                             /\ t > cur => caller[t] = "new"
  /\ phase = "await" => \A t \in Tasks : caller[t] = "ready"
  /\ phase = "finish_task" =>
       /\ caller[Server] = "ready"
       /\ \A t \in Workers : /\ t < cur => caller[t] = "done"
                             /\ t = cur => caller[t] \in {"ready"} \cup Finishing
                             /\ t > cur => caller[t] = "ready"
  /\ phase = "finish_setup" =>
       /\ \A t \in Workers : caller[t] = "done"
       /\ IF cur = Server THEN caller[Server] \in {"ready"} \cup Finishing
                          ELSE caller[Server] = "done"
  /\ phase \in {"aggregate", "build", "returned"} => \A t \in Tasks : caller[t] = "done"
  /\ phase = "raised" =>
       /\ \A t \in Tasks : caller[t] \in {"new", "ready", "done", "raised"}
       /\ caller[Server] = "done" => \A t \in Workers : caller[t] = "done"

(* An operation's thread exists from access_thread() on, is dead once it   *)
(* was joined, and leaves its result when its action returns.              *)
ThreadInv ==
  \A t \in Tasks :
    /\ caller[t] \in {"new", "starting"} <=> thr[t] = "none"
    /\ caller[t] \in {"stopping", "done"} => thr[t] = "dead"
    /\ res[t] # "none" <=> thr[t] \in {"stored", "dead"}
    /\ caller[t] = "done" => output[t] = res[t]

(* Nobody is through the barrier before all have come to it.               *)
BarrierInv ==
  \A t \in Workers :
    /\ t \in arrived <=> thr[t] \notin BeforeBarrier
    /\ thr[t] \notin BeforeBarrier \cup {"waiting"} => arrived = Workers

(* The server is known to be alive before any client or monitor starts.    *)
AliveInv ==
  /\ caller[Server] \in {"ready", "done"} \cup Finishing => serverAlive
  /\ \A t \in Workers : caller[t] # "new" => serverAlive

(* What has been handed to the builder so far.                             *)
BuilderInv ==
  /\ phase \notin {"aggregate", "build", "returned", "raised"} =>
       flow = "none" /\ plugins = {}
  /\ phase = "aggregate" =>
       /\ flow = IF cur > Client THEN res[Client] ELSE "none"
       /\ plugins = {t \in Monitors : t < cur}
  /\ phase \in {"build", "returned"} => flow = res[Client] /\ plugins = Monitors

IInv == TypeOK /\ PhaseInv /\ ThreadInv /\ BarrierInv /\ AliveInv /\ BuilderInv
Links == PhaseInv /\ ThreadInv /\ BarrierInv /\ AliveInv /\ BuilderInv

-----------------------------------------------------------------------------
(* Facts about the set of tasks.                                           *)
LEMMA TaskSets ==
  /\ Server \in Tasks /\ Client \in Workers
  /\ Workers \subseteq Tasks /\ Monitors \subseteq Workers
  /\ Server \notin Workers /\ Client \notin Monitors
  /\ \A t \in Tasks : t \in Int /\ t >= 1 /\ t <= NTasks
  /\ Tasks = {Server} \cup Workers /\ Workers = {Client} \cup Monitors
BY TasksAssumption DEF Server, Client, Workers, Monitors, Tasks

LEMMA WorkersFinite == IsFiniteSet(Workers)
<1>1. IsFiniteSet(Tasks)
  BY TasksAssumption, FS_Interval DEF Tasks
<1> QED
  BY <1>1, TaskSets, FS_Subset

(* The barrier opens only when every client and every monitor has come.    *)
LEMMA BarrierFull ==
  ASSUME arrived \subseteq Workers, Cardinality(arrived) = Parties
  PROVE  arrived = Workers
BY WorkersFinite, FS_Subset DEF Parties

(* The initial state.                                                      *)
LEMMA InitInv == Init => IInv
<1> SUFFICES ASSUME Init PROVE IInv
  OBVIOUS
<1> USE DEF Init
<1>1. TypeOK
  <2>1. vfRep \in [Tasks -> BOOLEAN] /\ ok \in [Tasks -> BOOLEAN]
    OBVIOUS
  <2>2. /\ caller \in [Tasks -> Callers] /\ thr \in [Tasks -> Places]
        /\ res \in [Tasks -> Values] /\ output \in [Tasks -> Values \cup {"no_result"}]
        /\ flow \in Values
    BY DEF Callers, Places, Values
  <2>3. /\ startVal \in [Tasks -> 0..Volume \cup {Unread}]
        /\ endVal \in [Tasks -> 0..Volume \cup {Unread}]
        /\ packets \in 0..Volume
        /\ iteration \in [Tasks -> 0..1]
    BY TrafficAssumption
  <2> QED
    BY <2>1, <2>2, <2>3, TaskSets DEF TypeOK, Phases, Server
<1>2. PhaseInv
  BY DEF PhaseInv
<1>3. ThreadInv
  BY DEF ThreadInv
<1>4. BarrierInv
  BY TaskSets DEF BarrierInv, BeforeBarrier
<1>5. AliveInv
  BY TaskSets DEF AliveInv, Finishing
<1>6. BuilderInv
  BY DEF BuilderInv
<1> QED
  BY <1>1, <1>2, <1>3, <1>4, <1>5, <1>6 DEF IInv

-----------------------------------------------------------------------------
(* A thread moves on inside its action, and goes past the barrier only     *)
(* when everybody has come to it.                                          *)
LEMMA MoveLinks ==
  ASSUME IInv, NEW t \in Tasks, NEW from \in Active, NEW to \in Active,
         Go(t, from, to), UNCHANGED <<mainVars, res, serverAlive, arrived>>,
         from \in BeforeBarrier <=> to \in BeforeBarrier,
         to \notin BeforeBarrier =>
           from \notin BeforeBarrier \cup {"waiting"} \/ arrived = Workers
  PROVE  Links'
<1> USE DEF IInv, TypeOK, mainVars, Go
<1>1. PhaseInv'
  BY DEF PhaseInv
<1>2. ThreadInv'
  BY DEF ThreadInv, Active
<1>3. BarrierInv'
  BY TaskSets DEF BarrierInv
<1>4. AliveInv'
  BY DEF AliveInv
<1>5. BuilderInv'
  BY DEF BuilderInv
<1> QED
  BY <1>1, <1>2, <1>3, <1>4, <1>5 DEF Links

(* A thread's action returns.                                              *)
LEMMA ReturnLinks ==
  ASSUME IInv, NEW t \in Tasks, NEW from \in Active, NEW success \in BOOLEAN,
         Return(t, from, success), UNCHANGED <<mainVars, serverAlive, arrived>>,
         from \notin BeforeBarrier \cup {"waiting"}
  PROVE  Links' /\ thr' \in [Tasks -> Places] /\ res' \in [Tasks -> Values]
<1> USE DEF IInv, TypeOK, mainVars, Return, Go
<1>1. PhaseInv'
  BY DEF PhaseInv
<1>2. ThreadInv'
  BY DEF ThreadInv, Active
<1>3. BarrierInv'
  BY TaskSets DEF BarrierInv, BeforeBarrier
<1>4. AliveInv'
  BY DEF AliveInv
<1>5. BuilderInv'
  <2>1. CASE phase \in {"aggregate", "build", "returned"}
    <3>1. thr[Client] = "dead" /\ t # Client
      BY <2>1, TaskSets DEF PhaseInv, ThreadInv, Active
    <3> QED
      BY <3>1, TaskSets DEF BuilderInv
  <2>2. CASE phase \notin {"aggregate", "build", "returned"}
    BY <2>2 DEF BuilderInv
  <2> QED
    BY <2>1, <2>2
<1>6. thr' \in [Tasks -> Places] /\ res' \in [Tasks -> Values]
  BY DEF Places, Values
<1> QED
  BY <1>1, <1>2, <1>3, <1>4, <1>5, <1>6 DEF Links

-----------------------------------------------------------------------------
(* The threads of the operations.                                          *)
LEMMA ServeReturnsInv == IInv /\ ServeReturns => IInv'
<1> SUFFICES ASSUME IInv, ServeReturns PROVE IInv'
  OBVIOUS
<1>1. Links' /\ thr' \in [Tasks -> Places] /\ res' \in [Tasks -> Values]
  BY ReturnLinks, TaskSets DEF ServeReturns, syncVars, Active, BeforeBarrier
<1> QED
  BY <1>1 DEF ServeReturns, IInv, Links, TypeOK, mainVars, workVars, syncVars

LEMMA ThreadDiesInv == ASSUME IInv, NEW t \in Tasks, ThreadDies(t) PROVE IInv'
<1> USE DEF IInv, TypeOK, ThreadDies, mainVars, workVars, syncVars, Go
<1>1. TypeOK'
  BY DEF Places
<1>2. PhaseInv'
  BY DEF PhaseInv
<1>3. ThreadInv'
  BY DEF ThreadInv
<1>4. BarrierInv'
  BY TaskSets DEF BarrierInv, BeforeBarrier
<1>5. AliveInv'
  BY DEF AliveInv
<1>6. BuilderInv'
  BY DEF BuilderInv
<1> QED
  BY <1>1, <1>2, <1>3, <1>4, <1>5, <1>6

LEMMA ArriveInv == ASSUME IInv, NEW t \in Workers, Arrive(t) PROVE IInv'
<1> USE TaskSets DEF IInv, TypeOK, Arrive, mainVars, workVars, Go
<1>1. TypeOK'
  BY DEF Places, Active
<1>2. PhaseInv'
  BY DEF PhaseInv
<1>3. ThreadInv'
  BY DEF ThreadInv
<1>4. BarrierInv'
  BY DEF BarrierInv, BeforeBarrier
<1>5. AliveInv'
  BY DEF AliveInv
<1>6. BuilderInv'
  BY DEF BuilderInv
<1> QED
  BY <1>1, <1>2, <1>3, <1>4, <1>5, <1>6

LEMMA PassBarrierInv == ASSUME IInv, NEW t \in Workers, PassBarrier(t) PROVE IInv'
<1>1. Activity(t) \in Active \ (BeforeBarrier \cup {"waiting"})
  BY DEF Activity, Active, BeforeBarrier
<1>2. arrived = Workers
  BY BarrierFull DEF PassBarrier, IInv, TypeOK
<1>3. Links'
  BY <1>1, <1>2, MoveLinks, TaskSets
     DEF PassBarrier, syncVars, Active, BeforeBarrier
<1> QED
  BY <1>1, <1>3, TaskSets
     DEF PassBarrier, Go, IInv, Links, TypeOK, Places, mainVars, workVars, syncVars

LEMMA ClientInv == IInv /\ ClientThread => IInv'
<1> SUFFICES ASSUME IInv, ClientThread PROVE IInv'
  OBVIOUS
<1> USE TaskSets DEF mainVars, workVars, syncVars
<1>1. CASE Send
  <2>1. TypeOK'
    BY <1>1, TrafficAssumption DEF Send, IInv, TypeOK
  <2> QED
    BY <1>1, <2>1 DEF Send, IInv, PhaseInv, ThreadInv, BarrierInv, AliveInv, BuilderInv
<1>2. CASE ClientFinishes
  <2>1. Links'
    BY <1>2, MoveLinks DEF ClientFinishes, Active, BeforeBarrier
  <2> QED
    BY <1>2, <2>1 DEF ClientFinishes, Go, IInv, Links, TypeOK, Places, Active
<1>3. CASE ClientReturns
  <2>1. Links' /\ thr' \in [Tasks -> Places] /\ res' \in [Tasks -> Values]
    BY <1>3, ReturnLinks DEF ClientReturns, Active, BeforeBarrier
  <2> QED
    BY <1>3, <2>1 DEF ClientReturns, IInv, Links, TypeOK
<1> QED
  BY <1>1, <1>2, <1>3 DEF ClientThread

LEMMA MonitorInv == ASSUME IInv, NEW t \in Monitors, MonitorThread(t) PROVE IInv'
<1> USE TaskSets DEF mainVars, workVars, syncVars
<1> DEFINE Moved   == Links'
           Stored  == Links' /\ thr' \in [Tasks -> Places] /\ res' \in [Tasks -> Values]
<1>1. CASE Mpstat(t)
  <2>1. Stored
    BY <1>1, ReturnLinks DEF Mpstat, Active, BeforeBarrier
  <2> QED
    BY <1>1, <2>1 DEF Mpstat, IInv, Links, TypeOK
<1>2. CASE PowerCheck(t)
  <2>1. Moved
    BY <1>2, MoveLinks DEF PowerCheck, Active, BeforeBarrier
  <2> QED
    BY <1>2, <2>1 DEF PowerCheck, Go, IInv, Links, TypeOK, Places, Active
<1>3. CASE PowerSample(t)
  <2>1. Moved
    BY <1>3, MoveLinks DEF PowerSample, Active, BeforeBarrier
  <2> QED
    BY <1>3, <2>1 DEF PowerSample, Go, IInv, Links, TypeOK, Places, Active
<1>4. CASE PowerAverage(t)
  <2>1. CASE iteration[t] = 0
    BY <1>4, <2>1 DEF PowerAverage, IInv, TypeOK, PhaseInv, ThreadInv, BarrierInv,
                      AliveInv, BuilderInv
  <2>2. CASE iteration[t] # 0
    <3>1. ok[t] \in BOOLEAN
      BY DEF IInv, TypeOK
    <3>2. Stored
      BY <1>4, <2>2, <3>1, ReturnLinks DEF PowerAverage, Active, BeforeBarrier
    <3> QED
      BY <1>4, <2>2, <3>2 DEF PowerAverage, IInv, Links, TypeOK
  <2> QED
    BY <2>1, <2>2
<1>5. CASE DetectVfRep(t)
  <2>1. Moved
    BY <1>5, MoveLinks DEF DetectVfRep, Active, BeforeBarrier
  <2> QED
    BY <1>5, <2>1 DEF DetectVfRep, Go, IInv, Links, TypeOK, Places, Active
<1>6. CASE ReadStart(t)
  <2>1. Moved
    BY <1>6, MoveLinks DEF ReadStart, Active, BeforeBarrier
  <2> QED
    BY <1>6, <2>1 DEF ReadStart, Go, IInv, Links, TypeOK, Places, Active
<1>7. CASE OffloadAwait(t)
  <2>1. Moved
    BY <1>7, MoveLinks DEF OffloadAwait, Active, BeforeBarrier
  <2> QED
    BY <1>7, <2>1 DEF OffloadAwait, Go, IInv, Links, TypeOK, Places, Active
<1>8. CASE ReadEnd(t)
  <2>1. Moved
    BY <1>8, MoveLinks DEF ReadEnd, Active, BeforeBarrier
  <2> QED
    BY <1>8, <2>1 DEF ReadEnd, Go, IInv, Links, TypeOK, Places, Active
<1>9. CASE Verdict(t)
  <2>1. (ok[t] /\ NoTraffic(t)) \in BOOLEAN
    OBVIOUS
  <2>2. Stored
    BY <1>9, <2>1, ReturnLinks DEF Verdict, Active, BeforeBarrier
  <2> QED
    BY <1>9, <2>2 DEF Verdict, IInv, Links, TypeOK
<1> QED
  BY <1>1, <1>2, <1>3, <1>4, <1>5, <1>6, <1>7, <1>8, <1>9 DEF MonitorThread

LEMMA ThreadsInv == IInv /\ Threads => IInv'
<1> SUFFICES ASSUME IInv, Threads PROVE IInv'
  OBVIOUS
<1>1. CASE ServeReturns
  BY <1>1, ServeReturnsInv
<1>2. CASE \E t \in Tasks : ThreadDies(t)
  BY <1>2, ThreadDiesInv
<1>3. CASE \E t \in Workers : Arrive(t) \/ PassBarrier(t)
  BY <1>3, ArriveInv, PassBarrierInv
<1>4. CASE ClientThread
  BY <1>4, ClientInv
<1>5. CASE \E t \in Monitors : MonitorThread(t)
  BY <1>5, MonitorInv
<1>6. CASE \E t \in Tasks : ActionRaises(t)
  BY <1>6 DEF ActionRaises, IInv, TypeOK, PhaseInv, ThreadInv, BarrierInv, AliveInv,
              BuilderInv, mainVars, workVars, syncVars
<1> QED
  BY <1>1, <1>2, <1>3, <1>4, <1>5, <1>6, TaskSets DEF Threads, WorkerThread

-----------------------------------------------------------------------------
(* The main thread.  An operation is being started or finished only at the *)
(* loop's current task and in the loop that does so.                       *)
LEMMA WhereStarting ==
  ASSUME IInv, NEW t \in Tasks, caller[t] \in Starting
  PROVE  t = cur /\ phase = IF t = Server THEN "setup" ELSE "start"
<1> USE TaskSets DEF IInv, PhaseInv, Starting, Finishing
<1>1. phase \in {"setup", "start"}
  BY DEF TypeOK, Phases
<1>2. t = Server => phase = "setup" /\ t = cur
  BY <1>1
<1>3. t \in Workers => phase = "start" /\ t = cur
  <2>1. t \in Int /\ cur \in Int
    BY DEF TypeOK
  <2> QED
    BY <1>1, <2>1
<1> QED
  BY <1>2, <1>3

LEMMA WhereFinishing ==
  ASSUME IInv, NEW t \in Tasks, caller[t] \in Finishing
  PROVE  t = cur /\ phase = IF t = Server THEN "finish_setup" ELSE "finish_task"
<1> USE TaskSets DEF IInv, PhaseInv, Starting, Finishing
<1>1. phase \in {"finish_setup", "finish_task"}
  BY DEF TypeOK, Phases
<1>2. t = Server => phase = "finish_setup" /\ t = cur
  BY <1>1
<1>3. t \in Workers => phase = "finish_task" /\ t = cur
  <2>1. t \in Int /\ cur \in Int
    BY DEF TypeOK
  <2> QED
    BY <1>1, <2>1
<1> QED
  BY <1>2, <1>3

(* The loop goes on with the next task, or to the next loop.               *)
LEMMA AdvanceCases ==
  ASSUME TypeOK, Advance, phase \in DOMAIN NextPhase
  PROVE  /\ cur' \in Tasks /\ phase' \in Phases
         /\ \/ cur = NTasks /\ cur' = 1 /\ phase' = NextPhase[phase]
            \/ cur < NTasks /\ cur' = cur + 1 /\ phase' = phase
BY TaskSets, TasksAssumption DEF TypeOK, Advance, NextPhase, Phases, Tasks

(* A step of a loop that involves no operation.                            *)
LEMMA InitializeInv == IInv /\ Initialize => IInv'
<1> SUFFICES ASSUME IInv, Initialize PROVE IInv'
  OBVIOUS
<1>1. /\ cur' \in Tasks /\ phase' \in {"initialize", "setup"}
      /\ phase' = "setup" => cur' = Server
  BY AdvanceCases DEF IInv, Initialize, NextPhase, Server
<1> USE DEF IInv, Initialize, workVars, syncVars
<1>2. TypeOK'
  BY <1>1 DEF TypeOK, Phases
<1>3. PhaseInv'
  BY <1>1, TaskSets DEF PhaseInv
<1>4. ThreadInv' /\ BarrierInv' /\ AliveInv' /\ BuilderInv'
  BY <1>1 DEF ThreadInv, BarrierInv, AliveInv, BuilderInv
<1> QED
  BY <1>2, <1>3, <1>4

LEMMA SetupPodInv == IInv /\ SetupPod => IInv'
<1> SUFFICES ASSUME IInv, SetupPod PROVE IInv'
  OBVIOUS
<1>1. /\ cur' \in Tasks /\ phase' \in {"setup", "alive"}
      /\ phase' = "setup" => cur' # Server
  BY AdvanceCases, TaskSets DEF IInv, TypeOK, SetupPod, NextPhase, Server
<1> USE DEF IInv, SetupPod, workVars, syncVars
<1>2. TypeOK'
  BY <1>1 DEF TypeOK, Phases
<1>3. PhaseInv'
  BY <1>1, TaskSets DEF PhaseInv
<1>4. ThreadInv' /\ BarrierInv' /\ AliveInv' /\ BuilderInv'
  BY <1>1 DEF ThreadInv, BarrierInv, AliveInv, BuilderInv
<1> QED
  BY <1>2, <1>3, <1>4

LEMMA PrepareRaisesInv == IInv /\ PrepareRaises => IInv'
<1> SUFFICES ASSUME IInv, PrepareRaises PROVE IInv'
  OBVIOUS
<1> USE DEF IInv, PrepareRaises, workVars, syncVars
<1>1. PhaseInv'
  BY TaskSets DEF PhaseInv, TypeOK, Starting
<1>2. TypeOK' /\ ThreadInv' /\ BarrierInv' /\ AliveInv' /\ BuilderInv'
  BY DEF TypeOK, Phases, ThreadInv, BarrierInv, AliveInv, BuilderInv
<1> QED
  BY <1>1, <1>2

LEMMA NothingToDoInv == IInv /\ NothingToDo => IInv'
<1> SUFFICES ASSUME IInv, NothingToDo PROVE IInv'
  OBVIOUS
<1>1. /\ cur' \in Tasks
      /\ \/ cur = NTasks /\ phase = "finish_setup" /\ phase' = "aggregate" /\ cur' = 1
         \/ cur < NTasks /\ phase' = phase /\ cur' = cur + 1
  BY AdvanceCases, TaskSets, TasksAssumption DEF IInv, TypeOK, NothingToDo, NextPhase, Server
<1> USE DEF IInv, NothingToDo, workVars, syncVars
<1>2. TypeOK'
  BY <1>1 DEF TypeOK, Phases
<1>3. PhaseInv'
  BY <1>1, TaskSets DEF PhaseInv, TypeOK, Server
<1>4. ThreadInv' /\ BarrierInv' /\ AliveInv'
  BY DEF ThreadInv, BarrierInv, AliveInv
<1>5. BuilderInv'
  <2>1. {t \in Monitors : t < 1} = {}
    BY TaskSets
  <2>2. flow' = "none" /\ plugins' = {}
    BY DEF BuilderInv
  <2>3. phase' \in {"start", "finish_task", "finish_setup"} \/ (phase' = "aggregate" /\ cur' = 1)
    BY <1>1
  <2> QED
    BY <2>1, <2>2, <2>3 DEF BuilderInv, Client
<1> QED
  BY <1>2, <1>3, <1>4, <1>5

LEMMA AwaitInv == IInv /\ (AwaitServerAlive \/ AwaitClientFinished) => IInv'
<1> SUFFICES ASSUME IInv, AwaitServerAlive \/ AwaitClientFinished PROVE IInv'
  OBVIOUS
<1> USE DEF IInv, AwaitServerAlive, AwaitClientFinished, Goto, workVars, syncVars
<1>1. TypeOK'
  <2>1. phase' \in Phases /\ cur' \in Tasks
    BY TaskSets DEF Phases, Server
  <2> QED
    BY <2>1 DEF TypeOK
<1>2. PhaseInv'
  BY TaskSets DEF PhaseInv, Server
<1>3. ThreadInv' /\ BarrierInv' /\ AliveInv' /\ BuilderInv'
  BY DEF ThreadInv, BarrierInv, AliveInv, BuilderInv
<1> QED
  BY <1>1, <1>2, <1>3

(* start() of an operation.                                                *)
LEMMA StartOpInv == ASSUME IInv, NEW t \in Tasks, StartOp(t) PROVE IInv'
<1> USE DEF IInv, StartOp, workVars, syncVars
<1>1. TypeOK'
  BY DEF TypeOK, Callers
<1>2. PhaseInv'
  BY TaskSets DEF PhaseInv, TypeOK, Starting
<1>3. ThreadInv' /\ BarrierInv' /\ BuilderInv'
  BY DEF TypeOK, ThreadInv, BarrierInv, BuilderInv
<1>4. AliveInv'
  BY TaskSets DEF AliveInv, PhaseInv, TypeOK, Finishing
<1> QED
  BY <1>1, <1>2, <1>3, <1>4

LEMMA AccessThreadInv == ASSUME IInv, NEW t \in Tasks, AccessThread(t) PROVE IInv'
<1>1. t = cur /\ phase = IF t = Server THEN "setup" ELSE "start"
  BY WhereStarting DEF AccessThread, Starting
<1>2. /\ FirstPlace(t) \in Active
      /\ t \in Workers => FirstPlace(t) \in BeforeBarrier
  BY TaskSets DEF FirstPlace, Active, BeforeBarrier
<1> USE DEF IInv, AccessThread, workVars, syncVars
<1>3. TypeOK'
  BY <1>2 DEF TypeOK, Callers, Places
<1>4. PhaseInv'
  BY <1>1, TaskSets DEF PhaseInv, TypeOK, Starting
<1>5. ThreadInv'
  BY <1>2 DEF TypeOK, ThreadInv, Active
<1>6. BarrierInv'
  BY <1>2, TaskSets DEF TypeOK, ThreadInv, BarrierInv, BeforeBarrier
<1>7. AliveInv' /\ BuilderInv'
  BY <1>1, TaskSets DEF TypeOK, AliveInv, BuilderInv, Finishing
<1> QED
  BY <1>3, <1>4, <1>5, <1>6, <1>7

LEMMA SetRunningInv == ASSUME IInv, NEW t \in Tasks, SetRunning(t) PROVE IInv'
<1>1. t = cur /\ phase = IF t = Server THEN "setup" ELSE "start"
  BY WhereStarting DEF SetRunning, Starting
<1>2. /\ cur' \in Tasks /\ phase' \in {"setup", "start", "await"}
      /\ \/ cur = NTasks /\ phase = "start" /\ phase' = "await"
         \/ cur < NTasks /\ phase' = phase /\ cur' = cur + 1
  BY <1>1, AdvanceCases, TasksAssumption DEF IInv, SetRunning, NextPhase, Server
<1> USE DEF IInv, SetRunning, workVars, syncVars
<1>3. TypeOK'
  BY <1>2 DEF TypeOK, Callers, Phases
<1>4. PhaseInv'
  <2>1. CASE t = Server
    BY <1>1, <1>2, <2>1, TaskSets, TasksAssumption DEF PhaseInv, TypeOK, Server
  <2>2. CASE t \in Workers /\ phase' = "start"
    BY <1>1, <1>2, <2>2, TaskSets DEF PhaseInv, TypeOK, Starting
  <2>3. CASE t \in Workers /\ phase' = "await"
    BY <1>1, <1>2, <2>3, TaskSets DEF PhaseInv, TypeOK
  <2> QED
    BY <1>1, <1>2, <2>1, <2>2, <2>3, TaskSets
<1>5. ThreadInv' /\ BarrierInv'
  BY DEF TypeOK, ThreadInv, BarrierInv
<1>6. AliveInv'
  BY <1>1, TaskSets DEF AliveInv, TypeOK, Finishing
<1>7. BuilderInv'
  BY <1>1, <1>2 DEF BuilderInv
<1> QED
  BY <1>3, <1>4, <1>5, <1>6, <1>7

LEMMA ServerNotAliveInv == IInv /\ ServerNotAlive => IInv'
<1> SUFFICES ASSUME IInv, ServerNotAlive PROVE IInv'
  OBVIOUS
<1>1. phase = "setup"
  BY WhereStarting, TaskSets DEF ServerNotAlive, Starting
<1> USE DEF IInv, ServerNotAlive, workVars, syncVars
<1>2. TypeOK'
  BY DEF TypeOK, Callers, Phases
<1>3. PhaseInv'
  BY <1>1, TaskSets DEF PhaseInv, TypeOK
<1>4. ThreadInv' /\ BarrierInv' /\ BuilderInv'
  BY <1>1 DEF TypeOK, ThreadInv, BarrierInv, BuilderInv
<1>5. AliveInv'
  BY TaskSets DEF AliveInv, TypeOK, Finishing
<1> QED
  BY <1>2, <1>3, <1>4, <1>5

(* finish() of an operation.                                               *)
LEMMA FinishOpInv == ASSUME IInv, NEW t \in Tasks, FinishOp(t) PROVE IInv'
<1> USE DEF IInv, FinishOp, workVars, syncVars
<1>1. TypeOK'
  BY DEF TypeOK, Callers
<1>2. PhaseInv'
  BY TaskSets DEF PhaseInv, TypeOK, Finishing
<1>3. ThreadInv' /\ BarrierInv' /\ BuilderInv'
  BY DEF TypeOK, ThreadInv, BarrierInv, BuilderInv
<1>4. AliveInv'
  BY TaskSets DEF AliveInv, TypeOK
<1> QED
  BY <1>1, <1>2, <1>3, <1>4

(* A step from one place of finish() to the next.                          *)
LEMMA WithinFinish ==
  ASSUME IInv, NEW t \in Tasks, NEW place \in Finishing, caller[t] \in Finishing,
         caller' = [caller EXCEPT ![t] = place],
         place = "stopping" => thr[t] = "dead",
         UNCHANGED <<phase, cur, state, output, flow, plugins, workVars, syncVars, thr,
                     res, exited>>
  PROVE  IInv'
<1>1. t = cur /\ phase = IF t = Server THEN "finish_setup" ELSE "finish_task"
  BY WhereFinishing
<1> USE DEF IInv, workVars, syncVars
<1>2. TypeOK'
  BY DEF TypeOK, Callers, Finishing
<1>3. PhaseInv'
  BY <1>1, TaskSets DEF PhaseInv, TypeOK
<1>4. ThreadInv'
  BY DEF TypeOK, ThreadInv, Finishing
<1>5. BarrierInv' /\ BuilderInv'
  BY DEF BarrierInv, BuilderInv
<1>6. AliveInv'
  BY TaskSets DEF AliveInv, TypeOK, Finishing
<1> QED
  BY <1>2, <1>3, <1>4, <1>5, <1>6

LEMMA JoinInv ==
  ASSUME IInv, NEW t \in Tasks, Joined(t) \/ JoinThenCancel(t) \/ Cancel(t)
  PROVE  IInv'
<1>1. CASE Joined(t)
  BY <1>1, WithinFinish DEF Joined, Finishing
<1>2. CASE JoinThenCancel(t)
  BY <1>2, WithinFinish DEF JoinThenCancel, Finishing
<1>3. CASE Cancel(t)
  BY <1>3, WithinFinish DEF Cancel, Finishing
<1> QED
  BY <1>1, <1>2, <1>3

LEMMA JoinTimeoutInv == ASSUME IInv, NEW t \in Tasks, JoinTimeout(t) PROVE IInv'
<1>1. caller[t] \in {"joining", "rejoining"}
  BY DEF JoinTimeout
<1>2. t = cur /\ phase = IF t = Server THEN "finish_setup" ELSE "finish_task"
  BY <1>1, WhereFinishing DEF Finishing
<1> USE DEF IInv, JoinTimeout, workVars, syncVars
<1>3. TypeOK'
  BY DEF TypeOK, Callers, Phases
<1>4. PhaseInv'
  BY <1>2, TaskSets DEF PhaseInv, TypeOK
<1>5. ThreadInv' /\ BarrierInv' /\ BuilderInv'
  BY <1>1, <1>2 DEF TypeOK, ThreadInv, BarrierInv, BuilderInv
<1>6. AliveInv'
  BY TaskSets DEF AliveInv, TypeOK, PhaseInv, Finishing
<1> QED
  BY <1>3, <1>4, <1>5, <1>6

LEMMA StopOpInv == ASSUME IInv, NEW t \in Tasks, StopOp(t) PROVE IInv'
<1>1. t = cur /\ phase = IF t = Server THEN "finish_setup" ELSE "finish_task"
  BY WhereFinishing DEF StopOp, Finishing
<1>2. /\ cur' \in Tasks /\ phase' \in {"finish_task", "finish_setup"}
      /\ \/ cur = NTasks /\ phase = "finish_task" /\ phase' = "finish_setup" /\ cur' = 1
         \/ cur < NTasks /\ phase' = phase /\ cur' = cur + 1
  BY <1>1, AdvanceCases, TasksAssumption DEF IInv, StopOp, NextPhase, Server
<1>3. res[t] \in {"ok", "fail"} /\ thr[t] = "dead"
  BY DEF IInv, TypeOK, ThreadInv, StopOp, Values
<1> USE DEF IInv, StopOp, workVars, syncVars
<1>4. TypeOK'
  BY <1>2, <1>3 DEF TypeOK, Callers, Phases, Values
<1>5. PhaseInv'
  <2>1. CASE t = Server
    BY <1>1, <1>2, <2>1, TaskSets, TasksAssumption DEF PhaseInv, TypeOK, Server
  <2>2. CASE t \in Workers /\ phase' = "finish_task"
    BY <1>1, <1>2, <2>2, TaskSets DEF PhaseInv, TypeOK
  <2>3. CASE t \in Workers /\ phase' = "finish_setup"
    BY <1>1, <1>2, <2>3, TaskSets DEF PhaseInv, TypeOK, Server
  <2> QED
    BY <1>1, <1>2, <2>1, <2>2, <2>3, TaskSets
<1>6. ThreadInv' /\ BarrierInv'
  BY <1>3 DEF TypeOK, ThreadInv, BarrierInv
<1>7. AliveInv'
  BY <1>1, TaskSets DEF AliveInv, TypeOK, Finishing
<1>8. BuilderInv'
  BY <1>1, <1>2 DEF BuilderInv
<1> QED
  BY <1>4, <1>5, <1>6, <1>7, <1>8

(* The results are aggregated and built.                                   *)
LEMMA AggregateInv == IInv /\ Aggregate => IInv'
<1> SUFFICES ASSUME IInv, Aggregate PROVE IInv'
  OBVIOUS
<1>1. /\ cur' \in Tasks /\ phase' \in {"aggregate", "build"}
      /\ \/ cur = NTasks /\ phase' = "build" /\ cur' = 1
         \/ cur < NTasks /\ phase' = "aggregate" /\ cur' = cur + 1
  BY AdvanceCases DEF IInv, Aggregate, NextPhase
<1>2. \A t \in Tasks : output[t] = res[t] /\ res[t] \in {"ok", "fail"}
  BY DEF IInv, TypeOK, PhaseInv, ThreadInv, Aggregate, Values
<1>3. cur \in Tasks
  BY DEF IInv, TypeOK
<1> USE DEF IInv, Aggregate, workVars, syncVars
<1>4. TypeOK'
  BY <1>1, <1>2, <1>3 DEF TypeOK, Phases, Values
<1>5. PhaseInv'
  BY <1>1 DEF PhaseInv
<1>6. ThreadInv' /\ BarrierInv' /\ AliveInv'
  BY DEF ThreadInv, BarrierInv, AliveInv
<1>7. BuilderInv'
  <2>1. plugins' = {t \in Monitors : t < cur + 1}
    BY <1>2, <1>3, TaskSets DEF BuilderInv
  <2>2. flow' = IF cur + 1 > Client THEN res[Client] ELSE "none"
    <3>1. CASE cur = Client
      <4>1. output[Client] = res[Client] /\ output[Client] \in {"ok", "fail"}
        BY <1>2, <1>3, <3>1
      <4>2. flow' = res[Client]
        BY <3>1, <4>1
      <4> QED
        BY <3>1, <4>2 DEF Client
    <3>2. CASE cur # Client
      <4>1. cur + 1 > Client <=> cur > Client
        BY <1>3, <3>2, TaskSets DEF Client
      <4> QED
        BY <3>2, <4>1 DEF BuilderInv
    <3> QED
      BY <3>1, <3>2
  <2>3. CASE phase' = "aggregate"
    BY <1>1, <2>1, <2>2, <2>3 DEF BuilderInv
  <2>4. CASE phase' = "build"
    <3>1. cur = NTasks
      BY <1>1, <2>4
    <3>2. {t \in Monitors : t < cur + 1} = Monitors
      BY <3>1, TaskSets, TasksAssumption
    <3>3. cur + 1 > Client
      BY <3>1, TasksAssumption DEF Client
    <3> QED
      BY <2>1, <2>2, <2>4, <3>2, <3>3 DEF BuilderInv
  <2> QED
    BY <1>1, <2>3, <2>4
<1> QED
  BY <1>4, <1>5, <1>6, <1>7

LEMMA BuildInv == IInv /\ Build => IInv'
<1> SUFFICES ASSUME IInv, Build PROVE IInv'
  OBVIOUS
<1> USE DEF IInv, Build, workVars, syncVars
<1>1. TypeOK' /\ ThreadInv' /\ BarrierInv' /\ AliveInv' /\ BuilderInv'
  BY DEF TypeOK, Phases, ThreadInv, BarrierInv, AliveInv, BuilderInv
<1>2. PhaseInv'
  BY TaskSets DEF PhaseInv
<1> QED
  BY <1>1, <1>2

LEMMA MainInv == IInv /\ Main => IInv'
<1> SUFFICES ASSUME IInv, Main PROVE IInv'
  OBVIOUS
<1>1. CASE Initialize \/ SetupPod \/ PrepareRaises \/ NothingToDo
  BY <1>1, InitializeInv, SetupPodInv, PrepareRaisesInv, NothingToDoInv
<1>2. CASE AwaitServerAlive \/ AwaitClientFinished \/ ServerNotAlive
  BY <1>2, AwaitInv, ServerNotAliveInv
<1>3. CASE Aggregate \/ Build
  BY <1>3, AggregateInv, BuildInv
<1>4. CASE \E t \in Tasks : InOperation(t)
  BY <1>4, StartOpInv, AccessThreadInv, SetRunningInv, FinishOpInv, JoinInv,
     JoinTimeoutInv, StopOpInv DEF InOperation
<1> QED
  BY <1>1, <1>2, <1>3, <1>4 DEF Main

LEMMA NextInv == IInv /\ [Next]_vars => IInv'
<1> SUFFICES ASSUME IInv, [Next]_vars PROVE IInv'
  OBVIOUS
<1>1. CASE UNCHANGED vars
  BY <1>1 DEF vars, mainVars, workVars, syncVars, IInv, TypeOK, PhaseInv, ThreadInv,
              BarrierInv, AliveInv, BuilderInv
<1> QED
  BY <1>1, MainInv, ThreadsInv DEF Next, Over

LEMMA Invariance == SafetySpec => []IInv
<1> QED
  BY InitInv, NextInv, PTL DEF SafetySpec

-----------------------------------------------------------------------------
(* The variables of an instance keep their types.                          *)
THEOREM TypeCorrect == SafetySpec => []TypeOK
<1>1. IInv => TypeOK
  BY DEF IInv
<1> QED
  BY <1>1, Invariance, PTL

(* Whatever the number and the kinds of the monitors, the client sends     *)
(* nothing before the server was seen listening and all monitors are ready *)
(* (src/trafficFlowTests.py:100-110).                                      *)
THEOREM TrafficWaits == SafetySpec => []TrafficNeedsEverybody
<1>1. IInv => TrafficNeedsEverybody
  <2> SUFFICES ASSUME IInv, thr[Client] \in {"traffic", "parse", "stored", "dead"}
               PROVE  serverAlive /\ \A t \in Monitors : thr[t] \notin BeforeBarrier
    BY DEF TrafficNeedsEverybody
  <2>1. arrived = Workers
    BY TaskSets DEF IInv, BarrierInv, BeforeBarrier
  <2>2. \A t \in Monitors : thr[t] \notin BeforeBarrier
    BY <2>1, TaskSets DEF IInv, BarrierInv
  <2>3. serverAlive
    BY TaskSets DEF IInv, ThreadInv, AliveInv
  <2> QED
    BY <2>2, <2>3
<1> QED
  BY <1>1, Invariance, PTL

(* Nobody cancels the server while a client or a monitor is at work        *)
(* (src/trafficFlowTests.py:112-116).                                      *)
THEOREM ServerOutlives == SafetySpec => []ServerOutlivesWorkers
<1>1. IInv => ServerOutlivesWorkers
  <2> SUFFICES ASSUME IInv, caller[Server] \in {"joining", "cancelling", "rejoining",
                                                "stopping", "done"},
                      NEW t \in Workers
               PROVE  thr[t] = "dead" /\ caller[t] = "done"
    BY DEF ServerOutlivesWorkers
  <2>1. caller[t] = "done"
    BY TaskSets DEF IInv, TypeOK, PhaseInv, Phases, Starting
  <2> QED
    BY <2>1, TaskSets DEF IInv, ThreadInv
<1> QED
  BY <1>1, Invariance, PTL

(* An instance that gets as far as building its result has lost no output  *)
(* and left no thread behind (src/trafficFlowTests.py:118-123).            *)
THEOREM ResultComplete == SafetySpec => []ResultIsComplete
<1>1. IInv => ResultIsComplete
  <2> SUFFICES ASSUME IInv, phase \in {"build", "returned"}
               PROVE  /\ \A t \in Tasks : thr[t] = "dead" /\ output[t] = res[t]
                      /\ flow = res[Client] /\ flow # "none"
                      /\ plugins = Monitors
    BY DEF ResultIsComplete
  <2>1. \A t \in Tasks : caller[t] = "done"
    BY DEF IInv, PhaseInv
  <2>2. \A t \in Tasks : thr[t] = "dead" /\ output[t] = res[t] /\ res[t] # "none"
    BY <2>1 DEF IInv, ThreadInv
  <2> QED
    BY <2>2, TaskSets DEF IInv, BuilderInv
<1> QED
  BY <1>1, Invariance, PTL

-----------------------------------------------------------------------------
(* What validate_offload's verdict rests on: who has read which counter    *)
(* when, and that the client sends nothing any more once its event is set. *)
OffloadMonitors == {t \in Monitors : Kind[t] = "validate_offload"}

ClientPath ==
  /\ thr[Client] \in {"none", "arrive", "waiting", "traffic", "parse", "stored", "dead"}
  /\ clientFinished <=> thr[Client] \in {"parse", "stored", "dead"}

OffloadPath(t) ==
  /\ thr[t] \in {"none", "detect", "arrive", "waiting", "read_start", "await_client",
                 "read_end", "verdict", "stored", "dead"}
  /\ vfRep[t] =>
       /\ thr[t] \in {"read_end", "verdict", "stored", "dead"} => clientFinished
       /\ thr[t] \in {"await_client", "read_end", "verdict"} /\ ok[t] =>
            startVal[t] # Unread
       /\ thr[t] = "verdict" /\ ok[t] => endVal[t] = packets
       /\ res[t] = "ok" => startVal[t] # Unread /\ packets - startVal[t] < Threshold

OffloadInv == ClientPath /\ \A t \in OffloadMonitors : OffloadPath(t)

offloadVars == <<packets, vfRep, ok, startVal, endVal, clientFinished, thr, res>>

LEMMA OffloadSets ==
  /\ Client \in Tasks /\ Client # Server /\ Client \notin OffloadMonitors
  /\ \A t \in OffloadMonitors : /\ t \in Tasks /\ t \in Monitors /\ t # Server
                                /\ Kind[t] = "validate_offload"
  /\ Kind[Client] = "client"
BY TaskSets, TasksAssumption DEF OffloadMonitors, Server, Client

LEMMA OffloadInit == Init => OffloadInv
BY OffloadSets, TaskSets DEF Init, OffloadInv, ClientPath, OffloadPath

LEMMA OffloadFrame == OffloadInv /\ UNCHANGED offloadVars => OffloadInv'
BY DEF OffloadInv, ClientPath, OffloadPath, offloadVars

(* The main thread only brings the threads into being.                     *)
LEMMA OffloadMain == IInv /\ OffloadInv /\ Main => OffloadInv'
<1> SUFFICES ASSUME IInv, OffloadInv, Main PROVE OffloadInv'
  OBVIOUS
<1>1. CASE \E t \in Tasks : AccessThread(t)
  <2>1. PICK t \in Tasks : AccessThread(t)
    BY <1>1
  <2>2. thr[t] = "none"
    BY <2>1 DEF IInv, ThreadInv, AccessThread
  <2> USE <2>1, <2>2, OffloadSets DEF AccessThread, IInv, TypeOK, OffloadInv,
                                      workVars, syncVars, FirstPlace
  <2>3. ClientPath'
    BY DEF ClientPath
  <2>4. ASSUME NEW m \in OffloadMonitors PROVE OffloadPath(m)'
    BY <2>4 DEF OffloadPath
  <2> QED
    BY <2>3, <2>4
<1>2. CASE ~ \E t \in Tasks : AccessThread(t)
  <2>1. UNCHANGED offloadVars
    BY <1>2 DEF Main, InOperation, Initialize, SetupPod, PrepareRaises, NothingToDo,
          AwaitServerAlive, AwaitClientFinished, ServerNotAlive, Aggregate, Build,
          StartOp, SetRunning, FinishOp, Joined, JoinThenCancel, Cancel, JoinTimeout,
          StopOp, offloadVars, workVars, syncVars
  <2> QED
    BY <2>1, OffloadFrame
<1> QED
  BY <1>1, <1>2

(* A thread's step that neither reads nor moves what a verdict rests on.   *)
LEMMA OffloadOther ==
  ASSUME IInv, OffloadInv, NEW t \in Tasks, t # Client, t \notin OffloadMonitors,
         \E to \in Places : thr' = [thr EXCEPT ![t] = to],
         UNCHANGED <<packets, clientFinished>>,
         \A m \in OffloadMonitors : /\ vfRep'[m] = vfRep[m] /\ ok'[m] = ok[m]
                                    /\ startVal'[m] = startVal[m] /\ endVal'[m] = endVal[m]
                                    /\ res'[m] = res[m]
  PROVE  OffloadInv'
<1> USE OffloadSets DEF IInv, TypeOK, OffloadInv
<1>1. ClientPath'
  BY DEF ClientPath
<1>2. ASSUME NEW m \in OffloadMonitors PROVE OffloadPath(m)'
  <2>1. thr'[m] = thr[m]
    OBVIOUS
  <2> QED
    BY <2>1, <1>2 DEF OffloadPath
<1> QED
  BY <1>1, <1>2

(* Barrier and end of a thread.                                            *)
LEMMA OffloadCommon ==
  ASSUME IInv, OffloadInv, NEW t \in Tasks,
         ThreadDies(t) \/ (t \in Workers /\ (Arrive(t) \/ PassBarrier(t)))
  PROVE  OffloadInv'
<1> USE OffloadSets DEF IInv, TypeOK, OffloadInv, workVars, syncVars, Go
<1>0. CASE ThreadDies(t)
  <2>1. ClientPath'
    BY <1>0 DEF ClientPath, ThreadDies
  <2>2. ASSUME NEW m \in OffloadMonitors PROVE OffloadPath(m)'
    BY <1>0, <2>2 DEF OffloadPath, ThreadDies
  <2> QED
    BY <2>1, <2>2
<1>1. CASE t \in Workers /\ Arrive(t)
  <2>1. ClientPath'
    BY <1>1 DEF ClientPath, Arrive
  <2>2. ASSUME NEW m \in OffloadMonitors PROVE OffloadPath(m)'
    BY <1>1, <2>2 DEF OffloadPath, Arrive
  <2> QED
    BY <2>1, <2>2
<1>2. CASE t \in Workers /\ PassBarrier(t)
  <2>1. ClientPath'
    BY <1>2 DEF ClientPath, PassBarrier, Activity
  <2>2. ASSUME NEW m \in OffloadMonitors PROVE OffloadPath(m)'
    BY <1>2, <2>2 DEF OffloadPath, PassBarrier, Activity
  <2> QED
    BY <2>1, <2>2
<1> QED
  BY <1>0, <1>1, <1>2

(* The client: no packet is counted once its event is set.                 *)
LEMMA OffloadClient == IInv /\ OffloadInv /\ ClientThread => OffloadInv'
<1> SUFFICES ASSUME IInv, OffloadInv, ClientThread PROVE OffloadInv'
  OBVIOUS
<1> USE OffloadSets DEF IInv, TypeOK, OffloadInv, workVars, syncVars, Go
<1>1. CASE Send
  <2>1. ~clientFinished
    BY <1>1 DEF Send, ClientPath
  <2>2. ClientPath'
    BY <1>1 DEF ClientPath, Send
  <2>3. ASSUME NEW m \in OffloadMonitors PROVE OffloadPath(m)'
    <3>1. vfRep[m] => /\ thr[m] \notin {"read_end", "verdict", "stored", "dead"}
                      /\ res[m] = "none"
      BY <2>1, <2>3 DEF OffloadPath, ThreadInv
    <3> QED
      BY <1>1, <2>3, <3>1 DEF OffloadPath, Send
  <2> QED
    BY <2>2, <2>3
<1>2. CASE ClientFinishes
  <2>1. ClientPath'
    BY <1>2 DEF ClientPath, ClientFinishes
  <2>2. ASSUME NEW m \in OffloadMonitors PROVE OffloadPath(m)'
    BY <1>2, <2>2 DEF OffloadPath, ClientFinishes
  <2> QED
    BY <2>1, <2>2
<1>3. CASE ClientReturns
  <2>1. ClientPath'
    BY <1>3 DEF ClientPath, ClientReturns, Return
  <2>2. ASSUME NEW m \in OffloadMonitors PROVE OffloadPath(m)'
    BY <1>3, <2>2 DEF OffloadPath, ClientReturns, Return
  <2> QED
    BY <2>1, <2>2
<1> QED
  BY <1>1, <1>2, <1>3 DEF ClientThread

(* validate_offload itself.                                                *)
LEMMA OffloadSteps ==
  ASSUME IInv, OffloadInv, NEW t \in OffloadMonitors, MonitorThread(t)
  PROVE  OffloadInv'
<1> USE OffloadSets DEF IInv, TypeOK, OffloadInv, workVars, syncVars, Go
<1>1. thr[t] \notin {"measure", "check", "sample", "average"}
  BY DEF OffloadPath
<1>2. DetectVfRep(t) \/ ReadStart(t) \/ OffloadAwait(t) \/ ReadEnd(t) \/ Verdict(t)
  BY <1>1 DEF MonitorThread, Mpstat, PowerCheck, PowerSample, PowerAverage, Return
<1>3. ClientPath'
  BY <1>2 DEF ClientPath, DetectVfRep, ReadStart, OffloadAwait, ReadEnd, Verdict, Return
<1>4. ASSUME NEW m \in OffloadMonitors, m # t PROVE OffloadPath(m)'
  BY <1>2, <1>4 DEF OffloadPath, DetectVfRep, ReadStart, OffloadAwait, ReadEnd, Verdict,
                    Return
<1>5. OffloadPath(t)'
  <2>1. CASE DetectVfRep(t)
    <3>1. res'[t] = "none" /\ thr'[t] = "arrive"
      BY <2>1 DEF DetectVfRep, ThreadInv
    <3> QED
      BY <3>1 DEF OffloadPath
  <2>2. CASE ReadStart(t)
    <3>1. res'[t] = "none" /\ thr'[t] = "await_client"
      BY <2>2 DEF ReadStart, ThreadInv
    <3>2. ok'[t] => startVal'[t] # Unread
      BY <2>2, TrafficAssumption DEF ReadStart, Unread
    <3> QED
      BY <3>1, <3>2 DEF OffloadPath
  <2>3. CASE OffloadAwait(t)
    BY <2>3 DEF OffloadPath, OffloadAwait
  <2>4. CASE ReadEnd(t)
    <3>1. res'[t] = "none" /\ thr'[t] = "verdict"
      BY <2>4 DEF ReadEnd, ThreadInv
    <3>2. ok'[t] => ok[t] /\ endVal'[t] = packets'
      BY <2>4 DEF ReadEnd
    <3>3. startVal'[t] = startVal[t] /\ vfRep'[t] = vfRep[t] /\ clientFinished' = clientFinished
      BY <2>4 DEF ReadEnd
    <3> QED
      BY <2>4, <3>1, <3>2, <3>3 DEF OffloadPath, ReadEnd
  <2>5. CASE Verdict(t)
    <3>1. thr[t] = "verdict" /\ thr'[t] = "stored" /\ UNCHANGED <<packets, vfRep, startVal, clientFinished>>
      BY <2>5 DEF Verdict, Return
    <3>2. res'[t] = "ok" => ok[t] /\ NoTraffic(t)
      BY <2>5 DEF Verdict, Return
    <3>3. vfRep[t] /\ ok[t] /\ NoTraffic(t) =>
            startVal[t] # Unread /\ packets - startVal[t] < Threshold
      BY <3>1, TrafficAssumption DEF OffloadPath, NoTraffic, Unread
    <3> QED
      BY <3>1, <3>2, <3>3 DEF OffloadPath
  <2> QED
    BY <1>2, <2>1, <2>2, <2>3, <2>4, <2>5
<1> QED
  BY <1>3, <1>4, <1>5

LEMMA OffloadThreads == IInv /\ OffloadInv /\ Threads => OffloadInv'
<1> SUFFICES ASSUME IInv, OffloadInv, Threads PROVE OffloadInv'
  OBVIOUS
<1> USE OffloadSets, TaskSets
<1>1. CASE ServeReturns
  <2>1. /\ \E to \in Places : thr' = [thr EXCEPT ![Server] = to]
        /\ UNCHANGED <<packets, clientFinished, vfRep, ok, startVal, endVal>>
        /\ \A m \in OffloadMonitors : res'[m] = res[m]
    BY <1>1 DEF ServeReturns, Return, Go, Places, workVars, syncVars, IInv, TypeOK
  <2> QED
    BY <2>1, OffloadOther
<1>2. CASE \E t \in Tasks : ThreadDies(t)
  BY <1>2, OffloadCommon
<1>3. CASE \E t \in Workers : Arrive(t) \/ PassBarrier(t)
  BY <1>3, OffloadCommon
<1>4. CASE ClientThread
  BY <1>4, OffloadClient
<1>5. CASE \E t \in OffloadMonitors : MonitorThread(t)
  BY <1>5, OffloadSteps
<1>6. CASE \E t \in Monitors \ OffloadMonitors : MonitorThread(t)
  <2>1. PICK t \in Monitors \ OffloadMonitors : MonitorThread(t)
    BY <1>6
  <2>2. CASE UNCHANGED thr
    <3>1. UNCHANGED offloadVars
      BY <2>1, <2>2 DEF MonitorThread, Mpstat, PowerCheck, PowerSample, PowerAverage,
           DetectVfRep, ReadStart, OffloadAwait, ReadEnd, Verdict, Return, Go, IInv, TypeOK,
           workVars, syncVars, offloadVars
    <3> QED
      BY <3>1, OffloadFrame
  <2>3. CASE thr' # thr
    <3> USE <2>1, <2>3 DEF MonitorThread, Mpstat, PowerCheck, PowerSample, PowerAverage,
           DetectVfRep, ReadStart, OffloadAwait, ReadEnd, Verdict, Return, Go, IInv, TypeOK,
           workVars, syncVars
    <3>1. \E to \in Places : thr' = [thr EXCEPT ![t] = to]
      BY DEF Places, Active
    <3>2. UNCHANGED <<packets, clientFinished>>
      OBVIOUS
    <3>3. ASSUME NEW m \in OffloadMonitors
          PROVE  /\ vfRep'[m] = vfRep[m] /\ ok'[m] = ok[m]
                 /\ startVal'[m] = startVal[m] /\ endVal'[m] = endVal[m]
                 /\ res'[m] = res[m]
      BY <3>3
    <3> QED
      BY <3>1, <3>2, <3>3, OffloadOther
  <2> QED
    BY <2>2, <2>3
<1>7. CASE \E t \in Tasks : ActionRaises(t)
  BY <1>7, OffloadFrame DEF ActionRaises, workVars, syncVars, offloadVars
<1> QED
  BY <1>1, <1>2, <1>3, <1>4, <1>5, <1>6, <1>7 DEF Threads, WorkerThread

LEMMA OffloadStep == IInv /\ OffloadInv /\ [Next]_vars => OffloadInv'
<1>1. CASE UNCHANGED vars
  BY <1>1, OffloadFrame DEF vars, workVars, syncVars, offloadVars
<1> QED
  BY <1>1, OffloadMain, OffloadThreads DEF Next, Over, vars

(* However many packets may pass and whatever the threshold, a verdict     *)
(* without a fault has counted the client's traffic to its end             *)
(* (src/pluginValidateOffload.py:207-216).                                 *)
THEOREM OffloadCounted == SafetySpec => []OffloadCountsToTheEnd
<1>1. OffloadInv => OffloadCountsToTheEnd
  BY DEF OffloadInv, OffloadPath, OffloadCountsToTheEnd, OffloadMonitors
<1> QED
  BY <1>1, OffloadInit, OffloadStep, Invariance, PTL DEF SafetySpec

-----------------------------------------------------------------------------
(* The main thread raises before it has started any client or monitor, or  *)
(* when all of them are started: never between two of them.                *)
RaisedInv ==
  phase = "raised" =>
    \/ \A t \in Workers : caller[t] = "new"
    \/ \A t \in Workers : caller[t] # "new"

LEMMA Advances ==
  ASSUME phase \in {"initialize", "setup", "start", "finish_task", "finish_setup",
                    "aggregate"},
         Advance
  PROVE  phase' # "raised"
BY DEF Advance, NextPhase

LEMMA RaisedStep == IInv /\ RaisedInv /\ [Next]_vars => RaisedInv'
<1> SUFFICES ASSUME IInv, RaisedInv, [Next]_vars, phase' = "raised"
             PROVE  \/ \A t \in Workers : caller'[t] = "new"
                    \/ \A t \in Workers : caller'[t] # "new"
  BY DEF RaisedInv
<1> USE TaskSets
<1>1. CASE PrepareRaises
  <2>1. \A t \in Workers : caller[t] = "new"
    BY <1>1 DEF PrepareRaises, IInv, PhaseInv, TypeOK, Workers, Tasks, Server, Client
  <2> QED
    BY <1>1, <2>1 DEF PrepareRaises
<1>2. CASE ServerNotAlive
  <2>1. phase = "setup"
    BY <1>2 DEF ServerNotAlive, IInv, PhaseInv, TypeOK, Phases, Finishing
  <2> QED
    BY <1>2, <2>1 DEF ServerNotAlive, IInv, PhaseInv, TypeOK
<1>3. CASE \E t \in Tasks : JoinTimeout(t)
  <2>1. PICK t \in Tasks : JoinTimeout(t)
    BY <1>3
  <2>2. \A w \in Workers : caller[w] # "new"
    BY <2>1 DEF JoinTimeout, IInv, PhaseInv, TypeOK, Phases, Starting, Finishing
  <2> QED
    BY <2>1, <2>2 DEF JoinTimeout, IInv, TypeOK
<1>4. CASE Build
  BY <1>4 DEF Build, IInv, PhaseInv
<1>5. CASE UNCHANGED <<phase, caller>>
  BY <1>5 DEF RaisedInv
<1>6. CASE /\ Main
           /\ ~PrepareRaises /\ ~ServerNotAlive /\ ~Build /\ ~ \E t \in Tasks : JoinTimeout(t)
  <2>1. CASE \E t \in Tasks : StartOp(t) \/ FinishOp(t)
    BY <2>1 DEF StartOp, FinishOp
  <2>2. CASE \E t \in Tasks : AccessThread(t) \/ Joined(t) \/ JoinThenCancel(t) \/ Cancel(t)
    BY <2>2 DEF AccessThread, Joined, JoinThenCancel, Cancel, IInv, PhaseInv
  <2>3. CASE \E t \in Tasks : SetRunning(t)
    <3>1. phase \in {"setup", "start"} /\ Advance
      BY <2>3 DEF SetRunning, IInv, PhaseInv, TypeOK, Phases, Finishing
    <3> QED
      BY <3>1, Advances
  <2>4. CASE \E t \in Tasks : StopOp(t)
    <3>1. phase \in {"finish_task", "finish_setup"} /\ Advance
      BY <2>4 DEF StopOp, IInv, PhaseInv, TypeOK, Phases, Starting
    <3> QED
      BY <3>1, Advances
  <2>5. CASE Initialize \/ SetupPod \/ NothingToDo \/ Aggregate
    <3>1. /\ phase \in {"initialize", "setup", "start", "finish_task", "finish_setup",
                        "aggregate"}
          /\ Advance
      BY <2>5 DEF Initialize, SetupPod, NothingToDo, Aggregate
    <3> QED
      BY <3>1, Advances
  <2>6. CASE AwaitServerAlive \/ AwaitClientFinished
    BY <2>6 DEF AwaitServerAlive, AwaitClientFinished, Goto
  <2> QED
    BY <1>6, <2>1, <2>2, <2>3, <2>4, <2>5, <2>6 DEF Main, InOperation
<1>7. CASE Threads
  <2>1. UNCHANGED mainVars
    BY <1>7 DEF Threads, WorkerThread, ClientThread, MonitorThread, ServeReturns,
         ThreadDies, Arrive, PassBarrier, Send, ClientFinishes, ClientReturns, Mpstat,
         PowerCheck, PowerSample, PowerAverage, DetectVfRep, ReadStart, OffloadAwait,
         ReadEnd, Verdict, ActionRaises
  <2> QED
    BY <1>5, <2>1 DEF mainVars
<1> QED
  BY <1>1, <1>2, <1>3, <1>4, <1>5, <1>6, <1>7 DEF Next, Over, vars, mainVars

(* A thread waits at the barrier for others: the missing ones are on the   *)
(* way, or the main thread has yet to start them.                          *)
LEMMA BarrierWaiters ==
  ASSUME IInv, RaisedInv, NEW t \in Workers, thr[t] = "waiting",
         \A u \in Workers : ~OnTheWay(u)
  PROVE  arrived = Workers
<1> USE TaskSets DEF IInv
<1>1. caller[t] \notin {"new", "starting"}
  BY DEF ThreadInv
<1>2. ASSUME NEW u \in Workers, thr[u] = "none" PROVE FALSE
  <2>1. caller[u] \in {"new", "starting"}
    BY <1>2 DEF ThreadInv
  <2>2. phase # "start"
    BY <1>2, <2>1 DEF OnTheWay
  <2>3. phase # "raised"
    BY <1>1, <2>1 DEF RaisedInv, PhaseInv
  <2>4. phase \in {"await", "finish_task", "finish_setup", "aggregate", "build", "returned"}
    BY <1>1, <2>2, <2>3 DEF TypeOK, Phases, PhaseInv
  <2>5. CASE phase = "finish_task"
    BY <2>1, <2>5 DEF PhaseInv, Finishing, TypeOK, Tasks
  <2>6. CASE phase # "finish_task"
    BY <2>1, <2>4, <2>6 DEF PhaseInv
  <2> QED
    BY <2>5, <2>6
<1>3. \A u \in Workers : u \in arrived
  BY <1>2 DEF OnTheWay, BarrierInv, BeforeBarrier
<1> QED
  BY <1>3 DEF TypeOK

(* However many monitors there are, nobody waits in vain                   *)
(* (src/trafficFlowTests.py:100-110).                                      *)
THEOREM NoWaitInVain == SafetySpec => []NobodyWaitsInVain
<1>1. Init => RaisedInv
  BY DEF Init, RaisedInv
<1>2. IInv /\ OffloadInv /\ RaisedInv => NobodyWaitsInVain
  <2> SUFFICES ASSUME IInv, OffloadInv, RaisedInv PROVE NobodyWaitsInVain
    OBVIOUS
  <2> USE TaskSets DEF IInv
  <2>1. phase = "alive" => serverAlive
    BY DEF PhaseInv, AliveInv
  <2>2. ASSUME NEW t \in Workers, thr[t] = "waiting", \A u \in Workers : ~OnTheWay(u)
        PROVE  Cardinality(arrived) = Parties
    BY <2>2, BarrierWaiters DEF Parties
  <2>3. ASSUME phase = "await", ~clientFinished
        PROVE  thr[Client] \in {"arrive", "waiting", "traffic"}
    <3>1. thr[Client] # "none"
      BY <2>3 DEF PhaseInv, ThreadInv
    <3> QED
      BY <2>3, <3>1 DEF OffloadInv, ClientPath
  <2>4. ASSUME NEW t \in Workers, thr[t] = "await_client", ~clientFinished
        PROVE  thr[Client] \in {"arrive", "waiting", "traffic"}
    <3>1. arrived = Workers
      BY <2>4 DEF BarrierInv, BeforeBarrier
    <3>2. thr[Client] # "none"
      BY <3>1 DEF BarrierInv, BeforeBarrier
    <3> QED
      BY <2>4, <3>2 DEF OffloadInv, ClientPath
  <2> QED
    BY <2>1, <2>2, <2>3, <2>4 DEF NobodyWaitsInVain
<1> QED
  BY <1>1, <1>2, RaisedStep, OffloadInit, OffloadStep, Invariance, PTL DEF SafetySpec

-----------------------------------------------------------------------------
(* Every step of an instance is, for each of its operations, a step of     *)
(* TaskOperation or none at all.                                           *)
StartingInv == \A t \in Tasks : caller[t] \in Starting => state[t] = "STARTING"

OpStep(t) == [Op(t)!Next]_(Op(t)!opVars)

LEMMA OpInit == ASSUME Init, NEW t \in Tasks PROVE Op(t)!Init
BY DEF Init, Op!Init, Op!Configs, HasCancel, Active

(* Places inside of the action are all the same to TaskOperation.          *)
LEMMA OpStutters ==
  ASSUME NEW t \in Tasks, caller'[t] = caller[t], state'[t] = state[t],
         output'[t] = output[t], res'[t] = res[t], exited' = exited,
         thr'[t] = thr[t] \/ (thr[t] \in Active /\ thr'[t] \in Active)
  PROVE  OpStep(t)
BY DEF OpStep, Op!opVars, HasCancel

LEMMA OpReturns ==
  ASSUME IInv, ~exited, NEW t \in Tasks, NEW from \in Active, NEW success \in BOOLEAN,
         Return(t, from, success), UNCHANGED <<mainVars, exited>>
  PROVE  OpStep(t)
<1>1. /\ thr[t] \in Active /\ thr'[t] = "stored" /\ "stored" \notin Active
      /\ res[t] = "none" /\ res'[t] # "none"
  BY DEF Return, Go, IInv, TypeOK, ThreadInv, Active
<1>2. Op(t)!ThreadReturns
  BY <1>1 DEF Op!ThreadReturns, mainVars, HasCancel
<1> QED
  BY <1>2 DEF OpStep, Op!Next, Op!OpThread

LEMMA OpDies == ASSUME ~exited, IInv, NEW t \in Tasks, ThreadDies(t) PROVE OpStep(t)
<1>1. Op(t)!ThreadDies
  BY DEF Op!ThreadDies, ThreadDies, Go, IInv, TypeOK, Active, mainVars, HasCancel
<1> QED
  BY <1>1 DEF OpStep, Op!Next, Op!OpThread

LEMMA OpKilled ==
  ASSUME ~exited, NEW t \in Tasks, exited' = TRUE, UNCHANGED <<mainVars, thr, res>>
  PROVE  OpStep(t)
<1>1. Op(t)!ActionRaises
  BY DEF Op!ActionRaises, mainVars, HasCancel
<1> QED
  BY <1>1 DEF OpStep, Op!Next, Op!OpThread

(* A thread's step leaves the operations of the other tasks alone.         *)
LEMMA OpElsewhere ==
  ASSUME IInv, NEW t \in Tasks, NEW m \in Tasks, m # t, UNCHANGED <<mainVars, exited>>,
         thr'[m] = thr[m], res'[m] = res[m]
  PROVE  OpStep(m)
BY OpStutters DEF mainVars

LEMMA OpMoves ==
  ASSUME IInv, NEW t \in Tasks, NEW from \in Active, NEW to \in Active, Go(t, from, to),
         UNCHANGED <<mainVars, res, exited>>
  PROVE  \A m \in Tasks : OpStep(m)
<1>1. OpStep(t)
  BY OpStutters DEF Go, IInv, TypeOK, mainVars
<1>2. ASSUME NEW m \in Tasks, m # t PROVE OpStep(m)
  BY <1>2, OpElsewhere DEF Go, IInv, TypeOK
<1> QED
  BY <1>1, <1>2

LEMMA OpAllReturn ==
  ASSUME IInv, ~exited, NEW t \in Tasks, NEW from \in Active, NEW success \in BOOLEAN,
         Return(t, from, success), UNCHANGED <<mainVars, exited>>
  PROVE  \A m \in Tasks : OpStep(m)
<1>1. OpStep(t)
  BY OpReturns
<1>2. ASSUME NEW m \in Tasks, m # t PROVE OpStep(m)
  BY <1>2, OpElsewhere DEF Return, Go, IInv, TypeOK
<1> QED
  BY <1>1, <1>2

LEMMA OpMonitor ==
  ASSUME IInv, ~exited, NEW t \in Monitors, MonitorThread(t)
  PROVE  \A m \in Tasks : OpStep(m)
<1> USE TaskSets DEF Active
<1>1. CASE Mpstat(t)
  BY <1>1, OpAllReturn DEF Mpstat
<1>2. CASE PowerCheck(t)
  BY <1>2, OpMoves DEF PowerCheck
<1>3. CASE PowerSample(t)
  BY <1>3, OpMoves DEF PowerSample
<1>4. CASE PowerAverage(t)
  <2>1. CASE iteration[t] = 0
    BY <1>4, <2>1, OpKilled DEF PowerAverage
  <2>2. CASE iteration[t] # 0
    <3>1. ok[t] \in BOOLEAN
      BY DEF IInv, TypeOK
    <3> QED
      BY <1>4, <2>2, <3>1, OpAllReturn DEF PowerAverage
  <2> QED
    BY <2>1, <2>2
<1>5. CASE DetectVfRep(t) \/ ReadStart(t) \/ OffloadAwait(t) \/ ReadEnd(t)
  BY <1>5, OpMoves DEF DetectVfRep, ReadStart, OffloadAwait, ReadEnd
<1>6. CASE Verdict(t)
  <2>1. (ok[t] /\ NoTraffic(t)) \in BOOLEAN
    OBVIOUS
  <2> QED
    BY <1>6, <2>1, OpAllReturn DEF Verdict
<1> QED
  BY <1>1, <1>2, <1>3, <1>4, <1>5, <1>6 DEF MonitorThread

LEMMA OpThreads == IInv /\ ~exited /\ Threads => \A m \in Tasks : OpStep(m)
<1> SUFFICES ASSUME IInv, ~exited, Threads PROVE \A m \in Tasks : OpStep(m)
  OBVIOUS
<1> USE TaskSets
<1>1. CASE ServeReturns
  BY <1>1, OpAllReturn DEF ServeReturns, Active
<1>2. CASE \E t \in Tasks : ThreadDies(t)
  <2>1. PICK t \in Tasks : ThreadDies(t)
    BY <1>2
  <2>2. ASSUME NEW m \in Tasks, m # t PROVE OpStep(m)
    BY <2>1, <2>2, OpElsewhere DEF ThreadDies, Go, IInv, TypeOK
  <2> QED
    BY <2>1, <2>2, OpDies
<1>3. CASE \E t \in Workers : Arrive(t) \/ PassBarrier(t)
  BY <1>3, OpMoves DEF Arrive, PassBarrier, Activity, Active
<1>4. CASE Send
  BY <1>4, OpStutters DEF Send, mainVars
<1>5. CASE ClientFinishes
  BY <1>5, OpMoves DEF ClientFinishes, Active
<1>6. CASE ClientReturns
  BY <1>6, OpAllReturn DEF ClientReturns, Active
<1>7. CASE \E t \in Monitors : MonitorThread(t)
  BY <1>7, OpMonitor
<1>8. CASE \E t \in Tasks : ActionRaises(t)
  BY <1>8, OpKilled DEF ActionRaises
<1> QED
  BY <1>1, <1>2, <1>3, <1>4, <1>5, <1>6, <1>7, <1>8 DEF Threads, WorkerThread, ClientThread

-----------------------------------------------------------------------------
(* start() and finish(), as the main thread runs them.                     *)
LEMMA OpStart == ASSUME ~exited, IInv, NEW t \in Tasks, StartOp(t) PROVE OpStep(t)
<1>1. Op(t)!StartOp
  BY DEF Op!StartOp, StartOp, IInv, TypeOK, HasCancel
<1> QED
  BY <1>1 DEF OpStep, Op!Next, Op!Caller

LEMMA OpAccess == ASSUME ~exited, IInv, NEW t \in Tasks, AccessThread(t) PROVE OpStep(t)
<1>1. thr[t] = "none" /\ FirstPlace(t) \in Active /\ "none" \notin Active
  BY DEF AccessThread, IInv, ThreadInv, FirstPlace, Active
<1>2. Op(t)!AccessThread
  BY <1>1 DEF Op!AccessThread, Op!Accessed, AccessThread, IInv, TypeOK, HasCancel
<1> QED
  BY <1>2 DEF OpStep, Op!Next, Op!Caller

LEMMA OpRunning ==
  ASSUME ~exited, IInv, StartingInv, NEW t \in Tasks, SetRunning(t)
  PROVE  OpStep(t)
<1>1. state[t] = "STARTING"
  BY DEF StartingInv, Starting, SetRunning
<1>2. Op(t)!SetRunning
  BY <1>1 DEF Op!SetRunning, SetRunning, IInv, TypeOK, HasCancel
<1> QED
  BY <1>2 DEF OpStep, Op!Next, Op!Caller

LEMMA OpNotAlive == ASSUME ~exited, IInv, ServerNotAlive PROVE OpStep(Server)
<1>1. Op(Server)!WaitReadyRaises
  BY TaskSets DEF Op!WaitReadyRaises, ServerNotAlive, IInv, TypeOK, HasCancel
<1> QED
  BY <1>1 DEF OpStep, Op!Next, Op!Caller

LEMMA OpFinish == ASSUME ~exited, IInv, NEW t \in Tasks, FinishOp(t) PROVE OpStep(t)
<1>1. thr[t] # "none"
  BY DEF IInv, ThreadInv, FinishOp
<1>2. Op(t)!FinishOp
  BY <1>1 DEF Op!FinishOp, Op!Accessed, FinishOp, IInv, TypeOK, HasCancel
<1> QED
  BY <1>2 DEF OpStep, Op!Next, Op!Caller

LEMMA OpJoins ==
  ASSUME ~exited, IInv, NEW t \in Tasks,
         Joined(t) \/ JoinThenCancel(t) \/ Cancel(t) \/ JoinTimeout(t)
  PROVE  OpStep(t)
<1> USE DEF IInv, TypeOK, HasCancel
<1>1. CASE Joined(t)
  <2>1. Op(t)!Joined
    BY <1>1 DEF Op!Joined, Joined, Active
  <2> QED
    BY <2>1 DEF OpStep, Op!Next, Op!Caller
<1>2. CASE JoinThenCancel(t)
  <2>1. Op(t)!JoinThenCancel
    BY <1>2 DEF Op!JoinThenCancel, Op!Alive, JoinThenCancel, Alive
  <2> QED
    BY <2>1 DEF OpStep, Op!Next, Op!Caller
<1>3. CASE Cancel(t)
  <2>1. Op(t)!Cancel
    BY <1>3 DEF Op!Cancel, Cancel
  <2> QED
    BY <2>1 DEF OpStep, Op!Next, Op!Caller
<1>4. CASE JoinTimeout(t)
  <2>1. Op(t)!JoinTimeout
    BY <1>4 DEF Op!JoinTimeout, Op!Alive, JoinTimeout, Alive
  <2> QED
    BY <2>1 DEF OpStep, Op!Next, Op!Caller
<1> QED
  BY <1>1, <1>2, <1>3, <1>4

LEMMA OpStop == ASSUME ~exited, IInv, NEW t \in Tasks, StopOp(t) PROVE OpStep(t)
<1>1. res[t] \in {"ok", "fail"}
  BY DEF IInv, TypeOK, ThreadInv, StopOp, Values
<1>2. Op(t)!StopOp
  BY <1>1 DEF Op!StopOp, StopOp, IInv, TypeOK, HasCancel
<1> QED
  BY <1>2 DEF OpStep, Op!Next, Op!Caller

LEMMA OpMain == IInv /\ StartingInv /\ ~exited /\ Main => \A m \in Tasks : OpStep(m)
<1> SUFFICES ASSUME IInv, StartingInv, ~exited, Main, NEW m \in Tasks PROVE OpStep(m)
  OBVIOUS
<1>1. CASE \E t \in Tasks : InOperation(t)
  <2>1. PICK t \in Tasks : InOperation(t)
    BY <1>1
  <2>2. CASE m = t
    BY <2>1, <2>2, OpStart, OpAccess, OpRunning, OpFinish, OpJoins, OpStop DEF InOperation
  <2>3. CASE m # t
    <3>1. /\ caller'[m] = caller[m] /\ state'[m] = state[m] /\ output'[m] = output[m]
          /\ res'[m] = res[m] /\ thr'[m] = thr[m] /\ exited' = exited
      BY <2>1, <2>3 DEF InOperation, StartOp, AccessThread, SetRunning, FinishOp, Joined,
           JoinThenCancel, Cancel, JoinTimeout, StopOp, IInv, TypeOK
    <3> QED
      BY <3>1, OpStutters
  <2> QED
    BY <2>2, <2>3
<1>2. CASE ServerNotAlive
  <2>1. CASE m = Server
    BY <1>2, <2>1, OpNotAlive
  <2>2. CASE m # Server
    BY <1>2, <2>2, TaskSets, OpStutters DEF ServerNotAlive, IInv, TypeOK
  <2> QED
    BY <2>1, <2>2
<1>3. CASE \/ Initialize \/ SetupPod \/ PrepareRaises \/ NothingToDo
           \/ AwaitServerAlive \/ AwaitClientFinished \/ Aggregate \/ Build
  <2>1. UNCHANGED <<caller, state, output, thr, res, exited>>
    BY <1>3 DEF Initialize, SetupPod, PrepareRaises, NothingToDo, AwaitServerAlive,
                AwaitClientFinished, Aggregate, Build
  <2> QED
    BY <2>1, OpStutters
<1> QED
  BY <1>1, <1>2, <1>3 DEF Main

(* An operation is STARTING until its callback has returned.               *)
LEMMA StartingStep == IInv /\ StartingInv /\ [Next]_vars => StartingInv'
<1> SUFFICES ASSUME IInv, StartingInv, [Next]_vars PROVE StartingInv'
  OBVIOUS
<1> USE DEF StartingInv, Starting
<1>1. CASE \E t \in Tasks : InOperation(t)
  <2>1. PICK t \in Tasks : InOperation(t)
    BY <1>1
  <2> USE <2>1 DEF IInv, TypeOK
  <2>2. CASE StartOp(t)
    BY <2>2 DEF StartOp
  <2>3. CASE AccessThread(t)
    BY <2>3 DEF AccessThread
  <2>4. CASE SetRunning(t) \/ FinishOp(t) \/ StopOp(t)
    BY <2>4 DEF SetRunning, FinishOp, StopOp
  <2>5. CASE Joined(t) \/ JoinThenCancel(t) \/ Cancel(t) \/ JoinTimeout(t)
    BY <2>5 DEF Joined, JoinThenCancel, Cancel, JoinTimeout
  <2> QED
    BY <2>2, <2>3, <2>4, <2>5 DEF InOperation
<1>2. CASE ServerNotAlive
  BY <1>2, TaskSets DEF ServerNotAlive, IInv, TypeOK
<1>3. CASE ~ServerNotAlive /\ ~ \E t \in Tasks : InOperation(t)
  <2>1. UNCHANGED <<caller, state>>
    <3>1. CASE Main
      BY <1>3, <3>1 DEF Main, Initialize, SetupPod, PrepareRaises, NothingToDo,
           AwaitServerAlive, AwaitClientFinished, Aggregate, Build
    <3>2. CASE Threads
      <4>1. UNCHANGED mainVars
        BY <3>2 DEF Threads, WorkerThread, ClientThread, MonitorThread, ServeReturns,
             ThreadDies, Arrive, PassBarrier, Send, ClientFinishes, ClientReturns, Mpstat,
             PowerCheck, PowerSample, PowerAverage, DetectVfRep, ReadStart, OffloadAwait,
             ReadEnd, Verdict, ActionRaises
      <4> QED
        BY <4>1 DEF mainVars
    <3>3. CASE UNCHANGED vars
      BY <3>3 DEF vars, mainVars
    <3> QED
      BY <3>1, <3>2, <3>3 DEF Next, Over
  <2> QED
    BY <2>1
<1> QED
  BY <1>1, <1>2, <1>3

(* However many tasks there are: an instance is made of operations as      *)
(* TaskOperation specifies them, each of which starts and steps as it      *)
(* should, whatever the others and the main thread do                      *)
(* (src/task.py:185-265, src/trafficFlowTests.py:94-116).                  *)
THEOREM InstanceOfOperations == SafetySpec => OperationsAsSpecified
<1>1. Init => (\A t \in Tasks : Op(t)!Init) /\ StartingInv
  BY OpInit DEF Init, StartingInv, Starting
<1>2. IInv /\ StartingInv /\ [Next]_vars =>
        [\A t \in Tasks : [Op(t)!Next]_(Op(t)!opVars)]_vars
  BY OpMain, OpThreads DEF Next, Over, OpStep
<1> QED
  BY <1>1, <1>2, StartingStep, Invariance, PTL DEF SafetySpec, OperationsAsSpecified
=============================================================================
