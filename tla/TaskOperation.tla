---------------------------- MODULE TaskOperation ----------------------------
(***************************************************************************)
(* One TaskOperation of src/task.py: the object through which the main     *)
(* thread of the program starts an activity (a server command, a client    *)
(* command, a plugin's measurement) in a thread of its own, waits for it,  *)
(* cancels it and fetches its output.                                      *)
(*                                                                         *)
(* Two threads take steps: the caller, which runs start() and then         *)
(* finish(), and the operation's own thread.  `caller' is the place the    *)
(* caller has reached in those two methods; a step of it is the code       *)
(* between two points at which the other thread can be observed (a section *)
(* under self._lock, a join, a callback).  The join timeouts are real      *)
(* time, which the model does not count: a timed join may give up at any   *)
(* moment at which the thread is still alive.                              *)
(*                                                                         *)
(* A definition marked "variation" is a faulty form of the definition that *)
(* follows it; no other definition uses it.                                *)
(***************************************************************************)
EXTENDS Naturals

VARIABLES
  cfg,      \* which actions the constructor was given; never changes
  state,    \* self._state
  thread,   \* self._thread: "none", "running" (in thread_action),
            \* "stored" (result stored, not dead yet) or "dead"
  result,   \* hasattr(self, "_intermediate_result")
  caller,   \* where the caller is
  output,   \* what finish() has computed
  exited    \* os._exit() was called by a thread of the process

opVars == <<cfg, state, thread, result, caller, output, exited>>

(* The combinations of arguments that __init__ accepts.  `timed' tells     *)
(* whether finish() will be called with a timeout.                         *)
Configs == {c \in [thread : BOOLEAN, collect : BOOLEAN, cancel : BOOLEAN,
                   wait : BOOLEAN, timed : BOOLEAN] :
              /\ c.thread \/ c.collect
              /\ c.cancel => c.thread}

States  == {"NEW", "STARTING", "RUNNING", "STOPPING", "STOPPED"}
Threads == {"none", "running", "stored", "dead"}
Callers == {"new", "starting", "waiting", "ready", "joining", "cancelling",
            "rejoining", "stopping", "collecting", "done", "raised"}
Outputs == {"none", "no_result", "intermediate", "collected"}

TypeOK == /\ cfg \in Configs
          /\ state \in States
          /\ thread \in Threads
          /\ result \in BOOLEAN
          /\ caller \in Callers
          /\ output \in Outputs
          /\ exited \in BOOLEAN

Init == /\ cfg \in Configs
        /\ state = "NEW"
        /\ thread = "none"
        /\ result = FALSE
        /\ caller = "new"
        /\ output = "none"
        /\ exited = FALSE

-----------------------------------------------------------------------------
(* access_thread(): the thread is created and started by the first call,   *)
(* when there is something to run in it.                                   *)
Accessed == IF thread = "none" /\ cfg.thread THEN "running" ELSE thread
Alive    == thread \in {"running", "stored"}

(* start(): the first section under the lock.                              *)
StartOp == /\ caller = "new"
           /\ state = "NEW"
           /\ state' = "STARTING"
           /\ caller' = "starting"
           /\ UNCHANGED <<cfg, thread, result, output, exited>>

(* start(): self.access_thread(), and the check of _start_wait_ready().    *)
AccessThread == /\ caller = "starting"
                /\ thread' = Accessed
                /\ caller' = "waiting"
                /\ UNCHANGED <<cfg, state, result, output, exited>>

(* _start_wait_ready(): the wait_ready callback returns, and the operation *)
(* is RUNNING ...                                                          *)
SetRunning == /\ caller = "waiting"
              /\ state' = IF state = "STARTING" THEN "RUNNING" ELSE state
              /\ caller' = "ready"
              /\ UNCHANGED <<cfg, thread, result, output, exited>>

(* ... or the callback raises, and the exception leaves start().           *)
WaitReadyRaises == /\ caller = "waiting" /\ cfg.wait
                   /\ caller' = "raised"
                   /\ UNCHANGED <<cfg, state, thread, result, output, exited>>

(* finish(): up to the first join.  Without a thread there is nothing to   *)
(* stop or to join.                                                        *)
FinishOp == /\ caller = "ready"
            /\ state \in {"STARTING", "RUNNING"}
            /\ thread' = Accessed
            /\ IF cfg.thread
                 THEN state' = "STOPPING" /\ caller' = "joining"
                 ELSE state' = state /\ caller' = "stopping"
            /\ UNCHANGED <<cfg, result, output, exited>>

(* The thread is dead when the join returns.                               *)
Joined == /\ caller \in {"joining", "rejoining"}
          /\ thread = "dead"
          /\ caller' = "stopping"
          /\ UNCHANGED <<cfg, state, thread, result, output, exited>>

(* The thread is still alive after the join.  The timeout of the first     *)
(* join is zero when there is a cancel action, and that action runs now.   *)
JoinThenCancel == /\ caller = "joining" /\ Alive /\ cfg.cancel
                  /\ caller' = "cancelling"
                  /\ UNCHANGED <<cfg, state, thread, result, output, exited>>

(* Variations: the join that follows the cancel action has no timeout; the *)
(* error is only logged.                                                   *)
JoinTimeoutFirstOnly == /\ Alive /\ cfg.timed
                        /\ caller = "joining" /\ ~cfg.cancel
                        /\ caller' = "raised"
                        /\ UNCHANGED <<cfg, state, thread, result, output, exited>>
JoinTimeoutLogged == /\ Alive /\ cfg.timed
                     /\ \/ caller = "joining" /\ ~cfg.cancel
                        \/ caller = "rejoining"
                     /\ caller' = "stopping"
                     /\ UNCHANGED <<cfg, state, thread, result, output, exited>>

(* The last join ran into the timeout: RuntimeError.                       *)
JoinTimeout == /\ Alive /\ cfg.timed
               /\ \/ caller = "joining" /\ ~cfg.cancel
                  \/ caller = "rejoining"
               /\ caller' = "raised"
               /\ UNCHANGED <<cfg, state, thread, result, output, exited>>

(* Variation: the thread is not joined again after the cancel action.      *)
CancelOnly == /\ caller = "cancelling"
              /\ caller' \in {"stopping", "raised"}
              /\ UNCHANGED <<cfg, state, thread, result, output, exited>>

(* _cancel(): the cancel action returns, or raises.                        *)
Cancel == /\ caller = "cancelling"
          /\ caller' \in {"rejoining", "raised"}
          /\ UNCHANGED <<cfg, state, thread, result, output, exited>>

(* finish(): the last section under the lock, and the choice of what is    *)
(* to be returned.                                                         *)
StopOp == /\ caller = "stopping"
          /\ IF cfg.thread THEN state = "STOPPING"
                           ELSE state \in {"STARTING", "RUNNING"}
          /\ state' = "STOPPED"
          /\ IF cfg.thread /\ ~result
               THEN output' = "no_result" /\ caller' = "done"
               ELSE IF cfg.collect
                      THEN output' = output /\ caller' = "collecting"
                      ELSE output' = "intermediate" /\ caller' = "done"
          /\ UNCHANGED <<cfg, thread, result, exited>>

(* The collect action turns the thread's result into the output, or raises. *)
Collect == /\ caller = "collecting"
           /\ \/ caller' = "done" /\ output' = "collected"
              \/ caller' = "raised" /\ output' = output
           /\ UNCHANGED <<cfg, state, thread, result, exited>>

Caller == \/ StartOp \/ AccessThread \/ SetRunning \/ WaitReadyRaises
          \/ FinishOp \/ Joined \/ JoinThenCancel \/ JoinTimeout \/ Cancel
          \/ StopOp \/ Collect

-----------------------------------------------------------------------------
(* _run_thread_action(): the action returns and its value is stored.       *)
ThreadReturns == /\ thread = "running" /\ ~result
                 /\ thread' = "stored"
                 /\ result' = TRUE
                 /\ UNCHANGED <<cfg, state, caller, output, exited>>

(* _run_thread_action(): an action raises, and os._exit() ends the process *)
(* at once: the action of this operation, or that of another operation of  *)
(* the same process.                                                       *)
ActionRaises == /\ exited' = TRUE
                /\ UNCHANGED <<cfg, state, thread, result, caller, output>>

(* The thread leaves _run_thread_action() and is no longer alive.          *)
ThreadDies == /\ thread = "stored"
              /\ thread' = "dead"
              /\ UNCHANGED <<cfg, state, result, caller, output, exited>>

OpThread == ThreadReturns \/ ActionRaises \/ ThreadDies

(* The caller has returned or raised, and no thread can take a step.       *)
Over == /\ exited \/ (caller \in {"done", "raised"} /\ ~Alive)
        /\ UNCHANGED opVars

Next == (~exited /\ (Caller \/ OpThread)) \/ Over

OpSpec == Init /\ [][Next]_opVars

(* The caller's code runs on, whatever the thread does: its joins are      *)
(* timed and its callbacks bounded.  Nothing is assumed about the thread's *)
(* action, which may run forever; once it is over the thread dies.         *)
Spec == OpSpec /\ WF_opVars(~exited /\ Caller) /\ WF_opVars(~exited /\ ThreadDies)

-----------------------------------------------------------------------------
(* A STOPPED operation is quiet: its thread, if it ever had one, is dead   *)
(* and has left its result.  Nobody reads the output of an action that is  *)
(* still running (finish(), the lock section at src/task.py:240).          *)
StoppedIsQuiet ==
  state = "STOPPED" => IF cfg.thread THEN thread = "dead" /\ result
                                     ELSE thread = "none"

(* The branch of finish() for a missing result is dead code: its comment   *)
(* says that it only happens when the join failed, and a failed join       *)
(* raises instead (src/task.py:253).                                       *)
ResultIsThere == output # "no_result"

(* When start() or finish() raised and left a live thread behind, the      *)
(* operation is not marked as STOPPED, nor as RUNNING undisturbed: nobody  *)
(* can mistake that thread for one that ended (src/task.py:223-234).       *)
GivenUpIsNotStopped ==
  caller = "raised" /\ Alive => state \in {"STARTING", "STOPPING"}

(* start() followed by finish() always comes to an end, with an answer or  *)
(* an exception, even when the thread never does - if finish() was given a *)
(* timeout, as every caller in the program does.                           *)
CallerReturns == cfg.timed ~> (caller \in {"done", "raised"} \/ exited)

(* The operation keeps the promise of AsyncWork.                           *)
Promise == INSTANCE AsyncWork WITH
  work   <- CASE thread = "none" -> "none"
              [] thread = "dead" -> "done"
              [] OTHER -> "running",
  answer <- CASE caller = "raised" -> "failed"
              [] output = "no_result" -> "no_result"
              [] caller = "done" /\ thread # "none" -> "value"
              [] caller = "done" /\ thread = "none" -> "plain"
              [] OTHER -> "pending",
  killed <- exited

KeepsPromise == Promise!Spec
=============================================================================
