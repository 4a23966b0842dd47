------------------------ MODULE TaskOperation_proofs -------------------------
(***************************************************************************)
(* What holds of every TaskOperation, whichever actions it was given: the  *)
(* inductive invariant behind TaskOperation's safety properties, and the   *)
(* proof that it keeps the promise of AsyncWork.                           *)
(***************************************************************************)
EXTENDS TaskOperation, TLAPS

(* The thread exists from access_thread() on, if there is an action for    *)
(* it, and it leaves its result exactly when the action has returned.      *)
ThreadInv ==
  /\ result <=> thread \in {"stored", "dead"}
  /\ thread # "none" => cfg.thread
  /\ caller \in {"new", "starting"} => thread = "none"
  /\ cfg.thread /\ caller \notin {"new", "starting"} => thread # "none"
  /\ cfg.thread /\ caller \in {"stopping", "collecting", "done"} => thread = "dead"

(* self._state at each place of the caller.                                *)
StateInv ==
  /\ caller = "new" => state = "NEW"
  /\ caller \in {"starting", "waiting"} => state = "STARTING"
  /\ caller = "ready" => state = "RUNNING"
  /\ caller \in {"joining", "cancelling", "rejoining"} => state = "STOPPING" /\ cfg.thread
  /\ caller = "stopping" => state \in {"RUNNING", "STOPPING"}
  /\ caller \in {"collecting", "done"} => state = "STOPPED"
  /\ caller = "raised" => \/ state \in {"STARTING", "STOPPING"}
                          \/ cfg.thread => thread = "dead"

(* There is an output when finish() has returned, and it is not the one    *)
(* for a missing result.                                                   *)
OutputInv ==
  /\ output # "no_result"
  /\ caller \in {"new", "starting", "waiting", "ready", "joining", "cancelling",
                 "rejoining", "stopping", "collecting"} => output = "none"

IInv == TypeOK /\ ThreadInv /\ StateInv /\ OutputInv

(* The invariant holds when the operation has been constructed.            *)
LEMMA InitInv == Init => IInv
BY DEF Init, IInv, TypeOK, ThreadInv, StateInv, OutputInv, Configs, States,
       Threads, Callers, Outputs

(* Each step of the caller preserves the invariant.                        *)
LEMMA CallerInv == IInv /\ Caller => IInv'
<1> SUFFICES ASSUME IInv, Caller PROVE IInv'
  OBVIOUS
<1> USE DEF IInv, TypeOK, ThreadInv, StateInv, OutputInv, Configs, States,
            Threads, Callers, Outputs, Alive, Accessed
<1>1. CASE StartOp
  BY <1>1 DEF StartOp
<1>2. CASE AccessThread
  BY <1>2 DEF AccessThread
<1>3. CASE SetRunning
  BY <1>3 DEF SetRunning
<1>4. CASE WaitReadyRaises
  BY <1>4 DEF WaitReadyRaises
<1>5. CASE FinishOp
  BY <1>5 DEF FinishOp
<1>6. CASE Joined
  BY <1>6 DEF Joined
<1>7. CASE JoinThenCancel
  BY <1>7 DEF JoinThenCancel
<1>8. CASE JoinTimeout
  BY <1>8 DEF JoinTimeout
<1>9. CASE Cancel
  BY <1>9 DEF Cancel
<1>10. CASE StopOp
  BY <1>10 DEF StopOp
<1>11. CASE Collect
  BY <1>11 DEF Collect
<1> QED
  BY <1>1, <1>2, <1>3, <1>4, <1>5, <1>6, <1>7, <1>8, <1>9, <1>10, <1>11 DEF Caller

(* So does each step of the thread.                                        *)
LEMMA ThreadStepInv == IInv /\ OpThread => IInv'
<1> SUFFICES ASSUME IInv, OpThread PROVE IInv'
  OBVIOUS
<1> USE DEF IInv, TypeOK, ThreadInv, StateInv, OutputInv, Threads
<1>1. CASE ThreadReturns
  BY <1>1 DEF ThreadReturns
<1>2. CASE ActionRaises
  BY <1>2 DEF ActionRaises
<1>3. CASE ThreadDies
  BY <1>3 DEF ThreadDies
<1> QED
  BY <1>1, <1>2, <1>3 DEF OpThread

LEMMA NextInv == IInv /\ [Next]_opVars => IInv'
<1> SUFFICES ASSUME IInv, [Next]_opVars PROVE IInv'
  OBVIOUS
<1>1. CASE Caller
  BY <1>1, CallerInv
<1>2. CASE OpThread
  BY <1>2, ThreadStepInv
<1>3. CASE UNCHANGED opVars
  BY <1>3 DEF opVars, IInv, TypeOK, ThreadInv, StateInv, OutputInv
<1> QED
  BY <1>1, <1>2, <1>3 DEF Next, Over

LEMMA Invariance == OpSpec => []IInv
<1> QED
  BY InitInv, NextInv, PTL DEF OpSpec

-----------------------------------------------------------------------------
(* The variables of every operation keep their types.                      *)
THEOREM TypeCorrect == OpSpec => []TypeOK
<1>1. IInv => TypeOK
  BY DEF IInv
<1> QED
  BY <1>1, Invariance, PTL

(* No output is handed out while the thread is alive: an operation is      *)
(* STOPPED only when its thread is dead and its result is there            *)
(* (src/task.py:240).                                                      *)
THEOREM QuietWhenStopped == OpSpec => []StoppedIsQuiet
<1>1. IInv => StoppedIsQuiet
  BY DEF IInv, TypeOK, ThreadInv, StateInv, StoppedIsQuiet, Callers, Threads
<1> QED
  BY <1>1, Invariance, PTL

(* The "no result" branch of finish() is never taken (src/task.py:253).    *)
THEOREM ResultAlwaysThere == OpSpec => []ResultIsThere
<1>1. IInv => ResultIsThere
  BY DEF IInv, OutputInv, ResultIsThere
<1> QED
  BY <1>1, Invariance, PTL

(* An operation that finish() gave up on is not STOPPED (src/task.py:233). *)
THEOREM GivenUpNeverStopped == OpSpec => []GivenUpIsNotStopped
<1>1. IInv => GivenUpIsNotStopped
  BY DEF IInv, TypeOK, ThreadInv, StateInv, GivenUpIsNotStopped, Alive
<1> QED
  BY <1>1, Invariance, PTL
-----------------------------------------------------------------------------
(* The refinement of AsyncWork: what the caller has been told and what the *)
(* work is doing, step by step.                                            *)
LEMMA PromiseInit == Init => Promise!Init
BY DEF Init, Promise!Init

LEMMA PromiseCaller == IInv /\ ~exited /\ Caller => [Promise!Next]_(Promise!vars)
<1> SUFFICES ASSUME IInv, ~exited, Caller PROVE [Promise!Next]_(Promise!vars)
  OBVIOUS
<1> USE DEF IInv, TypeOK, ThreadInv, StateInv, OutputInv, Threads, Callers,
            Promise!Next, Promise!vars, Promise!Begin, Promise!Answer, Promise!Fail
<1>1. CASE StartOp
  BY <1>1 DEF StartOp
<1>2. CASE AccessThread
  BY <1>2 DEF AccessThread, Accessed
<1>3. CASE SetRunning
  BY <1>3 DEF SetRunning
<1>4. CASE WaitReadyRaises
  BY <1>4 DEF WaitReadyRaises
<1>5. CASE FinishOp
  BY <1>5 DEF FinishOp, Accessed
<1>6. CASE Joined
  BY <1>6 DEF Joined
<1>7. CASE JoinThenCancel
  BY <1>7 DEF JoinThenCancel
<1>8. CASE JoinTimeout
  BY <1>8 DEF JoinTimeout
<1>9. CASE Cancel
  BY <1>9 DEF Cancel
<1>10. CASE StopOp
  BY <1>10 DEF StopOp
<1>11. CASE Collect
  BY <1>11 DEF Collect
<1> QED
  BY <1>1, <1>2, <1>3, <1>4, <1>5, <1>6, <1>7, <1>8, <1>9, <1>10, <1>11 DEF Caller

LEMMA PromiseThread == IInv /\ ~exited /\ OpThread => [Promise!Next]_(Promise!vars)
<1> SUFFICES ASSUME IInv, ~exited, OpThread PROVE [Promise!Next]_(Promise!vars)
  OBVIOUS
<1> USE DEF IInv, TypeOK, ThreadInv, Threads, Promise!Next, Promise!vars,
            Promise!Complete, Promise!Kill
<1>1. CASE ThreadReturns
  BY <1>1 DEF ThreadReturns
<1>2. CASE ActionRaises
  BY <1>2 DEF ActionRaises
<1>3. CASE ThreadDies
  BY <1>3 DEF ThreadDies
<1> QED
  BY <1>1, <1>2, <1>3 DEF OpThread

(* Every operation keeps the promise of AsyncWork: a single run of the     *)
(* work, a single answer, and the value of the work only once it is over.  *)
THEOREM PromiseKept == OpSpec => KeepsPromise
<1>1. IInv /\ [Next]_opVars => [Promise!Next]_(Promise!vars)
  <2> SUFFICES ASSUME IInv, [Next]_opVars PROVE [Promise!Next]_(Promise!vars)
    OBVIOUS
  <2>1. CASE ~exited /\ Caller
    BY <2>1, PromiseCaller
  <2>2. CASE ~exited /\ OpThread
    BY <2>2, PromiseThread
  <2>3. CASE UNCHANGED opVars
    BY <2>3 DEF opVars, Promise!vars
  <2> QED
    BY <2>1, <2>2, <2>3 DEF Next, Over
<1> QED
  BY <1>1, PromiseInit, Invariance, PTL DEF OpSpec, KeepsPromise, Promise!Spec
=============================================================================
