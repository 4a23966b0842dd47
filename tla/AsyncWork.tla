------------------------------ MODULE AsyncWork ------------------------------
(***************************************************************************)
(* What a TaskOperation (src/task.py) promises to the code that uses it,   *)
(* without saying how: at most one piece of work runs in the background,   *)
(* it runs once, and the caller is given one answer.  An answer is either  *)
(* the value of the work, and then the work is over, or a plain answer     *)
(* when there never was any work, or the news that the operation failed,   *)
(* and then the work may still be running.  Nothing happens any more once  *)
(* the process was killed.                                                 *)
(***************************************************************************)
VARIABLES work,    \* the background work: "none", "running" or "done"
          answer,  \* what the caller was told so far
          killed   \* the process is gone

vars == <<work, answer, killed>>

TypeOK == /\ work \in {"none", "running", "done"}
          /\ answer \in {"pending", "value", "plain", "failed"}
          /\ killed \in BOOLEAN

Init == work = "none" /\ answer = "pending" /\ killed = FALSE

Begin == /\ work = "none" /\ answer = "pending"
         /\ work' = "running"
         /\ UNCHANGED <<answer, killed>>

Complete == /\ work = "running"
            /\ work' = "done"
            /\ UNCHANGED <<answer, killed>>

(* The whole process goes: this work, or other work, raised an exception.  *)
Kill == /\ killed' = TRUE
        /\ UNCHANGED <<work, answer>>

Answer == /\ answer = "pending"
          /\ \/ work = "done" /\ answer' = "value"
             \/ work = "none" /\ answer' = "plain"
          /\ UNCHANGED <<work, killed>>

Fail == /\ answer = "pending"
        /\ answer' = "failed"
        /\ UNCHANGED <<work, killed>>

Next == ~killed /\ (Begin \/ Complete \/ Kill \/ Answer \/ Fail)

Spec == Init /\ [][Next]_vars
=============================================================================
