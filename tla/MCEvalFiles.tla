----------------------------- MODULE MCEvalFiles -----------------------------
(* Invocations of EvalFiles for TLC: new thresholds to a file of their own  *)
(* with and without --force, or in place; results evaluated in place or to  *)
(* a second file.                                                           *)
EXTENDS EvalFiles

CONSTANTS t1, t2, l1, l2

TheConfigs == {t1, t2}
TheLogs == {l1, l2}

Generate(config, logs, output, force, tighten, skip) ==
  [tool |-> "generate_eval_config", config |-> config, logs |-> logs, output |-> output,
   force |-> force, tighten |-> tighten, skip |-> skip]
Evaluate(config, log, output) ==
  [tool |-> "evaluator", config |-> config, logs |-> {log}, output |-> output,
   force |-> FALSE, tighten |-> FALSE, skip |-> FALSE]

AllJobs ==
  {Generate(config, logs, output, force, tighten, skip) :
     config \in {t1}, logs \in {{l1}, {l1, l2}}, output \in {t1, t2},
     force, tighten, skip \in BOOLEAN}
  \cup {Generate(Nothing, {l1, l2}, t2, force, FALSE, TRUE) : force \in BOOLEAN}
  \cup {Evaluate(config, l1, output) : config \in {t1, t2, Nothing}, output \in {l1, l2}}
=============================================================================
