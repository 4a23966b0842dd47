------------------------------ MODULE EvalCycle ------------------------------
(***************************************************************************)
(* The thresholds and the results over time: tft.py writes result files    *)
(* judged by the thresholds, evaluator.py judges them again,               *)
(* generate_eval_config.py makes new thresholds of the results that passed *)
(* - by the thresholds of then.                                            *)
(***************************************************************************)
EXTENDS GenerateEvalConfig

CONSTANTS
  Handwritten,  \* the files of thresholds that somebody may start from
  Measurements, \* the sequences of flows and plugins that a test may yield
  Quorums,      \* the values of --quorum
  MaxLogs       \* bound: result files

ASSUME HandwrittenAssumption ==
  \A f \in Handwritten : IsFile(f) /\ Loads(f)

ASSUME MeasurementsAssumption ==
  \A m \in Measurements : m \in TftResults /\ \A i \in DOMAIN m : m[i].eval = None

ASSUME QuorumsAssumption == Quorums \subseteq Nat /\ MaxLogs \in Nat

VARIABLES
  file,     \* eval-config.yaml
  logs,     \* the result files
  evalWith  \* history: the thresholds that each was last evaluated with

vars == <<file, logs, evalWith>>

Config == Parse(file)

TypeOK ==
  /\ IsFile(file)
  /\ logs \in Seq(Seq([flow : Flows, plugins : Seq(BOOLEAN), eval : Evals]))
  /\ DOMAIN evalWith = DOMAIN logs /\ \A i \in DOMAIN evalWith : IsConfig(evalWith[i])
  /\ Len(logs) <= MaxLogs

Init == file \in Handwritten /\ logs = <<>> /\ evalWith = <<>>

(* Variation: the results are written before they are evaluated.           *)
TftRunUnevaluated(config, m) ==
  /\ Len(logs) < MaxLogs
  /\ logs' = Append(logs, m) /\ evalWith' = Append(evalWith, config)
  /\ UNCHANGED file

(* tft.py, with or without the thresholds: test_run() of one test.         *)
TftRun(config, m) ==
  /\ Len(logs) < MaxLogs
  /\ logs' = Append(logs, Eval(config, m)) /\ evalWith' = Append(evalWith, config)
  /\ UNCHANGED file

(* evaluator.py, whose output replaces its input.                          *)
Reevaluate(config, i) ==
  /\ logs' = [logs EXCEPT ![i] = Eval(config, logs[i])]
  /\ evalWith' = [evalWith EXCEPT ![i] = config]
  /\ UNCHANGED file

(* All results of some of the result files.                                *)
ResultsIn(selected) ==
  [p \in UNION {{i} \X (DOMAIN logs[i]) : i \in selected} |-> logs[p[1]][p[2]]]

(* generate_eval_config.py over the selected files, with the thresholds as *)
(* base ("-c") or without.  It overwrites them: they are its base, or it   *)
(* was told to ("--force").  "--tighten-only" needs a base.                *)
Generate(withConfig, tightenOnly, quorum, selected) ==
  /\ tightenOnly => withConfig
  /\ file' = Serialize(GenerateConfig(withConfig, Config, ResultsIn(selected),
                                      tightenOnly, quorum))
  /\ UNCHANGED <<logs, evalWith>>

Next ==
  \/ \E config \in {Config, Empty}, m \in Measurements : TftRun(config, m)
  \/ \E config \in {Config, Empty}, i \in DOMAIN logs : Reevaluate(config, i)
  \/ \E withConfig, tightenOnly \in BOOLEAN, quorum \in Quorums,
        selected \in SUBSET DOMAIN logs :
       Generate(withConfig, tightenOnly, quorum, selected)

Spec == Init /\ [][Next]_vars

-----------------------------------------------------------------------------
Bare(results) == [i \in DOMAIN results |-> [results[i] EXCEPT !.eval = None]]

(* A result file shows the verdict of the last evaluation and no trace of  *)
(* the ones before: evaluating again, in any order and any number of times,*)
(* with other thresholds gives what evaluating the bare measurements with  *)
(* the last ones gives (Evaluator.eval).                                   *)
EvaluationForgets ==
  \A i \in DOMAIN logs : logs[i] = Eval(evalWith[i], Bare(logs[i]))

(* The verdict that test_run() logs (get_pass_fail_status) is the one that *)
(* the exit code is made of (process_results): counting failed flows and   *)
(* failed plugins finds a failure exactly where grouping by success does.  *)
VerdictsAgree == \A i \in DOMAIN logs : PassFail(logs[i]) = ProcessResults(logs[i])

(* Whatever generate_eval_config.py writes can be read again: by tft.py,   *)
(* by evaluator.py and as the base of the next generation.                 *)
GeneratedLoads == Loads(file)

(* Steps of generate_eval_config.py with a base.                           *)
GeneratedFrom(tighten) ==
  \E tightenOnly \in tighten, quorum \in Quorums, selected \in SUBSET DOMAIN logs :
    Generate(TRUE, tightenOnly, quorum, selected)

(* "-c": the result contains all the entries of the base, and a threshold  *)
(* for just those rates that had one; what was measured beyond them or not *)
(* measured at all does not add or remove any (_tighten_rate).             *)
ThresholdsStay ==
  [][GeneratedFrom(BOOLEAN) =>
       /\ DOMAIN Config' = DOMAIN Config
       /\ \A k \in DOMAIN Config, r \in BOOLEAN :
            /\ Config[k][r].rx = None <=> Config'[k][r].rx = None
            /\ Config[k][r].tx = None <=> Config'[k][r].tx = None]_vars

AtLeast(new, old) == old = None \/ (new # None /\ new >= old)

(* "--tighten-only": whatever rates a flow may reach, it does not pass by  *)
(* the new thresholds if it failed by the old ones.                        *)
TighteningNeverForgives ==
  [][GeneratedFrom({TRUE}) =>
       \A k \in DOMAIN Config, r \in BOOLEAN :
         LET new == GetItem(Config', k, r)
             old == Config[k][r]
         IN  AtLeast(new.rx, old.rx) /\ AtLeast(new.tx, old.tx)]_vars

(* A threshold that a generation changed is one that a result which passed *)
(* has reached: the file never asks for more than was ever measured.       *)
Attainable ==
  [][\A k \in DOMAIN Config', r \in BOOLEAN :
       LET new == Config'[k][r]
           old == GetItem(Config, k, r)
           results == ResultsIn(DOMAIN logs)
           passed == {results[p].flow : p \in {q \in Valid(results) :
                                                  Identity(results[q]) = <<k, r>>}}
       IN  /\ new.rx \in {old.rx, None} \/ \E f \in passed : f.rx # None /\ f.rx >= new.rx
           /\ new.tx \in {old.tx, None} \/ \E f \in passed : f.tx # None /\ f.tx >= new.tx]_vars

(* The results decide on the thresholds that decide on the results: when   *)
(* they were evaluated with the thresholds that are the base of a          *)
(* generation, then it lowers none of them by more than a fifth, even      *)
(* without "--tighten-only" - only results that passed count, and the mean *)
(* of those is at least the threshold.                                     *)
AFifthAtMost ==
  [][GeneratedFrom(BOOLEAN) /\ (\A i \in DOMAIN evalWith : evalWith[i] = Config) =>
       \A k \in DOMAIN Config, r \in BOOLEAN :
         LET new == GetItem(Config', k, r)
             old == Config[k][r]
         IN  /\ old.rx = None \/ (new.rx # None /\ 5 * new.rx >= 4 * old.rx)
             /\ old.tx = None \/ (new.tx # None /\ 5 * new.tx >= 4 * old.tx)]_vars
=============================================================================
