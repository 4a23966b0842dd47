------------------------------ MODULE Evaluator ------------------------------
(***************************************************************************)
(* The verdict on a result: evaluator.py compares the rates that a flow    *)
(* reached with its thresholds, and tftbase.py and print_results.py make   *)
(* one verdict of the verdicts on the flows and their plugins.             *)
(*                                                                         *)
(* Messages and what is printed are left out.                              *)
(***************************************************************************)
EXTENDS EvalConfig, Sequences, FiniteSets

Flows == [key : Keys, reverse : BOOLEAN, success : BOOLEAN, rx : Rates, tx : Rates]
Evals == [success : BOOLEAN, rx : Rates, tx : Rates]
TftResult == [flow : Flows, plugins : Seq(BOOLEAN), eval : Evals \cup {None}]
TftResults == Seq(TftResult)

ASSUME EvalsAssumption == None \notin Evals

(* Without a threshold, or without a rate, a flow passes.                  *)
IsPassing(rate, threshold) == threshold = None \/ rate = None \/ rate >= threshold

EvalFlowSuccess(result) ==
  result.flow.success /\ (result.eval = None \/ result.eval.success)

(* Variation: a flow that an earlier evaluation rejected stays rejected.   *)
EvalFlowAgain(config, result) ==
  LET flow == result.flow
      item == GetItem(config, flow.key, flow.reverse)
  IN  [success |-> EvalFlowSuccess(result)
                     /\ IsPassing(flow.rx, item.rx) /\ IsPassing(flow.tx, item.tx),
       rx |-> item.rx, tx |-> item.tx]

EvalFlow(config, result) ==
  LET flow == result.flow
      item == GetItem(config, flow.key, flow.reverse)
  IN  [success |-> flow.success
                     /\ IsPassing(flow.rx, item.rx) /\ IsPassing(flow.tx, item.tx),
       rx |-> item.rx, tx |-> item.tx]

(* The plugins' outputs are kept as they are.                              *)
EvalTestResult(config, result) == [result EXCEPT !.eval = EvalFlow(config, result)]
Eval(config, results) == [i \in DOMAIN results |-> EvalTestResult(config, results[i])]

-----------------------------------------------------------------------------
EvalPluginsSuccess(result) == \A p \in DOMAIN result.plugins : result.plugins[p]
EvalAllSuccess(result) == EvalFlowSuccess(result) /\ EvalPluginsSuccess(result)

(* Variation: the plugins do not count.                                    *)
PassFailFlowsOnly(results) ==
  Cardinality({i \in DOMAIN results : ~EvalFlowSuccess(results[i])}) = 0

(* PassFailStatus.result                                                   *)
PassFail(results) ==
  LET tft_failing == {i \in DOMAIN results : ~EvalFlowSuccess(results[i])}
      plugin_failing == UNION {{<<i, p>> : p \in {q \in DOMAIN results[i].plugins :
                                                    ~results[i].plugins[q]}} :
                                 i \in DOMAIN results}
  IN  Cardinality(tft_failing) + Cardinality(plugin_failing) = 0

(* TftResults.group_by_success(): the places of the results that fail.  It *)
(* sorts them for the output only.                                         *)
GroupFail(results) == {i \in DOMAIN results : ~EvalAllSuccess(results[i])}

ProcessResults(results) == GroupFail(results) = {}
ProcessResultsAll(lst) == \A i \in DOMAIN lst : ProcessResults(lst[i])
=============================================================================
