------------------------- MODULE GenerateEvalConfig -------------------------
(***************************************************************************)
(* generate_eval_config.py: thresholds out of the rates that were          *)
(* measured.  Means and deviations are compared exactly, by integers       *)
(* multiplied out, and a threshold is rounded up to the next whole rate,   *)
(* which changes no verdict on a whole rate.                               *)
(***************************************************************************)
EXTENDS Evaluator, Functions

(* all_bitrates: the results that passed are collected by EvalIdentity, a  *)
(* pair of a key and a direction; here by their places in results.         *)
Identity(result) == <<result.flow.key, result.flow.reverse>>

(* Variation: a flow counts although its evaluation or a plugin rejected it.*)
ValidFlowsOnly(results) == {i \in DOMAIN results : results[i].flow.success}
Valid(results) == {i \in DOMAIN results : EvalAllSuccess(results[i])}

Identities(withConfig, config, results) ==
  IF withConfig THEN (DOMAIN config) \X BOOLEAN
                ELSE {Identity(results[i]) : i \in Valid(results)}

Measured(results, ei, dir) ==
  LET rate(i) == IF dir = "rx" THEN results[i].flow.rx ELSE results[i].flow.tx
  IN  [i \in {j \in Valid(results) : Identity(results[j]) = ei /\ rate(j) # None} |-> rate(i)]

-----------------------------------------------------------------------------
(* calc_mean_stddev(): the count n and the sum are n and n * mean, and     *)
(* Deviation is the square of n * stddev.                                  *)
Count(data) == Cardinality(DOMAIN data)
Deviation(data) ==
  Count(data) * SumFunction([i \in DOMAIN data |-> data[i] * data[i]])
    - SumFunction(data) * SumFunction(data)

(* Strictly closer to the mean than three times the standard deviation.    *)
WithoutOutliers(data) ==
  LET n == Count(data)
      sum == SumFunction(data)
      dev == Deviation(data)
      kept == {i \in DOMAIN data : (n * data[i] - sum) * (n * data[i] - sum) < 9 * dev}
  IN  [i \in kept |-> data[i]]

(* Variation: the deviation is added.                                      *)
NewThresholdAbove(data) ==
  LET n == Count(data)
      sum == SumFunction(data)
      dev == Deviation(data)
      above(r) == n * r >= sum /\ (n * r - sum) * (n * r - sum) >= 4 * dev
  IN  CHOOSE r \in 0..(2 * sum) : above(r) /\ \A q \in 0..(r - 1) : ~above(q)

(* max(mean - 2 * stddev, mean * 0.8), rounded up                          *)
NewThreshold(data) ==
  LET n == Count(data)
      sum == SumFunction(data)
      dev == Deviation(data)
      reached(r) == /\ n * r >= sum \/ (sum - n * r) * (sum - n * r) <= 4 * dev
                    /\ 5 * n * r >= 4 * sum
  IN  CHOOSE r \in 0..sum : reached(r) /\ \A q \in 0..(r - 1) : ~reached(q)

Enough(data, quorum) == DOMAIN data # {} /\ Count(data) >= quorum

AccumulateRate(data, quorum) ==
  LET inliers == WithoutOutliers(data)
  IN  IF Enough(data, quorum) /\ Enough(inliers, quorum) THEN NewThreshold(inliers) ELSE None

-----------------------------------------------------------------------------
(* Variation: the new threshold replaces the old one even if it is lower.  *)
TightenRateReplace(a, base, tightenOnly) ==
  IF base = None THEN None ELSE IF a = None THEN base ELSE a

TightenRate(a, base, tightenOnly) ==
  IF base = None THEN None
    ELSE IF a = None \/ (tightenOnly /\ base > a) THEN base ELSE a

NewItem(withConfig, config, results, ei, tightenOnly, quorum) ==
  LET rx == AccumulateRate(Measured(results, ei, "rx"), quorum)
      tx == AccumulateRate(Measured(results, ei, "tx"), quorum)
      base == GetItem(config, ei[1], ei[2])
  IN  IF withConfig THEN [rx |-> TightenRate(rx, base.rx, tightenOnly),
                          tx |-> TightenRate(tx, base.tx, tightenOnly)]
                    ELSE [rx |-> rx, tx |-> tx]

(* accumulate_all_bitrates()                                               *)
NewItems(withConfig, config, results, tightenOnly, quorum) ==
  [ei \in Identities(withConfig, config, results) |->
     NewItem(withConfig, config, results, ei, tightenOnly, quorum)]

(* Variation: entries without a threshold are left out, whatever the base. *)
ResultConfigDropping(withConfig, items) ==
  LET item(k, r) == IF <<k, r>> \in DOMAIN items THEN items[<<k, r>>] ELSE NA
      keys == {k \in {ei[1] : ei \in DOMAIN items} : \E r \in BOOLEAN : item(k, r) # NA}
  IN  [k \in keys |-> [r \in BOOLEAN |-> item(k, r)]]

(* generate_result_config(): entries without a threshold are left out when *)
(* there is no base configuration.                                         *)
ResultConfig(withConfig, items) ==
  LET item(k, r) == IF <<k, r>> \in DOMAIN items THEN items[<<k, r>>] ELSE NA
      keys == {k \in {ei[1] : ei \in DOMAIN items} :
                 withConfig \/ \E r \in BOOLEAN : item(k, r) # NA}
  IN  [k \in keys |-> [r \in BOOLEAN |-> item(k, r)]]

GenerateConfig(withConfig, config, results, tightenOnly, quorum) ==
  ResultConfig(withConfig, NewItems(withConfig, config, results, tightenOnly, quorum))
=============================================================================
