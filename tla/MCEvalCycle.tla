----------------------------- MODULE MCEvalCycle -----------------------------
(* Two keys; thresholds for one of them, for one rate only in the reverse  *)
(* direction, and an entry without any for the other.  Tests of iperf      *)
(* (both rates) and netperf (tx only), alike and apart; a failed flow, a   *)
(* failed plugin; eleven flows with one outlier.                           *)
EXTENDS EvalCycle

CONSTANTS k1, k2

TheKeys == {k1, k2}

Flow(k, reverse, success, rx, tx, plugins) ==
  [flow |-> [key |-> k, reverse |-> reverse, success |-> success, rx |-> rx, tx |-> tx],
   plugins |-> plugins, eval |-> None]

Iperf(rx, tx) == Flow(k1, FALSE, TRUE, rx, tx, <<>>)

Thresholds ==
  [k \in {k1} |->
     [r \in BOOLEAN |-> IF r THEN [f \in {"threshold_rx"} |-> 6]
                             ELSE [f \in {"threshold"} |-> 5]]]
WithEntry == [k \in {k1, k2} |-> IF k = k1 THEN Thresholds[k1] ELSE <<>>]
NoEntry   == [k \in {} |-> <<>>]

TwoFiles == {WithEntry, NoEntry}

FourTests ==
  {<<Iperf(10, 10), Iperf(5, 9), Flow(k1, TRUE, TRUE, 7, 8, <<TRUE>>)>>,
   <<Iperf(3, 6), Flow(k1, FALSE, TRUE, 20, 20, <<TRUE, FALSE>>),
     Flow(k2, FALSE, TRUE, None, 4, <<>>)>>,
   <<Flow(k1, TRUE, FALSE, None, None, <<>>), Flow(k2, FALSE, TRUE, None, 9, <<>>)>>,
   [i \in 1..11 |-> Iperf(IF i = 1 THEN 40 ELSE 7 + (i % 2), 8)]}
=============================================================================
