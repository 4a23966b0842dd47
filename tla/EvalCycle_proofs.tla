-------------------------- MODULE EvalCycle_proofs --------------------------
(***************************************************************************)
(* What holds of the thresholds and the results for all measurements, all  *)
(* files of thresholds and any number of result files; and, at the end, of *)
(* the files that the two tools read and write (EvalFiles).                *)
(*                                                                         *)
(* The sums are recursive functions over finite sets: what is said of them *)
(* is proved by a smallest set for which it would not hold.                *)
(***************************************************************************)
EXTENDS EvalCycle, EvalFiles, FiniteSetTheorems, WellFoundedInduction, TLAPS

(* A file that is written can be read again, and gives what was written.   *)
LEMMA SerializeLoads == ASSUME NEW c PROVE Loads(Serialize(c))
<1> SUFFICES ASSUME NEW k \in DOMAIN c, NEW r \in BOOLEAN, HasThresholds(c[k][r])
             PROVE  ItemLoads(SerializeItem(c[k][r]))
  BY Zenon DEF Loads, Serialize
<1>1. CASE c[k][r].rx = c[k][r].tx
  BY <1>1 DEF ItemLoads, SerializeItem
<1>2. CASE c[k][r].rx # c[k][r].tx
  <2>1. DOMAIN SerializeItem(c[k][r]) \subseteq {"threshold_rx", "threshold_tx"}
    BY <1>2 DEF SerializeItem, OneOrTwo
  <2> QED BY <2>1 DEF ItemLoads
<1> QED BY <1>1, <1>2

IsItem(item) == item = [rx |-> item.rx, tx |-> item.tx]

LEMMA ItemRoundTrip ==
  ASSUME NEW item, IsItem(item), HasThresholds(item)
  PROVE  ParseItem(SerializeItem(item)) = item
<1>1. CASE item.rx = item.tx
  <2>1. SerializeItem(item) = [f \in {"threshold"} |-> item.rx]
    BY <1>1 DEF SerializeItem
  <2> QED BY <2>1, <1>1 DEF ParseItem, Threshold, IsItem
<1>2. CASE item.rx # item.tx
  <2> DEFINE i == OneOrTwo(item)
  <2>1. SerializeItem(item) = i
    BY <1>2 DEF SerializeItem
  <2>2. "threshold" \notin DOMAIN i
    BY DEF OneOrTwo
  <2>3. Threshold(i, "threshold_rx") = item.rx
    BY <2>2 DEF Threshold, OneOrTwo
  <2>4. Threshold(i, "threshold_tx") = item.tx
    BY <2>2 DEF Threshold, OneOrTwo
  <2> QED BY <2>1, <2>3, <2>4 DEF ParseItem, IsItem
<1> QED BY <1>1, <1>2

LEMMA RoundTrip ==
  ASSUME NEW K, NEW c, c = [k \in K |-> [r \in BOOLEAN |-> c[k][r]]],
         \A k \in K, r \in BOOLEAN : IsItem(c[k][r])
  PROVE  Parse(Serialize(c)) = c
<1> DEFINE s == Serialize(c)
<1>1. DOMAIN s = K
  BY Zenon DEF Serialize
<1>2. ASSUME NEW k \in K, NEW r \in BOOLEAN
      PROVE  (IF r \in DOMAIN s[k] THEN ParseItem(s[k][r]) ELSE NA) = c[k][r]
  <2>0. s[k] = [q \in {d \in BOOLEAN : HasThresholds(c[k][d])} |-> SerializeItem(c[k][q])]
    BY <1>1 DEF Serialize
  <2>1. CASE HasThresholds(c[k][r])
    <3>1. r \in DOMAIN s[k] /\ s[k][r] = SerializeItem(c[k][r])
      BY <2>0, <2>1
    <3> QED BY <3>1, <2>1, ItemRoundTrip
  <2>2. CASE ~HasThresholds(c[k][r])
    <3>1. r \notin DOMAIN s[k]
      BY <2>0, <2>2
    <3>2. c[k][r] = NA
      BY <2>2 DEF HasThresholds, NA, IsItem
    <3> QED BY <3>1, <3>2
  <2> QED BY <2>1, <2>2
<1>3. Parse(s) = [k \in K |-> [r \in BOOLEAN |-> c[k][r]]]
  <2> HIDE DEF s
  <2> QED BY <1>1, <1>2, Zenon DEF Parse
<1> QED BY <1>3

(* A generated file can be read: generate_eval_config.py never writes      *)
(* "threshold" beside one of the two that it stands for.                   *)
THEOREM AlwaysLoads == Spec => []GeneratedLoads
<1>1. Init => GeneratedLoads
  BY HandwrittenAssumption DEF Init, GeneratedLoads
<1>2. GeneratedLoads /\ [Next]_vars => GeneratedLoads'
  <2> SUFFICES ASSUME GeneratedLoads, [Next]_vars PROVE GeneratedLoads'
    OBVIOUS
  <2>1. ASSUME UNCHANGED file PROVE GeneratedLoads'
    BY <2>1 DEF GeneratedLoads
  <2>2. ASSUME NEW withConfig, NEW tightenOnly, NEW quorum, NEW selected,
               Generate(withConfig, tightenOnly, quorum, selected)
        PROVE  GeneratedLoads'
    BY <2>2, SerializeLoads, Zenon DEF GeneratedLoads, Generate
  <2> QED BY <2>1, <2>2, Zenon DEF Next, TftRun, Reevaluate, vars
<1> QED BY <1>1, <1>2, PTL DEF Spec

-----------------------------------------------------------------------------
(* A result is a record of its three parts.                                *)
IsResult(o) == o = [flow |-> o.flow, plugins |-> o.plugins, eval |-> o.eval]
AreResults(L) == L = [j \in DOMAIN L |-> L[j]] /\ \A j \in DOMAIN L : IsResult(L[j])

(* An evaluation sees of a result only its flow.                           *)
LEMMA EvalIsResult ==
  ASSUME NEW c, NEW o, IsResult(o)
  PROVE  /\ EvalTestResult(c, o) =
               [flow |-> o.flow, plugins |-> o.plugins, eval |-> EvalFlow(c, o)]
         /\ [o EXCEPT !.eval = None] = [flow |-> o.flow, plugins |-> o.plugins, eval |-> None]
<1>1. o = [flow |-> o.flow, plugins |-> o.plugins, eval |-> o.eval]
  BY DEF IsResult
<1> QED BY <1>1 DEF EvalTestResult

LEMMA EvalOfBare ==
  ASSUME NEW c, NEW L, AreResults(L)
  PROVE  /\ AreResults(Eval(c, L))
         /\ Eval(c, Bare(L)) = Eval(c, L)
         /\ Bare(Eval(c, L)) = Bare(L)
<1> DEFINE E == Eval(c, L)
           B == Bare(L)
<1>1. DOMAIN E = DOMAIN L /\ DOMAIN B = DOMAIN L
  BY DEF Eval, Bare
<1>2. ASSUME NEW j \in DOMAIN L
      PROVE  /\ IsResult(E[j])
             /\ EvalTestResult(c, B[j]) = E[j]
             /\ [E[j] EXCEPT !.eval = None] = B[j]
  <2>1. IsResult(L[j]) /\ E[j] = EvalTestResult(c, L[j]) /\ B[j] = [L[j] EXCEPT !.eval = None]
    BY DEF AreResults, Eval, Bare
  <2>2. /\ E[j] = [flow |-> L[j].flow, plugins |-> L[j].plugins, eval |-> EvalFlow(c, L[j])]
        /\ B[j] = [flow |-> L[j].flow, plugins |-> L[j].plugins, eval |-> None]
    BY <2>1, EvalIsResult
  <2>3. IsResult(E[j]) /\ IsResult(B[j])
    BY <2>2 DEF IsResult
  <2>4. EvalFlow(c, B[j]) = EvalFlow(c, L[j])
    <3>1. B[j].flow = L[j].flow
      BY <2>2
    <3> HIDE DEF B
    <3> QED BY <3>1, Zenon DEF EvalFlow
  <2>5. EvalTestResult(c, B[j]) = E[j]
    BY <2>2, <2>3, <2>4, EvalIsResult
  <2>6. [E[j] EXCEPT !.eval = None] = B[j]
    BY <2>2, <2>3, EvalIsResult
  <2> QED BY <2>3, <2>5, <2>6
<1>3. AreResults(E)
  BY <1>1, <1>2 DEF AreResults, Eval
<1>4. Eval(c, B) = E
  BY <1>1, <1>2, Zenon DEF Eval
<1>5. Bare(E) = B
  BY <1>1, <1>2, Zenon DEF Bare
<1> QED BY <1>3, <1>4, <1>5

(* The result files and the thresholds of their last evaluations go        *)
(* together; with EvaluationForgets this is inductive.                     *)
LogsInv ==
  /\ \E S : logs \in Seq(S)
  /\ \E S : evalWith \in Seq(S)
  /\ Len(evalWith) = Len(logs)
  /\ \A i \in DOMAIN logs : AreResults(logs[i])

LEMMA InitLogs == Init => LogsInv /\ EvaluationForgets
<1> SUFFICES ASSUME Init PROVE LogsInv /\ EvaluationForgets
  OBVIOUS
<1>1. logs = <<>> /\ evalWith = <<>> /\ <<>> \in Seq({})
  BY DEF Init
<1> QED BY <1>1 DEF LogsInv, EvaluationForgets

LEMMA MeasurementsAreResults ==
  ASSUME NEW m \in Measurements PROVE AreResults(m)
<1>1. m \in Seq(TftResult)
  BY MeasurementsAssumption DEF TftResults
<1>2. m = [j \in DOMAIN m |-> m[j]] /\ \A j \in DOMAIN m : m[j] \in TftResult
  <2> HIDE DEF TftResult
  <2> QED BY <1>1
<1>3. \A o \in TftResult : IsResult(o)
  BY DEF IsResult, TftResult
<1> QED BY <1>2, <1>3, Zenon DEF AreResults

LEMMA TftRunLogs ==
  ASSUME LogsInv, EvaluationForgets, NEW c, NEW m \in Measurements, TftRun(c, m)
  PROVE  LogsInv' /\ EvaluationForgets'
<1> DEFINE e == Eval(c, m)
           n == Len(logs) + 1
<1>1. logs' = Append(logs, e) /\ evalWith' = Append(evalWith, c)
  BY DEF TftRun
<1>2. PICK S : logs \in Seq(S)
  BY DEF LogsInv
<1>3. PICK T : evalWith \in Seq(T)
  BY DEF LogsInv
<1>4. Len(evalWith) = Len(logs)
  BY DEF LogsInv
<1>5. AreResults(e) /\ e = Eval(c, Bare(e))
  <2>1. AreResults(m)
    BY MeasurementsAreResults
  <2>2. AreResults(e) /\ Eval(c, Bare(m)) = e /\ Bare(e) = Bare(m)
    BY <2>1, EvalOfBare
  <2> QED BY <2>2
<1> HIDE DEF e
<1>6. /\ logs' \in Seq(S \cup {e}) /\ Len(logs') = n /\ logs'[n] = e
      /\ \A i \in DOMAIN logs : logs'[i] = logs[i]
      /\ DOMAIN logs' = DOMAIN logs \cup {n}
  <2>1. logs \in Seq(S \cup {e}) /\ e \in S \cup {e}
    BY <1>2
  <2> QED BY <2>1, <1>1
<1>7. /\ evalWith' \in Seq(T \cup {c}) /\ Len(evalWith') = n /\ evalWith'[n] = c
      /\ \A i \in DOMAIN logs : evalWith'[i] = evalWith[i]
  <2>1. evalWith \in Seq(T \cup {c}) /\ c \in T \cup {c} /\ DOMAIN logs = DOMAIN evalWith
    BY <1>2, <1>3, <1>4
  <2> QED BY <2>1, <1>1, <1>4
<1> HIDE DEF n
<1>8. LogsInv'
  BY <1>5, <1>6, <1>7 DEF LogsInv
<1>9. EvaluationForgets'
  BY <1>5, <1>6, <1>7, Zenon DEF EvaluationForgets
<1> QED BY <1>8, <1>9

LEMMA ReevaluateLogs ==
  ASSUME LogsInv, EvaluationForgets, NEW c, NEW i \in DOMAIN logs, Reevaluate(c, i)
  PROVE  LogsInv' /\ EvaluationForgets'
<1> DEFINE e == Eval(c, logs[i])
<1>1. logs' = [logs EXCEPT ![i] = e] /\ evalWith' = [evalWith EXCEPT ![i] = c]
  BY DEF Reevaluate
<1>2. PICK S : logs \in Seq(S)
  BY DEF LogsInv
<1>3. PICK T : evalWith \in Seq(T)
  BY DEF LogsInv
<1>4. Len(evalWith) = Len(logs)
  BY DEF LogsInv
<1>5. AreResults(e) /\ e = Eval(c, Bare(e))
  <2>1. AreResults(logs[i])
    BY DEF LogsInv
  <2>2. AreResults(e) /\ Eval(c, Bare(logs[i])) = e /\ Bare(e) = Bare(logs[i])
    BY <2>1, EvalOfBare
  <2> QED BY <2>2
<1> HIDE DEF e
<1>6. /\ logs' \in Seq(S \cup {e}) /\ Len(logs') = Len(logs) /\ DOMAIN logs' = DOMAIN logs
      /\ logs'[i] = e /\ \A j \in DOMAIN logs : j # i => logs'[j] = logs[j]
  <2>1. logs \in Seq(S \cup {e}) /\ e \in S \cup {e}
    BY <1>2
  <2> QED BY <2>1, <1>1
<1>7. /\ evalWith' \in Seq(T \cup {c}) /\ Len(evalWith') = Len(evalWith)
      /\ evalWith'[i] = c /\ \A j \in DOMAIN logs : j # i => evalWith'[j] = evalWith[j]
  <2>1. DOMAIN logs = DOMAIN evalWith
    BY <1>2, <1>3, <1>4
  <2>2. evalWith \in Seq(T \cup {c}) /\ c \in T \cup {c} /\ i \in DOMAIN evalWith
    BY <1>3, <2>1
  <2>3. /\ evalWith' \in Seq(T \cup {c}) /\ Len(evalWith') = Len(evalWith)
        /\ evalWith'[i] = c /\ \A j \in DOMAIN evalWith : j # i => evalWith'[j] = evalWith[j]
    BY <2>2, <1>1
  <2> QED BY <2>1, <2>3
<1>8. LogsInv'
  <2>1. \A j \in DOMAIN logs' : AreResults(logs'[j])
    BY <1>5, <1>6, Zenon DEF LogsInv
  <2> QED BY <2>1, <1>4, <1>6, <1>7 DEF LogsInv
<1>9. EvaluationForgets'
  <2> SUFFICES ASSUME NEW j \in DOMAIN logs PROVE logs'[j] = Eval(evalWith'[j], Bare(logs'[j]))
    BY <1>6, Zenon DEF EvaluationForgets
  <2>1. CASE j = i
    BY <2>1, <1>5, <1>6, <1>7
  <2>2. CASE j # i
    BY <2>2, <1>6, <1>7 DEF EvaluationForgets
  <2> QED BY <2>1, <2>2
<1> QED BY <1>8, <1>9

LEMMA LogsInvariance == Spec => [](LogsInv /\ EvaluationForgets)
<1>1. LogsInv /\ EvaluationForgets /\ [Next]_vars => (LogsInv /\ EvaluationForgets)'
  <2> SUFFICES ASSUME LogsInv, EvaluationForgets, [Next]_vars
               PROVE  LogsInv' /\ EvaluationForgets'
    OBVIOUS
  <2>1. ASSUME UNCHANGED <<logs, evalWith>> PROVE LogsInv' /\ EvaluationForgets'
    BY <2>1 DEF LogsInv, EvaluationForgets
  <2>2. CASE \E config \in {Config, Empty}, m \in Measurements : TftRun(config, m)
    BY <2>2, TftRunLogs
  <2>3. CASE \E config \in {Config, Empty}, i \in DOMAIN logs : Reevaluate(config, i)
    BY <2>3, ReevaluateLogs
  <2> QED BY <2>1, <2>2, <2>3, Zenon DEF Next, Generate, vars
<1> QED BY <1>1, InitLogs, PTL DEF Spec

(* Evaluating a result file again leaves no trace of earlier evaluations.  *)
THEOREM AlwaysForgets == Spec => []EvaluationForgets
BY LogsInvariance, PTL

-----------------------------------------------------------------------------
(* What a generation with a base leads to, entry for entry.                *)
FromBase(tightenOnly, quorum, selected) ==
  /\ DOMAIN Config' = DOMAIN Config
  /\ \A k \in DOMAIN Config, r \in BOOLEAN :
       Config'[k][r] =
         NewItem(TRUE, Config, ResultsIn(selected), <<k, r>>, tightenOnly, quorum)

LEMMA GeneratedFromBase ==
  ASSUME NEW tightenOnly, NEW quorum, NEW selected,
         Generate(TRUE, tightenOnly, quorum, selected)
  PROVE  FromBase(tightenOnly, quorum, selected)
<1> DEFINE results == ResultsIn(selected)
           new(k, r) == NewItem(TRUE, Config, results, <<k, r>>, tightenOnly, quorum)
           items == NewItems(TRUE, Config, results, tightenOnly, quorum)
           c == ResultConfig(TRUE, items)
           K == DOMAIN Config
<1>1. file' = Serialize(c)
  BY DEF Generate, GenerateConfig
<1>2. items = [ei \in K \X BOOLEAN |-> NewItem(TRUE, Config, results, ei, tightenOnly, quorum)]
  BY DEF NewItems, Identities
<1> HIDE DEF items, results
<1>3. DOMAIN items = K \X BOOLEAN /\ \A k \in K, r \in BOOLEAN : items[<<k, r>>] = new(k, r)
  BY <1>2
<1>4. {ei[1] : ei \in K \X BOOLEAN} = K
  <2>1. \A k \in K : <<k, TRUE>> \in K \X BOOLEAN /\ <<k, TRUE>>[1] = k
    OBVIOUS
  <2> QED BY <2>1
<1>5. \A k \in K, r \in BOOLEAN : IsItem(new(k, r))
  BY DEF IsItem, NewItem
<1> HIDE DEF K, new
<1>6. c = [k \in K |-> [r \in BOOLEAN |-> new(k, r)]]
  <2>1. c = [k \in {ei[1] : ei \in DOMAIN items} |-> [r \in BOOLEAN |->
               IF <<k, r>> \in DOMAIN items THEN items[<<k, r>>] ELSE NA]]
    BY Zenon DEF ResultConfig
  <2>2. \A k \in K, r \in BOOLEAN :
           (IF <<k, r>> \in DOMAIN items THEN items[<<k, r>>] ELSE NA) = new(k, r)
    BY <1>3
  <2>3. DOMAIN items = K \X BOOLEAN
    BY <1>3
  <2>4. {ei[1] : ei \in DOMAIN items} = K
    BY <2>3, <1>4
  <2> HIDE DEF c
  <2> QED BY <2>1, <2>2, <2>4, Zenon
<1>7. \A k \in K, r \in BOOLEAN : IsItem(c[k][r])
  <2>1. \A k \in K, r \in BOOLEAN : c[k][r] = new(k, r)
    <3> HIDE DEF c
    <3> QED BY <1>6
  <2> QED BY <2>1, <1>5
<1>8. c = [k \in K |-> [r \in BOOLEAN |-> c[k][r]]]
  <2> HIDE DEF c
  <2> QED BY <1>6
<1>9. Parse(Serialize(c)) = c
  <2> HIDE DEF c
  <2> QED BY <1>7, <1>8, RoundTrip
<1>10. Config' = c
  BY <1>1, <1>9 DEF Config
<1>11. DOMAIN Config' = K /\ \A k \in K, r \in BOOLEAN : Config'[k][r] = new(k, r)
  <2> HIDE DEF c
  <2> QED BY <1>6, <1>10
<1> QED BY <1>11, Zenon DEF FromBase, K, new, results

LEMMA TightenKeepsNone ==
  ASSUME NEW a, NEW old, NEW tightenOnly
  PROVE  old = None <=> TightenRate(a, old, tightenOnly) = None
BY DEF TightenRate

(* A generation with a base has the entries and the thresholds of the base,*)
(* no more and no fewer, whatever was measured.                            *)
THEOREM ThresholdsAlwaysStay == Spec => ThresholdsStay
<1> DEFINE Stay == /\ DOMAIN Config' = DOMAIN Config
                   /\ \A k \in DOMAIN Config, r \in BOOLEAN :
                        /\ Config[k][r].rx = None <=> Config'[k][r].rx = None
                        /\ Config[k][r].tx = None <=> Config'[k][r].tx = None
<1>1. ASSUME NEW tightenOnly, NEW quorum, NEW selected,
             Generate(TRUE, tightenOnly, quorum, selected)
      PROVE  Stay
  <2> DEFINE new(k, r) == NewItem(TRUE, Config, ResultsIn(selected), <<k, r>>, tightenOnly, quorum)
  <2>3. ASSUME NEW k \in DOMAIN Config, NEW r \in BOOLEAN
        PROVE  /\ Config[k][r].rx = None <=> new(k, r).rx = None
               /\ Config[k][r].tx = None <=> new(k, r).tx = None
    <3>1. GetItem(Config, <<k, r>>[1], <<k, r>>[2]) = Config[k][r]
      BY DEF GetItem
    <3> QED BY <3>1, TightenKeepsNone DEF NewItem
  <2>4. /\ DOMAIN Config' = DOMAIN Config
        /\ \A k \in DOMAIN Config, r \in BOOLEAN :
             Config'[k][r] =
               NewItem(TRUE, Config, ResultsIn(selected), <<k, r>>, tightenOnly, quorum)
    <3>1. FromBase(tightenOnly, quorum, selected)
      BY <1>1, GeneratedFromBase, Zenon
    <3> QED BY <3>1, Zenon DEF FromBase
  <2>5. \A k \in DOMAIN Config, r \in BOOLEAN : Config'[k][r] = new(k, r)
    BY <2>4, Zenon
  <2> HIDE DEF new
  <2> QED BY <2>3, <2>4, <2>5
<1>2. [GeneratedFrom(BOOLEAN) => Stay]_vars
  BY <1>1 DEF GeneratedFrom
<1> QED BY <1>2, PTL DEF ThresholdsStay, Spec

-----------------------------------------------------------------------------
(* Induction over a finite set: a collection of its subsets has a smallest.*)
LEMMA MinimalSet ==
  ASSUME NEW S, IsFiniteSet(S), NEW B, B \subseteq SUBSET S, B # {}
  PROVE  \E T \in B : \A U \in B : U \subseteq T => U = T
<1>1. IsWellFoundedOn(StrictSubsetOrdering(S), SUBSET S)
  BY FS_StrictSubsetOrderingWellFounded, FS_FiniteSubsetsOfFinite
<1>2. PICK T \in B : \A U \in B : ~(<<U, T>> \in StrictSubsetOrdering(S))
  BY <1>1, WFMin
<1> QED
  BY <1>2 DEF StrictSubsetOrdering

(* SumFunction is a function of the sets of indices, which takes them out  *)
(* one by one.                                                             *)
Pick(s) == CHOOSE x \in s : TRUE
IsSum(g, f, D) ==
  g = [s \in SUBSET D |-> IF s = {} THEN 0 ELSE f[Pick(s)] + g[s \ {Pick(s)}]]

LEMMA SumsAgree ==
  ASSUME NEW f, NEW A, NEW B, IsFiniteSet(A), NEW g, NEW h, IsSum(g, f, A), IsSum(h, f, B)
  PROVE  \A s \in SUBSET (A \cap B) : g[s] = h[s]
<1> DEFINE Bad == {s \in SUBSET (A \cap B) : g[s] # h[s]}
<1> SUFFICES ASSUME Bad # {}
             PROVE  FALSE
  OBVIOUS
<1>1. Bad \subseteq SUBSET A
  OBVIOUS
<1> HIDE DEF Bad
<1>2. PICK T \in Bad : \A U \in Bad : U \subseteq T => U = T
  BY <1>1, MinimalSet
<1>3. T \in SUBSET A /\ T \in SUBSET B /\ g[T] # h[T]
  BY <1>2 DEF Bad
<1>4. CASE T = {}
  BY <1>3, <1>4 DEF IsSum
<1>5. CASE T # {}
  <2> DEFINE U == T \ {Pick(T)}
  <2>1. Pick(T) \in T
    BY <1>5 DEF Pick
  <2>2. U \subseteq T /\ U # T /\ U \in SUBSET (A \cap B)
    BY <1>3, <2>1
  <2>3. g[U] = h[U]
    BY <1>2, <2>2 DEF Bad
  <2>4. g[T] = f[Pick(T)] + g[U] /\ h[T] = f[Pick(T)] + h[U]
    BY <1>3, <1>5 DEF IsSum
  <2> QED
    BY <1>3, <2>3, <2>4
<1> QED
  BY <1>4, <1>5

LEMMA SumExists ==
  ASSUME NEW f, NEW D, IsFiniteSet(D)
  PROVE  \E g : IsSum(g, f, D)
<1> DEFINE Bad == {s \in SUBSET D : ~\E g : IsSum(g, f, s)}
           G(s) == CHOOSE g : IsSum(g, f, s)
<1> SUFFICES ASSUME Bad # {}
             PROVE  FALSE
  OBVIOUS
<1>1. PICK T \in Bad : \A U \in Bad : U \subseteq T => U = T
  <2>1. Bad \subseteq SUBSET D
    OBVIOUS
  <2> HIDE DEF Bad
  <2> QED
    BY <2>1, MinimalSet
<1>2. T \in SUBSET D /\ IsFiniteSet(T) /\ ~\E g : IsSum(g, f, T)
  BY <1>1, FS_Subset
<1>3. ASSUME NEW U \in SUBSET T, U # T
      PROVE  IsSum(G(U), f, U) /\ IsFiniteSet(U)
  <2>1. U \notin Bad /\ U \in SUBSET D
    BY <1>1, <1>2, <1>3
  <2>2. \E g : IsSum(g, f, U)
    BY <2>1
  <2> QED
    BY <1>2, <2>2, FS_Subset
<1> DEFINE h == [s \in SUBSET T |-> IF s = {} THEN 0 ELSE
                   f[Pick(s)] + G(s \ {Pick(s)})[s \ {Pick(s)}]]
<1>4. ASSUME NEW U \in SUBSET T, U # T
      PROVE  h[U] = G(U)[U]
  <2>1. IsSum(G(U), f, U)
    BY <1>3, <1>4
  <2>2. CASE U = {}
    <3>1. G(U)[U] = 0
      BY <2>1, <2>2 DEF IsSum
    <3> QED
      BY <2>2, <3>1
  <2>3. CASE U # {}
    <3> DEFINE V == U \ {Pick(U)}
    <3>1. Pick(U) \in U
      BY <2>3 DEF Pick
    <3>2. V \in SUBSET T /\ V # T /\ V \in SUBSET (V \cap U)
      BY <3>1
    <3>3. IsSum(G(V), f, V) /\ IsFiniteSet(V)
      BY <1>3, <3>2
    <3>4. G(V)[V] = G(U)[V]
      <4> HIDE DEF G, V
      <4> QED
      BY <2>1, <3>2, <3>3, SumsAgree
    <3>5. G(U)[U] = f[Pick(U)] + G(U)[V]
      <4> HIDE DEF G
      <4> QED
      BY <2>1, <2>3 DEF IsSum
    <3>6. h[U] = f[Pick(U)] + G(V)[V]
      <4> HIDE DEF G
      <4> QED
      BY <2>3
    <3> QED
      BY <3>4, <3>5, <3>6
  <2> QED
    BY <2>2, <2>3
<1>5. ASSUME NEW s \in SUBSET T, s # {}
      PROVE  h[s \ {Pick(s)}] = G(s \ {Pick(s)})[s \ {Pick(s)}]
  <2>1. Pick(s) \in s
    BY <1>5 DEF Pick
  <2>2. s \ {Pick(s)} \in SUBSET T /\ s \ {Pick(s)} # T
    BY <2>1
  <2> HIDE DEF h, G
  <2> QED
    BY <1>4, <2>2
<1>6. h = [s \in SUBSET T |-> IF s = {} THEN 0 ELSE f[Pick(s)] + h[s \ {Pick(s)}]]
  <2>1. \A s \in SUBSET T :
          (IF s = {} THEN 0 ELSE f[Pick(s)] + G(s \ {Pick(s)})[s \ {Pick(s)}])
            = (IF s = {} THEN 0 ELSE f[Pick(s)] + h[s \ {Pick(s)}])
    <3> HIDE DEF h, G
    <3> QED
      BY <1>5
  <2> HIDE DEF G
  <2> QED
    BY <2>1, Zenon
<1> QED
  BY <1>2, <1>6 DEF IsSum

LEMMA Fold ==
  ASSUME NEW f, IsFiniteSet(DOMAIN f)
  PROVE  \E g : IsSum(g, f, DOMAIN f) /\ SumFunction(f) = g[DOMAIN f]
<1>1. SumFunction(f) = (CHOOSE g : IsSum(g, f, DOMAIN f))[DOMAIN f]
  BY DEF SumFunction, SumFunctionOnSet, FoldFunctionOnSet, MapThenFoldSet, IsSum, Pick
<1>2. \E g : IsSum(g, f, DOMAIN f)
  BY SumExists
<1> QED
  BY <1>1, <1>2

(* What a sum of natural numbers lies between.                             *)
LEMMA SumBounds ==
  ASSUME NEW f, IsFiniteSet(DOMAIN f), \A i \in DOMAIN f : f[i] \in Nat
  PROVE  /\ SumFunction(f) \in Nat
         /\ \A i \in DOMAIN f : f[i] <= SumFunction(f)
         /\ \A b \in Nat : (\A i \in DOMAIN f : b <= f[i]) =>
              Cardinality(DOMAIN f) * b <= SumFunction(f)
         /\ \A b \in Nat : (\A i \in DOMAIN f : f[i] <= b) =>
              SumFunction(f) <= Cardinality(DOMAIN f) * b
<1> DEFINE D == DOMAIN f
<1>1. PICK g : IsSum(g, f, D) /\ SumFunction(f) = g[D]
  BY Fold
<1> DEFINE Good(s) ==
      /\ g[s] \in Nat
      /\ \A i \in s : f[i] <= g[s]
      /\ \A b \in Nat : (\A i \in s : b <= f[i]) => Cardinality(s) * b <= g[s]
      /\ \A b \in Nat : (\A i \in s : f[i] <= b) => g[s] <= Cardinality(s) * b
      Bad == {s \in SUBSET D : ~Good(s)}
<1> SUFFICES Good(D)
  BY <1>1
<1> HIDE DEF Good
<1> SUFFICES ASSUME Bad # {}
             PROVE  FALSE
  OBVIOUS
<1>2. PICK T \in Bad : \A U \in Bad : U \subseteq T => U = T
  <2>1. Bad \subseteq SUBSET D
    OBVIOUS
  <2> HIDE DEF Bad
  <2> QED
    BY <2>1, MinimalSet
<1>3. T \in SUBSET D /\ IsFiniteSet(T) /\ ~Good(T)
  BY <1>2, FS_Subset
<1>4. CASE T = {}
  <2>1. g[T] = 0 /\ Cardinality(T) = 0
    BY <1>1, <1>4, FS_EmptySet DEF IsSum
  <2> QED
    BY <1>3, <1>4, <2>1 DEF Good
<1>5. CASE T # {}
  <2> DEFINE x == Pick(T)
             U == T \ {x}
             n == Cardinality(U)
  <2>1. x \in T /\ x \in D
    BY <1>3, <1>5 DEF Pick
  <2>2. Good(U)
    BY <1>2, <2>1
  <2>3. g[T] = f[x] + g[U]
    BY <1>1, <1>3, <1>5 DEF IsSum
  <2>4. Cardinality(T) = n + 1 /\ n \in Nat
    <3>1. IsFiniteSet(U)
      BY <1>3, FS_Subset
    <3>2. n = Cardinality(T) - 1
      BY <1>3, <2>1, FS_RemoveElement
    <3> QED
      BY <1>3, <3>1, <3>2, FS_CardinalityType
  <2>5. f[x] \in Nat /\ g[U] \in Nat /\ T = U \cup {x}
    BY <2>1, <2>2 DEF Good
  <2>6. g[T] \in Nat
    BY <2>3, <2>5
  <2>7. \A i \in T : f[i] <= g[T]
    <3>1. \A i \in U : f[i] <= g[U] /\ f[i] \in Nat
      BY <1>3, <2>2 DEF Good
    <3> HIDE DEF U, x
    <3>2. ASSUME NEW i \in T
          PROVE  f[i] <= g[T]
      <4>1. CASE i = x
        BY <2>3, <2>5, <4>1
      <4>2. CASE i \in U
        BY <2>3, <2>5, <3>1, <4>2
      <4> QED
        BY <2>5, <4>1, <4>2
    <3> QED
      BY <3>2
  <2> HIDE DEF U, x
  <2>8. ASSUME NEW b \in Nat, \A i \in T : b <= f[i]
        PROVE  Cardinality(T) * b <= g[T]
    <3>1. n * b <= g[U] /\ b <= f[x]
      BY <2>2, <2>5, <2>8 DEF Good
    <3>2. (n + 1) * b = n * b + b /\ n * b \in Nat
      BY <2>4
    <3> QED
      BY <2>3, <2>4, <2>5, <3>1, <3>2
  <2>9. ASSUME NEW b \in Nat, \A i \in T : f[i] <= b
        PROVE  g[T] <= Cardinality(T) * b
    <3>1. g[U] <= n * b /\ f[x] <= b
      BY <2>2, <2>5, <2>9 DEF Good
    <3>2. (n + 1) * b = n * b + b /\ n * b \in Nat
      BY <2>4
    <3> QED
      BY <2>3, <2>4, <2>5, <3>1, <3>2
  <2> QED
    BY <1>3, <2>6, <2>7, <2>8, <2>9 DEF Good
<1> QED
  BY <1>4, <1>5

(* Finitely many whole numbers have a greatest.                            *)
LEMMA Greatest ==
  ASSUME NEW f, IsFiniteSet(DOMAIN f), DOMAIN f # {}, \A i \in DOMAIN f : f[i] \in Int
  PROVE  \E i \in DOMAIN f : \A j \in DOMAIN f : f[j] <= f[i]
<1> DEFINE D == DOMAIN f
           Good(s) == \E i \in s : \A j \in s : f[j] <= f[i]
           Bad == {s \in SUBSET D : s # {} /\ ~Good(s)}
<1> HIDE DEF Good
<1> SUFFICES ASSUME Bad # {}
             PROVE  FALSE
  BY DEF Good
<1>2. PICK T \in Bad : \A U \in Bad : U \subseteq T => U = T
  <2>1. Bad \subseteq SUBSET D
    OBVIOUS
  <2> HIDE DEF Bad
  <2> QED
    BY <2>1, MinimalSet
<1>3. T \in SUBSET D /\ T # {} /\ ~Good(T)
  BY <1>2
<1>4. PICK x : x \in T
  BY <1>3
<1> DEFINE U == T \ {x}
<1>5. U = {} \/ Good(U)
  BY <1>2, <1>4
<1>6. CASE U = {}
  BY <1>3, <1>4, <1>6 DEF Good
<1>7. CASE Good(U)
  <2>1. PICK i \in U : \A j \in U : f[j] <= f[i]
    BY <1>7 DEF Good
  <2>2. f[x] \in Int /\ f[i] \in Int /\ \A j \in T : f[j] \in Int
    BY <1>3, <1>4, <2>1
  <2>3. CASE f[x] <= f[i]
    BY <1>3, <1>4, <2>1, <2>3 DEF Good
  <2>4. CASE f[i] <= f[x]
    BY <1>3, <1>4, <2>1, <2>2, <2>4 DEF Good
  <2> QED
    BY <2>2, <2>3, <2>4
<1> QED
  BY <1>5, <1>6, <1>7

(* ... and a set of them that is not empty a smallest.                     *)
LEMMA Smallest ==
  ASSUME NEW S, S \subseteq Int, IsFiniteSet(S), S # {}
  PROVE  \E i \in S : \A j \in S : i <= j
<1> DEFINE f == [i \in S |-> 0 - i]
<1>1. DOMAIN f = S /\ \A i \in DOMAIN f : f[i] \in Int
  OBVIOUS
<1> HIDE DEF f
<1>2. PICK i \in S : \A j \in S : f[j] <= f[i]
  BY <1>1, Greatest
<1> QED
  BY <1>2 DEF f

LEMMA FiniteUnion ==
  ASSUME NEW S, IsFiniteSet(S), NEW f, \A i \in S : IsFiniteSet(f[i])
  PROVE  IsFiniteSet(UNION {f[i] : i \in S})
<1> DEFINE T == {f[i] : i \in S}
           g == [i \in S |-> f[i]]
<1>1. g \in Surjection(S, T)
  BY DEF Surjection
<1>2. IsFiniteSet(T)
  BY <1>1, FS_Surjection
<1> QED
  BY <1>2, FS_UNION

-----------------------------------------------------------------------------
(* The arithmetic of the thresholds.                                       *)
LEMMA Scale ==
  ASSUME NEW n \in Nat, n # 0, NEW a \in Int, NEW b \in Int, n * a <= n * b
  PROVE  a <= b
<1> SUFFICES ASSUME b + 1 <= a
             PROVE  FALSE
  OBVIOUS
<1>1. n * (b + 1) <= n * a
  OBVIOUS
<1>2. n * (b + 1) = n * b + n
  OBVIOUS
<1> QED
  BY <1>1, <1>2

(* The rates of some flows.                                                *)
IsData(d) == IsFiniteSet(DOMAIN d) /\ \A i \in DOMAIN d : d[i] \in Nat

(* A new threshold is not above the highest rate, and not below four       *)
(* fifths of the lowest one.                                               *)
LEMMA NewThresholdBounds ==
  ASSUME NEW d, IsData(d), DOMAIN d # {}
  PROVE  /\ NewThreshold(d) \in Nat
         /\ \E i \in DOMAIN d : NewThreshold(d) <= d[i]
         /\ \A b \in Nat : (\A i \in DOMAIN d : b <= d[i]) => 4 * b <= 5 * NewThreshold(d)
<1> DEFINE n == Count(d)
           sum == SumFunction(d)
           dev == Deviation(d)
           reached(r) == /\ n * r >= sum \/ (sum - n * r) * (sum - n * r) <= 4 * dev
                         /\ 5 * n * r >= 4 * sum
           R == {r \in 0..sum : reached(r)}
           t == NewThreshold(d)
<1>1. /\ sum \in Nat
      /\ \A i \in DOMAIN d : d[i] <= sum
      /\ \A b \in Nat : (\A i \in DOMAIN d : b <= d[i]) => n * b <= sum
      /\ \A b \in Nat : (\A i \in DOMAIN d : d[i] <= b) => sum <= n * b
  BY SumBounds DEF IsData, Count
<1>2. n \in Nat /\ n # 0
  BY FS_CardinalityType, FS_EmptySet DEF IsData, Count
<1>3. PICK m \in DOMAIN d : \A j \in DOMAIN d : d[j] <= d[m]
  BY Greatest DEF IsData
<1>4. d[m] \in Nat
  BY DEF IsData
<1> HIDE DEF n, sum, dev
<1>5. d[m] \in R
  <2>1. sum <= n * d[m]
    BY <1>1, <1>3, <1>4
  <2>2. n * d[m] \in Nat /\ 5 * n * d[m] = 5 * (n * d[m])
    BY <1>2, <1>4
  <2>3. 5 * n * d[m] >= 4 * sum
    BY <1>1, <2>1, <2>2
  <2> QED
    BY <1>1, <1>4, <2>1, <2>2, <2>3
<1>6. \E r \in 0..sum : reached(r) /\ \A q \in 0..(r - 1) : ~reached(q)
  <2>1. R \subseteq Int /\ IsFiniteSet(R) /\ R # {}
    <3>1. IsFiniteSet(0..sum)
      BY <1>1, FS_Interval
    <3>2. R \in SUBSET (0..sum)
      OBVIOUS
    <3> HIDE DEF R
    <3>3. IsFiniteSet(R)
      BY <3>1, <3>2, FS_Subset
    <3>4. R \subseteq Int
      BY <1>1, <3>2
    <3> QED
      BY <1>5, <3>3, <3>4
  <2> HIDE DEF reached
  <2>2. PICK r \in R : \A j \in R : r <= j
    <3> HIDE DEF R
    <3> QED
      BY <2>1, Smallest
  <2>3. r \in 0..sum /\ reached(r)
    OBVIOUS
  <2>4. \A q \in 0..(r - 1) : ~reached(q)
    BY <1>1, <2>2, <2>3
  <2> QED
    BY <2>3, <2>4
<1>7. t \in 0..sum /\ reached(t) /\ \A q \in 0..(t - 1) : ~reached(q)
  <2>1. t = CHOOSE r \in 0..sum : reached(r) /\ \A q \in 0..(r - 1) : ~reached(q)
    BY DEF NewThreshold, n, sum, dev
  <2> HIDE DEF t, reached
  <2> QED
    BY <1>6, <2>1
<1> HIDE DEF t
<1>8. t <= d[m]
  <2> HIDE DEF reached
  <2> QED
    BY <1>1, <1>4, <1>5, <1>7
<1>9. ASSUME NEW b \in Nat, \A i \in DOMAIN d : b <= d[i]
      PROVE  4 * b <= 5 * t
  <2>1. n * b <= sum /\ 5 * n * t >= 4 * sum /\ t \in Nat
    BY <1>1, <1>7, <1>9
  <2>2. n * (4 * b) = 4 * (n * b) /\ n * (5 * t) = 5 * n * t /\ n * b \in Nat
    BY <1>2, <2>1
  <2>3. n * (4 * b) <= n * (5 * t) /\ 4 * b \in Int /\ 5 * t \in Int
    BY <1>1, <1>2, <2>1, <2>2
  <2> QED
    BY <1>2, <2>3, Scale
<1> QED
  BY <1>1, <1>7, <1>8, <1>9 DEF t

(* The same of what a generation makes of the rates that were measured,    *)
(* whichever of them it takes for outliers.                                *)
LEMMA AccumulateRateBounds ==
  ASSUME NEW d, IsData(d), NEW quorum, AccumulateRate(d, quorum) # None
  PROVE  LET a == AccumulateRate(d, quorum)
         IN  /\ a \in Nat
             /\ \E i \in DOMAIN d : a <= d[i]
             /\ \A b \in Nat : (\A i \in DOMAIN d : b <= d[i]) => 4 * b <= 5 * a
<1> DEFINE e == WithoutOutliers(d)
<1>1. AccumulateRate(d, quorum) = NewThreshold(e) /\ DOMAIN e # {}
  BY Zenon DEF AccumulateRate, Enough
<1>2. DOMAIN e \subseteq DOMAIN d /\ \A i \in DOMAIN e : e[i] = d[i]
  BY DEF WithoutOutliers
<1> HIDE DEF e
<1>3. IsData(e)
  BY <1>2, FS_Subset DEF IsData
<1>4. /\ NewThreshold(e) \in Nat
      /\ \E i \in DOMAIN e : NewThreshold(e) <= e[i]
      /\ \A b \in Nat : (\A i \in DOMAIN e : b <= e[i]) => 4 * b <= 5 * NewThreshold(e)
  BY <1>1, <1>3, NewThresholdBounds
<1> QED
  BY <1>1, <1>2, <1>4

-----------------------------------------------------------------------------
(* What is read, judged, generated and written is of the types it should be.*)
Judged == [flow : Flows, plugins : Seq(BOOLEAN), eval : Evals]

LEMMA ParseTypes ==
  ASSUME NEW f, IsFile(f)
  PROVE  IsConfig(Parse(f)) /\ DOMAIN Parse(f) = DOMAIN f
<1>1. ASSUME NEW k \in DOMAIN f, NEW r \in DOMAIN f[k]
      PROVE  ParseItem(f[k][r]) \in Items
  <2>1. f[k][r] \in [DOMAIN f[k][r] -> Nat]
    BY <1>1 DEF IsFile
  <2>2. \A g \in ItemFields : Threshold(f[k][r], g) \in Rates
    BY <2>1 DEF Threshold, Rates
  <2> QED
    BY <2>2 DEF ParseItem, Items, ItemFields
<1>2. NA \in Items
  BY DEF NA, Items, Rates
<1>3. DOMAIN Parse(f) = DOMAIN f /\ DOMAIN f \subseteq Keys
  BY DEF Parse, IsFile
<1>4. Parse(f) \in [DOMAIN f -> [BOOLEAN -> Items]]
  BY <1>1, <1>2 DEF Parse
<1> QED
  BY <1>3, <1>4 DEF IsConfig

LEMMA SerializeTypes ==
  ASSUME NEW c, IsConfig(c)
  PROVE  IsFile(Serialize(c))
<1>1. ASSUME NEW item \in Items, HasThresholds(item)
      PROVE  /\ DOMAIN SerializeItem(item) \subseteq ItemFields
             /\ SerializeItem(item) \in [DOMAIN SerializeItem(item) -> Nat]
  <2>1. item.rx \in Nat \cup {None} /\ item.tx \in Nat \cup {None}
    BY DEF Items, Rates
  <2>2. CASE item.rx = item.tx
    <3>1. SerializeItem(item) = [f \in {"threshold"} |-> item.rx] /\ item.rx \in Nat
      BY <1>1, <2>1, <2>2 DEF SerializeItem, HasThresholds
    <3> QED
      BY <3>1 DEF ItemFields
  <2>3. CASE item.rx # item.tx
    <3>1. SerializeItem(item) = OneOrTwo(item)
      BY <2>3 DEF SerializeItem
    <3>2. /\ DOMAIN OneOrTwo(item) \subseteq {"threshold_rx", "threshold_tx"}
          /\ OneOrTwo(item) \in [DOMAIN OneOrTwo(item) -> Nat]
      BY <2>1 DEF OneOrTwo
    <3> QED
      BY <3>1, <3>2 DEF ItemFields
  <2> QED
    BY <2>2, <2>3
<1> DEFINE s == Serialize(c)
<1>2. DOMAIN s = DOMAIN c /\ DOMAIN c \subseteq Keys
  BY DEF Serialize, IsConfig
<1>3. ASSUME NEW k \in DOMAIN c
      PROVE  /\ DOMAIN s[k] \subseteq BOOLEAN
             /\ \A r \in DOMAIN s[k] : s[k][r] = SerializeItem(c[k][r]) /\ HasThresholds(c[k][r])
                                        /\ c[k][r] \in Items
  <2>1. s[k] = [r \in {d \in BOOLEAN : HasThresholds(c[k][d])} |-> SerializeItem(c[k][r])]
    BY DEF Serialize
  <2>2. \A r \in BOOLEAN : c[k][r] \in Items
    BY DEF IsConfig
  <2> HIDE DEF s
  <2> QED
    BY <2>1, <2>2
<1> HIDE DEF s
<1>4. IsFile(s)
  BY <1>1, <1>2, <1>3 DEF IsFile
<1> QED
  BY <1>4 DEF s

LEMMA EvalTypes ==
  ASSUME NEW c, IsConfig(c), NEW S, NEW L \in Seq(S),
         \A o \in S : o \in TftResult
  PROVE  Eval(c, L) \in Seq(Judged)
<1>1. ASSUME NEW k, NEW r \in BOOLEAN
      PROVE  GetItem(c, k, r) \in Items
  BY <1>1 DEF GetItem, IsConfig, NA, Items, Rates
<1>2. ASSUME NEW o \in TftResult
      PROVE  EvalTestResult(c, o) \in Judged
  <2>1. /\ o.flow \in Flows /\ o.plugins \in Seq(BOOLEAN) /\ IsResult(o)
    BY DEF TftResult, IsResult
  <2>2. GetItem(c, o.flow.key, o.flow.reverse) \in Items /\ o.flow.success \in BOOLEAN
    BY <1>1, <2>1 DEF Flows
  <2>3. EvalFlow(c, o) \in Evals
    BY <2>2 DEF EvalFlow, Evals, Items, IsPassing
  <2>4. EvalTestResult(c, o) = [flow |-> o.flow, plugins |-> o.plugins, eval |-> EvalFlow(c, o)]
    BY <2>1, EvalIsResult
  <2> QED
    BY <2>1, <2>3, <2>4 DEF Judged
<1>3. Len(L) \in Nat /\ DOMAIN L = 1..Len(L) /\ \A i \in DOMAIN L : L[i] \in TftResult
  OBVIOUS
<1>4. \A i \in 1..Len(L) : EvalTestResult(c, L[i]) \in Judged
  BY <1>2, <1>3
<1>5. Eval(c, L) = [i \in 1..Len(L) |-> EvalTestResult(c, L[i])]
  BY <1>3 DEF Eval
<1> QED
  BY <1>3, <1>4, <1>5

(* The results in the selected files.                                      *)
LEMMA ResultTypes ==
  ASSUME TypeOK, NEW selected \in SUBSET DOMAIN logs
  PROVE  /\ IsFiniteSet(DOMAIN ResultsIn(selected))
         /\ \A p \in DOMAIN ResultsIn(selected) :
              \E i \in selected : \E j \in DOMAIN logs[i] :
                /\ p = <<i, j>> /\ ResultsIn(selected)[p] = logs[i][j]
                /\ logs[i][j] \in Judged
<1>1. logs \in Seq(Seq(Judged))
  BY DEF TypeOK, Judged
<1>2. DOMAIN logs = 1..Len(logs) /\ Len(logs) \in Nat /\ \A i \in DOMAIN logs : logs[i] \in Seq(Judged)
  BY <1>1
<1> DEFINE f == [i \in selected |-> {i} \X (DOMAIN logs[i])]
<1>3. IsFiniteSet(selected)
  <2>1. IsFiniteSet(1..Len(logs))
    BY <1>2, FS_Interval
  <2>2. selected \in SUBSET (1..Len(logs))
    BY <1>2
  <2> QED
    BY <2>1, <2>2, FS_Subset
<1>4. ASSUME NEW i \in selected
      PROVE  IsFiniteSet(f[i])
  <2>1. DOMAIN logs[i] = 1..Len(logs[i]) /\ Len(logs[i]) \in Nat
    BY <1>2
  <2>2. IsFiniteSet(DOMAIN logs[i])
    BY <2>1, FS_Interval
  <2>3. IsFiniteSet({i} \X (DOMAIN logs[i]))
    BY <2>2, FS_Singleton, FS_Product
  <2> QED
    BY <2>3
<1>5. DOMAIN ResultsIn(selected) = UNION {f[i] : i \in selected}
  BY DEF ResultsIn
<1>6. IsFiniteSet(DOMAIN ResultsIn(selected))
  <2> HIDE DEF f
  <2> QED
    BY <1>3, <1>4, <1>5, FiniteUnion
<1>7. ASSUME NEW p \in DOMAIN ResultsIn(selected)
      PROVE  \E i \in selected : \E j \in DOMAIN logs[i] :
               /\ p = <<i, j>> /\ ResultsIn(selected)[p] = logs[i][j]
               /\ logs[i][j] \in Judged
  <2>1. PICK i \in selected : p \in {i} \X (DOMAIN logs[i])
    BY <1>5
  <2>2. PICK j \in DOMAIN logs[i] : p = <<i, j>>
    BY <2>1
  <2>3. ResultsIn(selected)[p] = logs[p[1]][p[2]]
    BY DEF ResultsIn
  <2>4. logs[i][j] \in Judged
    BY <1>2, <2>2
  <2> QED
    BY <2>2, <2>3, <2>4
<1> QED
  BY <1>6, <1>7

(* The rates that a generation collects are those of results that passed.  *)
LEMMA MeasuredRates ==
  ASSUME TypeOK, NEW selected \in SUBSET DOMAIN logs, NEW ei, NEW dir \in {"rx", "tx"}
  PROVE  LET results == ResultsIn(selected)
             d == Measured(results, ei, dir)
         IN  /\ IsData(d)
             /\ \A p \in DOMAIN d :
                  /\ p \in Valid(results) /\ Identity(results[p]) = ei
                  /\ d[p] = results[p].flow[dir]
                  /\ d[p] \in Nat
<1> DEFINE results == ResultsIn(selected)
           d == Measured(results, ei, dir)
           rate(i) == IF dir = "rx" THEN results[i].flow.rx ELSE results[i].flow.tx
           D == {j \in Valid(results) : Identity(results[j]) = ei /\ rate(j) # None}
<1>1. d = [i \in D |-> rate(i)]
  BY DEF Measured
<1>2. D \subseteq DOMAIN results /\ IsFiniteSet(D)
  <2>1. D \in SUBSET DOMAIN results
    BY DEF Valid
  <2>2. IsFiniteSet(DOMAIN results)
    BY ResultTypes
  <2> HIDE DEF D, results
  <2> QED
    BY <2>1, <2>2, FS_Subset
<1>3. ASSUME NEW p \in DOMAIN results, rate(p) # None
      PROVE  rate(p) \in Nat /\ rate(p) = results[p].flow[dir]
  <2>1. results[p] \in Judged
    BY ResultTypes
  <2> HIDE DEF results
  <2>2. results[p].flow \in Flows
    BY <2>1 DEF Judged
  <2> QED
    BY <1>3, <2>2 DEF Flows, Rates
<1> HIDE DEF results, rate
<1>4. \A p \in D : /\ p \in Valid(results) /\ Identity(results[p]) = ei
                   /\ rate(p) = results[p].flow[dir] /\ rate(p) \in Nat
  BY <1>2, <1>3
<1>5. DOMAIN d = D /\ \A p \in D : d[p] = rate(p)
  BY <1>1
<1> HIDE DEF d, D
<1>6. IsData(d)
  BY <1>2, <1>4, <1>5 DEF IsData
<1> QED
  BY <1>4, <1>5, <1>6 DEF d, results

(* An item that a generation makes.                                        *)
LEMMA NewItemTypes ==
  ASSUME TypeOK, NEW selected \in SUBSET DOMAIN logs, NEW ei, ei[2] \in BOOLEAN,
         NEW withConfig, NEW tightenOnly, NEW quorum
  PROVE  NewItem(withConfig, Config, ResultsIn(selected), ei, tightenOnly, quorum) \in Items
<1> DEFINE rate(dir) == AccumulateRate(Measured(ResultsIn(selected), ei, dir), quorum)
           old == GetItem(Config, ei[1], ei[2])
<1>1. ASSUME NEW dir \in {"rx", "tx"}
      PROVE  rate(dir) \in Rates
  <2> DEFINE d == Measured(ResultsIn(selected), ei, dir)
  <2>1. IsData(d)
    BY MeasuredRates
  <2> HIDE DEF d
  <2>2. AccumulateRate(d, quorum) \in Nat \cup {None}
    BY <2>1, AccumulateRateBounds
  <2> QED
    BY <2>2 DEF d, Rates
<1>2. old \in Items
  BY ParseTypes DEF TypeOK, Config, GetItem, IsConfig, NA, Items, Rates
<1> HIDE DEF old, rate
<1>3. \A a \in Rates, b \in Rates : TightenRate(a, b, tightenOnly) \in Rates
  BY DEF TightenRate, Rates
<1>4. old.rx \in Rates /\ old.tx \in Rates /\ rate("rx") \in Rates /\ rate("tx") \in Rates
  BY <1>1, <1>2 DEF Items
<1>5. NewItem(withConfig, Config, ResultsIn(selected), ei, tightenOnly, quorum) =
        IF withConfig THEN [rx |-> TightenRate(rate("rx"), old.rx, tightenOnly),
                            tx |-> TightenRate(rate("tx"), old.tx, tightenOnly)]
                      ELSE [rx |-> rate("rx"), tx |-> rate("tx")]
  BY Zenon DEF NewItem, rate, old
<1> QED
  BY <1>3, <1>4, <1>5 DEF Items

LEMMA GeneratedTypes ==
  ASSUME TypeOK, NEW selected \in SUBSET DOMAIN logs,
         NEW withConfig, NEW tightenOnly, NEW quorum
  PROVE  IsConfig(GenerateConfig(withConfig, Config, ResultsIn(selected), tightenOnly, quorum))
<1> DEFINE results == ResultsIn(selected)
           items == NewItems(withConfig, Config, results, tightenOnly, quorum)
           Ids == Identities(withConfig, Config, results)
           c == ResultConfig(withConfig, items)
<1>1. Ids \subseteq Keys \X BOOLEAN
  <2>1. DOMAIN Config \subseteq Keys
    BY ParseTypes DEF TypeOK, Config, IsConfig
  <2>2. ASSUME NEW p \in Valid(results)
        PROVE  Identity(results[p]) \in Keys \X BOOLEAN
    <3>1. p \in DOMAIN results
      BY DEF Valid
    <3>2. results[p] \in Judged
      BY <3>1, ResultTypes
    <3> HIDE DEF results
    <3>3. results[p].flow \in Flows
      BY <3>2 DEF Judged
    <3>4. results[p].flow.key \in Keys /\ results[p].flow.reverse \in BOOLEAN
      BY <3>3 DEF Flows
    <3> QED
      BY <3>4 DEF Identity
  <2> HIDE DEF results
  <2>3. CASE withConfig
    BY <2>1, <2>3 DEF Identities
  <2>4. CASE ~withConfig
    BY <2>2, <2>4 DEF Identities
  <2> QED
    BY <2>3, <2>4
<1>2. \A ei \in Ids : items[ei] \in Items
  <2>1. ASSUME NEW ei \in Ids
        PROVE  NewItem(withConfig, Config, results, ei, tightenOnly, quorum) \in Items
    <3>1. ei[2] \in BOOLEAN
      <4> HIDE DEF Ids
      <4> QED
        BY <1>1
    <3> QED
      BY <3>1, NewItemTypes
  <2> HIDE DEF results
  <2> QED
    BY <2>1 DEF NewItems
<1>3. DOMAIN items = Ids
  BY DEF NewItems
<1> HIDE DEF items, Ids
<1>4. ASSUME NEW k, NEW r \in BOOLEAN
      PROVE  (IF <<k, r>> \in DOMAIN items THEN items[<<k, r>>] ELSE NA) \in Items
  <2>1. NA \in Items
    BY DEF NA, Items, Rates
  <2> QED
    BY <1>2, <1>3, <2>1
<1>5. DOMAIN c \subseteq {ei[1] : ei \in DOMAIN items}
  BY DEF ResultConfig
<1>6. \A ei \in Ids : ei[1] \in Keys
  BY <1>1
<1>7. DOMAIN c \subseteq Keys
  <2> HIDE DEF c
  <2> QED
    BY <1>3, <1>5, <1>6
<1>8. \A k \in DOMAIN c : c[k] = [r \in BOOLEAN |->
         IF <<k, r>> \in DOMAIN items THEN items[<<k, r>>] ELSE NA]
  BY DEF ResultConfig
<1>9. c = [k \in DOMAIN c |-> c[k]]
  BY DEF ResultConfig
<1> HIDE DEF c
<1>10. ASSUME NEW k \in DOMAIN c
       PROVE  c[k] \in [BOOLEAN -> Items]
  <2> DEFINE item(r) == IF <<k, r>> \in DOMAIN items THEN items[<<k, r>>] ELSE NA
  <2>1. \A r \in BOOLEAN : item(r) \in Items
    BY <1>4
  <2>2. c[k] = [r \in BOOLEAN |-> item(r)]
    BY <1>8
  <2> HIDE DEF item
  <2> QED
    BY <2>1, <2>2
<1>11. IsConfig(c)
  BY <1>7, <1>9, <1>10 DEF IsConfig
<1> QED
  BY <1>11 DEF c, items, results, GenerateConfig

LEMMA InitTypes == Init => TypeOK
<1> SUFFICES ASSUME Init
             PROVE  TypeOK
  OBVIOUS
<1>1. IsFile(file)
  BY HandwrittenAssumption DEF Init
<1>2. logs = <<>> /\ evalWith = <<>> /\ Len(logs) = 0
  BY DEF Init
<1> QED
  BY <1>1, <1>2, QuorumsAssumption DEF TypeOK

(* A configuration to evaluate with.                                       *)
LEMMA ConfigTypes ==
  ASSUME TypeOK, NEW c \in {Config, Empty}
  PROVE  IsConfig(c)
<1>1. IsConfig(Config)
  BY ParseTypes DEF TypeOK, Config
<1>2. IsConfig(Empty)
  BY DEF IsConfig, Empty
<1> QED
  BY <1>1, <1>2

LEMMA TftRunTypes ==
  ASSUME TypeOK, LogsInv, NEW c \in {Config, Empty}, NEW m \in Measurements, TftRun(c, m)
  PROVE  TypeOK'
<1> DEFINE e == Eval(c, m)
<1>1. /\ logs' = Append(logs, e) /\ evalWith' = Append(evalWith, c) /\ file' = file
      /\ Len(logs) < MaxLogs /\ MaxLogs \in Nat
  BY QuorumsAssumption DEF TftRun
<1>2. m \in Seq(TftResult)
  BY MeasurementsAssumption DEF TftResults
<1>3. e \in Seq(Judged)
  BY <1>2, ConfigTypes, EvalTypes
<1> HIDE DEF e
<1>4. /\ logs' \in Seq(Seq(Judged)) /\ Len(logs') = Len(logs) + 1 /\ Len(logs) \in Nat
      /\ DOMAIN logs' = 1..Len(logs')
  BY <1>1, <1>3 DEF TypeOK, Judged
<1>5. /\ DOMAIN evalWith' = DOMAIN logs'
      /\ \A i \in DOMAIN evalWith' : IsConfig(evalWith'[i])
  <2>1. PICK T : evalWith \in Seq(T)
    BY DEF LogsInv
  <2>2. Len(evalWith) = Len(logs) /\ evalWith \in Seq(T \cup {c})
    BY <2>1 DEF LogsInv
  <2>3. /\ DOMAIN evalWith' = 1..(Len(logs) + 1)
        /\ \A i \in 1..Len(logs) : evalWith'[i] = evalWith[i]
        /\ evalWith'[Len(logs) + 1] = c
    BY <1>1, <1>4, <2>2
  <2>4. \A i \in 1..Len(logs) : IsConfig(evalWith[i])
    <3>1. 1..Len(logs) = DOMAIN evalWith
      BY <2>1, <2>2
    <3> QED
      BY <3>1, Zenon DEF TypeOK
  <2>5. \A i \in 1..(Len(logs) + 1) : i \in 1..Len(logs) \/ i = Len(logs) + 1
    BY <1>4
  <2> QED
    BY <1>4, <2>3, <2>4, <2>5, ConfigTypes
<1> QED
  BY <1>1, <1>4, <1>5 DEF TypeOK, Judged

LEMMA ReevaluateTypes ==
  ASSUME TypeOK, LogsInv, NEW c \in {Config, Empty}, NEW i \in DOMAIN logs, Reevaluate(c, i)
  PROVE  TypeOK'
<1> DEFINE e == Eval(c, logs[i])
<1>1. /\ logs' = [logs EXCEPT ![i] = e] /\ evalWith' = [evalWith EXCEPT ![i] = c]
      /\ file' = file
  BY DEF Reevaluate
<1>2. logs \in Seq(Seq(Judged)) /\ logs[i] \in Seq(Judged)
  BY DEF TypeOK, Judged
<1>3. e \in Seq(Judged)
  <2>1. \A o \in Judged : o \in TftResult
    BY DEF Judged, TftResult
  <2> QED
    BY <1>2, <2>1, ConfigTypes, EvalTypes
<1> HIDE DEF e
<1>4. logs' \in Seq(Seq(Judged)) /\ Len(logs') = Len(logs) /\ DOMAIN logs' = DOMAIN logs
  BY <1>1, <1>2, <1>3
<1>5. /\ DOMAIN evalWith' = DOMAIN evalWith
      /\ \A j \in DOMAIN evalWith : evalWith'[j] = IF j = i THEN c ELSE evalWith[j]
  <2>1. PICK T : evalWith \in Seq(T)
    BY DEF LogsInv
  <2> QED
    BY <1>1, <2>1
<1>6. \A j \in DOMAIN evalWith' : IsConfig(evalWith'[j])
  BY <1>5, ConfigTypes DEF TypeOK
<1> QED
  BY <1>1, <1>4, <1>5, <1>6 DEF TypeOK, Judged

LEMMA GenerateTypes ==
  ASSUME TypeOK, NEW withConfig, NEW tightenOnly, NEW quorum, NEW selected \in SUBSET DOMAIN logs,
         Generate(withConfig, tightenOnly, quorum, selected)
  PROVE  TypeOK'
<1> DEFINE c == GenerateConfig(withConfig, Config, ResultsIn(selected), tightenOnly, quorum)
<1>1. file' = Serialize(c) /\ UNCHANGED <<logs, evalWith>>
  BY DEF Generate
<1>2. IsConfig(c)
  BY GeneratedTypes
<1> HIDE DEF c
<1>3. IsFile(file')
  BY <1>1, <1>2, SerializeTypes
<1> QED
  BY <1>1, <1>3 DEF TypeOK

(* The files of thresholds and of results stay well formed, whatever is    *)
(* generated from whatever measurements: a threshold is a rate or none     *)
(* (generate_eval_config.py:74-132, evalConfig.py:171-204).                *)
THEOREM Types == Spec => []TypeOK
<1>1. TypeOK /\ LogsInv /\ [Next]_vars => TypeOK'
  <2> SUFFICES ASSUME TypeOK, LogsInv, [Next]_vars
               PROVE  TypeOK'
    OBVIOUS
  <2>1. ASSUME UNCHANGED vars
        PROVE  TypeOK'
    BY <2>1 DEF TypeOK, vars
  <2>2. CASE \E config \in {Config, Empty}, m \in Measurements : TftRun(config, m)
    BY <2>2, TftRunTypes
  <2>3. CASE \E config \in {Config, Empty}, i \in DOMAIN logs : Reevaluate(config, i)
    BY <2>3, ReevaluateTypes
  <2>4. CASE \E withConfig, tightenOnly \in BOOLEAN, quorum \in Quorums,
                selected \in SUBSET DOMAIN logs :
               Generate(withConfig, tightenOnly, quorum, selected)
    BY <2>4, GenerateTypes
  <2> QED
    BY <2>1, <2>2, <2>3, <2>4 DEF Next
<1> QED
  BY <1>1, InitTypes, LogsInvariance, PTL DEF Spec

-----------------------------------------------------------------------------
(* What a generation makes of the thresholds of an entry.                  *)
LEMMA GeneratedEntries ==
  ASSUME TypeOK, NEW withConfig, NEW tightenOnly, NEW quorum, NEW selected \in SUBSET DOMAIN logs,
         Generate(withConfig, tightenOnly, quorum, selected)
  PROVE  \A k \in DOMAIN Config', r \in BOOLEAN :
           \/ Config'[k][r] = NA
           \/ Config'[k][r] = NewItem(withConfig, Config, ResultsIn(selected), <<k, r>>,
                                      tightenOnly, quorum)
<1> DEFINE results == ResultsIn(selected)
           new(k, r) == NewItem(withConfig, Config, results, <<k, r>>, tightenOnly, quorum)
           items == NewItems(withConfig, Config, results, tightenOnly, quorum)
           c == ResultConfig(withConfig, items)
<1>1. file' = Serialize(c)
  BY DEF Generate, GenerateConfig
<1>2. IsConfig(c)
  BY GeneratedTypes DEF GenerateConfig
<1>3. \A k \in DOMAIN c, r \in BOOLEAN :
        c[k][r] = IF <<k, r>> \in DOMAIN items THEN items[<<k, r>>] ELSE NA
  BY DEF ResultConfig
<1>4. \A k, r : <<k, r>> \in DOMAIN items => items[<<k, r>>] = new(k, r)
  BY DEF NewItems
<1> HIDE DEF c, items, new
<1>5. Config' = c
  <2>1. \A k \in DOMAIN c, r \in BOOLEAN : c[k][r] \in Items
    BY <1>2 DEF IsConfig
  <2>2. \A item \in Items : IsItem(item)
    BY DEF Items, IsItem
  <2>3. c = [k \in DOMAIN c |-> [r \in BOOLEAN |-> c[k][r]]]
    BY <1>2 DEF IsConfig
  <2>4. Parse(Serialize(c)) = c
    BY <2>1, <2>2, <2>3, RoundTrip
  <2> QED
    BY <1>1, <2>4 DEF Config
<1> QED
  BY <1>3, <1>4, <1>5 DEF new

(* What is tightened is either what it was or what has been measured.      *)
LEMMA TightenRateIs ==
  ASSUME NEW a \in Rates, NEW old \in Rates, NEW tightenOnly,
         TightenRate(a, old, tightenOnly) # old
  PROVE  old # None /\ a # None /\ TightenRate(a, old, tightenOnly) = a
BY DEF TightenRate

(* The rate of an entry that a generation measured is one that it may take *)
(* as a threshold.                                                         *)
LEMMA Accumulated ==
  ASSUME TypeOK, NEW selected \in SUBSET DOMAIN logs, NEW ei, NEW dir \in {"rx", "tx"}, NEW quorum
  PROVE  LET results == ResultsIn(selected)
             a == AccumulateRate(Measured(results, ei, dir), quorum)
         IN  /\ a \in Rates
             /\ a # None =>
                  /\ \E p \in Valid(results) :
                       /\ Identity(results[p]) = ei /\ results[p].flow[dir] \in Nat
                       /\ a <= results[p].flow[dir]
                  /\ \A b \in Nat :
                       (\A p \in Valid(results) :
                          Identity(results[p]) = ei /\ results[p].flow[dir] # None =>
                            b <= results[p].flow[dir]) => 4 * b <= 5 * a
<1> DEFINE results == ResultsIn(selected)
           d == Measured(results, ei, dir)
           a == AccumulateRate(d, quorum)
<1>1. /\ IsData(d)
      /\ \A p \in DOMAIN d :
           /\ p \in Valid(results) /\ Identity(results[p]) = ei
           /\ d[p] = results[p].flow[dir] /\ d[p] \in Nat
  BY MeasuredRates
<1> HIDE DEF d, results
<1>2. CASE a = None
  BY <1>2 DEF Rates, d, results
<1>3. CASE a # None
  <2>1. /\ a \in Nat
        /\ \E p \in DOMAIN d : a <= d[p]
        /\ \A b \in Nat : (\A p \in DOMAIN d : b <= d[p]) => 4 * b <= 5 * a
    BY <1>1, <1>3, AccumulateRateBounds
  <2> HIDE DEF a
  <2>2. ASSUME NEW b \in Nat,
               \A p \in Valid(results) :
                 Identity(results[p]) = ei /\ results[p].flow[dir] # None =>
                   b <= results[p].flow[dir]
        PROVE  4 * b <= 5 * a
    <3>1. \A p \in DOMAIN d : d[p] # None
      BY <1>1, NoneAssumption
    <3> QED
      BY <1>1, <2>1, <2>2, <3>1
  <2>3. /\ a \in Rates
        /\ \E p \in Valid(results) :
             /\ Identity(results[p]) = ei /\ results[p].flow[dir] \in Nat
             /\ a <= results[p].flow[dir]
    BY <1>1, <2>1 DEF Rates
  <2> QED
    BY <2>2, <2>3 DEF a, d, results
<1> QED
  BY <1>2, <1>3

(* The two rates of an entry that is generated with a base.                *)
LEMMA EntryFromBase ==
  ASSUME TypeOK, NEW tightenOnly, NEW quorum, NEW selected \in SUBSET DOMAIN logs,
         Generate(TRUE, tightenOnly, quorum, selected),
         NEW k \in DOMAIN Config, NEW r \in BOOLEAN
  PROVE  LET rx == AccumulateRate(Measured(ResultsIn(selected), <<k, r>>, "rx"), quorum)
             tx == AccumulateRate(Measured(ResultsIn(selected), <<k, r>>, "tx"), quorum)
             new == GetItem(Config', k, r)
             old == Config[k][r]
         IN  /\ new.rx = TightenRate(rx, old.rx, tightenOnly)
             /\ new.tx = TightenRate(tx, old.tx, tightenOnly)
             /\ rx \in Rates /\ tx \in Rates /\ old.rx \in Rates /\ old.tx \in Rates
<1> DEFINE rx == AccumulateRate(Measured(ResultsIn(selected), <<k, r>>, "rx"), quorum)
           tx == AccumulateRate(Measured(ResultsIn(selected), <<k, r>>, "tx"), quorum)
           new == GetItem(Config', k, r)
           old == Config[k][r]
           item == NewItem(TRUE, Config, ResultsIn(selected), <<k, r>>, tightenOnly, quorum)
<1>1. /\ DOMAIN Config' = DOMAIN Config
      /\ Config'[k][r] = item
  <2>1. FromBase(tightenOnly, quorum, selected)
    BY GeneratedFromBase, Zenon
  <2> QED
    BY <2>1, Zenon DEF FromBase
<1>2. new = item
  <2> HIDE DEF item
  <2> QED
    BY <1>1 DEF GetItem
<1>3. GetItem(Config, <<k, r>>[1], <<k, r>>[2]) = old
  BY DEF GetItem
<1>4. old \in Items
  BY ParseTypes DEF TypeOK, Config, IsConfig
<1>5. rx \in Rates /\ tx \in Rates
  BY Accumulated
<1>6. item = [rx |-> TightenRate(rx, old.rx, tightenOnly),
              tx |-> TightenRate(tx, old.tx, tightenOnly)]
  <2> HIDE DEF old
  <2> QED
    BY <1>3, Zenon DEF NewItem
<1> HIDE DEF new, old, rx, tx, item
<1>7. /\ new.rx = TightenRate(rx, old.rx, tightenOnly)
      /\ new.tx = TightenRate(tx, old.tx, tightenOnly)
  BY <1>2, <1>6
<1>8. old.rx \in Rates /\ old.tx \in Rates
  BY <1>4 DEF Items
<1> QED
  BY <1>5, <1>7, <1>8 DEF new, old, rx, tx

(* With --tighten-only no flow passes by the new thresholds that failed by *)
(* the old ones, whatever was measured (generate_eval_config.py:53-72).    *)
THEOREM NeverForgives == Spec => TighteningNeverForgives
<1> DEFINE Never ==
      \A k \in DOMAIN Config, r \in BOOLEAN :
         LET new == GetItem(Config', k, r)
             old == Config[k][r]
         IN  AtLeast(new.rx, old.rx) /\ AtLeast(new.tx, old.tx)
<1>1. ASSUME NEW a \in Rates, NEW old \in Rates
      PROVE  AtLeast(TightenRate(a, old, TRUE), old)
  BY DEF TightenRate, AtLeast, Rates
<1>2. ASSUME TypeOK, NEW quorum, NEW selected \in SUBSET DOMAIN logs,
             Generate(TRUE, TRUE, quorum, selected)
      PROVE  Never
  <2> SUFFICES ASSUME NEW k \in DOMAIN Config, NEW r \in BOOLEAN
               PROVE  /\ AtLeast(GetItem(Config', k, r).rx, Config[k][r].rx)
                      /\ AtLeast(GetItem(Config', k, r).tx, Config[k][r].tx)
    OBVIOUS
  <2> DEFINE rx == AccumulateRate(Measured(ResultsIn(selected), <<k, r>>, "rx"), quorum)
             tx == AccumulateRate(Measured(ResultsIn(selected), <<k, r>>, "tx"), quorum)
             new == GetItem(Config', k, r)
             old == Config[k][r]
  <2>1. /\ new.rx = TightenRate(rx, old.rx, TRUE) /\ new.tx = TightenRate(tx, old.tx, TRUE)
        /\ rx \in Rates /\ tx \in Rates /\ old.rx \in Rates /\ old.tx \in Rates
    BY <1>2, EntryFromBase
  <2> HIDE DEF rx, tx, new, old
  <2>2. AtLeast(new.rx, old.rx) /\ AtLeast(new.tx, old.tx)
    BY <1>1, <2>1
  <2> QED
    BY <2>2 DEF new, old
<1>3. TypeOK => [GeneratedFrom({TRUE}) => Never]_vars
  <2> HIDE DEF Never
  <2> QED
    BY <1>2 DEF GeneratedFrom
<1> QED
  BY <1>3, Types, PTL DEF TighteningNeverForgives

(* What was measured in some files was measured in all of them.            *)
LEMMA ValidInAll ==
  ASSUME TypeOK, NEW selected \in SUBSET DOMAIN logs, NEW p \in Valid(ResultsIn(selected))
  PROVE  /\ p \in Valid(ResultsIn(DOMAIN logs))
         /\ ResultsIn(DOMAIN logs)[p] = ResultsIn(selected)[p]
<1>1. p \in DOMAIN ResultsIn(selected) /\ EvalAllSuccess(ResultsIn(selected)[p])
  BY DEF Valid
<1>2. p \in DOMAIN ResultsIn(DOMAIN logs)
  BY <1>1 DEF ResultsIn
<1>3. ResultsIn(DOMAIN logs)[p] = ResultsIn(selected)[p]
  BY <1>1, <1>2 DEF ResultsIn
<1> QED
  BY <1>1, <1>2, <1>3, Zenon DEF Valid

(* A threshold that a generation changed is one that a result which passed *)
(* has reached, for all measurements, all files of thresholds and quorums: *)
(* mean and deviation of whatever is left without the outliers do not ask  *)
(* for more than its greatest rate (generate_eval_config.py:99-132).       *)
THEOREM AlwaysAttainable == Spec => Attainable
<1> DEFINE passed(k, r) ==
             {ResultsIn(DOMAIN logs)[p].flow :
                p \in {q \in Valid(ResultsIn(DOMAIN logs)) :
                         Identity(ResultsIn(DOMAIN logs)[q]) = <<k, r>>}}
           Reached(new, old, flows) ==
             /\ new.rx \in {old.rx, None} \/ \E f \in flows : f.rx # None /\ f.rx >= new.rx
             /\ new.tx \in {old.tx, None} \/ \E f \in flows : f.tx # None /\ f.tx >= new.tx
           Within ==
             \A k \in DOMAIN Config', r \in BOOLEAN :
               Reached(Config'[k][r], GetItem(Config, k, r), passed(k, r))
<1>1. ASSUME UNCHANGED file
      PROVE  Within
  <2>1. Config' = Config
    BY <1>1 DEF Config
  <2>2. \A k \in DOMAIN Config, r \in BOOLEAN : Config'[k][r] = GetItem(Config, k, r)
    BY <2>1 DEF GetItem
  <2> HIDE DEF passed
  <2> QED
    BY <2>1, <2>2
<1>2. ASSUME TypeOK, NEW withConfig \in BOOLEAN, NEW tightenOnly, NEW quorum,
             NEW selected \in SUBSET DOMAIN logs,
             Generate(withConfig, tightenOnly, quorum, selected)
      PROVE  Within
  <2> SUFFICES ASSUME NEW k \in DOMAIN Config', NEW r \in BOOLEAN
               PROVE  Reached(Config'[k][r], GetItem(Config, k, r), passed(k, r))
    OBVIOUS
  <2> DEFINE results == ResultsIn(selected)
             rate(dir) == AccumulateRate(Measured(results, <<k, r>>, dir), quorum)
             new == Config'[k][r]
             old == GetItem(Config, k, r)
             flows == passed(k, r)
  <2>1. ASSUME NEW dir \in {"rx", "tx"}
        PROVE  /\ rate(dir) \in Rates
               /\ rate(dir) # None => \E f \in flows : f[dir] \in Nat /\ rate(dir) <= f[dir]
    <3>1. /\ rate(dir) \in Rates
          /\ rate(dir) # None =>
               \E p \in Valid(results) :
                 /\ Identity(results[p]) = <<k, r>> /\ results[p].flow[dir] \in Nat
                 /\ rate(dir) <= results[p].flow[dir]
      BY <1>2, Accumulated
    <3>2. ASSUME NEW p \in Valid(results), Identity(results[p]) = <<k, r>>
          PROVE  results[p].flow \in flows
      <4>1. p \in Valid(ResultsIn(DOMAIN logs)) /\ ResultsIn(DOMAIN logs)[p] = results[p]
        BY <1>2, ValidInAll
      <4> HIDE DEF results
      <4> QED
        BY <3>2, <4>1
    <3> HIDE DEF rate, results, flows
    <3> QED
      BY <3>1, <3>2
  <2>2. \/ new = NA
        \/ new = NewItem(withConfig, Config, results, <<k, r>>, tightenOnly, quorum)
    BY <1>2, GeneratedEntries
  <2>3. \/ new = NA
        \/ /\ new.rx = TightenRate(rate("rx"), old.rx, tightenOnly)
           /\ new.tx = TightenRate(rate("tx"), old.tx, tightenOnly)
        \/ new.rx = rate("rx") /\ new.tx = rate("tx")
    <3> HIDE DEF new, results
    <3> QED
      BY <2>2 DEF NewItem
  <2>4. old.rx \in Rates /\ old.tx \in Rates
    <3>1. IsConfig(Config) /\ NA \in Items
      BY <1>2, ParseTypes DEF TypeOK, Config, NA, Items, Rates
    <3>2. old \in Items
      BY <3>1 DEF GetItem, IsConfig
    <3> HIDE DEF old
    <3> QED
      BY <3>2 DEF Items
  <2>5. /\ new.rx \in {old.rx, None} \/ (rate("rx") # None /\ new.rx = rate("rx"))
        /\ new.tx \in {old.tx, None} \/ (rate("tx") # None /\ new.tx = rate("tx"))
    <3>1. rate("rx") \in Rates /\ rate("tx") \in Rates
      BY <2>1
    <3> HIDE DEF rate, new, old
    <3>2. CASE new = NA
      BY <3>2 DEF NA
    <3>3. CASE /\ new.rx = TightenRate(rate("rx"), old.rx, tightenOnly)
               /\ new.tx = TightenRate(rate("tx"), old.tx, tightenOnly)
      BY <2>4, <3>1, <3>3, TightenRateIs
    <3>4. CASE new.rx = rate("rx") /\ new.tx = rate("tx")
      BY <3>4
    <3> QED
      BY <2>3, <3>2, <3>3, <3>4
  <2>6. /\ rate("rx") # None => \E f \in flows : f.rx \in Nat /\ rate("rx") <= f.rx
        /\ rate("tx") # None => \E f \in flows : f.tx \in Nat /\ rate("tx") <= f.tx
        /\ rate("rx") \in Rates /\ rate("tx") \in Rates
    BY <2>1
  <2> HIDE DEF rate, new, old, flows
  <2>7. ASSUME rate("rx") # None
        PROVE  \E f \in flows : f.rx # None /\ f.rx >= rate("rx")
    BY <2>6, <2>7, NoneAssumption DEF Rates
  <2>8. ASSUME rate("tx") # None
        PROVE  \E f \in flows : f.tx # None /\ f.tx >= rate("tx")
    BY <2>6, <2>8, NoneAssumption DEF Rates
  <2>9. Reached(new, old, flows)
    BY <2>5, <2>7, <2>8
  <2> QED
    BY <2>9 DEF new, old, flows
<1>3. TypeOK /\ [Next]_vars => [Within]_vars
  <2> HIDE DEF Within
  <2> QED
    BY <1>1, <1>2 DEF Next, TftRun, Reevaluate, vars
<1> QED
  BY <1>3, Types, PTL DEF Spec, Attainable

(* A result that passed by the thresholds that it was last evaluated with  *)
(* has reached them.                                                       *)
LEMMA PassedReached ==
  ASSUME TypeOK, LogsInv, EvaluationForgets, NEW selected \in SUBSET DOMAIN logs,
         \A i \in DOMAIN evalWith : evalWith[i] = Config,
         NEW k \in DOMAIN Config, NEW r \in BOOLEAN,
         NEW p \in Valid(ResultsIn(selected)),
         Identity(ResultsIn(selected)[p]) = <<k, r>>
  PROVE  /\ IsPassing(ResultsIn(selected)[p].flow.rx, Config[k][r].rx)
         /\ IsPassing(ResultsIn(selected)[p].flow.tx, Config[k][r].tx)
<1> DEFINE o == ResultsIn(selected)[p]
           item == Config[k][r]
<1>1. p \in DOMAIN ResultsIn(selected) /\ EvalFlowSuccess(o)
  BY DEF Valid, EvalAllSuccess
<1>2. PICK i \in selected : \E j \in DOMAIN logs[i] : o = logs[i][j] /\ logs[i][j] \in Judged
  BY <1>1, ResultTypes
<1>3. PICK j \in DOMAIN logs[i] : o = logs[i][j] /\ logs[i][j] \in Judged
  BY <1>2
<1> DEFINE b == Bare(logs[i])[j]
<1>4. IsResult(b) /\ o = EvalTestResult(Config, b)
  <2>1. AreResults(logs[i]) /\ evalWith[i] = Config
    BY DEF LogsInv, TypeOK
  <2>2. logs[i] = Eval(Config, Bare(logs[i])) /\ DOMAIN Bare(logs[i]) = DOMAIN logs[i]
    BY <2>1 DEF EvaluationForgets, Bare
  <2>3. logs[i][j] = EvalTestResult(Config, b)
    BY <1>3, <2>2, Zenon DEF Eval
  <2>4. b = [logs[i][j] EXCEPT !.eval = None] /\ IsResult(logs[i][j])
    BY <1>3, <2>1 DEF Bare, AreResults
  <2>5. IsResult(b)
    <3> HIDE DEF b
    <3> QED
      BY <2>4, EvalIsResult DEF IsResult
  <2> QED
    BY <1>3, <2>3, <2>5
<1>5. o.eval \in Evals
  BY <1>3 DEF Judged
<1>6. Identity(o) = <<k, r>>
  OBVIOUS
<1> HIDE DEF o, b
<1>7. o.flow = b.flow /\ o.eval = EvalFlow(Config, b)
  <2>1. EvalTestResult(Config, b) =
          [flow |-> b.flow, plugins |-> b.plugins, eval |-> EvalFlow(Config, b)]
    BY <1>4, EvalIsResult
  <2>2. o = [flow |-> b.flow, plugins |-> b.plugins, eval |-> EvalFlow(Config, b)]
    BY <1>4, <2>1, Zenon
  <2> QED
    BY <2>2
<1>8. o.eval.success
  BY <1>1, <1>5, EvalsAssumption DEF EvalFlowSuccess
<1>9. GetItem(Config, b.flow.key, b.flow.reverse) = item
  <2>1. b.flow.key = k /\ b.flow.reverse = r
    BY <1>6, <1>7 DEF Identity
  <2> QED
    BY <2>1 DEF GetItem
<1> HIDE DEF item
<1>10. IsPassing(b.flow.rx, item.rx) /\ IsPassing(b.flow.tx, item.tx)
  <2>1. EvalFlow(Config, b) =
          [success |-> b.flow.success
                         /\ IsPassing(b.flow.rx, item.rx) /\ IsPassing(b.flow.tx, item.tx),
           rx |-> item.rx, tx |-> item.tx]
    BY <1>9, Zenon DEF EvalFlow
  <2>2. EvalFlow(Config, b).success =
          (b.flow.success /\ IsPassing(b.flow.rx, item.rx) /\ IsPassing(b.flow.tx, item.tx))
    BY <2>1
  <2> QED
    BY <1>7, <1>8, <2>2, Zenon
<1> QED
  BY <1>7, <1>10 DEF item, o

(* One rate of an entry, and the threshold that it had.                    *)
LEMMA AFifth ==
  ASSUME NEW a \in Rates, NEW old \in Rates, NEW tightenOnly,
         a # None /\ old # None => 4 * old <= 5 * a
  PROVE  LET new == TightenRate(a, old, tightenOnly)
         IN  old = None \/ (new # None /\ 5 * new >= 4 * old)
BY DEF TightenRate, Rates

(* No generation with a base lowers a threshold by more than a fifth, if   *)
(* the results were evaluated with that base: the mean without outliers of *)
(* what passed is at least the threshold (generate_eval_config.py:53-132). *)
THEOREM NeverMoreThanAFifth == Spec => AFifthAtMost
<1> DEFINE OldBase == \A i \in DOMAIN evalWith : evalWith[i] = Config
           Kept(new, old) == old = None \/ (new # None /\ 5 * new >= 4 * old)
           AFifthLess ==
             \A k \in DOMAIN Config, r \in BOOLEAN :
               /\ Kept(GetItem(Config', k, r).rx, Config[k][r].rx)
               /\ Kept(GetItem(Config', k, r).tx, Config[k][r].tx)
<1>1. ASSUME TypeOK, LogsInv, EvaluationForgets, OldBase, NEW tightenOnly, NEW quorum,
             NEW selected \in SUBSET DOMAIN logs,
             Generate(TRUE, tightenOnly, quorum, selected)
      PROVE  AFifthLess
  <2> SUFFICES ASSUME NEW k \in DOMAIN Config, NEW r \in BOOLEAN
               PROVE  /\ Kept(GetItem(Config', k, r).rx, Config[k][r].rx)
                      /\ Kept(GetItem(Config', k, r).tx, Config[k][r].tx)
    OBVIOUS
  <2> DEFINE results == ResultsIn(selected)
             rate(dir) == AccumulateRate(Measured(results, <<k, r>>, dir), quorum)
             new == GetItem(Config', k, r)
             old == Config[k][r]
  <2>1. /\ new.rx = TightenRate(rate("rx"), old.rx, tightenOnly)
        /\ new.tx = TightenRate(rate("tx"), old.tx, tightenOnly)
        /\ rate("rx") \in Rates /\ rate("tx") \in Rates /\ old.rx \in Rates /\ old.tx \in Rates
    BY <1>1, EntryFromBase
  <2>2. ASSUME NEW dir \in {"rx", "tx"}, rate(dir) # None, NEW b \in Nat,
               \A p \in Valid(results) :
                 Identity(results[p]) = <<k, r>> => IsPassing(results[p].flow[dir], b)
        PROVE  4 * b <= 5 * rate(dir)
    <3>1. ASSUME NEW p \in Valid(results), Identity(results[p]) = <<k, r>>,
                 results[p].flow[dir] # None
          PROVE  b <= results[p].flow[dir]
      <4>1. p \in DOMAIN results
        BY DEF Valid
      <4>2. results[p] \in Judged
        BY <1>1, <4>1, ResultTypes
      <4> HIDE DEF results
      <4>3. results[p].flow[dir] \in Nat
        BY <3>1, <4>2 DEF Judged, Flows, Rates
      <4>4. IsPassing(results[p].flow[dir], b)
        BY <2>2, <3>1
      <4> QED
        BY <4>3, <4>4, NoneAssumption DEF IsPassing
    <3> QED
      BY <1>1, <2>2, <3>1, Accumulated
  <2>3. ASSUME NEW p \in Valid(results), Identity(results[p]) = <<k, r>>
        PROVE  IsPassing(results[p].flow.rx, old.rx) /\ IsPassing(results[p].flow.tx, old.tx)
    BY <1>1, <2>3, PassedReached
  <2> HIDE DEF results, rate, new, old
  <2>4. rate("rx") # None /\ old.rx # None => 4 * old.rx <= 5 * rate("rx")
    BY <2>1, <2>2, <2>3 DEF Rates
  <2>5. rate("tx") # None /\ old.tx # None => 4 * old.tx <= 5 * rate("tx")
    BY <2>1, <2>2, <2>3 DEF Rates
  <2>6. Kept(new.rx, old.rx) /\ Kept(new.tx, old.tx)
    BY <2>1, <2>4, <2>5, AFifth
  <2> QED
    BY <2>6 DEF new, old
<1>2. TypeOK /\ LogsInv /\ EvaluationForgets =>
        [GeneratedFrom(BOOLEAN) /\ OldBase => AFifthLess]_vars
  <2> HIDE DEF AFifthLess, OldBase
  <2> QED
    BY <1>1 DEF GeneratedFrom
<1> QED
  BY <1>2, Types, LogsInvariance, PTL DEF AFifthAtMost

-----------------------------------------------------------------------------
(* Counting failures finds one where there is one.                         *)
LEMMA Counts ==
  ASSUME NEW A, NEW B, IsFiniteSet(A), IsFiniteSet(B)
  PROVE  Cardinality(A) + Cardinality(B) = 0 <=> A = {} /\ B = {}
<1>1. Cardinality(A) \in Nat /\ Cardinality(B) \in Nat
  BY FS_CardinalityType
<1>2. Cardinality(A) + Cardinality(B) = 0 <=> Cardinality(A) = 0 /\ Cardinality(B) = 0
  BY <1>1
<1> QED
  BY <1>2, FS_EmptySet

LEMMA Verdicts ==
  ASSUME NEW L \in Seq(Judged)
  PROVE  PassFail(L) = ProcessResults(L)
<1> DEFINE failing(i) == {q \in DOMAIN L[i].plugins : ~L[i].plugins[q]}
           f == [i \in DOMAIN L |-> {<<i, q>> : q \in failing(i)}]
           A == {i \in DOMAIN L : ~EvalFlowSuccess(L[i])}
           B == UNION {f[i] : i \in DOMAIN L}
<1>1. IsFiniteSet(DOMAIN L)
  BY FS_Interval
<1>2. IsFiniteSet(A)
  <2>1. A \in SUBSET DOMAIN L
    OBVIOUS
  <2> HIDE DEF A
  <2> QED
    BY <1>1, <2>1, FS_Subset
<1>3. IsFiniteSet(B)
  <2>1. ASSUME NEW i \in DOMAIN L
        PROVE  IsFiniteSet(f[i])
    <3>1. L[i].plugins \in Seq(BOOLEAN)
      <4>1. L[i] \in Judged
        OBVIOUS
      <4> QED
        BY <4>1 DEF Judged
    <3>2. IsFiniteSet(DOMAIN L[i].plugins)
      BY <3>1, FS_Interval
    <3>3. failing(i) \in SUBSET DOMAIN L[i].plugins
      OBVIOUS
    <3>4. IsFiniteSet(failing(i))
      <4> HIDE DEF failing
      <4> QED
        BY <3>2, <3>3, FS_Subset
    <3>5. IsFiniteSet({i} \X failing(i))
      BY <3>4, FS_Singleton, FS_Product
    <3>6. f[i] = {i} \X failing(i)
      BY DEF failing
    <3> QED
      BY <3>5, <3>6
  <2> HIDE DEF f
  <2> QED
    BY <1>1, <2>1, FiniteUnion
<1>4. B = UNION {{<<i, q>> : q \in failing(i)} : i \in DOMAIN L}
  OBVIOUS
<1>5. PassFail(L) = (Cardinality(A) + Cardinality(B) = 0)
  BY <1>4, Zenon DEF PassFail
<1>6. B = {} <=> \A i \in DOMAIN L : EvalPluginsSuccess(L[i])
  <2>1. \A i \in DOMAIN L : failing(i) = {} <=> EvalPluginsSuccess(L[i])
    BY DEF EvalPluginsSuccess
  <2>2. B = {} <=> \A i \in DOMAIN L : f[i] = {}
    <3> HIDE DEF f
    <3> QED
      OBVIOUS
  <2>3. \A i \in DOMAIN L : f[i] = {} <=> failing(i) = {}
    <3> HIDE DEF failing
    <3> QED
      OBVIOUS
  <2> HIDE DEF failing, B, f
  <2> QED
    BY <2>1, <2>2, <2>3
<1>7. ProcessResults(L) <=> A = {} /\ \A i \in DOMAIN L : EvalPluginsSuccess(L[i])
  BY DEF ProcessResults, GroupFail, EvalAllSuccess
<1> HIDE DEF A, B
<1>8. PassFail(L) <=> ProcessResults(L)
  BY <1>2, <1>3, <1>5, <1>6, <1>7, Counts
<1> QED
  BY <1>8, Zenon DEF PassFail, ProcessResults

(* The logged verdict is the one of the exit code, whatever was measured   *)
(* and evaluated in whatever order (tftbase.py:630-680, print_results.py:  *)
(* 71-90).                                                                 *)
THEOREM VerdictsAlwaysAgree == Spec => []VerdictsAgree
<1>1. TypeOK => VerdictsAgree
  <2> SUFFICES ASSUME TypeOK, NEW i \in DOMAIN logs
               PROVE  PassFail(logs[i]) = ProcessResults(logs[i])
    BY DEF VerdictsAgree
  <2>1. logs[i] \in Seq(Judged)
    BY DEF TypeOK, Judged
  <2> QED
    BY <2>1, Verdicts
<1> QED
  BY <1>1, Types, PTL

-----------------------------------------------------------------------------
(* The files of the two tools.  Nothing is written before everything is    *)
(* loaded, and the evaluator has loaded its log when it writes.            *)
FilesInv ==
  /\ FilesTypeOK
  /\ pc \in {"config", "logs", "failed"} => fs = found
  /\ pc \in {"config", "logs", "writing"} => job \in Jobs
  /\ pc = "writing" => todo = {}
  /\ pc \in {"config", "logs", "writing"} /\ job.tool = "evaluator" =>
       todo # {} \/ rates # {}

LEMMA LevelTypes ==
  /\ Levels \subseteq Nat /\ 0 \in Levels /\ Unreadable \notin Levels
  /\ IsFiniteSet(Levels)
BY LevelAssumption, FS_Interval DEF Levels, Unreadable

LEMMA JobTypes ==
  ASSUME NEW j \in Jobs
  PROVE  /\ j.config \in Configs \cup {Nothing} /\ j.logs \in SUBSET Logs /\ j.output \in Paths
         /\ j.tool = "evaluator" => j.logs # {}
<1>1. j \in Invocations
  BY JobsAssumption
<1>2. j.tool = "evaluator" => Cardinality(j.logs) = 1
  BY JobsAssumption
<1>3. Cardinality({}) # 1
  BY FS_EmptySet
<1> QED
  BY <1>1, <1>2, <1>3 DEF Invocations

(* A file is read only if there is a level in it.                          *)
LEMMA ReadableLevels ==
  ASSUME FilesTypeOK, NEW p \in Paths, Readable(p)
  PROVE  fs[p].level \in Levels
<1>1. fs[p] \in [whole : BOOLEAN, level : Levels \cup {Unreadable}]
  BY DEF FilesTypeOK, Files, Readable
<1> QED
  BY <1>1 DEF Readable

(* The thresholds of a generation, or of an evaluation, are those of its   *)
(* base or of one of its logs.                                             *)
LEMMA ResultLevels ==
  ASSUME FilesInv, pc = "writing"
  PROVE  Result \in Levels
<1>1. rates \subseteq Levels /\ base \in Levels
  BY DEF FilesInv, FilesTypeOK
<1>2. job.tool = "evaluator" => rates # {}
  BY DEF FilesInv
<1>3. rates # {} => Min(rates) \in Levels
  <2>1. rates \in SUBSET Levels /\ rates \subseteq Int /\ IsFiniteSet(Levels)
    BY <1>1, LevelTypes
  <2>2. IsFiniteSet(rates)
    BY <2>1, FS_Subset
  <2>3. rates # {} => \E i \in rates : \A j \in rates : i <= j
    BY <2>1, <2>2, Smallest
  <2> QED
    BY <1>1, <2>3 DEF Min
<1> QED
  BY <1>1, <1>2, <1>3, LevelTypes DEF Result

LEMMA FilesInitially == FilesInit => FilesInv
<1> SUFFICES ASSUME FilesInit
             PROVE  FilesInv
  OBVIOUS
<1>1. \A l \in Levels \ {0} : Whole(l) \in Files
  BY DEF Whole, Files
<1>2. {Nothing} \cup {Whole(l) : l \in Levels \ {0}} \subseteq Files
  BY <1>1 DEF Files
<1>3. fs \in [Paths -> Files]
  BY <1>2 DEF FilesInit
<1> QED
  BY <1>3, LevelTypes DEF FilesInit, FilesInv, FilesTypeOK

LEMMA FilesSteps ==
  ASSUME FilesInv, [FilesNext]_filesVars
  PROVE  FilesInv'
<1> USE DEF FilesInv
<1>1. ASSUME NEW j \in Jobs, Begin(j)
      PROVE  FilesInv'
  BY <1>1, JobTypes, LevelTypes DEF Begin, FilesTypeOK
<1>2. ASSUME LoadConfig
      PROVE  FilesInv'
  <2>1. CASE job.config = Nothing \/ Readable(job.config)
    <3>1. job \in Jobs
      BY <1>2 DEF LoadConfig
    <3>2. base' \in Levels
      BY <1>2, <2>1, <3>1, JobTypes, ReadableLevels, LevelTypes DEF LoadConfig, Paths
    <3> QED
      BY <1>2, <2>1, <3>1, <3>2 DEF LoadConfig, FilesTypeOK
  <2>2. CASE ~(job.config = Nothing \/ Readable(job.config))
    BY <1>2, <2>2 DEF LoadConfig, Fail, FilesTypeOK
  <2> QED
    BY <2>1, <2>2
<1>3. ASSUME LoadLog
      PROVE  FilesInv'
  <2>1. PICK l \in todo :
          IF Readable(l) \/ (job.tool = "generate_eval_config" /\ job.skip)
            THEN /\ rates' = IF Readable(l) THEN rates \cup {fs[l].level} ELSE rates
                 /\ todo' = todo \ {l}
                 /\ UNCHANGED <<fs, job, pc, base, found>>
            ELSE Fail
    BY <1>3 DEF LoadLog
  <2>2. pc = "logs" /\ job \in Jobs /\ l \in Paths
    BY <1>3 DEF LoadLog, FilesTypeOK, Paths
  <2>3. CASE Readable(l)
    BY <2>1, <2>2, <2>3, ReadableLevels DEF FilesTypeOK
  <2>4. CASE ~Readable(l) /\ job.tool = "generate_eval_config" /\ job.skip
    BY <2>1, <2>2, <2>4 DEF FilesTypeOK
  <2>5. CASE ~(Readable(l) \/ (job.tool = "generate_eval_config" /\ job.skip))
    BY <2>1, <2>2, <2>5 DEF Fail, FilesTypeOK
  <2> QED
    BY <2>3, <2>4, <2>5
<1>4. ASSUME OpenOutput
      PROVE  FilesInv'
  <2>1. job \in Jobs /\ job.output \in Paths
    BY <1>4, JobTypes DEF OpenOutput
  <2>2. Emptied(job.output) \in Files
    BY LevelTypes DEF Emptied, Files
  <2>3. CASE /\ fs' = [fs EXCEPT ![job.output] = Emptied(job.output)]
             /\ pc' = "writing"
             /\ UNCHANGED <<job, todo, base, rates, found>>
    BY <1>4, <2>1, <2>2, <2>3 DEF OpenOutput, FilesTypeOK
  <2>4. CASE Fail
    BY <1>4, <2>4 DEF OpenOutput, Fail, FilesTypeOK
  <2> QED
    BY <1>4, <2>3, <2>4 DEF OpenOutput
<1>5. ASSUME Write
      PROVE  FilesInv'
  <2>1. pc = "writing" /\ job \in Jobs /\ job.output \in Paths
    BY <1>5, JobTypes DEF Write
  <2>2. Result \in Levels
    BY <2>1, ResultLevels
  <2>3. Part(job.output, Result) \subseteq Files /\ Whole(Result) \in Files
    <3>1. 0..Result \subseteq Levels
      BY <2>2, LevelAssumption DEF Levels
    <3> QED
      BY <2>2, <3>1 DEF Part, Whole, Files
  <2> HIDE DEF Result
  <2>4. CASE /\ \E part \in Part(job.output, Result) : fs' = [fs EXCEPT ![job.output] = part]
             /\ UNCHANGED <<job, pc>>
    <3>1. fs' \in [Paths -> Files]
      BY <2>1, <2>3, <2>4 DEF FilesTypeOK
    <3> QED
      BY <1>5, <2>1, <2>4, <3>1 DEF Write, FilesTypeOK
  <2>5. CASE /\ fs' = [fs EXCEPT ![job.output] = Whole(Result)]
             /\ pc' = "idle" /\ job' = Nothing
    <3>1. fs' \in [Paths -> Files]
      BY <2>1, <2>3, <2>5 DEF FilesTypeOK
    <3> QED
      BY <1>5, <2>1, <2>5, <3>1 DEF Write, FilesTypeOK
  <2> QED
    BY <1>5, <2>4, <2>5 DEF Write
<1>6. ASSUME Crash
      PROVE  FilesInv'
  BY <1>6 DEF Crash, FilesTypeOK
<1>7. ASSUME UNCHANGED filesVars
      PROVE  FilesInv'
  BY <1>7 DEF filesVars, FilesTypeOK
<1> QED
  BY <1>1, <1>2, <1>3, <1>4, <1>5, <1>6, <1>7 DEF FilesNext

LEMMA FilesInvariance == FilesSpec => []FilesInv
<1>1. FilesInv /\ [FilesNext]_filesVars => FilesInv'
  BY FilesSteps
<1> QED
  BY <1>1, FilesInitially, PTL DEF FilesSpec

(* What is loaded has been readable: a log that was cut short never counts *)
(* as a measurement, and the evaluator never judges without one            *)
(* (generate_eval_config.py:30-47, evaluator.py:137-155).                  *)
THEOREM FilesTypes == FilesSpec => []FilesTypeOK
<1>1. FilesInv => FilesTypeOK
  BY DEF FilesInv
<1> QED
  BY <1>1, FilesInvariance, PTL

(* A tool that gives up has left the files as it found them, whatever they *)
(* are and wherever it was to write (generate_eval_config.py:309-356).     *)
THEOREM FailuresChangeNothing == FilesSpec => []FailureChangesNothing
<1>1. FilesInv => FailureChangesNothing
  BY DEF FilesInv, FailureChangesNothing
<1> QED
  BY <1>1, FilesInvariance, PTL
=============================================================================
