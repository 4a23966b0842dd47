----------------------------- MODULE EvalConfig -----------------------------
(***************************************************************************)
(* The file of thresholds (eval-config.yaml): what it may say, what is     *)
(* read from it, and what is written for it.                               *)
(*                                                                         *)
(* A key stands for a test type and a test case; the flow of an entry runs *)
(* in the normal direction or in reverse.  Rates are whole numbers of some *)
(* unit.  The YAML syntax, unknown and duplicate keys are left out.        *)
(*                                                                         *)
(* A definition marked "variation" is a faulty form of the definition that *)
(* follows it; no other definition uses it.                                *)
(***************************************************************************)
EXTENDS Integers

CONSTANTS
  Keys,  \* pairs of a TestType and a TestCaseType
  None   \* Python's None: no threshold, no rate

ASSUME NoneAssumption == None \notin Nat

Rates == Nat \cup {None}

(* TestItem, the two directions of a TestCaseData, and a parsed Config.    *)
Items   == [rx : Rates, tx : Rates]
NA      == [rx |-> None, tx |-> None]
IsConfig(c) == DOMAIN c \subseteq Keys /\ c \in [DOMAIN c -> [BOOLEAN -> Items]]
Empty   == [k \in {} |-> [reverse \in BOOLEAN |-> NA]]

(* The file: a direction that it leaves out has no thresholds.             *)
ItemFields == {"threshold", "threshold_rx", "threshold_tx"}
IsFile(file) ==
  /\ DOMAIN file \subseteq Keys
  /\ \A k \in DOMAIN file :
       /\ DOMAIN file[k] \subseteq BOOLEAN
       /\ \A r \in DOMAIN file[k] : /\ DOMAIN file[k][r] \subseteq ItemFields
                                    /\ file[k][r] \in [DOMAIN file[k][r] -> Nat]

(* "threshold" stands for both and cannot be set together with one of them.*)
ItemLoads(i) == "threshold" \in DOMAIN i => DOMAIN i = {"threshold"}
Loads(file)  == \A k \in DOMAIN file : \A r \in DOMAIN file[k] : ItemLoads(file[k][r])

Threshold(i, field) ==
  IF field \in DOMAIN i THEN i[field]
    ELSE IF "threshold" \in DOMAIN i THEN i["threshold"] ELSE None

ParseItem(i) == [rx |-> Threshold(i, "threshold_rx"), tx |-> Threshold(i, "threshold_tx")]

Parse(file) ==
  [k \in DOMAIN file |->
     [r \in BOOLEAN |-> IF r \in DOMAIN file[k] THEN ParseItem(file[k][r]) ELSE NA]]

-----------------------------------------------------------------------------
HasThresholds(item) == item.rx # None \/ item.tx # None

OneOrTwo(item) ==
  [f \in {g \in {"threshold_rx", "threshold_tx"} :
            (IF g = "threshold_rx" THEN item.rx ELSE item.tx) # None} |->
     IF f = "threshold_rx" THEN item.rx ELSE item.tx]

(* Variation: the common threshold is written beside the two it stands for. *)
SerializeItemBoth(item) ==
  [f \in DOMAIN OneOrTwo(item) \cup
           (IF item.rx = item.tx THEN {"threshold"} ELSE {}) |->
     IF f = "threshold" THEN item.rx ELSE OneOrTwo(item)[f]]

SerializeItem(item) ==
  IF item.rx = item.tx THEN [f \in {"threshold"} |-> item.rx] ELSE OneOrTwo(item)

Serialize(config) ==
  [k \in DOMAIN config |->
     [r \in {d \in BOOLEAN : HasThresholds(config[k][d])} |-> SerializeItem(config[k][r])]]

GetItem(config, k, r) == IF k \in DOMAIN config THEN config[k][r] ELSE NA
=============================================================================
