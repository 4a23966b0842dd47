SPECIFICATION Spec
CONSTANTS
  k1 = k1
  k2 = k2
  None = None
  Keys <- TheKeys
  Handwritten <- TwoFiles
  Measurements <- FourTests
  Quorums = {0, 2}
  MaxLogs = 2
INVARIANTS TypeOK EvaluationForgets VerdictsAgree GeneratedLoads
PROPERTIES ThresholdsStay TighteningNeverForgives Attainable AFifthAtMost
