SPECIFICATION Spec
SYMMETRY Symmetry
CONSTANTS
  Callers = {c1, c2}
  Givens <- MCGivens
  AtStart <- MCFiles
  MaxChanges = 1
INVARIANTS
  PairFromOneSource
  OneClientPerSide
  CheckedNeverRaises
