SPECIFICATION Spec
CONSTANTS
  MaxRuns = 1
  Accounts = {a1, a2}
  MaxQuestions = 2
  Workers = {w1, w2}
  MaxFaults = 1
  MaxRestarts = 1
  None = None
SYMMETRY EvalSymmetry
INVARIANTS
  TypeOK
  StatusMatchesCells
  AskedAtMostOnce
