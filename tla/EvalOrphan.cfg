SPECIFICATION Spec
CONSTANTS
  MaxRuns = 1
  Accounts = {a1}
  MaxQuestions = 1
  Workers = {w1}
  MaxFaults = 1
  MaxRestarts = 1
  None = None
INVARIANTS
  RestartLeavesNothingUnderWay
