SPECIFICATION FairSpec
CONSTANTS
  MaxRuns = 2
  Accounts = {a1}
  MaxQuestions = 1
  Workers = {w1}
  MaxFaults = 1
  MaxRestarts = 1
  None = None
INVARIANTS
  NothingLeftQueued
  OneBatchAtATime
  NoRunLeftBehind
  RetryOnlyUnfinished
PROPERTIES
  HistoryKept
  EveryBatchEnds
