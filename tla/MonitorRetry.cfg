\* Errors and probes that fail.
CONSTANTS
  Accounts = {1, 2, 3}
  Concurrency = 2
  Now = 13
  Interval = 3
  Grace = 2
  Tiers <- MCTiers
  IdleFloor = 9
  IdleAfter = 9
  ErrorWindow = 12
  FailureThreshold = 2
  RecoveryThreshold = 1
  Names = {"incident"}
  Environments <- MCEnvironments
SPECIFICATION Spec
INVARIANT FirstRetryInTime
