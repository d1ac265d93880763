CONSTANTS
  Best = 10
  Explore = 20
  Neutral = 50
  Poor = 90
  Unavailable = 1000
  RampStep = 20
  RampMaxSteps = 4
  RecoveryStep = 16
  RecoverySlowStep = 8
  ReliabilityStep = 5
  Accounts = {1}
  Start = {50}
  Now = 12
  Interval = 2
  RecoveryTime = 3
  ExploreTime = 4
  Window = 6
  Grace = 4
  Cooldown = 3
  NoResultBackoff = 4
  ResetAfter = 8
  Retention = 9
  Backoffs <- MCBackoffs
  Confirmations = 2
  Cycles = 2
  Watched = {1}
  Names = {"crash"}
  Environments <- MCEnvironments
SPECIFICATION Spec
PROPERTIES EveryStepObserved
