CONSTANTS
  Best = 10
  Explore = 20
  Neutral = 50
  Poor = 90
  Unavailable = 100
  RampStep = 20
  RampMaxSteps = 4
  RecoveryStep = 20
  RecoverySlowStep = 10
  ReliabilityStep = 5
  Accounts = {1,2}
  Start = {50}
  Now = 6
  Interval = 2
  RecoveryTime = 2
  ExploreTime = 2
  Window = 4
  Grace = 2
  Cooldown = 2
  NoResultBackoff = 2
  ResetAfter = 4
  Retention = 4
  Backoffs <- MCOneTier
  Confirmations = 2
  Cycles = 2
  Watched = {}
  Names = {"trial", "explore"}
  Environments <- MCEnvironments
SPECIFICATION FairSpec
PROPERTIES SlotIsShared
