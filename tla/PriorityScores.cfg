CONSTANTS
  Best = 10
  Explore = 20
  Neutral = 50
  Poor = 90
  Unavailable = 1000
  RampStep = 20
  RampMaxSteps = 4
  RecoveryStep = 16
  RecoverySlowStep = 8
  Accounts = {1, 2, 3}
  Pools = {"p"}
  Pause = 0
  FastWindow = 1
  MainWindow = 2
  ReportWindow = 3
  TrafficWindow = 4
  HalfLife = 3
  FastRequests = 2
  FastTokens = 3
  MainRequests = 1
  MainTokens = 2
  FullRequests = 2
  FullTokens = 4
  FullContinuous = 1
  SteadyRequests = 6
  Unit = 840
  Environments <- MCEnvironments
SPECIFICATION Spec
INVARIANTS TypeOK MetricsAreTrue ScoresFollowCosts EstimatesAreBacked
PROPERTIES NeverOvershoots MovesAreMeasured WalkSpec
