CONSTANTS
  Groups = {1, 2}
  Accounts = {1, 2, 3}
  MaxRate = 3
  StepLimit = 1
  Deadband = 1
  MinRequests = 1
  MaxRows = 3
  MaxAge = 3
  InitialRate = 3
  DefaultRate = 1
  Names = {"pair", "shift", "both", "initial", "clock", "stall", "blocked"}
  Environments <- MCEnvironments
SPECIFICATION FairSpec
INVARIANTS TypeOK NoRestlessRates HealthIsTrue
PROPERTIES LedgerSpec GroupsFollow
