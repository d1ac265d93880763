\* Two rules, failures of every transaction and mail, a crash, lost answers.
CONSTANTS
  Budget = budget
  Rules = {total, budget}
  Now = 5
  Interval = 1
  Window = 1
  Cooldown = 3
  Names = {"pair", "crash", "lost"}
  Environments <- MCEnvironments
SPECIFICATION FairSpec
INVARIANTS TypeOK NoSilentIncident MailsAreEarned
PROPERTIES ReaderLearnsOfCost
