\* One account with every template, three accounts and two slots, proxies that
\* fail, and two accounts with one balance.
SPECIFICATION FairSpec
CONSTANTS
  Accounts = {1, 2, 3}
  Keys = {1, 2}
  Unlisted = {2}
  Prices = {0, 6, 12}
  Discount = 2
  MaxConcurrentChecks = 2
  Names = {"templates", "usage", "midnight", "slots", "proxies", "shared", "recharge", "gap"}
  Environments <- MCEnvs
INVARIANTS TypeOK ChecksDontShare
PROPERTIES RatesFromEvidence CyclesEnd AccountsFollow
