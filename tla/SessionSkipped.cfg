SPECIFICATION Spec
CONSTANTS
  Accounts = {a1}
  Workers = {w1}
  Sweepers = {s1}
  Logins = {l1}
  NoRow = NoRow
  NoAccount = NoAccount
  Life = 3
  Window = 2
  MinRetry = 1
  Limit = 1
  MaxFailures = 3
  MaxAttempts = 2
  Horizon = 3
  MaxLogins = 0
  MaxEvents = 0
  MaxFaults = 1
  MaxUpsets = 1
  MaxLate = 0
  OperatorSets = {"healthy"}
PROPERTIES SkippedIsInFlight
CHECK_DEADLOCK FALSE
