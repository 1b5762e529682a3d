SPECIFICATION Spec
CONSTANTS
  Accounts = {a1}
  Workers = {w1, w2}
  Sweepers = {s1}
  Logins = {l1, l2}
  NoRow = NoRow
  NoAccount = NoAccount
  Life = 3
  Window = 2
  MinRetry = 1
  Limit = 1
  MaxFailures = 3
  MaxAttempts = 2
  Horizon = 4
  MaxLogins = 2
  MaxEvents = 1
  MaxFaults = 2
  MaxUpsets = 2
  MaxLate = 1
  OperatorSets = {"healthy"}
SYMMETRY MCSymmetry
INVARIANTS TypeOK ExpiryNeverOverstated RefreshedInTime OnlyDeadTokensKill
PROPERTIES OnlyHumansRevive
CHECK_DEADLOCK FALSE
