\* Two accounts and three proxies, one of which is registered on the way.
SPECIFICATION Spec
CONSTANTS
  Accounts = {a1, a2}
  Proxies = {1, 2, 3}
  Stock = {1, 2}
  Jobs = {j1, j2}
  NoAccount = NoAccount
  NoProxy = NoProxy
  DownAfter = 2
  SwapAfter = 1
  OutageMinCount = 2
  OutagePercent = 50
  SweepLimit = 2
  ReconcileLimit = 1
  MaxOps = 3
  MaxChecks = 3
  MaxJobs = 2
  MaxRequests = 4
SYMMETRY MCSymmetry
INVARIANTS TypeOK ClaimHolds LinkAgrees SharedOnlyWhenHanded DownNeedsStreak
PROPERTIES RetiredForGood OutageCondemnsNobody
CHECK_DEADLOCK FALSE
