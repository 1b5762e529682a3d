\* One job of a pipeline, three workers, every kind of fault.
SPECIFICATION Spec
CONSTANTS
  Jobs = {j1}
  PipelineJobs = {j1}
  Workers = {w1, w2, w3}
  NoWorker = NoWorker
  NoJob = NoJob
  MaxAttempts = 2
  MaxStalled = 1
  Faults = {"crash", "lostReply", "lockLoss", "dbError", "slow"}
  MaxFaults = 4
INVARIANTS
  TypeOK
  OneClaimant
  AttemptsBounded
  GivenUpWhenExhausted
  QueueAgreesWithRow
  OutcomesTellTheTruth
  ActsAreAttempts
PROPERTIES
  SettledForGood
  ImplementsJobLedger
SYMMETRY MCWorkers
CHECK_DEADLOCK FALSE
