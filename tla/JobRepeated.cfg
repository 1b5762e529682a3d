\* The reply to a publication is lost.
SPECIFICATION Spec
CONSTANTS
  Jobs = {j1}
  PipelineJobs = {j1}
  Workers = {w1}
  NoWorker = NoWorker
  NoJob = NoJob
  MaxAttempts = 2
  MaxStalled = 1
  Faults = {"lostReply"}
  MaxFaults = 1
INVARIANTS
  RetryNeverRepeatsTheAction
CHECK_DEADLOCK FALSE
