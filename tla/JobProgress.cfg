\* Two jobs, two workers; a worker or a publisher dies, or the queue loses a lock.
SPECIFICATION FairSpec
CONSTANTS
  Jobs = {j1, j2}
  PipelineJobs = {j1}
  Workers = {w1, w2}
  NoWorker = NoWorker
  NoJob = NoJob
  MaxAttempts = 2
  MaxStalled = 1
  Faults = {"crash", "lockLoss"}
  MaxFaults = 1
INVARIANTS
  ExecutionReflectsJobs
PROPERTIES
  EveryJobSettles
  PipelineJobsAreClaimed
CHECK_DEADLOCK FALSE
