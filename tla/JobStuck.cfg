\* A worker dies after its claim; the queue repeats the delivery too early.
SPECIFICATION FairSpec
CONSTANTS
  Jobs = {j1}
  PipelineJobs = {j1}
  Workers = {w1, w2}
  NoWorker = NoWorker
  NoJob = NoJob
  MaxAttempts = 2
  MaxStalled = 1
  Faults = {"crash"}
  MaxFaults = 1
PROPERTIES
  StuckJobsAreRecovered
CHECK_DEADLOCK FALSE
