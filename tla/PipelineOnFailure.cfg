\* One execution of two steps, one orchestrator, no fault: the second step is
\* there to handle the failure of the first.
SPECIFICATION Spec
CONSTANTS
  NumExecutions = 1
  NumSteps = 2
  Pipelines <- MCPipelines
  Orchestrators = {o1}
  NoOne = NoOne
  PollLimit = 1
  JobsMayVanish = FALSE
  MaxFaults = 0
INVARIANTS
  FailureHandlersRun
CHECK_DEADLOCK FALSE
