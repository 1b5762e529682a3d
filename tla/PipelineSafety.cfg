\* One execution of three steps under every assignment of conditions, two
\* orchestrators, one fault, a hostile job table.
SPECIFICATION Spec
CONSTANTS
  NumExecutions = 1
  NumSteps = 3
  Pipelines <- MCPipelines
  Orchestrators = {o1, o2}
  NoOne = NoOne
  PollLimit = 1
  JobsMayVanish = TRUE
  MaxFaults = 1
INVARIANTS
  TypeOK
  RowsAgree
  JobsOnlyForReleasedSteps
  ConditionsHonoured
PROPERTIES
  NeverRegresses
  ImplementsPipelineRun
SYMMETRY MCSymmetry
CHECK_DEADLOCK FALSE
