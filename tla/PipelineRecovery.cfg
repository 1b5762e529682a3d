\* Two executions of one step, two orchestrators, one fault: what is lost
\* between the commit and the publication is published again.
SPECIFICATION FairSpec
CONSTANTS
  NumExecutions = 2
  NumSteps = 1
  Pipelines <- MCAlways
  Orchestrators = {o1, o2}
  NoOne = NoOne
  PollLimit = 2
  JobsMayVanish = FALSE
  MaxFaults = 1
PROPERTIES
  LostPublicationIsRepeated
CHECK_DEADLOCK FALSE
