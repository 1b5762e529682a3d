----------------------- MODULE MCPipelineOrchestrator -----------------------
(***************************************************************************)
(* The orchestrator on small instances: every assignment of conditions to  *)
(* the steps of a pipeline is a pipeline.                                  *)
(***************************************************************************)
EXTENDS PipelineOrchestrator, TLC

MCPipelines == [Steps -> Conditions]

\* Only steps that always run.
MCAlways == {[i \in Steps |-> "always"]}

\* The orchestrator processes are interchangeable.
MCSymmetry == Permutations(Orchestrators)
=============================================================================
