---------------------- MODULE PipelineRefinementProofs ----------------------
(***************************************************************************)
(* The orchestrator implements the run of a pipeline, for any number of    *)
(* executions, steps and processes: whatever an advance writes is progress *)
(* of the abstract run, and everything else leaves that run as it was.     *)
(***************************************************************************)
EXTENDS PipelineOrchestratorProofs

\* The refinement mapping of module PipelineOrchestrator, value by value.
Verdict(es) == CASE es = "absent" -> "none"
                 [] es \in {"pending", "running"} -> "open"
                 [] OTHER -> es

Seen(s) == CASE s = "pending" -> "waiting"
             [] s = "running" -> "live"
             [] OTHER -> s

Verdicts == [p \in Executions |-> Verdict(execStatus[p])]
Outcomes == [p \in Executions |-> [i \in Steps |-> Seen(step[p][i])]]

\* Where the rows agree, what is seen of them is in order, stops at a failure,
\* and is closed exactly when every step is over.
LEMMA AgreeingRowsSeen ==
  ASSUME NEW es \in {"running", "completed", "failed"}, NEW c,
         NEW st \in [Steps -> StepStatus], RowAgrees(es, c, st),
         NEW out, out = [i \in Steps |-> Seen(st[i])]
  PROVE  /\ Run!InOrder(out)
         /\ Run!Stops(out)
         /\ Verdict(es) = IF \E i \in Steps : out[i] \notin Run!Over THEN "open"
                          ELSE IF \E i \in Steps : out[i] \in Run!Bad THEN "failed" ELSE "completed"
<1>1. \A i \in Steps : out[i] = Seen(st[i])
  OBVIOUS
<1>2. CASE es = "running"
  <2>1. /\ c \in Steps /\ st[c] = "running"
        /\ \A i \in Steps : i < c => st[i] \in {"succeeded", "skipped"}
        /\ \A i \in Steps : i > c => st[i] = "pending"
    BY <1>2 DEF RowAgrees
  <2>2. /\ out[c] = "live"
        /\ \A i \in Steps : i < c => out[i] \in {"succeeded", "skipped"}
        /\ \A i \in Steps : i > c => out[i] = "waiting"
    BY <1>1, <2>1 DEF Seen
  <2>. QED
    BY <1>2, <2>1, <2>2 DEF Verdict, Run!InOrder, Run!Stops, Run!Over, Run!Bad, Steps
<1>3. CASE es = "failed"
  <2>1. /\ c \in Steps /\ st[c] \in BadStep
        /\ \A i \in Steps : i < c => st[i] \in {"succeeded", "skipped"}
        /\ \A i \in Steps : i > c => st[i] = "skipped"
    BY <1>3 DEF RowAgrees
  <2>2. /\ out[c] \in {"failed", "dead_letter"}
        /\ \A i \in Steps : i < c => out[i] \in {"succeeded", "skipped"}
        /\ \A i \in Steps : i > c => out[i] = "skipped"
    BY <1>1, <2>1 DEF Seen, BadStep
  <2>3. \A i \in Steps : out[i] \in Run!Over
    BY <2>1, <2>2 DEF Run!Over, Steps
  <2>. QED
    BY <1>3, <2>1, <2>2, <2>3 DEF Verdict, Run!InOrder, Run!Stops, Run!Bad, Steps
<1>4. CASE es = "completed"
  <2>1. \A i \in Steps : out[i] \in {"succeeded", "skipped"}
    BY <1>1, <1>4 DEF RowAgrees, Seen
  <2>. QED
    BY <1>4, <2>1 DEF Verdict, Run!InOrder, Run!Stops, Run!Over, Run!Bad
<1>. QED
  BY <1>2, <1>3, <1>4

\* Rows that follow the ones before them are seen to move as a run may.
LEMMA FollowingRowsMove ==
  ASSUME TypeOK, NEW p \in Executions, NEW st \in [Steps -> StepStatus],
         Follows(p, st), Honours(condition[p], st),
         NEW old, old = [i \in Steps |-> Seen(step[p][i])],
         NEW new, new = [i \in Steps |-> Seen(st[i])]
  PROVE  Run!Moves(p, old, new)
<1> SUFFICES ASSUME NEW i \in Steps
             PROVE  /\ old[i] \in Run!Over => new[i] = old[i]
                    /\ old[i] = "live" => new[i] \in {"live", "succeeded"} \cup Run!Bad
                    /\ old[i] = "waiting" => new[i] \in {"waiting", "live", "skipped"}
                    /\ old[i] = "waiting" /\ new[i] = "live" => Run!Allowed(p, new, i)
  BY DEF Run!Moves
<1>1. /\ step[p][i] \in StepStatus /\ st[i] \in StepStatus
      /\ old[i] = Seen(step[p][i]) /\ new[i] = Seen(st[i])
  BY DEF TypeOK
<1>2. old[i] \in Run!Over => new[i] = old[i]
  BY <1>1 DEF Follows, Seen, StepStatus, TerminalStep, Run!Over
<1>3. old[i] = "live" => new[i] \in {"live", "succeeded"} \cup Run!Bad
  BY <1>1 DEF Follows, Seen, StepStatus, Released, Run!Bad
<1>4. old[i] = "waiting" => new[i] \in {"waiting", "live", "skipped"}
  BY <1>1 DEF Follows, Seen, StepStatus
<1>5. ASSUME new[i] = "live"
      PROVE  Run!Allowed(p, new, i)
  <2>1. st[i] \notin {"pending", "skipped"}
    BY <1>1, <1>5 DEF Seen
  <2>2. /\ condition[p][i] = "on_previous_success" => i = 0 \/ st[i - 1] = "succeeded"
        /\ condition[p][i] = "on_previous_failure" => i > 0 /\ st[i - 1] \in BadStep
    BY <2>1 DEF Honours
  <2>3. i # 0 => i - 1 \in Steps /\ new[i - 1] = Seen(st[i - 1])
    BY OrchestratorAssumption DEF Steps
  <2>4. condition[p][i] \in {"always", "on_previous_success", "on_previous_failure"}
    BY DEF TypeOK, Conditions
  <2>5. condition[p][i] = "on_previous_success" => i = 0 \/ new[i - 1] = "succeeded"
    BY <2>2, <2>3 DEF Seen
  <2>6. condition[p][i] = "on_previous_failure" => i > 0 /\ new[i - 1] \in Run!Bad
    BY <2>2, <2>3 DEF Seen, BadStep, Run!Bad, Steps
  <2>. QED
    BY <2>4, <2>5, <2>6 DEF Run!Allowed
<1>. QED
  BY <1>2, <1>3, <1>4, <1>5

\* What an advance writes is progress of its run.
LEMMA WritesAreProgress ==
  ASSUME TypeOK, NEW p \in Executions, execStatus[p] \in {"pending", "running"},
         NEW es, NEW c, NEW st, Writes(p, es, c, st)
  PROVE  Run!Progress(p)
<1>. DEFINE old == [i \in Steps |-> Seen(step[p][i])]
            new == [i \in Steps |-> Seen(st[i])]
<1>1. /\ es \in {"running", "completed", "failed"}
      /\ st \in [Steps -> StepStatus]
      /\ RowAgrees(es, c, st) /\ Honours(condition[p], st) /\ Follows(p, st)
      /\ execStatus' = [execStatus EXCEPT ![p] = es]
      /\ step' = [step EXCEPT ![p] = st]
      /\ condition' = condition
  BY DEF Writes, Outcome
<1>2. /\ Run!InOrder(new) /\ Run!Stops(new)
      /\ Verdict(es) = IF \E i \in Steps : new[i] \notin Run!Over THEN "open"
                       ELSE IF \E i \in Steps : new[i] \in Run!Bad THEN "failed" ELSE "completed"
  BY <1>1, AgreeingRowsSeen
<1>3. Run!Moves(p, old, new)
  BY <1>1, FollowingRowsMove
<1>4. \A s \in StepStatus : Seen(s) \in Run!Outcome
  BY DEF Seen, StepStatus, Run!Outcome
<1>5. \A q \in Executions : step'[q] \in [Steps -> StepStatus]
  BY <1>1 DEF TypeOK
<1>6. Outcomes' \in [Executions -> [Steps -> Run!Outcome]]
  BY <1>4, <1>5 DEF Outcomes
<1>7. \A q \in Executions \ {p} : Outcomes'[q] = Outcomes[q]
  BY <1>1 DEF Outcomes, TypeOK
<1>8. Outcomes[p] = old /\ Outcomes'[p] = new
  BY <1>1 DEF Outcomes, TypeOK
<1>9. Verdicts' = [Verdicts EXCEPT ![p] = Verdict(es)]
  BY <1>1 DEF Verdicts, TypeOK
<1>10. Verdicts[p] = "open"
  BY DEF Verdicts, Verdict
<1>. HIDE DEF old, new
<1>. QED
  BY <1>1, <1>2, <1>3, <1>6, <1>7, <1>8, <1>9, <1>10
     DEF Run!Progress, Verdicts, Outcomes, Verdict, Seen

\* The initial states map to the initial state of the run.
LEMMA InitMaps == Init => Run!Init
<1> SUFFICES ASSUME Init
             PROVE  Run!Init
  OBVIOUS
<1>1. \A p \in Executions : execStatus[p] = "absent" /\ \A i \in Steps : step[p][i] = "pending"
  BY DEF Init
<1>2. condition = [p \in Executions |-> [i \in Steps |-> "always"]]
  BY DEF Init
<1>. QED
  BY <1>1, <1>2 DEF Run!Init

\* Starting an execution opens its run.
LEMMA StartOpens ==
  ASSUME TypeOK, NEW o \in Orchestrators, NEW p \in Executions, Start(o, p)
  PROVE  Run!Open(p)
<1>1. /\ execStatus[p] = "absent"
      /\ execStatus' = [execStatus EXCEPT ![p] = "pending"]
      /\ \E c \in Pipelines : condition' = [condition EXCEPT ![p] = c]
      /\ step' = step
  BY DEF Start
<1>2. Verdict("absent") = "none" /\ Verdict("pending") = "open"
  BY DEF Verdict
<1>3. Verdicts[p] = "none"
  BY <1>1, <1>2 DEF Verdicts
<1>4. Verdicts' = [Verdicts EXCEPT ![p] = "open"]
  BY <1>1, <1>2 DEF Verdicts, TypeOK
<1>5. Outcomes' = Outcomes
  BY <1>1 DEF Outcomes
<1>. QED
  BY <1>1, <1>3, <1>4, <1>5 DEF Run!Open, Verdicts, Verdict, Outcomes, Seen

\* A step that leaves the rows alone leaves the run alone.
LEMMA RowsAloneStutters ==
  ASSUME UNCHANGED <<execStatus, condition, step>>
  PROVE  UNCHANGED Run!vars
BY DEF Run!vars

\* Every step of the orchestrator is a step of the run or leaves it alone.
LEMMA StepMaps ==
  ASSUME IInv, [Next]_vars
  PROVE  [Run!Next]_Run!vars
<1>1. ASSUME NEW o \in Orchestrators, pc[o] = "advance", view[o].exec \notin TerminalExec,
             NEW es, NEW c, NEW st, Writes(target[o], es, c, st)
      PROVE  Run!Next
  <2>1. /\ target[o] \in Executions
        /\ execStatus[target[o]] \in {"pending", "running"}
    BY <1>1, Fresh
  <2>2. PICK p \in Executions : p = target[o]
    BY <2>1
  <2>3. Run!Progress(p)
    BY <1>1, <2>1, <2>2, WritesAreProgress DEF IInv
  <2>. QED
    BY <2>3 DEF Run!Next
<1>2. ASSUME NEW o \in Orchestrators, NEW p \in Executions, Start(o, p)
      PROVE  Run!Next
  BY <1>2, StartOpens DEF IInv, Run!Next
<1>3. ASSUME NEW o \in Orchestrators, NEW i \in Steps, AwaitJob(o, i)
      PROVE  Run!Next
  BY <1>1, <1>3, AwaitWrites DEF AwaitJob
<1>4. ASSUME NEW o \in Orchestrators, NEW i \in Steps, StepFailed(o, i)
      PROVE  Run!Next
  <2>1. PICK st : Writes(target[o], "failed", i, st)
    BY <1>4, FailureWrites
  <2>. QED
    BY <1>1, <1>4, <2>1 DEF StepFailed
<1>5. ASSUME NEW o \in Orchestrators, NEW i \in Steps, Release(o, i)
      PROVE  Run!Next
  <2>1. PICK st : Writes(target[o], "running", i, st)
    BY <1>5, ReleaseWrites
  <2>. QED
    BY <1>1, <1>5, <2>1 DEF Release
<1>6. ASSUME NEW o \in Orchestrators, Finish(o)
      PROVE  Run!Next
  <2>1. PICK st : Writes(target[o], "completed", NumSteps, st)
    BY <1>6, FinishWrites
  <2>. QED
    BY <1>1, <1>6, <2>1 DEF Finish
<1>7. ASSUME NEW o \in Orchestrators,
             \/ Tick(o) \/ AlreadyDone(o) \/ Publish(o) \/ AdvanceThrows(o) \/ Crash(o)
             \/ \E p \in Executions : LockRow(o, p)
      PROVE  UNCHANGED Run!vars
  BY <1>7, RowsAloneStutters
     DEF Tick, AlreadyDone, Publish, AdvanceThrows, Crash, LockRow, execVars
<1>8. ASSUME NEW p \in Executions, NEW i \in Steps, WorkerReports(p, i) \/ JobVanishes(p, i)
      PROVE  UNCHANGED Run!vars
  BY <1>8, RowsAloneStutters DEF WorkerReports, JobVanishes, execVars
<1>9. CASE UNCHANGED vars
  BY <1>9, RowsAloneStutters DEF vars
<1>. QED
  BY <1>2, <1>3, <1>4, <1>5, <1>6, <1>7, <1>8, <1>9 DEF Next, Advance

\* The orchestrator implements the run of a pipeline: an observer of the rows of
\* the executions sees steps taken in order, one at a time, each released only
\* when its condition holds and each with one final outcome, whatever the
\* processes, the workers and the faults do.
THEOREM OrchestratorImplementsRun == Spec => ImplementsPipelineRun
<1>1. IInv /\ [Next]_vars => [Run!Next]_Run!vars
  BY StepMaps
<1>. QED
  BY <1>1, InitMaps, Invariant, PTL DEF Spec, ImplementsPipelineRun, Run!Spec
=============================================================================
