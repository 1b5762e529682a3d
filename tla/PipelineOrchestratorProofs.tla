--------------------- MODULE PipelineOrchestratorProofs ---------------------
(***************************************************************************)
(* Theorems about the orchestrator, for any number of executions, steps,   *)
(* orchestrators and faults, any set of pipelines, and whatever the        *)
(* workers write.                                                          *)
(***************************************************************************)
EXTENDS PipelineOrchestrator, TLAPS

Released == {"running", "succeeded", "failed", "dead_letter"}

\* What a transaction read is what is there: only the owner of the row lock
\* writes the rows of an execution.  NeverRegresses rests on it.
ViewIsFresh ==
  \A o \in Orchestrators : pc[o] = "advance" =>
    /\ target[o] \in Executions
    /\ rowLock[target[o]] = o
    /\ execStatus[target[o]] # "absent"
    /\ view[o].exec = execStatus[target[o]]
    /\ view[o].step = step[target[o]]

\* Only executions that were started are advanced.
TodoStarted == \A o \in Orchestrators : \A p \in todo[o] : execStatus[p] # "absent"

\* What awaits publication was released by a transaction that committed.
OutboxReleased ==
  \A o \in Orchestrators : pc[o] = "publish" =>
    /\ target[o] \in Executions
    /\ step[target[o]][outbox[o]] \in Released

IInv == /\ TypeOK
        /\ RowsAgree
        /\ JobsOnlyForReleasedSteps
        /\ ConditionsHonoured
        /\ ViewIsFresh
        /\ TodoStarted
        /\ OutboxReleased

-----------------------------------------------------------------------------
(* Type correctness.                                                       *)

\* A process that is in a transaction or about to publish works for an execution.
BusyOnSomething == \A o \in Orchestrators : pc[o] # "idle" => target[o] \in Executions

\* The values the locals are reset to have the types of the locals.
LEMMA BlankLocals ==
  /\ 0 \in Steps
  /\ NoView \in [exec : ExecStatus \cup {"absent"}, step : [Steps -> StepStatus]]
BY OrchestratorAssumption DEF Steps, NoView, StepStatus

\* Forgetting the locals keeps their types.
LEMMA ForgetTypes ==
  ASSUME TypeOK, NEW o \in Orchestrators, Forget(o)
  PROVE  /\ pc' \in [Orchestrators -> {"idle", "advance", "publish"}]
         /\ target' \in [Orchestrators -> Executions \cup {0}]
         /\ view' \in [Orchestrators -> [exec : ExecStatus \cup {"absent"},
                                         step : [Steps -> StepStatus]]]
         /\ outbox' \in [Orchestrators -> Steps]
BY BlankLocals DEF TypeOK, Forget

\* So does the end of a transaction, which frees the row lock.
LEMMA CommitTypes ==
  ASSUME TypeOK, NEW o \in Orchestrators,
         CommitAndReturn(o) \/ \E i \in Steps : CommitThenPublish(o, i)
  PROVE  /\ queued' \subseteq Keys
         /\ rowLock' \in [Executions -> Orchestrators \cup {NoOne}]
         /\ pc' \in [Orchestrators -> {"idle", "advance", "publish"}]
         /\ todo' \in [Orchestrators -> SUBSET Executions]
         /\ target' \in [Orchestrators -> Executions \cup {0}]
         /\ view' \in [Orchestrators -> [exec : ExecStatus \cup {"absent"},
                                         step : [Steps -> StepStatus]]]
         /\ outbox' \in [Orchestrators -> Steps]
         /\ faults' \in 0..MaxFaults
<1>1. CASE CommitAndReturn(o)
  BY <1>1, ForgetTypes DEF CommitAndReturn, TypeOK
<1>2. ASSUME NEW i \in Steps, CommitThenPublish(o, i)
      PROVE  view' \in [Orchestrators -> [exec : ExecStatus \cup {"absent"},
                                         step : [Steps -> StepStatus]]]
  BY <1>2, BlankLocals DEF CommitThenPublish, TypeOK
<1>3. ASSUME NEW i \in Steps, CommitThenPublish(o, i)
      PROVE  /\ queued' \subseteq Keys
             /\ rowLock' \in [Executions -> Orchestrators \cup {NoOne}]
             /\ pc' \in [Orchestrators -> {"idle", "advance", "publish"}]
             /\ todo' \in [Orchestrators -> SUBSET Executions]
             /\ target' \in [Orchestrators -> Executions \cup {0}]
             /\ outbox' \in [Orchestrators -> Steps]
             /\ faults' \in 0..MaxFaults
  BY <1>3 DEF CommitThenPublish, TypeOK
<1>. QED
  BY <1>1, <1>2, <1>3

\* The steps the release loop starts from, and those it leaves, are well typed.
LEMMA LoopTypes ==
  ASSUME TypeOK, NEW o \in Orchestrators, NEW p \in Executions,
         NEW st \in Unblocked(p, view[o].step), NEW i \in Steps \cup {NumSteps}
  PROVE  /\ st \in [Steps -> StepStatus]
         /\ SkipBefore(st, i) \in [Steps -> StepStatus]
<1>1. view[o].step \in [Steps -> StepStatus]
  BY DEF TypeOK
<1>2. \A n \in Steps : Settled(view[o].step, n, job[p][n]) \in [Steps -> StepStatus]
  BY <1>1 DEF Settled, StepStatus
<1>3. st \in [Steps -> StepStatus]
  BY <1>1, <1>2 DEF Unblocked
<1>4. SkipBefore(st, i) \in [Steps -> StepStatus]
  BY <1>3 DEF SkipBefore, StepStatus
<1>. QED
  BY <1>3, <1>4

\* The cursor and the status an advance writes are well typed.
LEMMA RowTypes ==
  ASSUME TypeOK, NEW p, NEW i \in Steps \cup {NumSteps}, NEW s \in ExecStatus
  PROVE  /\ [cursor EXCEPT ![p] = i] \in [Executions -> 0..NumSteps]
         /\ [execStatus EXCEPT ![p] = s] \in [Executions -> ExecStatus \cup {"absent"}]
<1>1. i \in 0..NumSteps
  BY OrchestratorAssumption DEF Steps
<1>2. cursor \in [Executions -> 0..NumSteps] /\ execStatus \in [Executions -> ExecStatus \cup {"absent"}]
  BY DEF TypeOK
<1>. QED
  BY <1>1, <1>2

\* Every step of the orchestrators and of their surroundings keeps the types.
LEMMA TypeInductive ==
  ASSUME TypeOK, BusyOnSomething, [Next]_vars
  PROVE  TypeOK' /\ BusyOnSomething'
<1> USE OrchestratorAssumption
<1>1. ASSUME NEW o \in Orchestrators, NEW p \in Executions, Start(o, p)
      PROVE  TypeOK' /\ BusyOnSomething'
  BY <1>1 DEF Start, ExecStatus, TypeOK, BusyOnSomething
<1>2. ASSUME NEW o \in Orchestrators, Tick(o)
      PROVE  TypeOK' /\ BusyOnSomething'
  BY <1>2 DEF Tick, ListActiveIds, ActiveIds, TypeOK, BusyOnSomething, execVars
<1>3. ASSUME NEW o \in Orchestrators, NEW p \in Executions, LockRow(o, p)
      PROVE  TypeOK' /\ BusyOnSomething'
  BY <1>3 DEF LockRow, TypeOK, BusyOnSomething, execVars
<1>4. ASSUME NEW o \in Orchestrators,
             CommitAndReturn(o) \/ \E i \in Steps : CommitThenPublish(o, i),
             pc[o] = "advance",
             execStatus' \in [Executions -> ExecStatus \cup {"absent"}],
             cursor' \in [Executions -> 0..NumSteps],
             step' \in [Executions -> [Steps -> StepStatus]],
             job' \in [Executions -> [Steps -> JobStatus \cup {"absent"}]],
             UNCHANGED condition
      PROVE  TypeOK' /\ BusyOnSomething'
  <2>1. TypeOK'
    BY <1>4, CommitTypes DEF TypeOK
  <2>2. /\ pc \in [Orchestrators -> {"idle", "advance", "publish"}]
        /\ target \in [Orchestrators -> Executions \cup {0}]
    BY DEF TypeOK
  <2>3. \/ /\ pc' = [pc EXCEPT ![o] = "idle"]
           /\ target' = [target EXCEPT ![o] = 0]
        \/ /\ pc' = [pc EXCEPT ![o] = "publish"]
           /\ target' = target
    BY <1>4 DEF CommitAndReturn, Forget, CommitThenPublish
  <2>4. BusyOnSomething'
    BY <1>4, <2>2, <2>3 DEF BusyOnSomething
  <2>. QED
    BY <2>1, <2>4
<1>5. ASSUME NEW o \in Orchestrators, AlreadyDone(o)
      PROVE  TypeOK' /\ BusyOnSomething'
  BY <1>4, <1>5 DEF AlreadyDone, execVars, TypeOK
<1>6. ASSUME NEW o \in Orchestrators, NEW i \in Steps, AwaitJob(o, i)
      PROVE  TypeOK' /\ BusyOnSomething'
  <2>1. cursor' \in [Executions -> 0..NumSteps]
    BY <1>6, RowTypes DEF AwaitJob, ExecStatus
  <2>2. execStatus' = execStatus /\ step' = step /\ job' = job
    BY <1>6 DEF AwaitJob
  <2>3. /\ execStatus' \in [Executions -> ExecStatus \cup {"absent"}]
        /\ step' \in [Executions -> [Steps -> StepStatus]]
        /\ job' \in [Executions -> [Steps -> JobStatus \cup {"absent"}]]
    BY <2>2 DEF TypeOK
  <2>. QED
    BY <1>4, <1>6, <2>1, <2>3 DEF AwaitJob
<1>7. ASSUME NEW o \in Orchestrators, NEW i \in Steps, StepFailed(o, i)
      PROVE  TypeOK' /\ BusyOnSomething'
  <2>. DEFINE after == [h \in Steps |->
                CASE h = i -> job[target[o]][i]
                  [] h # i /\ view[o].step[h] = "pending" -> "skipped"
                  [] OTHER -> view[o].step[h]]
  <2>1. view[o].step \in [Steps -> StepStatus] /\ step \in [Executions -> [Steps -> StepStatus]]
    BY DEF TypeOK
  <2>2. job[target[o]][i] \in StepStatus
    BY <1>7 DEF StepFailed, StepStatus, BadStep
  <2>3. \A h \in Steps : after[h] \in StepStatus
    BY <2>1, <2>2 DEF StepStatus
  <2>4. after \in [Steps -> StepStatus]
    BY <2>3
  <2>5. step' = [step EXCEPT ![target[o]] = after]
    BY <1>7 DEF StepFailed
  <2>6. step' \in [Executions -> [Steps -> StepStatus]]
    <3>. HIDE DEF after
    <3>. QED BY <2>1, <2>4, <2>5
  <2>7. /\ execStatus' \in [Executions -> ExecStatus \cup {"absent"}]
        /\ cursor' \in [Executions -> 0..NumSteps]
    BY <1>7, RowTypes DEF StepFailed, ExecStatus
  <2>8. job' \in [Executions -> [Steps -> JobStatus \cup {"absent"}]]
    BY <1>7 DEF StepFailed, TypeOK
  <2>. QED
    BY <1>4, <1>7, <2>6, <2>7, <2>8 DEF StepFailed
<1>8. ASSUME NEW o \in Orchestrators, NEW i \in Steps, Release(o, i)
      PROVE  TypeOK' /\ BusyOnSomething'
  <2>1. PICK st \in Unblocked(target[o], view[o].step) :
          step' = [step EXCEPT ![target[o]] = [SkipBefore(st, i) EXCEPT ![i] = "running"]]
    BY <1>8 DEF Release
  <2>2. target[o] \in Executions
    BY <1>8 DEF Release, BusyOnSomething
  <2>3. SkipBefore(st, i) \in [Steps -> StepStatus]
    BY <2>2, LoopTypes
  <2>4. step' \in [Executions -> [Steps -> StepStatus]]
    BY <2>1, <2>3 DEF StepStatus, TypeOK
  <2>5. job' \in [Executions -> [Steps -> JobStatus \cup {"absent"}]]
    <3>1. job \in [Executions -> [Steps -> JobStatus \cup {"absent"}]]
      BY DEF TypeOK
    <3>2. job' = [job EXCEPT ![target[o]][i] = IF @ = "absent" THEN "pending" ELSE @]
      BY <1>8 DEF Release
    <3>3. PICK s \in JobStatus \cup {"absent"} : job' = [job EXCEPT ![target[o]][i] = s]
      BY <2>2, <3>1, <3>2 DEF JobStatus
    <3>. QED
      BY <2>2, <3>1, <3>3
  <2>6. /\ execStatus' \in [Executions -> ExecStatus \cup {"absent"}]
        /\ cursor' \in [Executions -> 0..NumSteps]
    BY <1>8, RowTypes DEF Release, ExecStatus
  <2>. QED
    BY <1>4, <1>8, <2>4, <2>5, <2>6 DEF Release
<1>9. ASSUME NEW o \in Orchestrators, Finish(o)
      PROVE  TypeOK' /\ BusyOnSomething'
  <2>1. PICK st \in Unblocked(target[o], view[o].step) :
          step' = [step EXCEPT ![target[o]] = SkipBefore(st, NumSteps)]
    BY <1>9 DEF Finish
  <2>2. target[o] \in Executions
    BY <1>9 DEF Finish, BusyOnSomething
  <2>3. SkipBefore(st, NumSteps) \in [Steps -> StepStatus]
    BY <2>2, LoopTypes
  <2>4. step' \in [Executions -> [Steps -> StepStatus]]
    BY <2>1, <2>3 DEF TypeOK
  <2>5. /\ execStatus' \in [Executions -> ExecStatus \cup {"absent"}]
        /\ cursor' \in [Executions -> 0..NumSteps]
    <3>1. PICK s \in ExecStatus : execStatus' = [execStatus EXCEPT ![target[o]] = s]
      BY <1>9 DEF Finish, ExecStatus
    <3>2. cursor' = [cursor EXCEPT ![target[o]] = NumSteps]
      BY <1>9 DEF Finish
    <3>3. /\ [cursor EXCEPT ![target[o]] = NumSteps] \in [Executions -> 0..NumSteps]
          /\ [execStatus EXCEPT ![target[o]] = s] \in [Executions -> ExecStatus \cup {"absent"}]
      BY RowTypes
    <3>. QED
      BY <3>1, <3>2, <3>3
  <2>6. job' \in [Executions -> [Steps -> JobStatus \cup {"absent"}]]
    BY <1>9 DEF Finish, TypeOK
  <2>. QED
    BY <1>4, <1>9, <2>4, <2>5, <2>6 DEF Finish
<1>10. ASSUME NEW o \in Orchestrators, Forget(o),
              queued' \subseteq Keys,
              rowLock' \in [Executions -> Orchestrators \cup {NoOne}],
              todo' \in [Orchestrators -> SUBSET Executions],
              faults' \in 0..MaxFaults,
              UNCHANGED <<execVars, job>>
       PROVE  TypeOK' /\ BusyOnSomething'
  <2>1. TypeOK'
    BY <1>10, ForgetTypes DEF TypeOK, execVars
  <2>2. BusyOnSomething'
    BY <1>10 DEF TypeOK, BusyOnSomething, Forget
  <2>. QED
    BY <2>1, <2>2
<1>11. ASSUME NEW o \in Orchestrators, Publish(o)
       PROVE  TypeOK' /\ BusyOnSomething'
  <2>1. <<target[o], outbox[o]>> \in Keys
    BY <1>11 DEF Publish, Keys, BusyOnSomething, TypeOK
  <2>2. todo' \in [Orchestrators -> SUBSET Executions]
    BY <1>11 DEF Publish, TypeOK
  <2>. QED
    BY <1>10, <1>11, <2>1, <2>2 DEF Publish, TypeOK
<1>12. ASSUME NEW o \in Orchestrators, AdvanceThrows(o) \/ Crash(o)
       PROVE  TypeOK' /\ BusyOnSomething'
  <2>1. rowLock' \in [Executions -> Orchestrators \cup {NoOne}]
    BY <1>12 DEF AdvanceThrows, Crash, FreeRow, TypeOK
  <2>2. todo' \in [Orchestrators -> SUBSET Executions]
    <3>1. todo \in [Orchestrators -> SUBSET Executions]
      BY DEF TypeOK
    <3>2. PICK S \in SUBSET Executions : todo' = [todo EXCEPT ![o] = S]
      <4>1. todo[o] \ {target[o]} \in SUBSET Executions
        BY <3>1
      <4>. QED
        BY <1>12, <4>1 DEF AdvanceThrows, Crash
    <3>. QED
      BY <3>1, <3>2
  <2>3. faults' \in 0..MaxFaults
    BY <1>12 DEF AdvanceThrows, Crash, TypeOK
  <2>. QED
    BY <1>10, <1>12, <2>1, <2>2, <2>3 DEF AdvanceThrows, Crash, TypeOK
<1>13. ASSUME NEW p \in Executions, NEW i \in Steps, WorkerReports(p, i) \/ JobVanishes(p, i)
       PROVE  TypeOK' /\ BusyOnSomething'
  <2>1. job' \in [Executions -> [Steps -> JobStatus \cup {"absent"}]]
    <3>1. CASE WorkerReports(p, i)
      BY <3>1 DEF WorkerReports, TypeOK
    <3>2. CASE JobVanishes(p, i)
      BY <3>2 DEF JobVanishes, TypeOK
    <3>. QED
      BY <1>13, <3>1, <3>2
  <2>2. UNCHANGED <<execVars, queued, orchVars, faults>>
    BY <1>13 DEF WorkerReports, JobVanishes
  <2>. QED
    BY <2>1, <2>2 DEF TypeOK, BusyOnSomething, execVars, orchVars
<1>14. CASE UNCHANGED vars
  BY <1>14 DEF vars, TypeOK, BusyOnSomething
<1>. QED
  BY <1>1, <1>2, <1>3, <1>5, <1>6, <1>7, <1>8, <1>9, <1>11, <1>12, <1>13, <1>14
     DEF Next, Advance

\* Every variable of the orchestrator always has its type.
THEOREM TypeCorrect == Spec => []TypeOK
<1>1. Init => TypeOK /\ BusyOnSomething
  BY OrchestratorAssumption, BlankLocals
     DEF Init, TypeOK, BusyOnSomething, ExecStatus, StepStatus, Conditions
<1>2. TypeOK /\ BusyOnSomething /\ [Next]_vars => TypeOK' /\ BusyOnSomething'
  BY TypeInductive
<1>. QED
  BY <1>1, <1>2, PTL DEF Spec

-----------------------------------------------------------------------------
(* What one advance writes to the rows of its execution.                   *)

\* RowsAgree of one execution with status es, cursor c and steps st.
RowAgrees(es, c, st) ==
  /\ es \in {"absent", "pending"} => c = 0 /\ \A i \in Steps : st[i] = "pending"
  /\ es \in {"running", "failed"} =>
       /\ c \in Steps
       /\ \A i \in Steps : i < c => st[i] \in {"succeeded", "skipped"}
  /\ es = "running" => st[c] = "running" /\ \A i \in Steps : i > c => st[i] = "pending"
  /\ es = "failed" => st[c] \in BadStep /\ \A i \in Steps : i > c => st[i] = "skipped"
  /\ es = "completed" => \A i \in Steps : st[i] \in {"succeeded", "skipped"}

\* ConditionsHonoured of one execution.
Honours(cond, st) ==
  \A i \in Steps : st[i] \notin {"pending", "skipped"} =>
    /\ cond[i] = "on_previous_success" => i = 0 \/ st[i - 1] = "succeeded"
    /\ cond[i] = "on_previous_failure" => i > 0 /\ st[i - 1] \in BadStep

\* How the steps of execution p may be rewritten.
Follows(p, st) ==
  /\ \A i \in Steps : step[p][i] \in TerminalStep => st[i] = step[p][i]
  /\ \A i \in Steps : step[p][i] \in Released => st[i] \in Released
  /\ \A i \in Steps : step[p][i] = "pending" => st[i] \in {"pending", "running", "skipped"}

\* The rows an advance of execution p leaves when it gets anywhere.
Outcome(p, es, c, st) ==
  /\ es \in {"running", "completed", "failed"}
  /\ st \in [Steps -> StepStatus]
  /\ c >= cursor[p]
  /\ RowAgrees(es, c, st)
  /\ Honours(condition[p], st)
  /\ Follows(p, st)

LEMMA RowsAgreeByRow == RowsAgree <=> \A p \in Executions : RowAgrees(execStatus[p], cursor[p], step[p])
BY DEF RowsAgree, RowAgrees

LEMMA HonoursByRow == ConditionsHonoured <=> \A p \in Executions : Honours(condition[p], step[p])
BY DEF ConditionsHonoured, Honours

\* The state of the loop where it may release a step: c is the first step that
\* has not been skipped or settled earlier; it waits, or it has just been settled
\* or reopened.
Loop(p, st, c) ==
  /\ c \in Steps /\ cursor[p] <= c
  /\ st \in [Steps -> StepStatus]
  /\ \A h \in Steps : h # c => st[h] = step[p][h]
  /\ \A h \in Steps : h < c => st[h] \in {"succeeded", "skipped"}
  /\ \A h \in Steps : h > c => st[h] = "pending"
  /\ \/ c = 0 /\ step[p][c] = "pending" /\ st[c] = "pending"
     \/ step[p][c] = "running" /\ st[c] \in {"pending", "succeeded"}

\* The first step that is not over is the one under the cursor.
LEMMA ActiveIsCursor ==
  ASSUME TypeOK, RowsAgree, NEW p \in Executions, execStatus[p] \in {"pending", "running"},
         NEW i \in Steps, IsActive(step[p], i)
  PROVE  i = cursor[p]
<1>1. RowAgrees(execStatus[p], cursor[p], step[p])
  BY RowsAgreeByRow
<1>2. cursor[p] \in Steps /\ step[p][cursor[p]] \in {"pending", "running"}
  BY <1>1, BlankLocals DEF RowAgrees
<1>3. \A h \in Steps : h < cursor[p] => step[p][h] \in TerminalStep
  BY <1>1, BlankLocals DEF RowAgrees, Steps, TerminalStep
<1>. QED
  BY <1>2, <1>3 DEF IsActive, TerminalStep, Steps

LEMMA LoopStart ==
  ASSUME TypeOK, RowsAgree, NEW p \in Executions, execStatus[p] \in {"pending", "running"},
         NEW st \in Unblocked(p, step[p])
  PROVE  Loop(p, st, cursor[p])
<1>. DEFINE c == cursor[p]
<1>1. RowAgrees(execStatus[p], c, step[p])
  BY RowsAgreeByRow
<1>2. step[p] \in [Steps -> StepStatus] /\ c \in Steps
  BY <1>1, BlankLocals DEF TypeOK, RowAgrees
<1>3. CASE execStatus[p] = "pending"
  <2>1. \A i \in Steps : step[p][i] = "pending"
    BY <1>1, <1>3 DEF RowAgrees
  <2>2. st = step[p]
    BY <2>1 DEF Unblocked
  <2>. QED
    BY <1>1, <1>2, <1>3, <2>1, <2>2 DEF RowAgrees, Loop, Steps
<1>4. CASE execStatus[p] = "running"
  <2>1. IsActive(step[p], c) /\ step[p][c] = "running"
    BY <1>1, <1>4 DEF RowAgrees, IsActive, TerminalStep
  <2>2. st = Settled(step[p], c, job[p][c])
    BY <2>1, <1>2, <1>4, ActiveIsCursor DEF Unblocked
  <2>3. /\ st \in [Steps -> StepStatus]
        /\ st[c] \in {"pending", "succeeded"}
        /\ \A h \in Steps : h # c => st[h] = step[p][h]
    BY <1>2, <2>2 DEF Settled, StepStatus
  <2>. QED
    BY <1>1, <1>2, <1>4, <2>1, <2>3 DEF RowAgrees, Loop, Steps
<1>. QED
  BY <1>3, <1>4

\* A step that had been released and lost its job is released again.
LEMMA ReopenedIsReleased ==
  ASSUME TypeOK, ConditionsHonoured, NEW p \in Executions, NEW st, NEW c, Loop(p, st, c),
         step[p][c] = "running", st[c] = "pending"
  PROVE  Releases(p, st, c)
<1>1. /\ c \in Steps
      /\ \A h \in Steps : h < c => st[h] = step[p][h] /\ st[h] \in {"succeeded", "skipped"}
  BY DEF Loop, Steps
<1>2. /\ condition[p][c] \in Conditions
      /\ condition[p][c] = "on_previous_success" => c = 0 \/ step[p][c - 1] = "succeeded"
      /\ condition[p][c] = "on_previous_failure" => c > 0 /\ step[p][c - 1] \in BadStep
  BY <1>1 DEF ConditionsHonoured, TypeOK
<1>3. c # 0 => c - 1 \in Steps /\ c - 1 < c
  BY <1>1, OrchestratorAssumption DEF Steps
<1>4. \A h \in Steps : h < c => SkipBefore(st, c)[h] = st[h]
  BY <1>1 DEF SkipBefore
<1>5. ConditionMet(p, SkipBefore(st, c), c)
  <2>1. CASE condition[p][c] = "always"
    BY <2>1 DEF ConditionMet
  <2>2. CASE condition[p][c] = "on_previous_success"
    BY <1>1, <1>2, <1>3, <1>4, <2>2 DEF ConditionMet
  <2>3. condition[p][c] # "on_previous_failure"
    BY <1>1, <1>2, <1>3 DEF BadStep, Steps
  <2>. QED
    BY <1>2, <2>1, <2>2, <2>3 DEF Conditions
<1>. QED
  BY <1>1, <1>5 DEF Releases

\* Following the rows keeps every condition that was honoured.
LEMMA FollowingHonours ==
  ASSUME TypeOK, ConditionsHonoured, NEW p \in Executions, NEW st, Follows(p, st),
         NEW i \in Steps, step[p][i] \in Released
  PROVE  /\ condition[p][i] = "on_previous_success" => i = 0 \/ st[i - 1] = "succeeded"
         /\ condition[p][i] = "on_previous_failure" => i > 0 /\ st[i - 1] \in BadStep
<1>1. /\ condition[p][i] = "on_previous_success" => i = 0 \/ step[p][i - 1] = "succeeded"
      /\ condition[p][i] = "on_previous_failure" => i > 0 /\ step[p][i - 1] \in BadStep
  BY DEF ConditionsHonoured, Released
<1>2. i # 0 => i - 1 \in Steps
  BY OrchestratorAssumption DEF Steps
<1>3. step[p][i - 1] \in {"succeeded"} \cup BadStep /\ i # 0 => st[i - 1] = step[p][i - 1]
  BY <1>2 DEF Follows, TerminalStep, BadStep
<1>. QED
  BY <1>1, <1>3 DEF Steps

\* Releasing step i leaves rows that agree.
LEMMA ReleaseOutcome ==
  ASSUME TypeOK, ConditionsHonoured, NEW p \in Executions, NEW st, NEW c, Loop(p, st, c),
         NEW i \in Steps, Releases(p, st, i)
  PROVE  Outcome(p, "running", i, [SkipBefore(st, i) EXCEPT ![i] = "running"])
<1>. DEFINE S == [SkipBefore(st, i) EXCEPT ![i] = "running"]
<1>1. /\ c \in Steps /\ cursor[p] <= c
      /\ st \in [Steps -> StepStatus]
      /\ \A h \in Steps : h # c => st[h] = step[p][h]
      /\ \A h \in Steps : h < c => st[h] \in {"succeeded", "skipped"}
      /\ \A h \in Steps : h > c => st[h] = "pending"
      /\ \/ c = 0 /\ step[p][c] = "pending" /\ st[c] = "pending"
         \/ step[p][c] = "running" /\ st[c] \in {"pending", "succeeded"}
  BY DEF Loop
<1>2. st[i] = "pending" /\ i >= c
  BY <1>1 DEF Releases, Steps
<1>3. step[p][c] = "running" /\ st[c] = "pending" => i = c
  <2>1. SUFFICES ASSUME step[p][c] = "running", st[c] = "pending", c < i
                 PROVE  FALSE
    BY <1>1, <1>2 DEF Steps
  <2>2. Releases(p, st, c)
    BY <2>1, ReopenedIsReleased
  <2>. QED
    BY <1>1, <2>1, <2>2 DEF Releases
<1>4. \A h \in Steps : S[h] = IF h = i THEN "running"
                              ELSE IF st[h] = "pending" /\ h < i THEN "skipped" ELSE st[h]
  BY DEF SkipBefore
<1>5. S \in [Steps -> StepStatus]
  BY <1>1 DEF SkipBefore, StepStatus
<1>. HIDE DEF S
<1>6. i >= cursor[p]
  BY <1>1, <1>2 DEF TypeOK, Steps
<1>7. RowAgrees("running", i, S)
  <2>1. \A h \in Steps : h < i => S[h] \in {"succeeded", "skipped"}
    BY <1>1, <1>4 DEF Steps
  <2>2. S[i] = "running"
    BY <1>4
  <2>3. \A h \in Steps : h > i => S[h] = "pending"
    BY <1>1, <1>2, <1>4 DEF Steps
  <2>. QED
    BY <2>1, <2>2, <2>3 DEF RowAgrees
<1>8. Follows(p, S)
  <2>1. ASSUME NEW h \in Steps, step[p][h] \in TerminalStep
        PROVE  S[h] = step[p][h]
    <3>1. h # c
      BY <1>1, <2>1 DEF TerminalStep
    <3>2. st[h] = step[p][h] /\ st[h] # "pending"
      BY <1>1, <2>1, <3>1 DEF TerminalStep
    <3>. QED
      BY <1>2, <1>4, <3>2
  <2>2. ASSUME NEW h \in Steps, step[p][h] \in Released
        PROVE  S[h] \in Released
    <3>1. CASE h = c
      BY <1>1, <1>2, <1>3, <1>4, <2>2, <3>1 DEF Released
    <3>2. CASE h # c
      BY <1>1, <1>4, <2>2, <3>2 DEF Released
    <3>. QED
      BY <3>1, <3>2
  <2>3. ASSUME NEW h \in Steps, step[p][h] = "pending"
        PROVE  S[h] \in {"pending", "running", "skipped"}
    BY <1>1, <1>4, <2>3
  <2>. QED
    BY <2>1, <2>2, <2>3 DEF Follows
<1>9. Honours(condition[p], S)
  <2> SUFFICES ASSUME NEW h \in Steps, S[h] \notin {"pending", "skipped"}
               PROVE  /\ condition[p][h] = "on_previous_success" => h = 0 \/ S[h - 1] = "succeeded"
                      /\ condition[p][h] = "on_previous_failure" => h > 0 /\ S[h - 1] \in BadStep
    BY DEF Honours
  <2>1. CASE h # i
    <3>1. step[p][h] \in Released
      BY <1>1, <1>4, <2>1 DEF Released, Steps
    <3>. QED
      BY <1>8, <3>1, FollowingHonours
  <2>2. CASE h = i
    <3>1. i # 0 => i - 1 \in Steps /\ i - 1 < i /\ i - 1 # i
      BY OrchestratorAssumption DEF Steps
    <3>2. ConditionMet(p, SkipBefore(st, i), i)
      BY DEF Releases
    <3>3. \A h0 \in Steps : h0 # i => S[h0] = SkipBefore(st, i)[h0]
      BY <1>4 DEF SkipBefore
    <3>4. /\ condition[p][i] = "on_previous_success"
               => i = 0 \/ (i - 1 \in Steps /\ SkipBefore(st, i)[i - 1] = "succeeded")
          /\ condition[p][i] = "on_previous_failure"
               => i - 1 \in Steps /\ SkipBefore(st, i)[i - 1] \in BadStep
      BY <3>2 DEF ConditionMet
    <3>. QED
      BY <2>2, <3>1, <3>3, <3>4 DEF Steps
  <2>. QED
    BY <2>1, <2>2
<1>. QED
  BY <1>5, <1>6, <1>7, <1>8, <1>9 DEF Outcome, S

\* Finishing leaves rows that agree, and a verdict without failure.
LEMMA FinishOutcome ==
  ASSUME TypeOK, ConditionsHonoured, NEW p \in Executions, NEW st, NEW c, Loop(p, st, c),
         \A i \in Steps : ~Releases(p, st, i)
  PROVE  /\ Outcome(p, "completed", NumSteps, SkipBefore(st, NumSteps))
         /\ \A i \in Steps : st[i] \notin BadStep
<1>. DEFINE S == SkipBefore(st, NumSteps)
<1>1. /\ c \in Steps /\ cursor[p] <= c
      /\ st \in [Steps -> StepStatus]
      /\ \A h \in Steps : h # c => st[h] = step[p][h]
      /\ \A h \in Steps : h < c => st[h] \in {"succeeded", "skipped"}
      /\ \A h \in Steps : h > c => st[h] = "pending"
      /\ \/ c = 0 /\ step[p][c] = "pending" /\ st[c] = "pending"
         \/ step[p][c] = "running" /\ st[c] \in {"pending", "succeeded"}
  BY DEF Loop
<1>2. ~(step[p][c] = "running" /\ st[c] = "pending")
  BY <1>1, ReopenedIsReleased
<1>3. \A h \in Steps : S[h] = IF st[h] = "pending" THEN "skipped" ELSE st[h]
  BY OrchestratorAssumption DEF SkipBefore, Steps
<1>4. S \in [Steps -> StepStatus]
  BY <1>1 DEF SkipBefore, StepStatus
<1>5. \A h \in Steps : st[h] \in {"pending", "succeeded", "skipped"}
  BY <1>1 DEF Steps
<1>. HIDE DEF S
<1>6. NumSteps >= cursor[p]
  BY OrchestratorAssumption DEF TypeOK
<1>7. RowAgrees("completed", NumSteps, S)
  BY <1>3, <1>5 DEF RowAgrees
<1>8. Follows(p, S)
  BY <1>1, <1>2, <1>3 DEF Follows, Released, TerminalStep
<1>9. Honours(condition[p], S)
  <2>1. \A h \in Steps : S[h] \notin {"pending", "skipped"} => step[p][h] \in Released
    BY <1>1, <1>3, <1>5 DEF Released
  <2>. QED
    BY <1>8, <2>1, FollowingHonours DEF Honours
<1>. QED
  BY <1>4, <1>5, <1>6, <1>7, <1>8, <1>9 DEF Outcome, S, BadStep

\* A failed step leaves rows that agree: its job's status is its own, whatever
\* was pending is skipped.
LEMMA FailureOutcome ==
  ASSUME TypeOK, RowsAgree, ConditionsHonoured, NEW p \in Executions,
         execStatus[p] \in {"pending", "running"}, NEW i \in Steps, step[p][i] = "running",
         IsActive(step[p], i), NEW js \in BadStep, NEW st,
         st = [h \in Steps |-> CASE h = i -> js
                                 [] h # i /\ step[p][h] = "pending" -> "skipped"
                                 [] OTHER -> step[p][h]]
  PROVE  Outcome(p, "failed", i, st)
<1>1. RowAgrees(execStatus[p], cursor[p], step[p]) /\ i = cursor[p]
  BY RowsAgreeByRow, ActiveIsCursor
<1>2. /\ step[p] \in [Steps -> StepStatus]
      /\ \A h \in Steps : h < i => step[p][h] \in {"succeeded", "skipped"}
      /\ \A h \in Steps : h > i => step[p][h] = "pending"
  BY <1>1 DEF RowAgrees, TypeOK
<1>3. \A h \in Steps : st[h] = IF h = i THEN js
                               ELSE IF step[p][h] = "pending" THEN "skipped" ELSE step[p][h]
  OBVIOUS
<1>4. st \in [Steps -> StepStatus]
  BY <1>2 DEF StepStatus, BadStep
<1>5. RowAgrees("failed", i, st)
  BY <1>2, <1>3 DEF RowAgrees, Steps
<1>6. Follows(p, st)
  BY <1>2, <1>3 DEF Follows, TerminalStep, Released, BadStep
<1>7. Honours(condition[p], st)
  <2>1. \A h \in Steps : st[h] \notin {"pending", "skipped"} => step[p][h] \in Released
    BY <1>2, <1>3 DEF Released, Steps
  <2>. QED
    BY <1>6, <2>1, FollowingHonours DEF Honours
<1>8. i >= cursor[p]
  BY <1>1 DEF Steps
<1>. QED
  BY <1>4, <1>5, <1>6, <1>7, <1>8 DEF Outcome

\* A step whose job is in flight leaves the rows as they are.
LEMMA AwaitOutcome ==
  ASSUME TypeOK, RowsAgree, ConditionsHonoured, NEW p \in Executions,
         execStatus[p] \in {"pending", "running"}, NEW i \in Steps, step[p][i] = "running",
         IsActive(step[p], i)
  PROVE  execStatus[p] = "running" /\ Outcome(p, "running", i, step[p])
<1>1. RowAgrees(execStatus[p], cursor[p], step[p]) /\ i = cursor[p]
  BY RowsAgreeByRow, ActiveIsCursor
<1>2. execStatus[p] = "running"
  BY <1>1 DEF RowAgrees
<1>3. Honours(condition[p], step[p])
  BY HonoursByRow
<1>. QED
  BY <1>1, <1>2, <1>3 DEF Outcome, Follows, TypeOK, Steps

-----------------------------------------------------------------------------
(* The invariant.                                                          *)

\* The step writes the rows of execution p, and them only.
Writes(p, es, c, st) ==
  /\ Outcome(p, es, c, st)
  /\ execStatus' = [execStatus EXCEPT ![p] = es]
  /\ cursor' = [cursor EXCEPT ![p] = c]
  /\ step' = [step EXCEPT ![p] = st]
  /\ condition' = condition

\* The transaction of o ends; what it leaves to publish has been released.
Commits(o, st) ==
  \/ CommitAndReturn(o)
  \/ \E i \in Steps : st[i] \in Released /\ CommitThenPublish(o, i)

\* What a transaction that gets past the terminal check finds.
LEMMA Fresh ==
  ASSUME IInv, NEW o \in Orchestrators, pc[o] = "advance", view[o].exec \notin TerminalExec
  PROVE  /\ target[o] \in Executions
         /\ execStatus[target[o]] \in {"pending", "running"}
         /\ view[o].step = step[target[o]]
<1>1. /\ target[o] \in Executions
      /\ execStatus[target[o]] # "absent"
      /\ view[o].exec = execStatus[target[o]]
      /\ view[o].step = step[target[o]]
  BY DEF IInv, ViewIsFresh
<1>2. execStatus[target[o]] \in ExecStatus \cup {"absent"}
  BY <1>1 DEF IInv, TypeOK
<1>. QED
  BY <1>1, <1>2 DEF ExecStatus, TerminalExec

LEMMA AwaitWrites ==
  ASSUME IInv, NEW o \in Orchestrators, NEW i \in Steps, AwaitJob(o, i)
  PROVE  /\ Writes(target[o], "running", i, step[target[o]])
         /\ Commits(o, step[target[o]])
         /\ job' = job
<1>. DEFINE p == target[o]
<1>1. /\ pc[o] = "advance" /\ view[o].exec \notin TerminalExec
      /\ IsActive(view[o].step, i) /\ view[o].step[i] = "running"
      /\ cursor' = [cursor EXCEPT ![p] = i]
      /\ UNCHANGED <<execStatus, condition, step, job>>
  BY DEF AwaitJob
<1>2. /\ p \in Executions /\ execStatus[p] \in {"pending", "running"}
      /\ view[o].step = step[p]
  BY <1>1, Fresh
<1>3. execStatus[p] = "running" /\ Outcome(p, "running", i, step[p])
  BY <1>1, <1>2, AwaitOutcome DEF IInv
<1>4. /\ execStatus = [execStatus EXCEPT ![p] = "running"]
      /\ step = [step EXCEPT ![p] = step[p]]
  BY <1>3 DEF IInv, TypeOK
<1>5. Commits(o, step[p])
  BY <1>1, <1>2 DEF AwaitJob, Commits, Released
<1>. QED
  BY <1>1, <1>3, <1>4, <1>5 DEF Writes

LEMMA FailureWrites ==
  ASSUME IInv, NEW o \in Orchestrators, NEW i \in Steps, StepFailed(o, i)
  PROVE  /\ \E st : Writes(target[o], "failed", i, st) /\ Commits(o, st)
         /\ job' = job
<1>. DEFINE p == target[o]
            st == [h \in Steps |-> CASE h = i -> job[p][i]
                                     [] h # i /\ step[p][h] = "pending" -> "skipped"
                                     [] OTHER -> step[p][h]]
<1>1. /\ pc[o] = "advance" /\ view[o].exec \notin TerminalExec
      /\ IsActive(view[o].step, i) /\ view[o].step[i] = "running"
      /\ job[p][i] \in BadStep
  BY DEF StepFailed
<1>2. /\ p \in Executions /\ execStatus[p] \in {"pending", "running"}
      /\ view[o].step = step[p]
  BY <1>1, Fresh
<1>3. /\ step' = [step EXCEPT ![p] = st]
      /\ execStatus' = [execStatus EXCEPT ![p] = "failed"]
      /\ cursor' = [cursor EXCEPT ![p] = i]
      /\ CommitAndReturn(o)
      /\ UNCHANGED <<condition, job>>
  BY <1>2 DEF StepFailed
<1>4. Outcome(p, "failed", i, st)
  BY <1>1, <1>2, FailureOutcome DEF IInv
<1>. HIDE DEF st
<1>. QED
  BY <1>3, <1>4 DEF Writes, Commits

LEMMA ReleaseWrites ==
  ASSUME IInv, NEW o \in Orchestrators, NEW i \in Steps, Release(o, i)
  PROVE  /\ \E st : Writes(target[o], "running", i, st) /\ Commits(o, st) /\ st[i] \in Released
         /\ job' = [job EXCEPT ![target[o]][i] = IF @ = "absent" THEN "pending" ELSE @]
<1>. DEFINE p == target[o]
<1>1. PICK st \in Unblocked(p, view[o].step) :
         /\ Releases(p, st, i)
         /\ step' = [step EXCEPT ![p] = [SkipBefore(st, i) EXCEPT ![i] = "running"]]
  BY DEF Release
<1>2. /\ pc[o] = "advance" /\ view[o].exec \notin TerminalExec
      /\ execStatus' = [execStatus EXCEPT ![p] = "running"]
      /\ cursor' = [cursor EXCEPT ![p] = i]
      /\ CommitThenPublish(o, i)
      /\ condition' = condition
  BY DEF Release
<1>3. /\ p \in Executions /\ execStatus[p] \in {"pending", "running"}
      /\ view[o].step = step[p]
  BY <1>2, Fresh
<1>4. Loop(p, st, cursor[p])
  BY <1>1, <1>3, LoopStart DEF IInv
<1>5. Outcome(p, "running", i, [SkipBefore(st, i) EXCEPT ![i] = "running"])
  BY <1>1, <1>3, <1>4, ReleaseOutcome DEF IInv
<1>6. [SkipBefore(st, i) EXCEPT ![i] = "running"][i] \in Released
  BY DEF SkipBefore, Released
<1>7. job' = [job EXCEPT ![p][i] = IF @ = "absent" THEN "pending" ELSE @]
  BY DEF Release
<1>8. Writes(p, "running", i, [SkipBefore(st, i) EXCEPT ![i] = "running"])
  BY <1>1, <1>2, <1>5 DEF Writes
<1>9. Commits(o, [SkipBefore(st, i) EXCEPT ![i] = "running"])
  BY <1>2, <1>6 DEF Commits
<1>. QED
  BY <1>6, <1>7, <1>8, <1>9

LEMMA FinishWrites ==
  ASSUME IInv, NEW o \in Orchestrators, Finish(o)
  PROVE  /\ \E st : Writes(target[o], "completed", NumSteps, st) /\ Commits(o, st)
         /\ job' = job
<1>. DEFINE p == target[o]
<1>1. PICK st \in Unblocked(p, view[o].step) :
         /\ \A i \in Steps : ~Releases(p, st, i)
         /\ step' = [step EXCEPT ![p] = SkipBefore(st, NumSteps)]
         /\ execStatus' = [execStatus EXCEPT ![p] =
              IF \E i \in Steps : st[i] \in BadStep THEN "failed" ELSE "completed"]
  BY DEF Finish
<1>2. /\ pc[o] = "advance" /\ view[o].exec \notin TerminalExec
      /\ cursor' = [cursor EXCEPT ![p] = NumSteps]
      /\ CommitAndReturn(o)
      /\ UNCHANGED <<condition, job>>
  BY DEF Finish
<1>3. /\ p \in Executions /\ execStatus[p] \in {"pending", "running"}
      /\ view[o].step = step[p]
  BY <1>2, Fresh
<1>4. Loop(p, st, cursor[p])
  BY <1>1, <1>3, LoopStart DEF IInv
<1>5. /\ Outcome(p, "completed", NumSteps, SkipBefore(st, NumSteps))
      /\ \A i \in Steps : st[i] \notin BadStep
  BY <1>1, <1>3, <1>4, FinishOutcome DEF IInv
<1>6. execStatus' = [execStatus EXCEPT ![p] = "completed"]
  BY <1>1, <1>5
<1>7. Writes(p, "completed", NumSteps, SkipBefore(st, NumSteps))
  BY <1>1, <1>2, <1>5, <1>6 DEF Writes
<1>. QED
  BY <1>2, <1>7 DEF Commits

\* A transaction that ends like this keeps the invariant.
LEMMA WritesKeep ==
  ASSUME IInv, TypeOK', NEW o \in Orchestrators, pc[o] = "advance",
         NEW p, p = target[o], NEW es, NEW c, NEW st, Writes(p, es, c, st), Commits(o, st),
         \A q \in Executions, h \in Steps :
           job'[q][h] # "absent" => job[q][h] # "absent" \/ (q = p /\ st[h] \in Released)
  PROVE  IInv'
<1>1. /\ p \in Executions /\ rowLock[p] = o
  BY DEF IInv, ViewIsFresh
<1>2. /\ execStatus'[p] = es /\ cursor'[p] = c /\ step'[p] = st
      /\ \A q \in Executions : q # p => /\ execStatus'[q] = execStatus[q]
                                        /\ cursor'[q] = cursor[q]
                                        /\ step'[q] = step[q]
      /\ condition' = condition
  BY <1>1 DEF Writes, IInv, TypeOK
<1>3. /\ es \in {"running", "completed", "failed"}
      /\ RowAgrees(es, c, st)
      /\ Honours(condition[p], st)
      /\ Follows(p, st)
  BY DEF Writes, Outcome
<1>4. /\ queued' = queued
      /\ rowLock' = [rowLock EXCEPT ![p] = NoOne]
      /\ \A v \in Orchestrators : todo'[v] \subseteq todo[v]
      /\ \/ pc' = [pc EXCEPT ![o] = "idle"] /\ target' = [target EXCEPT ![o] = 0]
            /\ view' = [view EXCEPT ![o] = NoView] /\ outbox' = [outbox EXCEPT ![o] = 0]
         \/ \E i \in Steps : /\ st[i] \in Released
                             /\ pc' = [pc EXCEPT ![o] = "publish"] /\ target' = target
                             /\ view' = [view EXCEPT ![o] = NoView]
                             /\ outbox' = [outbox EXCEPT ![o] = i]
  <2>1. CASE CommitAndReturn(o)
    BY <2>1 DEF CommitAndReturn, Forget, IInv, TypeOK
  <2>2. CASE \E i \in Steps : st[i] \in Released /\ CommitThenPublish(o, i)
    BY <2>2 DEF CommitThenPublish, IInv, TypeOK
  <2>. QED
    BY <2>1, <2>2 DEF Commits
<1>5. RowsAgree'
  <2>1. \A q \in Executions : RowAgrees(execStatus'[q], cursor'[q], step'[q])
    BY <1>2, <1>3, RowsAgreeByRow DEF IInv
  <2>. QED
    BY <2>1 DEF RowsAgree, RowAgrees
<1>6. ConditionsHonoured'
  <2>1. \A q \in Executions : Honours(condition'[q], step'[q])
    BY <1>2, <1>3, HonoursByRow DEF IInv
  <2>. QED
    BY <2>1 DEF ConditionsHonoured, Honours
<1>7. \A q \in Executions, h \in Steps : step[q][h] \in Released => step'[q][h] \in Released
  BY <1>2, <1>3 DEF Follows
<1>8. JobsOnlyForReleasedSteps'
  <2> SUFFICES ASSUME NEW q \in Executions, NEW h \in Steps,
                      job'[q][h] # "absent" \/ <<q, h>> \in queued'
               PROVE  step'[q][h] \in Released
    BY DEF JobsOnlyForReleasedSteps, Released, TerminalStep
  <2>1. CASE q = p /\ st[h] \in Released
    BY <1>2, <2>1
  <2>2. CASE job[q][h] # "absent" \/ <<q, h>> \in queued
    <3>1. step[q][h] \in Released
      BY <2>2 DEF IInv, JobsOnlyForReleasedSteps, Released, TerminalStep
    <3>. QED
      BY <1>7, <3>1
  <2>. QED
    BY <1>4, <2>1, <2>2
<1>9. ViewIsFresh'
  <2> SUFFICES ASSUME NEW v \in Orchestrators, pc'[v] = "advance"
               PROVE  /\ target'[v] \in Executions
                      /\ rowLock'[target'[v]] = v
                      /\ execStatus'[target'[v]] # "absent"
                      /\ view'[v].exec = execStatus'[target'[v]]
                      /\ view'[v].step = step'[target'[v]]
    BY DEF ViewIsFresh
  <2>1. v # o
    BY <1>4 DEF IInv, TypeOK
  <2>2. pc[v] = "advance" /\ target'[v] = target[v] /\ view'[v] = view[v]
    BY <1>4, <2>1 DEF IInv, TypeOK
  <2>3. /\ target[v] \in Executions /\ rowLock[target[v]] = v
        /\ execStatus[target[v]] # "absent"
        /\ view[v].exec = execStatus[target[v]]
        /\ view[v].step = step[target[v]]
    BY <2>2 DEF IInv, ViewIsFresh
  <2>4. target[v] # p
    BY <1>1, <2>1, <2>3
  <2>5. rowLock'[target[v]] = v
    BY <1>4, <2>3, <2>4 DEF IInv, TypeOK
  <2>. QED
    BY <1>2, <2>2, <2>3, <2>4, <2>5
<1>10. TodoStarted'
  <2>1. \A q \in Executions : execStatus[q] # "absent" => execStatus'[q] # "absent"
    BY <1>2, <1>3
  <2>. QED
    BY <1>4, <2>1 DEF IInv, TodoStarted, TypeOK
<1>11. OutboxReleased'
  <2> SUFFICES ASSUME NEW v \in Orchestrators, pc'[v] = "publish"
               PROVE  target'[v] \in Executions /\ step'[target'[v]][outbox'[v]] \in Released
    BY DEF OutboxReleased
  <2>1. CASE v = o
    BY <1>1, <1>2, <1>4, <2>1 DEF IInv, TypeOK
  <2>2. CASE v # o
    <3>1. pc[v] = "publish" /\ target'[v] = target[v] /\ outbox'[v] = outbox[v]
      BY <1>4, <2>2 DEF IInv, TypeOK
    <3>2. outbox[v] \in Steps
      BY DEF IInv, TypeOK
    <3>. QED
      BY <1>7, <3>1, <3>2 DEF IInv, OutboxReleased
  <2>. QED
    BY <2>1, <2>2
<1>. QED
  BY <1>5, <1>6, <1>8, <1>9, <1>10, <1>11 DEF IInv

\* A step that leaves the rows alone, lets go of locks and forgets locals of one
\* process only, keeps the invariant.
LEMMA ForgettingKeeps ==
  ASSUME IInv, TypeOK', NEW o \in Orchestrators, Forget(o),
         UNCHANGED <<execVars, job>>,
         rowLock' = rowLock \/ (pc[o] = "advance" /\ rowLock' = [rowLock EXCEPT ![target[o]] = NoOne]),
         \A v \in Orchestrators : todo'[v] \subseteq todo[v],
         \A q \in Executions, h \in Steps :
           <<q, h>> \in queued' => <<q, h>> \in queued \/ step[q][h] \in Released
  PROVE  IInv'
<1>1. /\ execStatus' = execStatus /\ cursor' = cursor /\ condition' = condition
      /\ step' = step /\ job' = job
  BY DEF execVars
<1>2. RowsAgree' /\ ConditionsHonoured'
  BY <1>1 DEF IInv, RowsAgree, ConditionsHonoured
<1>3. JobsOnlyForReleasedSteps'
  BY <1>1 DEF IInv, JobsOnlyForReleasedSteps, Released, TerminalStep
<1>4. \A v \in Orchestrators : v # o \/ pc'[v] = "idle"
  BY DEF Forget, IInv, TypeOK
<1>5. \A v \in Orchestrators : v # o => /\ pc'[v] = pc[v] /\ target'[v] = target[v]
                                        /\ view'[v] = view[v] /\ outbox'[v] = outbox[v]
  BY DEF Forget, IInv, TypeOK
<1>6. ViewIsFresh'
  <2> SUFFICES ASSUME NEW v \in Orchestrators, pc'[v] = "advance"
               PROVE  /\ target'[v] \in Executions
                      /\ rowLock'[target'[v]] = v
                      /\ execStatus'[target'[v]] # "absent"
                      /\ view'[v].exec = execStatus'[target'[v]]
                      /\ view'[v].step = step'[target'[v]]
    BY DEF ViewIsFresh
  <2>1. v # o
    BY DEF Forget, IInv, TypeOK
  <2>2. /\ target[v] \in Executions /\ rowLock[target[v]] = v
        /\ execStatus[target[v]] # "absent"
        /\ view[v].exec = execStatus[target[v]]
        /\ view[v].step = step[target[v]]
    BY <1>5, <2>1 DEF IInv, ViewIsFresh
  <2>3. pc[o] = "advance" => rowLock[target[o]] = o
    BY DEF IInv, ViewIsFresh
  <2>4. rowLock'[target[v]] = v
    BY <2>1, <2>2, <2>3 DEF IInv, TypeOK
  <2>. QED
    BY <1>1, <1>5, <2>1, <2>2, <2>4
<1>7. TodoStarted'
  BY <1>1 DEF IInv, TodoStarted
<1>8. OutboxReleased'
  <2>1. \A v \in Orchestrators : pc'[v] = "publish" => v # o
    BY DEF Forget, IInv, TypeOK
  <2>. QED
    BY <1>1, <1>5, <2>1 DEF IInv, OutboxReleased
<1>. QED
  BY <1>2, <1>3, <1>6, <1>7, <1>8 DEF IInv

\* Every step keeps the invariant.
LEMMA InvInductive == IInv /\ [Next]_vars => IInv'
<1> SUFFICES ASSUME IInv, [Next]_vars
             PROVE  IInv'
  OBVIOUS
<1>1. TypeOK /\ BusyOnSomething
  <2>1. \A o \in Orchestrators : pc[o] \in {"idle", "advance", "publish"}
    BY DEF IInv, TypeOK
  <2>. QED
    BY <2>1 DEF IInv, ViewIsFresh, OutboxReleased, BusyOnSomething
<1>2. TypeOK'
  BY <1>1, TypeInductive
<1>3. ASSUME NEW o \in Orchestrators, NEW p \in Executions, Start(o, p)
      PROVE  IInv'
  <2>1. /\ execStatus[p] = "absent"
        /\ execStatus' = [execStatus EXCEPT ![p] = "pending"]
        /\ \A q \in Executions : q # p => condition'[q] = condition[q]
        /\ todo' = [todo EXCEPT ![o] = {p}]
        /\ UNCHANGED <<cursor, step, job, queued, rowLock, pc, target, view, outbox>>
    BY <1>1, <1>3 DEF Start, TypeOK
  <2>2. /\ execStatus'[p] = "pending"
        /\ \A q \in Executions : q # p => execStatus'[q] = execStatus[q]
    BY <1>1, <2>1 DEF TypeOK
  <2>3. cursor[p] = 0 /\ \A i \in Steps : step[p][i] = "pending"
    BY <2>1 DEF IInv, RowsAgree
  <2>4. RowsAgree'
    <3>1. \A q \in Executions : RowAgrees(execStatus'[q], cursor'[q], step'[q])
      <4>1. RowAgrees("pending", cursor[p], step[p])
        BY <2>3 DEF RowAgrees
      <4>. QED
        BY <2>1, <2>2, <4>1, RowsAgreeByRow DEF IInv
    <3>. QED
      BY <3>1 DEF RowsAgree, RowAgrees
  <2>5. ConditionsHonoured'
    BY <2>1, <2>3 DEF IInv, ConditionsHonoured
  <2>6. JobsOnlyForReleasedSteps'
    BY <2>1 DEF IInv, JobsOnlyForReleasedSteps
  <2>7. ViewIsFresh'
    BY <2>1, <2>2 DEF IInv, ViewIsFresh
  <2>8. TodoStarted'
    BY <1>1, <2>1, <2>2 DEF IInv, TodoStarted, TypeOK
  <2>9. OutboxReleased'
    BY <2>1 DEF IInv, OutboxReleased
  <2>. QED
    BY <1>2, <2>4, <2>5, <2>6, <2>7, <2>8, <2>9 DEF IInv
<1>4. ASSUME NEW o \in Orchestrators, Tick(o)
      PROVE  IInv'
  <2>1. /\ todo' = [todo EXCEPT ![o] = ListActiveIds]
        /\ UNCHANGED <<execVars, job, queued, rowLock, pc, target, view, outbox>>
    BY <1>4 DEF Tick
  <2>2. \A q \in ListActiveIds : q \in Executions /\ execStatus[q] # "absent"
    BY DEF ListActiveIds, ActiveIds
  <2>3. TodoStarted'
    BY <1>1, <2>1, <2>2 DEF IInv, TodoStarted, TypeOK, execVars
  <2>4. /\ RowsAgree' /\ ConditionsHonoured' /\ JobsOnlyForReleasedSteps'
        /\ ViewIsFresh' /\ OutboxReleased'
    BY <2>1 DEF IInv, RowsAgree, ConditionsHonoured, JobsOnlyForReleasedSteps, ViewIsFresh,
                OutboxReleased, execVars
  <2>. QED
    BY <1>2, <2>3, <2>4 DEF IInv
<1>5. ASSUME NEW o \in Orchestrators, NEW p \in Executions, LockRow(o, p)
      PROVE  IInv'
  <2>1. /\ p \in todo[o] /\ rowLock[p] = NoOne
        /\ rowLock' = [rowLock EXCEPT ![p] = o]
        /\ pc' = [pc EXCEPT ![o] = "advance"]
        /\ target' = [target EXCEPT ![o] = p]
        /\ view' = [view EXCEPT ![o] = [exec |-> execStatus[p], step |-> step[p]]]
        /\ execStatus' = execStatus /\ cursor' = cursor /\ condition' = condition
        /\ step' = step
        /\ UNCHANGED <<job, queued, todo, outbox>>
    BY <1>5 DEF LockRow, execVars
  <2>2. /\ RowsAgree' /\ ConditionsHonoured' /\ JobsOnlyForReleasedSteps' /\ TodoStarted'
    BY <2>1 DEF IInv, RowsAgree, ConditionsHonoured, JobsOnlyForReleasedSteps, TodoStarted
  <2>3. ViewIsFresh'
    <3> SUFFICES ASSUME NEW v \in Orchestrators, pc'[v] = "advance"
                 PROVE  /\ target'[v] \in Executions
                        /\ rowLock'[target'[v]] = v
                        /\ execStatus'[target'[v]] # "absent"
                        /\ view'[v].exec = execStatus'[target'[v]]
                        /\ view'[v].step = step'[target'[v]]
      BY DEF ViewIsFresh
    <3>1. CASE v = o
      BY <1>1, <2>1, <3>1 DEF IInv, TodoStarted, TypeOK
    <3>2. CASE v # o
      <4>1. pc[v] = "advance" /\ target'[v] = target[v] /\ view'[v] = view[v]
        BY <1>1, <2>1, <3>2 DEF TypeOK
      <4>2. /\ target[v] \in Executions /\ rowLock[target[v]] = v
            /\ execStatus[target[v]] # "absent"
            /\ view[v].exec = execStatus[target[v]]
            /\ view[v].step = step[target[v]]
        BY <4>1 DEF IInv, ViewIsFresh
      <4>3. target[v] # p
        BY <2>1, <4>2, OrchestratorAssumption
      <4>. QED
        BY <1>1, <2>1, <4>1, <4>2, <4>3 DEF TypeOK
    <3>. QED
      BY <3>1, <3>2
  <2>4. OutboxReleased'
    BY <1>1, <2>1 DEF IInv, OutboxReleased, TypeOK
  <2>. QED
    BY <1>2, <2>2, <2>3, <2>4 DEF IInv
<1>6. ASSUME NEW o \in Orchestrators, AlreadyDone(o)
      PROVE  IInv'
  <2>1. /\ pc[o] = "advance" /\ Forget(o) /\ UNCHANGED <<execVars, job>>
        /\ rowLock' = [rowLock EXCEPT ![target[o]] = NoOne]
        /\ todo' = [todo EXCEPT ![o] = @ \ {target[o]}]
        /\ queued' = queued
    BY <1>6 DEF AlreadyDone, CommitAndReturn
  <2>2. \A v \in Orchestrators : todo'[v] \subseteq todo[v]
    BY <1>1, <2>1 DEF TypeOK
  <2>. QED
    BY <1>2, <2>1, <2>2, ForgettingKeeps
<1>7. ASSUME NEW o \in Orchestrators, NEW i \in Steps, AwaitJob(o, i)
      PROVE  IInv'
  <2>1. pc[o] = "advance"
    BY <1>7 DEF AwaitJob
  <2>2. PICK st : Writes(target[o], "running", i, st) /\ Commits(o, st)
    BY <1>7, AwaitWrites
  <2>3. job' = job
    BY <1>7, AwaitWrites
  <2>4. \A q \in Executions, h \in Steps :
          job'[q][h] # "absent" => job[q][h] # "absent" \/ (q = target[o] /\ st[h] \in Released)
    BY <2>3
  <2>. QED
    BY <1>2, <2>1, <2>2, <2>4, WritesKeep
<1>8. ASSUME NEW o \in Orchestrators, NEW i \in Steps, StepFailed(o, i)
      PROVE  IInv'
  <2>1. pc[o] = "advance"
    BY <1>8 DEF StepFailed
  <2>2. PICK st : Writes(target[o], "failed", i, st) /\ Commits(o, st)
    BY <1>8, FailureWrites
  <2>3. job' = job
    BY <1>8, FailureWrites
  <2>4. \A q \in Executions, h \in Steps :
          job'[q][h] # "absent" => job[q][h] # "absent" \/ (q = target[o] /\ st[h] \in Released)
    BY <2>3
  <2>. QED
    BY <1>2, <2>1, <2>2, <2>4, WritesKeep
<1>9. ASSUME NEW o \in Orchestrators, NEW i \in Steps, Release(o, i)
      PROVE  IInv'
  <2>1. pc[o] = "advance"
    BY <1>9 DEF Release
  <2>2. PICK st : /\ Writes(target[o], "running", i, st) /\ Commits(o, st)
                  /\ st[i] \in Released
    BY <1>9, ReleaseWrites
  <2>3. job' = [job EXCEPT ![target[o]][i] = IF @ = "absent" THEN "pending" ELSE @]
    BY <1>9, ReleaseWrites
  <2>4. \A q \in Executions, h \in Steps :
          job'[q][h] # "absent" => job[q][h] # "absent" \/ (q = target[o] /\ st[h] \in Released)
    BY <1>1, <2>2, <2>3 DEF TypeOK
  <2>. QED
    BY <1>2, <2>1, <2>2, <2>4, WritesKeep
<1>10. ASSUME NEW o \in Orchestrators, Finish(o)
       PROVE  IInv'
  <2>1. pc[o] = "advance"
    BY <1>10 DEF Finish
  <2>2. PICK st : Writes(target[o], "completed", NumSteps, st) /\ Commits(o, st)
    BY <1>10, FinishWrites
  <2>3. job' = job
    BY <1>10, FinishWrites
  <2>4. \A q \in Executions, h \in Steps :
          job'[q][h] # "absent" => job[q][h] # "absent" \/ (q = target[o] /\ st[h] \in Released)
    BY <2>3
  <2>. QED
    BY <1>2, <2>1, <2>2, <2>4, WritesKeep
<1>11. ASSUME NEW o \in Orchestrators, Publish(o)
       PROVE  IInv'
  <2>1. /\ pc[o] = "publish" /\ Forget(o) /\ UNCHANGED <<execVars, job, rowLock>>
        /\ todo' = [todo EXCEPT ![o] = @ \ {target[o]}]
        /\ queued' = queued \cup {<<target[o], outbox[o]>>}
    BY <1>11 DEF Publish
  <2>2. \A v \in Orchestrators : todo'[v] \subseteq todo[v]
    BY <1>1, <2>1 DEF TypeOK
  <2>3. step[target[o]][outbox[o]] \in Released
    BY <2>1 DEF IInv, OutboxReleased
  <2>4. \A q \in Executions, h \in Steps :
          <<q, h>> \in queued' => <<q, h>> \in queued \/ step[q][h] \in Released
    BY <2>1, <2>3
  <2>. QED
    BY <1>2, <2>1, <2>2, <2>4, ForgettingKeeps
<1>12. ASSUME NEW o \in Orchestrators, AdvanceThrows(o) \/ Crash(o)
       PROVE  IInv'
  <2>1. /\ Forget(o) /\ UNCHANGED <<execVars, job>> /\ queued' = queued
        /\ rowLock' = FreeRow(o)
        /\ todo' = [todo EXCEPT ![o] = @ \ {target[o]}] \/ todo' = [todo EXCEPT ![o] = {}]
    BY <1>12 DEF AdvanceThrows, Crash
  <2>2. \A v \in Orchestrators : todo'[v] \subseteq todo[v]
    BY <1>1, <2>1 DEF TypeOK
  <2>3. rowLock' = rowLock
          \/ (pc[o] = "advance" /\ rowLock' = [rowLock EXCEPT ![target[o]] = NoOne])
    BY <2>1 DEF FreeRow
  <2>. QED
    BY <1>2, <2>1, <2>2, <2>3, ForgettingKeeps
<1>13. ASSUME NEW p \in Executions, NEW i \in Steps, WorkerReports(p, i) \/ JobVanishes(p, i)
       PROVE  IInv'
  <2>1. UNCHANGED <<execStatus, cursor, condition, step, queued, rowLock, pc, todo, target,
                    view, outbox>>
    BY <1>13 DEF WorkerReports, JobVanishes, execVars, orchVars
  <2>2. \A q \in Executions, h \in Steps : job'[q][h] # "absent" => job[q][h] # "absent"
    <3>1. PICK s : job' = [job EXCEPT ![p][i] = s] /\ job[p][i] # "absent"
      BY <1>13 DEF WorkerReports, JobVanishes
    <3>2. job \in [Executions -> [Steps -> JobStatus \cup {"absent"}]]
      BY <1>1 DEF TypeOK
    <3>. QED
      BY <3>1, <3>2
  <2>3. JobsOnlyForReleasedSteps'
    BY <2>1, <2>2 DEF IInv, JobsOnlyForReleasedSteps
  <2>4. /\ RowsAgree' /\ ConditionsHonoured' /\ ViewIsFresh' /\ TodoStarted' /\ OutboxReleased'
    BY <2>1 DEF IInv, RowsAgree, ConditionsHonoured, ViewIsFresh, TodoStarted, OutboxReleased
  <2>. QED
    BY <1>2, <2>3, <2>4 DEF IInv
<1>14. CASE UNCHANGED vars
  BY <1>2, <1>14 DEF vars, IInv, RowsAgree, ConditionsHonoured, JobsOnlyForReleasedSteps,
     ViewIsFresh, TodoStarted, OutboxReleased
<1>. QED
  BY <1>3, <1>4, <1>5, <1>6, <1>7, <1>8, <1>9, <1>10, <1>11, <1>12, <1>13, <1>14
     DEF Next, Advance

LEMMA Invariant == Spec => []IInv
<1>1. Init => IInv
  <2>1. Init => TypeOK
    BY OrchestratorAssumption, BlankLocals
       DEF Init, TypeOK, ExecStatus, StepStatus, Conditions
  <2>2. Init => /\ RowsAgree /\ ConditionsHonoured /\ JobsOnlyForReleasedSteps
                /\ ViewIsFresh /\ TodoStarted /\ OutboxReleased
    BY DEF Init, RowsAgree, ConditionsHonoured, JobsOnlyForReleasedSteps, ViewIsFresh,
           TodoStarted, OutboxReleased
  <2>. QED
    BY <2>1, <2>2 DEF IInv
<1>. QED
  BY <1>1, InvInductive, PTL DEF Spec

\* The rows of every execution always tell one story, for any interleaving of any
\* number of orchestrators with rollbacks, crashes and hostile workers.
THEOREM RowsAlwaysAgree == Spec => []RowsAgree
BY Invariant, PTL DEF IInv

\* No job and no delivery ever exists for a step that was not released.
THEOREM NoJobWithoutRelease == Spec => []JobsOnlyForReleasedSteps
BY Invariant, PTL DEF IInv

\* A step only ever ran when its condition was met.
THEOREM ConditionsAlwaysHonoured == Spec => []ConditionsHonoured
BY Invariant, PTL DEF IInv

\* No step of any process, however late it comes, changes what is terminal or
\* moves a cursor back: every write is made under the row lock from a fresh view.
THEOREM NothingRegresses == Spec => NeverRegresses
<1>. DEFINE Keeps ==
       \A p \in Executions :
         /\ cursor'[p] >= cursor[p]
         /\ execStatus[p] \in TerminalExec => execStatus'[p] = execStatus[p]
         /\ \A i \in Steps : step[p][i] \in TerminalStep => step'[p][i] = step[p][i]
<1>1. IInv /\ [Next]_vars => Keeps
  <2> SUFFICES ASSUME IInv, [Next]_vars
               PROVE  Keeps
    OBVIOUS
  <2>1. TypeOK /\ \A p \in Executions : cursor[p] \in Nat
    BY OrchestratorAssumption DEF IInv, TypeOK
  <2>2. ASSUME UNCHANGED <<execStatus, cursor, step>>
        PROVE  Keeps
    BY <2>1, <2>2
  <2>3. ASSUME NEW o \in Orchestrators, pc[o] = "advance", view[o].exec \notin TerminalExec,
               NEW es, NEW c, NEW st, Writes(target[o], es, c, st)
        PROVE  Keeps
    <3>1. /\ target[o] \in Executions
          /\ execStatus[target[o]] \in {"pending", "running"}
      BY <2>3, Fresh
    <3>2. /\ c >= cursor[target[o]]
          /\ \A i \in Steps : step[target[o]][i] \in TerminalStep => st[i] = step[target[o]][i]
      BY <2>3 DEF Writes, Outcome, Follows
    <3>3. /\ execStatus'[target[o]] = es /\ cursor'[target[o]] = c /\ step'[target[o]] = st
          /\ \A q \in Executions : q # target[o] => /\ execStatus'[q] = execStatus[q]
                                                    /\ cursor'[q] = cursor[q]
                                                    /\ step'[q] = step[q]
      BY <2>1, <2>3, <3>1 DEF Writes, TypeOK
    <3>. QED
      BY <2>1, <3>1, <3>2, <3>3 DEF TerminalExec
  <2>4. ASSUME NEW o \in Orchestrators, NEW p \in Executions, Start(o, p)
        PROVE  Keeps
    BY <2>1, <2>4 DEF Start, TypeOK, TerminalExec
  <2>5. ASSUME NEW o \in Orchestrators, NEW i \in Steps, AwaitJob(o, i)
        PROVE  Keeps
    BY <2>3, <2>5, AwaitWrites DEF AwaitJob
  <2>6. ASSUME NEW o \in Orchestrators, NEW i \in Steps, StepFailed(o, i)
        PROVE  Keeps
    <3>1. PICK st : Writes(target[o], "failed", i, st)
      BY <2>6, FailureWrites
    <3>. QED
      BY <2>3, <2>6, <3>1 DEF StepFailed
  <2>7. ASSUME NEW o \in Orchestrators, NEW i \in Steps, Release(o, i)
        PROVE  Keeps
    <3>1. PICK st : Writes(target[o], "running", i, st)
      BY <2>7, ReleaseWrites
    <3>. QED
      BY <2>3, <2>7, <3>1 DEF Release
  <2>8. ASSUME NEW o \in Orchestrators, Finish(o)
        PROVE  Keeps
    <3>1. PICK st : Writes(target[o], "completed", NumSteps, st)
      BY <2>8, FinishWrites
    <3>. QED
      BY <2>3, <2>8, <3>1 DEF Finish
  <2>9. ASSUME NEW o \in Orchestrators,
               \/ Tick(o) \/ AlreadyDone(o) \/ Publish(o) \/ AdvanceThrows(o) \/ Crash(o)
               \/ \E p \in Executions : LockRow(o, p)
        PROVE  Keeps
    BY <2>2, <2>9 DEF Tick, AlreadyDone, Publish, AdvanceThrows, Crash, LockRow, execVars
  <2>10. ASSUME NEW p \in Executions, NEW i \in Steps, WorkerReports(p, i) \/ JobVanishes(p, i)
         PROVE  Keeps
    BY <2>2, <2>10 DEF WorkerReports, JobVanishes, execVars
  <2>11. CASE UNCHANGED vars
    BY <2>2, <2>11 DEF vars
  <2>. QED
    BY <2>4, <2>5, <2>6, <2>7, <2>8, <2>9, <2>10, <2>11 DEF Next, Advance
<1>2. IInv /\ [Next]_vars => [Keeps]_vars
  BY <1>1
<1>. QED
  BY <1>2, Invariant, PTL DEF Spec, NeverRegresses
=============================================================================
