------------------------ MODULE PipelineOrchestrator ------------------------
(***************************************************************************)
(* PipelineOrchestrator.advance / start / tick and the rows they own.      *)
(*                                                                         *)
(* Several orchestrator processes share one database.  Each polls the      *)
(* active pipeline executions and advances them one transaction at a time: *)
(* it locks the execution's row, reads its steps, reads the job of the     *)
(* step that is running, writes the consequences, commits, and publishes   *)
(* the released job only after the commit.  A process may lose a           *)
(* transaction, fail to publish, or crash at any of these points.          *)
(*                                                                         *)
(* The workers that run the jobs are left unconstrained here: a job that   *)
(* exists may be given any status a worker ever writes, a terminal one     *)
(* included (the marks of the repository are unconditional).  What workers *)
(* really do with a job is module JobExecution.                            *)
(***************************************************************************)
EXTENDS Integers, FiniteSets

CONSTANTS
  NumExecutions,  \* pipeline executions, named 1..NumExecutions by created_at
  NumSteps,       \* steps of every pipeline
  Pipelines,      \* rows of pipelines, each the conditions of its steps
  Orchestrators,  \* orchestrator processes
  NoOne,          \* the owner of a free row lock
  PollLimit,      \* LIMIT of listActiveIds (100 in the code)
  JobsMayVanish,  \* whether somebody outside the code may delete a job's row
  MaxFaults       \* bound: crashes, rollbacks and failed publications

Executions == 1..NumExecutions
Steps      == 0..(NumSteps - 1)
Keys       == Executions \X Steps    \* idempotency_key = peId:index:stepId

Conditions  == {"always", "on_previous_success", "on_previous_failure"}
StepStatus  == {"pending", "running", "succeeded", "failed", "dead_letter", "skipped"}
ExecStatus  == {"pending", "running", "completed", "failed"}
\* "in_flight" stands for scheduled, queued, claimed, running and retrying, which
\* advance treats alike.
JobStatus   == {"pending", "in_flight", "succeeded", "failed", "dead_letter"}

TerminalStep == {"succeeded", "failed", "dead_letter", "skipped"}
TerminalExec == {"completed", "failed"}
BadStep      == {"failed", "dead_letter"}

ASSUME OrchestratorAssumption ==
  /\ NumExecutions \in Nat
  /\ NumSteps \in Nat \ {0}
  /\ Pipelines \subseteq [Steps -> Conditions]
  /\ NoOne \notin Orchestrators
  /\ PollLimit \in Nat \ {0}
  /\ JobsMayVanish \in BOOLEAN
  /\ MaxFaults \in Nat

VARIABLES
  execStatus,  \* pipeline_executions.status; "absent" before start
  cursor,      \* pipeline_executions.current_step_index
  condition,   \* pipeline_step_executions.condition of each step
  step,        \* pipeline_step_executions.status of each step
  job,         \* jobs.status of the job of each step; "absent" without a row
  queued,      \* keys the queue holds a delivery for
  rowLock,     \* owner of the FOR UPDATE lock of each execution's row
  pc,          \* where each orchestrator is
  todo,        \* executions the current tick (or start) has yet to advance
  target,      \* the execution it is advancing
  view,        \* what its transaction read after it got the row lock
  outbox,      \* step released or found unclaimed, to publish after the commit
  faults       \* faults so far

execVars == <<execStatus, cursor, condition, step>>
orchVars == <<rowLock, pc, todo, target, view, outbox>>
vars     == <<execStatus, cursor, condition, step, job, queued, rowLock, pc, todo, target,
              view, outbox, faults>>

NoView == [exec |-> "absent", step |-> [i \in Steps |-> "pending"]]

Init ==
  /\ execStatus = [p \in Executions |-> "absent"]
  /\ cursor = [p \in Executions |-> 0]
  /\ condition = [p \in Executions |-> [i \in Steps |-> "always"]]
  /\ step = [p \in Executions |-> [i \in Steps |-> "pending"]]
  /\ job = [p \in Executions |-> [i \in Steps |-> "absent"]]
  /\ queued = {}
  /\ rowLock = [p \in Executions |-> NoOne]
  /\ pc = [o \in Orchestrators |-> "idle"]
  /\ todo = [o \in Orchestrators |-> {}]
  /\ target = [o \in Orchestrators |-> 0]
  /\ view = [o \in Orchestrators |-> NoView]
  /\ outbox = [o \in Orchestrators |-> 0]
  /\ faults = 0

-----------------------------------------------------------------------------
(* What the loop of advance decides from the steps it read.                *)

\* Wrong variant: a step that runs is not waited for.
IsActiveOncePending(st, i) == /\ st[i] = "pending"
                              /\ \A h \in Steps : h < i => st[h] # "pending"

\* The first step that is not terminal: steps.find(...), rows ordered by index.
IsActive(st, i) == /\ st[i] \notin TerminalStep
                   /\ \A h \in Steps : h < i => st[h] \in TerminalStep

\* Wrong variant: on_previous_success as "the previous step is not bad".
ConditionMetAfterSkipped(p, st, i) ==
  LET prev == {st[h] : h \in {n \in Steps : n = i - 1}} IN
  \/ condition[p][i] = "always"
  \/ condition[p][i] = "on_previous_success" /\ prev \cap BadStep = {}
  \/ condition[p][i] = "on_previous_failure" /\ prev \cap BadStep # {}

\* conditionMet, for the steps as they stand when step i is the active one:
\* prev is the step of index i - 1, if there is one.
ConditionMet(p, st, i) ==
  LET prev == {st[h] : h \in {n \in Steps : n = i - 1}} IN
  \/ condition[p][i] = "always"
  \/ condition[p][i] = "on_previous_success" /\ (i = 0 \/ "succeeded" \in prev)
  \/ condition[p][i] = "on_previous_failure" /\ prev \cap BadStep # {}

\* The loop skips the pending steps before i, one pass each.
SkipBefore(st, i) ==
  [h \in Steps |-> IF st[h] = "pending" /\ h < i THEN "skipped" ELSE st[h]]

\* Step i is where the loop stops skipping and creates a job.
Releases(p, st, i) ==
  /\ st[i] = "pending"
  /\ ConditionMet(p, SkipBefore(st, i), i)
  /\ \A h \in Steps : h < i /\ st[h] = "pending"
                        => ~ConditionMet(p, SkipBefore(st, h), h)

\* The steps after the running step i has been settled from its job's status:
\* a job that succeeded settles it, a job that is gone reopens it.
Settled(st, i, js) ==
  [st EXCEPT ![i] = IF js = "succeeded" THEN "succeeded" ELSE "pending"]

\* The steps the release loop starts from: those read when nothing runs, those
\* settled when what ran is over, none while a job holds the loop back.
Unblocked(p, st) ==
  IF \E i \in Steps : IsActive(st, i) /\ st[i] = "running"
  THEN {Settled(st, i, job[p][i]) :
          i \in {n \in Steps : IsActive(st, n) /\ job[p][n] \in {"succeeded", "absent"}}}
  ELSE {st}

-----------------------------------------------------------------------------
(* Start and poll.                                                         *)

\* start: one transaction inserts the execution and the steps of some pipeline;
\* advance(peId) follows.  Executions are named in the order of created_at.
Start(o, p) ==
  /\ pc[o] = "idle" /\ todo[o] = {}
  /\ execStatus[p] = "absent"
  /\ \A q \in Executions : q < p => execStatus[q] # "absent"
  /\ execStatus' = [execStatus EXCEPT ![p] = "pending"]
  /\ \E c \in Pipelines : condition' = [condition EXCEPT ![p] = c]
  /\ todo' = [todo EXCEPT ![o] = {p}]
  /\ UNCHANGED <<cursor, step, job, queued, rowLock, pc, target, view, outbox, faults>>

ActiveIds == {p \in Executions : execStatus[p] \in {"pending", "running"}}

\* The PollLimit oldest executions that are still active.
ListActiveIds == {p \in ActiveIds : Cardinality({q \in ActiveIds : q < p}) < PollLimit}

\* tick: runPoller never starts one while another is running.
Tick(o) ==
  /\ pc[o] = "idle" /\ todo[o] = {}
  /\ ListActiveIds # {}
  /\ todo' = [todo EXCEPT ![o] = ListActiveIds]
  /\ UNCHANGED <<execVars, job, queued, rowLock, pc, target, view, outbox, faults>>

-----------------------------------------------------------------------------
(* One advance: BEGIN, SELECT ... FOR UPDATE, the loop, COMMIT, enqueue.   *)

\* Wrong variant: the SELECT without FOR UPDATE.
LockRowWithoutForUpdate(o, p) ==
  /\ pc[o] = "idle" /\ p \in todo[o]
  /\ \A q \in todo[o] : p <= q
  /\ pc' = [pc EXCEPT ![o] = "advance"]
  /\ target' = [target EXCEPT ![o] = p]
  /\ view' = [view EXCEPT ![o] = [exec |-> execStatus[p], step |-> step[p]]]
  /\ UNCHANGED <<execVars, job, queued, rowLock, todo, outbox, faults>>

\* The oldest execution of the tick; the row lock is awaited, then the row and
\* its steps are read.
LockRow(o, p) ==
  /\ pc[o] = "idle" /\ p \in todo[o]
  /\ \A q \in todo[o] : p <= q
  /\ rowLock[p] = NoOne
  /\ rowLock' = [rowLock EXCEPT ![p] = o]
  /\ pc' = [pc EXCEPT ![o] = "advance"]
  /\ target' = [target EXCEPT ![o] = p]
  /\ view' = [view EXCEPT ![o] = [exec |-> execStatus[p], step |-> step[p]]]
  /\ UNCHANGED <<execVars, job, queued, todo, outbox, faults>>

\* What advance held in local variables is gone when it returns or throws.
Forget(o) == /\ pc' = [pc EXCEPT ![o] = "idle"]
             /\ target' = [target EXCEPT ![o] = 0]
             /\ view' = [view EXCEPT ![o] = NoView]
             /\ outbox' = [outbox EXCEPT ![o] = 0]

\* COMMIT releases the row; what there is to publish is published next.
CommitThenPublish(o, i) ==
  /\ rowLock' = [rowLock EXCEPT ![target[o]] = NoOne]
  /\ pc' = [pc EXCEPT ![o] = "publish"]
  /\ view' = [view EXCEPT ![o] = NoView]
  /\ outbox' = [outbox EXCEPT ![o] = i]
  /\ UNCHANGED <<todo, target, queued, faults>>

CommitAndReturn(o) ==
  /\ rowLock' = [rowLock EXCEPT ![target[o]] = NoOne]
  /\ todo' = [todo EXCEPT ![o] = @ \ {target[o]}]
  /\ Forget(o)
  /\ UNCHANGED <<queued, faults>>

\* The execution was already terminal.
AlreadyDone(o) ==
  /\ pc[o] = "advance"
  /\ view[o].exec \in TerminalExec
  /\ CommitAndReturn(o)
  /\ UNCHANGED <<execVars, job>>

\* Wrong variant: an unclaimed job is taken to be on its way.
AwaitJobWithoutRepublishing(o, i) ==
  LET p == target[o] IN
  /\ pc[o] = "advance"
  /\ view[o].exec \notin TerminalExec
  /\ IsActive(view[o].step, i) /\ view[o].step[i] = "running"
  /\ job[p][i] \in {"pending", "in_flight"}
  /\ cursor' = [cursor EXCEPT ![p] = i]
  /\ CommitAndReturn(o)
  /\ UNCHANGED <<execStatus, condition, step, job>>

\* The running step's job is in flight; one never claimed is published again.
AwaitJob(o, i) ==
  LET p == target[o] IN
  /\ pc[o] = "advance"
  /\ view[o].exec \notin TerminalExec
  /\ IsActive(view[o].step, i) /\ view[o].step[i] = "running"
  /\ job[p][i] \in {"pending", "in_flight"}
  /\ cursor' = [cursor EXCEPT ![p] = i]
  /\ IF job[p][i] = "pending" THEN CommitThenPublish(o, i) ELSE CommitAndReturn(o)
  /\ UNCHANGED <<execStatus, condition, step, job>>

\* Wrong variant: the steps after the failed one stay pending.
StepFailedWithoutSkipping(o, i) ==
  LET p == target[o] IN
  /\ pc[o] = "advance"
  /\ view[o].exec \notin TerminalExec
  /\ IsActive(view[o].step, i) /\ view[o].step[i] = "running"
  /\ job[p][i] \in BadStep
  /\ step' = [step EXCEPT ![p] = [view[o].step EXCEPT ![i] = job[p][i]]]
  /\ execStatus' = [execStatus EXCEPT ![p] = "failed"]
  /\ cursor' = [cursor EXCEPT ![p] = i]
  /\ CommitAndReturn(o)
  /\ UNCHANGED <<condition, job>>

\* The running step's job failed for good: what is pending is skipped.
StepFailed(o, i) ==
  LET p == target[o] IN
  /\ pc[o] = "advance"
  /\ view[o].exec \notin TerminalExec
  /\ IsActive(view[o].step, i) /\ view[o].step[i] = "running"
  /\ job[p][i] \in BadStep
  /\ step' = [step EXCEPT ![p] = [h \in Steps |->
                CASE h = i -> job[p][i]
                  [] h # i /\ view[o].step[h] = "pending" -> "skipped"
                  [] OTHER -> view[o].step[h]]]
  /\ execStatus' = [execStatus EXCEPT ![p] = "failed"]
  /\ cursor' = [cursor EXCEPT ![p] = i]
  /\ CommitAndReturn(o)
  /\ UNCHANGED <<condition, job>>

\* Wrong variant: published inside the transaction, which is then rolled back.
ReleasePublishingBeforeCommit(o, i) ==
  LET p == target[o] IN
  /\ pc[o] = "advance"
  /\ \E st \in Unblocked(p, view[o].step) : Releases(p, st, i)
  /\ queued' = queued \cup {<<p, i>>}
  /\ rowLock' = [rowLock EXCEPT ![p] = NoOne]
  /\ todo' = [todo EXCEPT ![o] = @ \ {p}]
  /\ Forget(o)
  /\ UNCHANGED <<execVars, job, faults>>

\* Step i is released; jobRepo.create keeps the row of a key that has one.
Release(o, i) ==
  LET p == target[o] IN
  /\ pc[o] = "advance"
  /\ view[o].exec \notin TerminalExec
  /\ \E st \in Unblocked(p, view[o].step) :
       /\ Releases(p, st, i)
       /\ step' = [step EXCEPT ![p] = [SkipBefore(st, i) EXCEPT ![i] = "running"]]
  /\ job' = [job EXCEPT ![p][i] = IF @ = "absent" THEN "pending" ELSE @]
  /\ execStatus' = [execStatus EXCEPT ![p] = "running"]
  /\ cursor' = [cursor EXCEPT ![p] = i]
  /\ CommitThenPublish(o, i)
  /\ UNCHANGED condition

\* Wrong variant: the cursor left one past the number of steps.
FinishPastTheEnd(o) ==
  LET p == target[o] IN
  /\ pc[o] = "advance"
  /\ view[o].exec \notin TerminalExec
  /\ \E st \in Unblocked(p, view[o].step) :
       /\ \A i \in Steps : ~Releases(p, st, i)
       /\ step' = [step EXCEPT ![p] = SkipBefore(st, NumSteps)]
       /\ execStatus' = [execStatus EXCEPT ![p] = "completed"]
  /\ cursor' = [cursor EXCEPT ![p] = NumSteps + 1]
  /\ CommitAndReturn(o)
  /\ UNCHANGED <<condition, job>>

\* Nothing is left to run.
Finish(o) ==
  LET p == target[o] IN
  /\ pc[o] = "advance"
  /\ view[o].exec \notin TerminalExec
  /\ \E st \in Unblocked(p, view[o].step) :
       /\ \A i \in Steps : ~Releases(p, st, i)
       /\ step' = [step EXCEPT ![p] = SkipBefore(st, NumSteps)]
       /\ execStatus' = [execStatus EXCEPT ![p] =
            IF \E i \in Steps : st[i] \in BadStep THEN "failed" ELSE "completed"]
  /\ cursor' = [cursor EXCEPT ![p] = NumSteps]
  /\ CommitAndReturn(o)
  /\ UNCHANGED <<condition, job>>

\* producer.enqueue: the queue ignores a key it already holds.
Publish(o) ==
  /\ pc[o] = "publish"
  /\ queued' = queued \cup {<<target[o], outbox[o]>>}
  /\ todo' = [todo EXCEPT ![o] = @ \ {target[o]}]
  /\ Forget(o)
  /\ UNCHANGED <<execVars, job, rowLock, faults>>

-----------------------------------------------------------------------------
(* Faults.                                                                 *)

FreeRow(o) == IF pc[o] = "advance" THEN [rowLock EXCEPT ![target[o]] = NoOne] ELSE rowLock

\* A statement of the transaction or the publication throws: ROLLBACK, tick
\* logs and goes on with the next execution.
AdvanceThrows(o) ==
  /\ pc[o] # "idle" /\ faults < MaxFaults
  /\ rowLock' = FreeRow(o)
  /\ todo' = [todo EXCEPT ![o] = @ \ {target[o]}]
  /\ faults' = faults + 1
  /\ Forget(o)
  /\ UNCHANGED <<execVars, job, queued>>

\* The process dies: its transaction is rolled back, the tick is forgotten.
Crash(o) ==
  /\ pc[o] # "idle" \/ todo[o] # {}
  /\ faults < MaxFaults
  /\ rowLock' = FreeRow(o)
  /\ todo' = [todo EXCEPT ![o] = {}]
  /\ faults' = faults + 1
  /\ Forget(o)
  /\ UNCHANGED <<execVars, job, queued>>

-----------------------------------------------------------------------------
(* The surroundings: workers report, a row may disappear.                  *)

WorkerReports(p, i) ==
  /\ job[p][i] # "absent"
  /\ \E s \in JobStatus \ {"pending"} : job' = [job EXCEPT ![p][i] = s]
  /\ UNCHANGED <<execVars, queued, orchVars, faults>>

JobVanishes(p, i) ==
  /\ JobsMayVanish
  /\ job[p][i] # "absent"
  /\ job' = [job EXCEPT ![p][i] = "absent"]
  /\ UNCHANGED <<execVars, queued, orchVars, faults>>

-----------------------------------------------------------------------------

Advance(o) ==
  \/ \E p \in Executions : LockRow(o, p)
  \/ AlreadyDone(o)
  \/ \E i \in Steps : AwaitJob(o, i) \/ StepFailed(o, i) \/ Release(o, i)
  \/ Finish(o)
  \/ Publish(o)

Next ==
  \/ \E o \in Orchestrators :
       \/ \E p \in Executions : Start(o, p)
       \/ Tick(o)
       \/ Advance(o)
       \/ AdvanceThrows(o)
       \/ Crash(o)
  \/ \E p \in Executions, i \in Steps : WorkerReports(p, i) \/ JobVanishes(p, i)

Spec == Init /\ [][Next]_vars

\* A process that is up keeps polling and finishes what it began; the row lock
\* of Postgres is granted to every waiter in turn.
Fairness == \A o \in Orchestrators :
              /\ WF_vars(Tick(o))
              /\ SF_vars(\E p \in Executions : LockRow(o, p))
              /\ WF_vars(Advance(o))

FairSpec == Spec /\ Fairness

-----------------------------------------------------------------------------
(* Properties.                                                             *)

\* Every variable has its type.
TypeOK ==
  /\ execStatus \in [Executions -> ExecStatus \cup {"absent"}]
  /\ cursor \in [Executions -> 0..NumSteps]
  /\ condition \in [Executions -> [Steps -> Conditions]]
  /\ step \in [Executions -> [Steps -> StepStatus]]
  /\ job \in [Executions -> [Steps -> JobStatus \cup {"absent"}]]
  /\ queued \subseteq Keys
  /\ rowLock \in [Executions -> Orchestrators \cup {NoOne}]
  /\ pc \in [Orchestrators -> {"idle", "advance", "publish"}]
  /\ todo \in [Orchestrators -> SUBSET Executions]
  /\ target \in [Orchestrators -> Executions \cup {0}]
  /\ view \in [Orchestrators -> [exec : ExecStatus \cup {"absent"},
                                 step : [Steps -> StepStatus]]]
  /\ outbox \in [Orchestrators -> Steps]
  /\ faults \in 0..MaxFaults

\* The rows of an execution tell one story, however advances by several
\* processes, rollbacks, crashes and late workers interleave: before the first
\* release nothing has moved; while it runs, the step under the cursor is the
\* only one running, all before it succeeded or were skipped and none after it
\* has been touched; it failed at the step under the cursor, with every later
\* step skipped; it completed with every step succeeded or skipped.
RowsAgree ==
  \A p \in Executions :
    /\ execStatus[p] \in {"absent", "pending"} =>
         cursor[p] = 0 /\ \A i \in Steps : step[p][i] = "pending"
    /\ execStatus[p] \in {"running", "failed"} =>
         /\ cursor[p] \in Steps
         /\ \A i \in Steps : i < cursor[p] => step[p][i] \in {"succeeded", "skipped"}
    /\ execStatus[p] = "running" =>
         /\ step[p][cursor[p]] = "running"
         /\ \A i \in Steps : i > cursor[p] => step[p][i] = "pending"
    /\ execStatus[p] = "failed" =>
         /\ step[p][cursor[p]] \in BadStep
         /\ \A i \in Steps : i > cursor[p] => step[p][i] = "skipped"
    /\ execStatus[p] = "completed" =>
         \A i \in Steps : step[p][i] \in {"succeeded", "skipped"}

\* A job row and a delivery exist only for a step that was really released:
\* nothing runs for a step that was skipped or not reached, even when the
\* transaction that would have released it is rolled back or its process dies.
JobsOnlyForReleasedSteps ==
  \A p \in Executions, i \in Steps :
    job[p][i] # "absent" \/ <<p, i>> \in queued =>
      step[p][i] \in {"running"} \cup (TerminalStep \ {"skipped"})

\* A step that ran had its condition met: on_previous_success only after a step
\* that succeeded (a skipped one is not a success), on_previous_failure only
\* after one that failed.
ConditionsHonoured ==
  \A p \in Executions, i \in Steps :
    step[p][i] \notin {"pending", "skipped"} =>
      /\ condition[p][i] = "on_previous_success" => i = 0 \/ step[p][i - 1] = "succeeded"
      /\ condition[p][i] = "on_previous_failure" => i > 0 /\ step[p][i - 1] \in BadStep

\* What was decided stays decided: no advance of any process, however late,
\* changes a step or an execution that is terminal, or moves the cursor back.
NeverRegresses ==
  [][\A p \in Executions :
       /\ cursor'[p] >= cursor[p]
       /\ execStatus[p] \in TerminalExec => execStatus'[p] = execStatus[p]
       /\ \A i \in Steps : step[p][i] \in TerminalStep => step'[p][i] = step[p][i]]_vars

\* A released job whose publication was lost between the commit and the enqueue
\* is published by a later advance, of this process or of another, unless a
\* worker gets to it first or its row is deleted.
LostPublicationIsRepeated ==
  \A p \in Executions, i \in Steps :
    step[p][i] = "running" /\ job[p][i] = "pending"
      ~> (<<p, i>> \in queued \/ job[p][i] # "pending")

\* What StepConditionType offers: a step conditioned on the failure of the one
\* before it is evaluated when that one fails, not skipped with the rest.
FailureHandlersRun ==
  \A p \in Executions, i \in Steps \ {0} :
    condition[p][i] = "on_previous_failure" /\ step[p][i - 1] \in BadStep
      => step[p][i] # "skipped"

-----------------------------------------------------------------------------
(* The orchestrator implements the run of a pipeline.                      *)

Run == INSTANCE PipelineRun WITH
  verdict <- [p \in Executions |->
               CASE execStatus[p] = "absent" -> "none"
                 [] execStatus[p] \in {"pending", "running"} -> "open"
                 [] OTHER -> execStatus[p]],
  outcome <- [p \in Executions |-> [i \in Steps |->
               CASE step[p][i] = "pending" -> "waiting"
                 [] step[p][i] = "running" -> "live"
                 [] OTHER -> step[p][i]]]

\* Every step of the orchestrator is a step of the abstract run or leaves it
\* as it was: all an observer of the execution's rows can see is steps taken in
\* order, one at a time, each with a single final outcome.
ImplementsPipelineRun == Run!Spec
=============================================================================
