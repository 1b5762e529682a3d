---------------------------- MODULE JobExecution ----------------------------
(***************************************************************************)
(* A job from its row to its outcome: createAndEnqueueJob, the BullMQ      *)
(* queue, the worker's processor, the jobs table and the recomputed        *)
(* job_executions row.                                                     *)
(*                                                                         *)
(* A worker is one processing slot.  A delivery claims the row under a     *)
(* lease, runs the driver, writes the outcome, recomputes the execution    *)
(* and answers the queue.  The queue keeps a lock for the delivery; when   *)
(* the lock is lost it delivers again, whatever the first worker is doing. *)
(* The lease and the lock know nothing of each other.                      *)
(***************************************************************************)
EXTENDS Integers, FiniteSets

CONSTANTS
  Jobs,          \* jobs of one execution
  PipelineJobs,  \* those of a pipeline: the orchestrator publishes them again
  Workers,       \* processing slots
  NoWorker,      \* the holder of a lock nobody has
  NoJob,         \* the task of an idle worker
  MaxAttempts,   \* retryPolicy.maxAttempts
  MaxStalled,    \* BullMQ's maxStalledCount
  Faults,        \* the kinds of fault that happen
  MaxFaults      \* bound: how many happen

FaultKinds == {"crash",      \* a worker, or the creator of a job, dies
               "lostReply",  \* the platform acts, its reply is lost
               "lockLoss",   \* a live worker loses the queue's lock
               "dbError",    \* a statement of the processor throws
               "slow"}       \* a worker outlives its lease

ASSUME JobAssumption ==
  /\ PipelineJobs \subseteq Jobs
  /\ IsFiniteSet(Workers)
  /\ NoWorker \notin Workers
  /\ NoJob \notin Jobs
  /\ MaxAttempts \in Nat \ {0}
  /\ MaxStalled \in Nat
  /\ Faults \subseteq FaultKinds
  /\ MaxFaults \in Nat

Terminal  == {"succeeded", "failed", "dead_letter"}
InFlight  == {"pending", "claimed", "running", "retrying"}
JobStatus == InFlight \cup Terminal

VARIABLES
  status,       \* jobs.status; "absent" before the insert
  attempts,     \* jobs.attempts
  leased,       \* whether claim_lease_expires_at is still ahead
  unsent,       \* jobs inserted whose creator has yet to enqueue them
  delivery,     \* state of the BullMQ job; "none" when the queue has none
  attemptsMade, \* BullMQ: finished attempts
  stalls,       \* BullMQ: stalled deliveries
  holder,       \* BullMQ: the worker whose token locks the active delivery
  pc,           \* where each worker's processor is
  task,         \* the job of its delivery
  tries,        \* bullJob.attemptsMade as it was delivered
  result,       \* what the driver said, or how the processor ends
  acts,         \* real actions taken on the platform
  execStatus,   \* job_executions.status
  execLock,     \* holder of the row lock of recompute
  derived,      \* the status its transaction computed from the counts
  faults,       \* how many faults so far
  suffered      \* of which kinds

dbVars     == <<status, attempts, leased>>
queueVars  == <<delivery, attemptsMade, stalls, holder>>
workerVars == <<pc, task, tries, result>>
execVars   == <<execStatus, execLock, derived>>
faultVars  == <<faults, suffered>>
vars       == <<status, attempts, leased, unsent, delivery, attemptsMade, stalls, holder,
                pc, task, tries, result, acts, execStatus, execLock, derived, faults,
                suffered>>

Init ==
  /\ status = [j \in Jobs |-> "absent"]
  /\ attempts = [j \in Jobs |-> 0]
  /\ leased = [j \in Jobs |-> FALSE]
  /\ unsent = {}
  /\ delivery = [j \in Jobs |-> "none"]
  /\ attemptsMade = [j \in Jobs |-> 0]
  /\ stalls = [j \in Jobs |-> 0]
  /\ holder = [j \in Jobs |-> NoWorker]
  /\ pc = [w \in Workers |-> "idle"]
  /\ task = [w \in Workers |-> NoJob]
  /\ tries = [w \in Workers |-> 0]
  /\ result = [w \in Workers |-> "none"]
  /\ acts = [j \in Jobs |-> 0]
  /\ execStatus = "pending"
  /\ execLock = NoWorker
  /\ derived = [w \in Workers |-> "pending"]
  /\ faults = 0
  /\ suffered = {}

Fault(kind) == /\ kind \in Faults /\ faults < MaxFaults
               /\ faults' = faults + 1
               /\ suffered' = suffered \cup {kind}

-----------------------------------------------------------------------------
(* Creation and publication.                                               *)

\* jobRepo.create: the first insert of an idempotency key.
CreateJob(j) ==
  /\ status[j] = "absent"
  /\ status' = [status EXCEPT ![j] = "pending"]
  /\ unsent' = unsent \cup {j}
  /\ UNCHANGED <<attempts, leased, queueVars, workerVars, acts, execVars, faultVars>>

\* queue.add: the queue keeps the job it already has under this key.  Only
\* refreshes, which no pipeline releases, are published with a delay.
Add(j) == /\ \/ /\ delivery[j] = "none"
                /\ delivery' = [delivery EXCEPT ![j] = "wait"]
             \/ /\ delivery[j] = "none" /\ j \notin PipelineJobs
                /\ delivery' = [delivery EXCEPT ![j] = "delayed"]
             \/ /\ delivery[j] # "none"
                /\ UNCHANGED delivery
          /\ UNCHANGED <<dbVars, attemptsMade, stalls, holder, workerVars, acts, execVars>>

Enqueue(j) == /\ j \in unsent
              /\ unsent' = unsent \ {j}
              /\ Add(j)
              /\ UNCHANGED faultVars

\* Wrong variant: published again only once the queue gave up on it.
RepublishFailed(j) == /\ j \in PipelineJobs /\ status[j] = "pending"
                      /\ delivery[j] = "failed"
                      /\ Add(j)
                      /\ UNCHANGED <<unsent, faultVars>>

\* The orchestrator publishes again a job it finds unclaimed.
Republish(j) == /\ j \in PipelineJobs /\ status[j] = "pending"
                /\ delivery[j] = "none"
                /\ Add(j)
                /\ UNCHANGED <<unsent, faultVars>>

\* The creator dies, or queue.add throws, between the insert and the queue.
CreatorCrashes(j) == /\ j \in unsent
                     /\ Fault("crash")
                     /\ unsent' = unsent \ {j}
                     /\ UNCHANGED <<dbVars, queueVars, workerVars, acts, execVars>>

-----------------------------------------------------------------------------
(* The queue.                                                              *)

\* The delay of the stagger or of the backoff is over.
Promote(j) == /\ delivery[j] = "delayed"
              /\ delivery' = [delivery EXCEPT ![j] = "wait"]
              /\ UNCHANGED <<dbVars, unsent, attemptsMade, stalls, holder, workerVars,
                             acts, execVars, faultVars>>

Deliver(w, j) ==
  /\ pc[w] = "idle" /\ delivery[j] = "wait"
  /\ delivery' = [delivery EXCEPT ![j] = "active"]
  /\ holder' = [holder EXCEPT ![j] = w]
  /\ pc' = [pc EXCEPT ![w] = "claim"]
  /\ task' = [task EXCEPT ![w] = j]
  /\ tries' = [tries EXCEPT ![w] = attemptsMade[j]]
  /\ UNCHANGED <<dbVars, unsent, attemptsMade, stalls, result, acts, execVars, faultVars>>

\* The worker that has the lock died, or is alive and could not renew it.
LockLost(j) == \/ task[holder[j]] # j /\ UNCHANGED faultVars
               \/ task[holder[j]] = j /\ Fault("lockLoss")

\* Wrong variant: a stalled delivery is repeated without end.
StallForever(j) ==
  /\ delivery[j] = "active" /\ LockLost(j)
  /\ holder' = [holder EXCEPT ![j] = NoWorker]
  /\ delivery' = [delivery EXCEPT ![j] = "wait"]
  /\ UNCHANGED <<dbVars, unsent, attemptsMade, stalls, workerVars, acts, execVars>>

\* The stalled-job check: the delivery is repeated, MaxStalled times at most.
Stall(j) ==
  /\ delivery[j] = "active" /\ LockLost(j)
  /\ holder' = [holder EXCEPT ![j] = NoWorker]
  /\ \/ /\ stalls[j] < MaxStalled
        /\ delivery' = [delivery EXCEPT ![j] = "wait"]
        /\ stalls' = [stalls EXCEPT ![j] = @ + 1]
     \/ /\ stalls[j] = MaxStalled
        /\ delivery' = [delivery EXCEPT ![j] = "failed"]
        /\ UNCHANGED stalls
  /\ UNCHANGED <<dbVars, unsent, attemptsMade, workerVars, acts, execVars>>

\* removeOnComplete and removeOnFail: a thousand jobs that finished later push a
\* finished one out.  Nobody is still busy with it by then.
Evict(j) ==
  /\ delivery[j] \in {"completed", "failed"}
  /\ j \notin unsent /\ \A w \in Workers : task[w] # j
  /\ delivery' = [delivery EXCEPT ![j] = "none"]
  /\ attemptsMade' = [attemptsMade EXCEPT ![j] = 0]
  /\ stalls' = [stalls EXCEPT ![j] = 0]
  /\ UNCHANGED <<dbVars, unsent, holder, workerVars, acts, execVars, faultVars>>

-----------------------------------------------------------------------------
(* The processor: one action per statement it awaits.                      *)

Goto(w, label) == pc' = [pc EXCEPT ![w] = label]

At(w, label) == pc[w] = label

\* Wrong variant: a job in flight is claimed whatever its lease says.
ClaimableIgnoringLease(j) == status[j] \in InFlight

\* Wrong variant: a job that failed is claimed again.
ClaimableAfterFailure(j) == \/ status[j] \in {"pending", "retrying", "failed"}
                            \/ status[j] \in {"claimed", "running"} /\ ~leased[j]

Claimable(j) == \/ status[j] \in {"pending", "retrying"}
                \/ status[j] \in {"claimed", "running"} /\ ~leased[j]

\* Wrong variant: to take over an expired lease is no new attempt.
ClaimByIdUncounted(w) ==
  LET j == task[w] IN
  /\ At(w, "claim")
  /\ \/ /\ Claimable(j)
        /\ status' = [status EXCEPT ![j] = "claimed"]
        /\ attempts' = [attempts EXCEPT ![j] = IF status[j] = "pending" THEN @ + 1 ELSE @]
        /\ leased' = [leased EXCEPT ![j] = TRUE]
        /\ Goto(w, "start")
        /\ UNCHANGED result
     \/ /\ ~Claimable(j)
        /\ Goto(w, "answer")
        /\ result' = [result EXCEPT ![w] = "skip"]
        /\ UNCHANGED dbVars
  /\ UNCHANGED <<unsent, queueVars, task, tries, acts, execVars, faultVars>>

\* claimById: one conditional UPDATE; what cannot be claimed is skipped.
ClaimById(w) ==
  LET j == task[w] IN
  /\ At(w, "claim")
  /\ \/ /\ Claimable(j)
        /\ status' = [status EXCEPT ![j] = "claimed"]
        /\ attempts' = [attempts EXCEPT ![j] = @ + 1]
        /\ leased' = [leased EXCEPT ![j] = TRUE]
        /\ Goto(w, "start")
        /\ UNCHANGED result
     \/ /\ ~Claimable(j)
        /\ Goto(w, "answer")
        /\ result' = [result EXCEPT ![w] = "skip"]
        /\ UNCHANGED dbVars
  /\ UNCHANGED <<unsent, queueVars, task, tries, acts, execVars, faultVars>>

MarkRunning(w) ==
  /\ At(w, "start")
  /\ status' = [status EXCEPT ![task[w]] = "running"]
  /\ Goto(w, "execute")
  /\ UNCHANGED <<attempts, leased, unsent, queueVars, task, tries, result, acts, execVars,
                 faultVars>>

\* driver.execute: the action is taken and confirmed, refused for good, refused
\* for now, or taken with the reply lost, which the driver calls a refusal for now.
Execute(w) ==
  /\ At(w, "execute")
  /\ \/ /\ result' = [result EXCEPT ![w] = "ok"]
        /\ acts' = [acts EXCEPT ![task[w]] = @ + 1]
        /\ UNCHANGED faultVars
     \/ /\ \E r \in {"fatal", "transient"} : result' = [result EXCEPT ![w] = r]
        /\ UNCHANGED <<acts, faultVars>>
     \/ /\ result' = [result EXCEPT ![w] = "transient"]
        /\ acts' = [acts EXCEPT ![task[w]] = @ + 1]
        /\ Fault("lostReply")
  /\ Goto(w, "settle")
  /\ UNCHANGED <<dbVars, unsent, queueVars, task, tries, execVars>>

\* Wrong variant: the last attempt is taken for the last but one.
OutcomeOneLate(w) ==
  CASE result[w] = "ok" -> "succeeded"
    [] result[w] = "fatal" -> "failed"
    [] result[w] = "transient" /\ tries[w] >= MaxAttempts -> "dead_letter"
    [] OTHER -> "retrying"

\* Wrong variant: the last attempt but one is taken for the last.
OutcomeOneEarly(w) ==
  CASE result[w] = "ok" -> "succeeded"
    [] result[w] = "fatal" -> "failed"
    [] result[w] = "transient" /\ tries[w] + 2 >= MaxAttempts -> "dead_letter"
    [] OTHER -> "retrying"

\* Wrong variant: refused for good is written as a retry.
OutcomeRetryable(w) ==
  CASE result[w] = "ok" -> "succeeded"
    [] result[w] = "transient" /\ tries[w] + 1 >= MaxAttempts -> "dead_letter"
    [] OTHER -> "retrying"

Outcome(w) ==
  CASE result[w] = "ok" -> "succeeded"
    [] result[w] = "fatal" -> "failed"
    [] result[w] = "transient" /\ tries[w] + 1 >= MaxAttempts -> "dead_letter"
    [] OTHER -> "retrying"

\* markSucceeded, markFailed, markDeadLetter or markRetrying: WHERE id = $1.
Settle(w) ==
  /\ At(w, "settle")
  /\ status' = [status EXCEPT ![task[w]] = Outcome(w)]
  /\ Goto(w, "recompute")
  /\ UNCHANGED <<attempts, leased, unsent, queueVars, task, tries, result, acts, execVars,
                 faultVars>>

\* The status of the execution, from the statuses of its jobs.
Aggregate(S) ==
  CASE S = {} -> "pending"
    [] S \cap InFlight # {} -> "running"
    [] S \cap InFlight = {} /\ S \cap {"failed", "dead_letter"} # {} /\ "succeeded" \in S
         -> "partially_failed"
    [] S # {} /\ S \subseteq {"failed", "dead_letter"} -> "failed"
    [] OTHER -> "completed"

\* Wrong variant: the counts are read before the row is locked.
RecomputeWithoutForUpdate(w) ==
  /\ At(w, "recompute")
  /\ derived' = [derived EXCEPT ![w] = Aggregate({status[j] : j \in Jobs} \ {"absent"})]
  /\ Goto(w, "write")
  /\ UNCHANGED <<dbVars, unsent, queueVars, task, tries, result, acts, execStatus, execLock,
                 faultVars>>

\* recompute: SELECT ... FOR UPDATE, then the counts.
Recompute(w) ==
  /\ At(w, "recompute")
  /\ execLock = NoWorker
  /\ execLock' = w
  /\ derived' = [derived EXCEPT ![w] = Aggregate({status[j] : j \in Jobs} \ {"absent"})]
  /\ Goto(w, "write")
  /\ UNCHANGED <<dbVars, unsent, queueVars, task, tries, result, acts, execStatus,
                 faultVars>>

\* UPDATE job_executions, COMMIT.
WriteExecution(w) ==
  /\ At(w, "write")
  /\ execStatus' = derived[w]
  /\ execLock' = NoWorker
  /\ Goto(w, "answer")
  /\ UNCHANGED <<dbVars, unsent, queueVars, task, tries, result, acts, derived, faultVars>>

Free(w) == /\ Goto(w, "idle")
           /\ task' = [task EXCEPT ![w] = NoJob]
           /\ tries' = [tries EXCEPT ![w] = 0]
           /\ result' = [result EXCEPT ![w] = "none"]
           /\ derived' = [derived EXCEPT ![w] = "pending"]

\* Wrong variant: the attempt that just ended is not counted.
AnswerOneMore(w) ==
  LET j == task[w] IN
  /\ At(w, "answer")
  /\ holder[j] = w
  /\ holder' = [holder EXCEPT ![j] = NoWorker]
  /\ delivery' = [delivery EXCEPT ![j] =
       CASE result[w] \in {"ok", "skip"} -> "completed"
         [] result[w] = "fatal" -> "failed"
         [] OTHER -> IF attemptsMade[j] <= MaxAttempts THEN "delayed" ELSE "failed"]
  /\ attemptsMade' = [attemptsMade EXCEPT ![j] = @ + 1]
  /\ UNCHANGED stalls
  /\ Free(w)
  /\ UNCHANGED <<dbVars, unsent, acts, execStatus, execLock, faultVars>>

\* The processor returns or throws.  The queue ignores a worker without the
\* lock; else it completes the job, fails it or schedules the next attempt.
Answer(w) ==
  LET j == task[w] IN
  /\ At(w, "answer")
  /\ \/ /\ holder[j] # w
        /\ UNCHANGED queueVars
     \/ /\ holder[j] = w
        /\ holder' = [holder EXCEPT ![j] = NoWorker]
        /\ delivery' = [delivery EXCEPT ![j] =
             CASE result[w] \in {"ok", "skip"} -> "completed"
               [] result[w] = "fatal" -> "failed"
               [] OTHER -> IF attemptsMade[j] + 1 < MaxAttempts THEN "delayed" ELSE "failed"]
        /\ attemptsMade' = [attemptsMade EXCEPT ![j] = @ + 1]
        /\ UNCHANGED stalls
  /\ Free(w)
  /\ UNCHANGED <<dbVars, unsent, acts, execStatus, execLock, faultVars>>

-----------------------------------------------------------------------------
(* Time and faults.                                                        *)

\* Between the claim and the mark the worker relies on its lease.
Acting(w, j) == task[w] = j /\ pc[w] \in {"start", "execute", "settle"}

\* The lease runs out; under a live worker only if that one is slow.
LeaseExpires(j) ==
  /\ leased[j] /\ status[j] \in {"claimed", "running"}
  /\ \/ (\A w \in Workers : ~Acting(w, j)) /\ UNCHANGED faultVars
     \/ (\E w \in Workers : Acting(w, j)) /\ Fault("slow")
  /\ leased' = [leased EXCEPT ![j] = FALSE]
  /\ UNCHANGED <<status, attempts, unsent, queueVars, workerVars, acts, execVars>>

Unlock(w) == execLock' = IF execLock = w THEN NoWorker ELSE execLock

\* A statement of the processor throws; recompute rolls back.
Throws(w) ==
  /\ pc[w] \notin {"idle", "answer"}
  /\ Fault("dbError")
  /\ result' = [result EXCEPT ![w] = "throw"]
  /\ Goto(w, "answer")
  /\ Unlock(w)
  /\ UNCHANGED <<dbVars, unsent, queueVars, task, tries, acts, execStatus, derived>>

\* The worker dies wherever it is; its lock and its lease run out later.
Crash(w) ==
  /\ pc[w] # "idle"
  /\ Fault("crash")
  /\ Free(w)
  /\ Unlock(w)
  /\ UNCHANGED <<dbVars, unsent, queueVars, acts, execStatus>>

-----------------------------------------------------------------------------

Process(w) == \/ \E j \in Jobs : Deliver(w, j)
              \/ ClaimById(w)
              \/ MarkRunning(w)
              \/ Execute(w)
              \/ Settle(w)
              \/ Recompute(w)
              \/ WriteExecution(w)
              \/ Answer(w)

Next ==
  \/ \E j \in Jobs : \/ CreateJob(j) \/ Enqueue(j) \/ Republish(j) \/ CreatorCrashes(j)
                     \/ Promote(j) \/ Stall(j) \/ Evict(j) \/ LeaseExpires(j)
  \/ \E w \in Workers : Process(w) \/ Throws(w) \/ Crash(w)

Spec == Init /\ [][Next]_vars

\* Publishers, queue and workers that are up go on; time passes.
Fairness == /\ \A j \in Jobs : /\ WF_vars(Enqueue(j)) /\ WF_vars(Republish(j))
                               /\ WF_vars(Promote(j)) /\ WF_vars(Stall(j))
                               /\ WF_vars(LeaseExpires(j))
            /\ \A w \in Workers : WF_vars(Process(w))

FairSpec == Spec /\ Fairness

-----------------------------------------------------------------------------
(* Properties.                                                             *)

\* Every variable has its type.
TypeOK ==
  /\ status \in [Jobs -> JobStatus \cup {"absent"}]
  /\ attempts \in [Jobs -> Nat]
  /\ leased \in [Jobs -> BOOLEAN]
  /\ unsent \subseteq Jobs
  /\ delivery \in [Jobs -> {"none", "delayed", "wait", "active", "completed", "failed"}]
  /\ attemptsMade \in [Jobs -> 0..MaxAttempts]
  /\ stalls \in [Jobs -> 0..MaxStalled]
  /\ holder \in [Jobs -> Workers \cup {NoWorker}]
  /\ pc \in [Workers -> {"idle", "claim", "start", "execute", "settle", "recompute",
                         "write", "answer"}]
  /\ task \in [Workers -> Jobs \cup {NoJob}]
  /\ tries \in [Workers -> 0..MaxAttempts]
  /\ result \in [Workers -> {"none", "ok", "fatal", "transient", "skip", "throw"}]
  /\ acts \in [Jobs -> Nat]
  /\ execStatus \in {"pending", "running", "partially_failed", "failed", "completed"}
  /\ execLock \in Workers \cup {NoWorker}
  /\ derived \in [Workers -> {"pending", "running", "partially_failed", "failed",
                              "completed"}]
  /\ faults \in 0..MaxFaults
  /\ suffered \subseteq Faults

\* The lease keeps a job to one worker between its claim and its mark, although
\* the queue may deliver the job again at any moment: two workers are never on
\* it at once while no worker outlives its lease.
OneClaimant ==
  "slow" \notin suffered =>
    \A v, w \in Workers, j \in Jobs : Acting(v, j) /\ Acting(w, j) => v = w

\* An outcome is final: redeliveries, crashes, lost locks and failing statements
\* do not unmark a job, although every mark is unconditional.  (A worker that
\* outlives its lease can.)
SettledForGood ==
  [][\A j \in Jobs : "slow" \notin suffered' /\ status[j] \in Terminal
                       => status'[j] = status[j]]_vars

\* However many deliveries fail, stall or are repeated, no job is attempted more
\* often than its policy and the queue's allowance for stalls together permit.
AttemptsBounded == \A j \in Jobs : attempts[j] <= MaxAttempts + MaxStalled

\* A job is given up only when its policy's attempts were really used: the
\* processor's count (attemptsMade + 1) and the row's agree unless a statement
\* threw before the claim.
GivenUpWhenExhausted ==
  "dbError" \notin suffered =>
    \A j \in Jobs : status[j] = "dead_letter" => attempts[j] >= MaxAttempts

\* When the queue is done with a job, so is the database: nothing remains that
\* would ever deliver a job that is not terminal.  It takes a crash, a lost lock
\* or a failing statement to part them.
QueueAgreesWithRow ==
  suffered \subseteq {"slow", "lostReply"} =>
    \A j \in Jobs : delivery[j] \in {"completed", "failed"} => status[j] \in Terminal

\* The row tells what happened on the platform: a job that succeeded acted
\* exactly once, one that failed never did, even when the queue delivers it
\* twice.
OutcomesTellTheTruth ==
  suffered \subseteq {"slow"} \/ suffered \subseteq {"lockLoss"} =>
    \A j \in Jobs : /\ status[j] = "succeeded" => acts[j] = 1
                    /\ status[j] \in {"failed", "dead_letter"} => acts[j] = 0

\* Whatever fails, stalls, is repeated or overruns, the platform sees no more
\* actions of a job than the attempts its row counts, and at least one of a job
\* that succeeded: the most that rule 9 can mean where a reply may be lost.
ActsAreAttempts ==
  \A j \in Jobs : acts[j] <= attempts[j] /\ (status[j] = "succeeded" => acts[j] > 0)

\* Once no recompute is under way, an execution whose jobs are all over has the
\* status their outcomes give it, in whatever order the workers finished.
ExecutionReflectsJobs ==
  LET S == {status[j] : j \in Jobs} \ {"absent"} IN
  /\ suffered \cap {"crash", "dbError"} = {}
  /\ S # {} /\ S \subseteq Terminal
  /\ \A w \in Workers : pc[w] \notin {"recompute", "write"}
  => execStatus = Aggregate(S)

\* Without faults every job that is created ends in an outcome.
EveryJobSettles ==
  \A j \in Jobs : status[j] = "pending" ~> status[j] \in Terminal \/ faults > 0

\* A job of a pipeline is claimed in the end, although its publisher or a worker
\* may die between any two steps.
PipelineJobsAreClaimed ==
  \A j \in PipelineJobs : status[j] = "pending" ~> status[j] # "pending"

\* What jobRepository.ts says of claimById: it takes back the jobs stuck in
\* claimed or running whose lease has expired.
StuckJobsAreRecovered ==
  \A j \in Jobs : status[j] \in {"claimed", "running"} /\ ~leased[j]
                    ~> leased[j] \/ status[j] \in Terminal

\* Rule 9 as 0001_init.sql states it: a retry never duplicates a real action.
RetryNeverRepeatsTheAction == \A j \in Jobs : acts[j] <= 1

-----------------------------------------------------------------------------
(* Queue, leases and locks together implement the ledger of the jobs.      *)

\* What the ledger shows of a row's status.
Standing(s) == CASE s \in {"pending", "retrying"}  -> "open"
                 [] s \in {"claimed", "running"} -> "taken"
                 [] OTHER                        -> s

\* What a processor has in its grip between its claim and its mark.
Grip(at, j, r) == CASE at \in {"start", "execute"} -> [job |-> j, reply |-> "none"]
                    [] at = "settle"              -> [job |-> j, reply |-> r]
                    [] OTHER                      -> [job |-> NoJob, reply |-> "none"]

Standings == [j \in Jobs |-> Standing(status[j])]
Grips     == [w \in Workers |-> Grip(pc[w], task[w], result[w])]

Ledger == INSTANCE JobLedger WITH
  Allowance <- MaxAttempts + MaxStalled, standing <- Standings, grip <- Grips,
  overrun <- "slow" \in suffered, thrown <- "dbError" \in suffered

\* Seen from the rows and from the platform, the queue, its redeliveries, the
\* leases and the crashes are an orderly taking of turns: a job has one worker
\* at a time, an attempt acts once at most and is concluded as it was answered,
\* an outcome is final, unless a worker outlives its lease.
ImplementsJobLedger == Ledger!Spec
=============================================================================
