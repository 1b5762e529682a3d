------------------------- MODULE JobExecutionProofs -------------------------
(***************************************************************************)
(* Theorems about job execution, for any jobs, workers, retry policy and   *)
(* faults: the lease, the sum an execution is of its jobs, and what row,   *)
(* queue and platform say of each other.                                   *)
(***************************************************************************)
EXTENDS JobExecution, TLAPS

\* A processor that is not idle works on a job.
BusyOnAJob == \A w \in Workers : pc[w] # "idle" => task[w] \in Jobs

\* The queue holds a lock only for an active delivery, and delivers a job only
\* while its policy leaves it an attempt.
QueueSound ==
  \A j \in Jobs : /\ holder[j] # NoWorker => delivery[j] = "active"
                  /\ delivery[j] \notin {"completed", "failed"} => attemptsMade[j] < MaxAttempts

\* While no worker outlives its lease, a worker between its claim and its mark
\* holds a live lease on a job in flight, and holds it alone.
ClaimHeld ==
  "slow" \notin suffered =>
    \A w \in Workers, j \in Jobs : Acting(w, j) =>
      /\ status[j] \in {"claimed", "running"}
      /\ leased[j]
      /\ \A v \in Workers : Acting(v, j) => v = w

IInv == TypeOK /\ BusyOnAJob /\ QueueSound /\ ClaimHeld

ExecStatusType == {"pending", "running", "partially_failed", "failed", "completed"}

-----------------------------------------------------------------------------
(* Type correctness.                                                       *)

\* A fault that happens is one of the kinds allowed, and is counted.
LEMMA FaultTypes ==
  ASSUME TypeOK, NEW kind, Fault(kind)
  PROVE  faults' \in 0..MaxFaults /\ suffered' \subseteq Faults
BY JobAssumption DEF Fault, TypeOK

\* recompute writes one of the statuses of an execution.
LEMMA AggregateType == ASSUME NEW S PROVE Aggregate(S) \in ExecStatusType
BY DEF Aggregate, ExecStatusType

\* A worker that is done forgets its delivery.
LEMMA FreeTypes ==
  ASSUME TypeOK, BusyOnAJob, NEW w \in Workers, Free(w)
  PROVE  /\ pc' \in [Workers -> {"idle", "claim", "start", "execute", "settle", "recompute",
                                 "write", "answer"}]
         /\ task' \in [Workers -> Jobs \cup {NoJob}]
         /\ tries' \in [Workers -> 0..MaxAttempts]
         /\ result' \in [Workers -> {"none", "ok", "fatal", "transient", "skip", "throw"}]
         /\ derived' \in [Workers -> {"pending", "running", "partially_failed", "failed",
                                      "completed"}]
         /\ BusyOnAJob'
<1>1. 0 \in 0..MaxAttempts
  BY JobAssumption
<1>. QED
  BY <1>1 DEF TypeOK, Free, Goto, BusyOnAJob

TypeInv == TypeOK /\ BusyOnAJob /\ QueueSound

\* Every step keeps the types, with what they rest on.
LEMMA TypeInductive == TypeInv /\ [Next]_vars => TypeInv'
<1> SUFFICES ASSUME TypeInv, [Next]_vars
             PROVE  TypeInv'
  OBVIOUS
<1> USE DEF TypeInv
<1>1. ASSUME NEW j \in Jobs, CreateJob(j)
      PROVE  TypeInv'
  BY <1>1 DEF CreateJob, TypeOK, BusyOnAJob, QueueSound, JobStatus, InFlight, queueVars,
              workerVars, execVars, faultVars
<1>2. ASSUME NEW j \in Jobs, Enqueue(j) \/ Republish(j)
      PROVE  TypeInv'
  BY <1>2 DEF Enqueue, Republish, Add, TypeOK, BusyOnAJob, QueueSound, dbVars,
              workerVars, execVars, faultVars
<1>3. ASSUME NEW j \in Jobs, CreatorCrashes(j)
      PROVE  TypeInv'
  BY <1>3, FaultTypes DEF CreatorCrashes, TypeOK, BusyOnAJob, QueueSound, dbVars, queueVars,
              workerVars, execVars
<1>4. ASSUME NEW j \in Jobs, Promote(j)
      PROVE  TypeInv'
  BY <1>4 DEF Promote, TypeOK, BusyOnAJob, QueueSound, dbVars, workerVars, execVars, faultVars
<1>5. ASSUME NEW j \in Jobs, Stall(j)
      PROVE  TypeInv'
  BY <1>5, FaultTypes, JobAssumption DEF Stall, LockLost, TypeOK, BusyOnAJob, QueueSound,
              dbVars, workerVars, execVars, faultVars
<1>6. ASSUME NEW j \in Jobs, Evict(j)
      PROVE  TypeInv'
  BY <1>6, JobAssumption DEF Evict, TypeOK, BusyOnAJob, QueueSound, dbVars, workerVars,
              execVars, faultVars
<1>7. ASSUME NEW j \in Jobs, LeaseExpires(j)
      PROVE  TypeInv'
  BY <1>7, FaultTypes DEF LeaseExpires, TypeOK, BusyOnAJob, QueueSound, queueVars, workerVars,
              execVars, faultVars
<1>8. ASSUME NEW w \in Workers, NEW j \in Jobs, Deliver(w, j)
      PROVE  TypeInv'
  BY <1>8, JobAssumption DEF Deliver, TypeOK, BusyOnAJob, QueueSound, dbVars, execVars,
              faultVars
<1>9. ASSUME NEW w \in Workers, ClaimById(w)
      PROVE  TypeInv'
  <2>1. task[w] \in Jobs
    BY <1>9 DEF ClaimById, At, BusyOnAJob
  <2>2. /\ status' \in [Jobs -> JobStatus \cup {"absent"}]
        /\ attempts' \in [Jobs -> Nat]
        /\ leased' \in [Jobs -> BOOLEAN]
    <3>1. /\ status \in [Jobs -> JobStatus \cup {"absent"}]
          /\ attempts \in [Jobs -> Nat]
          /\ leased \in [Jobs -> BOOLEAN]
      BY DEF TypeOK
    <3>2. CASE UNCHANGED dbVars
      BY <3>1, <3>2 DEF dbVars
    <3>3. CASE /\ status' = [status EXCEPT ![task[w]] = "claimed"]
               /\ attempts' = [attempts EXCEPT ![task[w]] = @ + 1]
               /\ leased' = [leased EXCEPT ![task[w]] = TRUE]
      BY <2>1, <3>1, <3>3 DEF JobStatus, InFlight
    <3>. QED
      BY <1>9, <3>2, <3>3 DEF ClaimById
  <2>3. QueueSound' /\ BusyOnAJob'
    BY <1>9 DEF ClaimById, At, Goto, TypeOK, BusyOnAJob, QueueSound, queueVars
  <2>4. TypeOK'
    BY <1>9, <2>2 DEF ClaimById, Goto, TypeOK, queueVars, execVars, faultVars
  <2>. QED
    BY <2>3, <2>4
<1>10. ASSUME NEW w \in Workers, MarkRunning(w)
       PROVE  TypeInv'
  BY <1>10 DEF MarkRunning, At, Goto, TypeOK, BusyOnAJob, QueueSound, JobStatus, InFlight,
              queueVars, execVars, faultVars
<1>11. ASSUME NEW w \in Workers, Execute(w)
       PROVE  TypeInv'
  BY <1>11, FaultTypes DEF Execute, At, Goto, TypeOK, BusyOnAJob, QueueSound, dbVars,
              queueVars, execVars, faultVars
<1>12. ASSUME NEW w \in Workers, Settle(w)
       PROVE  TypeInv'
  BY <1>12 DEF Settle, Outcome, At, Goto, TypeOK, BusyOnAJob, QueueSound, JobStatus, InFlight,
              Terminal, queueVars, execVars, faultVars
<1>13. ASSUME NEW w \in Workers, Recompute(w)
       PROVE  TypeInv'
  BY <1>13, AggregateType DEF Recompute, At, Goto, TypeOK, BusyOnAJob, QueueSound,
              ExecStatusType, dbVars, queueVars, faultVars
<1>14. ASSUME NEW w \in Workers, WriteExecution(w)
       PROVE  TypeInv'
  BY <1>14 DEF WriteExecution, At, Goto, TypeOK, BusyOnAJob, QueueSound, dbVars, queueVars,
              faultVars
<1>15. ASSUME NEW w \in Workers, Answer(w)
       PROVE  TypeInv'
  BY <1>15, FreeTypes, JobAssumption DEF Answer, At, TypeOK, BusyOnAJob, QueueSound, dbVars,
              queueVars, faultVars
<1>16. ASSUME NEW w \in Workers, Throws(w) \/ Crash(w)
       PROVE  TypeInv'
  BY <1>16, FaultTypes, FreeTypes DEF Throws, Crash, Goto, Unlock, TypeOK, BusyOnAJob,
              QueueSound, dbVars, queueVars
<1>17. CASE UNCHANGED vars
  BY <1>17 DEF vars, TypeOK, BusyOnAJob, QueueSound
<1>. QED
  BY <1>1, <1>2, <1>3, <1>4, <1>5, <1>6, <1>7, <1>8, <1>9, <1>10, <1>11, <1>12, <1>13, <1>14,
     <1>15, <1>16, <1>17 DEF Next, Process

\* Every variable of job execution always has its type.
THEOREM TypeCorrect == Spec => []TypeOK
<1>1. Init => TypeInv
  BY JobAssumption DEF Init, TypeInv, TypeOK, BusyOnAJob, QueueSound
<1>. QED
  BY <1>1, TypeInductive, PTL DEF Spec, TypeInv

-----------------------------------------------------------------------------
(* The lease.                                                              *)

\* A worker that has no lease of a job can be in its way only by claiming it,
\* and a claim finds no lease held.
LEMMA LeaseInductive == IInv /\ [Next]_vars => IInv'
<1> SUFFICES ASSUME IInv, [Next]_vars
             PROVE  IInv'
  OBVIOUS
<1> USE DEF IInv
<1>1. TypeInv /\ TypeInv'
  BY TypeInductive DEF TypeInv
<1>2. SUFFICES ASSUME "slow" \notin suffered'
      PROVE  ClaimHeld'
  BY <1>1 DEF TypeInv, ClaimHeld
<1>3. ASSUME NEW w \in Workers, ClaimById(w)
      PROVE  ClaimHeld'
  <2>. DEFINE j == task[w]
  <2>1. /\ j \in Jobs /\ pc[w] = "claim"
        /\ "slow" \notin suffered
        /\ task' = task
    BY <1>2, <1>3 DEF ClaimById, At, BusyOnAJob, faultVars
  <2>2. CASE Claimable(j)
    <3>1. /\ status' = [status EXCEPT ![j] = "claimed"]
          /\ leased' = [leased EXCEPT ![j] = TRUE]
          /\ pc' = [pc EXCEPT ![w] = "start"]
      BY <1>3, <2>2 DEF ClaimById, Goto
    <3>2. \A v \in Workers : ~Acting(v, j)
      BY <2>1, <2>2 DEF Claimable, ClaimHeld
    <3>3. \A v \in Workers, i \in Jobs : Acting(v, i)' <=> (v = w /\ i = j) \/ Acting(v, i)
      BY <2>1, <3>1 DEF Acting, TypeOK
    <3>. QED
      BY <2>1, <3>1, <3>2, <3>3 DEF ClaimHeld, TypeOK
  <2>3. CASE ~Claimable(j)
    <3>1. /\ UNCHANGED <<status, leased>>
          /\ pc' = [pc EXCEPT ![w] = "answer"]
      BY <1>3, <2>3 DEF ClaimById, Goto, dbVars
    <3>. QED
      BY <2>1, <3>1 DEF ClaimHeld, Acting, TypeOK
  <2>. QED
    BY <2>2, <2>3
<1>4. ASSUME NEW w \in Workers, MarkRunning(w)
      PROVE  ClaimHeld'
  BY <1>2, <1>4 DEF MarkRunning, At, Goto, ClaimHeld, Acting, BusyOnAJob, TypeOK, faultVars
<1>5. ASSUME NEW w \in Workers, Settle(w)
      PROVE  ClaimHeld'
  BY <1>2, <1>5 DEF Settle, At, Goto, ClaimHeld, Acting, BusyOnAJob, TypeOK, faultVars
<1>6. ASSUME NEW w \in Workers, Execute(w)
      PROVE  ClaimHeld'
  BY <1>2, <1>6 DEF Execute, Fault, At, Goto, ClaimHeld, Acting, TypeOK, faultVars, dbVars
<1>7. ASSUME NEW j \in Jobs, LeaseExpires(j)
      PROVE  ClaimHeld'
  BY <1>2, <1>7 DEF LeaseExpires, Fault, ClaimHeld, Acting, TypeOK, faultVars, workerVars
<1>8. ASSUME NEW j \in Jobs, CreateJob(j)
      PROVE  ClaimHeld'
  BY <1>2, <1>8 DEF CreateJob, ClaimHeld, Acting, TypeOK, faultVars, workerVars
<1>9. ASSUME NEW w \in Workers, NEW j \in Jobs, Deliver(w, j)
      PROVE  ClaimHeld'
  BY <1>2, <1>9 DEF Deliver, ClaimHeld, Acting, TypeOK, faultVars, dbVars
<1>10. ASSUME NEW w \in Workers, Recompute(w) \/ WriteExecution(w)
       PROVE  ClaimHeld'
  BY <1>2, <1>10 DEF Recompute, WriteExecution, At, Goto, ClaimHeld, Acting, TypeOK, faultVars,
                     dbVars
<1>11. ASSUME NEW w \in Workers, Answer(w)
       PROVE  ClaimHeld'
  BY <1>2, <1>11 DEF Answer, Free, Goto, ClaimHeld, Acting, TypeOK, faultVars, dbVars
<1>12. ASSUME NEW w \in Workers, Throws(w) \/ Crash(w)
       PROVE  ClaimHeld'
  BY <1>2, <1>12 DEF Throws, Crash, Fault, Free, Goto, ClaimHeld, Acting, TypeOK, dbVars
<1>13. ASSUME NEW j \in Jobs,
              Enqueue(j) \/ Republish(j) \/ CreatorCrashes(j) \/ Promote(j) \/ Stall(j) \/ Evict(j)
       PROVE  ClaimHeld'
  <2>1. UNCHANGED <<dbVars, workerVars>>
    BY <1>13 DEF Enqueue, Republish, CreatorCrashes, Promote, Stall, Evict, Add
  <2>2. "slow" \notin suffered
    BY <1>2, <1>13 DEF Enqueue, Republish, CreatorCrashes, Promote, Stall, Evict, LockLost,
                       Fault, faultVars
  <2>. QED
    BY <2>1, <2>2 DEF ClaimHeld, Acting, dbVars, workerVars
<1>14. CASE UNCHANGED vars
  BY <1>14 DEF vars, ClaimHeld, Acting
<1>. QED
  BY <1>3, <1>4, <1>5, <1>6, <1>7, <1>8, <1>9, <1>10, <1>11, <1>12, <1>13, <1>14
     DEF Next, Process

\* The inductive invariant holds in every reachable state.
LEMMA Invariant == Spec => []IInv
<1>1. Init => IInv
  BY JobAssumption DEF Init, IInv, TypeOK, BusyOnAJob, QueueSound, ClaimHeld, Acting
<1>. QED
  BY <1>1, LeaseInductive, PTL DEF Spec

\* While no worker outlives its lease, two workers are never between the claim
\* and the mark of the same job, whatever the queue delivers and whoever dies.
THEOREM LeaseExcludes == Spec => []OneClaimant
<1>1. IInv => OneClaimant
  BY DEF IInv, ClaimHeld, OneClaimant
<1>. QED
  BY <1>1, Invariant, PTL

\* While no worker outlives its lease, no step of any worker changes the status
\* of a job that is over, although the marks are unconditional updates.
THEOREM OutcomesAreFinal == Spec => SettledForGood
<1>. DEFINE Keeps == \A j \in Jobs : "slow" \notin suffered' /\ status[j] \in Terminal
                                       => status'[j] = status[j]
<1>1. IInv /\ [Next]_vars => [Keeps]_vars
  <2> SUFFICES ASSUME IInv, [Next]_vars,
                      NEW j \in Jobs, "slow" \notin suffered', status[j] \in Terminal
               PROVE  status'[j] = status[j]
    OBVIOUS
  <2> USE DEF IInv
  <2>1. ASSUME NEW w \in Workers, ClaimById(w)
        PROVE  status'[j] = status[j]
    BY <2>1 DEF ClaimById, Claimable, At, BusyOnAJob, TypeOK, Terminal, dbVars
  <2>2. ASSUME NEW w \in Workers, MarkRunning(w) \/ Settle(w)
        PROVE  status'[j] = status[j]
    <3>1. "slow" \notin suffered /\ Acting(w, task[w]) /\ task[w] \in Jobs
      BY <2>2 DEF MarkRunning, Settle, At, Acting, BusyOnAJob, faultVars
    <3>2. task[w] # j
      BY <3>1 DEF ClaimHeld, Terminal
    <3>. QED
      BY <2>2, <3>2 DEF MarkRunning, Settle, TypeOK
  <2>3. ASSUME NEW i \in Jobs, CreateJob(i)
        PROVE  status'[j] = status[j]
    BY <2>3 DEF CreateJob, Terminal, TypeOK
  <2>4. ASSUME NEW i \in Jobs,
               Enqueue(i) \/ Republish(i) \/ CreatorCrashes(i) \/ Promote(i) \/ Stall(i)
                 \/ Evict(i) \/ LeaseExpires(i)
        PROVE  status'[j] = status[j]
    BY <2>4 DEF Enqueue, Republish, CreatorCrashes, Promote, Stall, Evict, LeaseExpires, Add,
                dbVars
  <2>5. ASSUME NEW w \in Workers,
               (\E i \in Jobs : Deliver(w, i)) \/ Execute(w) \/ Recompute(w)
                 \/ WriteExecution(w) \/ Answer(w) \/ Throws(w) \/ Crash(w)
        PROVE  status'[j] = status[j]
    BY <2>5 DEF Deliver, Execute, Recompute, WriteExecution, Answer, Throws, Crash, dbVars
  <2>6. CASE UNCHANGED vars
    BY <2>6 DEF vars
  <2>. QED
    BY <2>1, <2>2, <2>3, <2>4, <2>5, <2>6 DEF Next, Process
<1>. QED
  BY <1>1, Invariant, PTL DEF Spec, SettledForGood
-----------------------------------------------------------------------------
(* The execution and its jobs.                                             *)

Statuses == {status[j] : j \in Jobs} \ {"absent"}

\* The lock of recompute is with whoever counted and has yet to write; once the
\* jobs are over, somebody has yet to count, or holds the right count, or wrote it.
Reflection ==
  suffered \cap {"crash", "dbError"} = {} =>
    /\ \A w \in Workers : pc[w] = "write" <=> execLock = w
    /\ Statuses # {} /\ Statuses \subseteq Terminal =>
         \/ \E w \in Workers : pc[w] = "recompute"
         \/ \E w \in Workers : pc[w] = "write" /\ derived[w] = Aggregate(Statuses)
         \/ execStatus = Aggregate(Statuses) /\ \A w \in Workers : pc[w] # "write"

\* Only a mark makes the jobs of an execution be over, and who marks counts next.
LEMMA ReflectionInductive == TypeInv /\ Reflection /\ [Next]_vars => Reflection'
<1> SUFFICES ASSUME TypeInv, Reflection, [Next]_vars,
                    suffered' \cap {"crash", "dbError"} = {}
             PROVE  Reflection'
  BY DEF Reflection
<1>1. TypeOK /\ BusyOnAJob
  BY DEF TypeInv
<1>2. suffered \cap {"crash", "dbError"} = {}
  BY DEF Next, Process, vars, faultVars, Fault, CreateJob, Enqueue, Republish, CreatorCrashes,
         Promote, Stall, LockLost, Evict, LeaseExpires, Deliver, ClaimById, MarkRunning, Execute,
         Settle, Recompute, WriteExecution, Answer, Throws, Crash
<1>3. /\ \A w \in Workers : pc[w] = "write" <=> execLock = w
      /\ Statuses # {} /\ Statuses \subseteq Terminal =>
           \/ \E w \in Workers : pc[w] = "recompute"
           \/ \E w \in Workers : pc[w] = "write" /\ derived[w] = Aggregate(Statuses)
           \/ execStatus = Aggregate(Statuses) /\ \A w \in Workers : pc[w] # "write"
  BY <1>2 DEF Reflection
<1>4. \A w \in Workers : w # NoWorker
  BY JobAssumption
<1>5. ASSUME NEW j \in Jobs, status'[j] \in InFlight
      PROVE  ~(Statuses' \subseteq Terminal)
  <2>1. status'[j] \in Statuses' /\ status'[j] \notin Terminal
    BY <1>5 DEF Statuses, InFlight, Terminal
  <2>. QED
    BY <2>1
<1>6. \* what changes neither the statuses nor who counts or writes
      ASSUME status' = status, UNCHANGED execVars,
             \A w \in Workers : /\ pc'[w] = "write" <=> pc[w] = "write"
                                /\ pc[w] = "recompute" => pc'[w] = "recompute"
      PROVE  Reflection'
  <2>1. Statuses' = Statuses
    BY <1>6 DEF Statuses
  <2>. QED
    BY <1>3, <1>6, <2>1 DEF Reflection, execVars
<1>7. \* what leaves a job in flight
      ASSUME NEW j \in Jobs, status'[j] \in InFlight, UNCHANGED execLock,
             \A w \in Workers : pc'[w] = "write" <=> pc[w] = "write"
      PROVE  Reflection'
  BY <1>3, <1>5, <1>7 DEF Reflection
<1>8. ASSUME NEW j \in Jobs, CreateJob(j)
      PROVE  Reflection'
  <2>1. status'[j] \in InFlight /\ UNCHANGED <<execLock, pc>>
    BY <1>1, <1>8 DEF CreateJob, TypeOK, InFlight, workerVars, execVars
  <2>. QED
    BY <1>7, <2>1
<1>9. ASSUME NEW j \in Jobs,
             \/ Enqueue(j) \/ Republish(j) \/ CreatorCrashes(j) \/ Promote(j) \/ Stall(j)
             \/ Evict(j) \/ LeaseExpires(j)
      PROVE  Reflection'
  <2>1. UNCHANGED <<status, pc, execVars>>
    BY <1>9 DEF Enqueue, Republish, CreatorCrashes, Promote, Stall, Evict, LeaseExpires, Add,
                dbVars, workerVars
  <2>. QED
    BY <1>6, <2>1
<1>10. ASSUME NEW w \in Workers, NEW j \in Jobs, Deliver(w, j)
       PROVE  Reflection'
  <2>1. /\ UNCHANGED <<status, execVars>>
        /\ pc[w] = "idle" /\ pc' = [pc EXCEPT ![w] = "claim"]
    BY <1>10 DEF Deliver, dbVars
  <2>. QED
    BY <1>1, <1>6, <2>1 DEF TypeOK
<1>11. ASSUME NEW w \in Workers, ClaimById(w)
       PROVE  Reflection'
  <2>1. /\ task[w] \in Jobs /\ UNCHANGED execVars /\ pc[w] = "claim"
        /\ pc' = [pc EXCEPT ![w] = "start"] \/ pc' = [pc EXCEPT ![w] = "answer"]
        /\ \/ status' = status
           \/ status' = [status EXCEPT ![task[w]] = "claimed"]
    BY <1>1, <1>11 DEF ClaimById, At, Goto, BusyOnAJob, dbVars
  <2>2. \A v \in Workers : /\ pc'[v] = "write" <=> pc[v] = "write"
                           /\ pc[v] = "recompute" => pc'[v] = "recompute"
    BY <1>1, <2>1 DEF TypeOK
  <2>3. CASE status' = status
    BY <1>6, <2>1, <2>2, <2>3
  <2>4. CASE status' = [status EXCEPT ![task[w]] = "claimed"]
    <3>1. status'[task[w]] \in InFlight
      BY <1>1, <2>1, <2>4 DEF TypeOK, InFlight
    <3>. QED
      BY <1>7, <2>1, <2>2, <3>1 DEF execVars
  <2>. QED
    BY <2>1, <2>3, <2>4
<1>12. ASSUME NEW w \in Workers, MarkRunning(w)
       PROVE  Reflection'
  <2>1. /\ task[w] \in Jobs /\ UNCHANGED execVars /\ pc[w] = "start"
        /\ pc' = [pc EXCEPT ![w] = "execute"]
        /\ status' = [status EXCEPT ![task[w]] = "running"]
    BY <1>1, <1>12 DEF MarkRunning, At, Goto, BusyOnAJob
  <2>2. status'[task[w]] \in InFlight
    BY <1>1, <2>1 DEF TypeOK, InFlight
  <2>. QED
    BY <1>1, <1>7, <2>1, <2>2 DEF TypeOK, execVars
<1>13. ASSUME NEW w \in Workers, Execute(w)
       PROVE  Reflection'
  <2>1. /\ UNCHANGED <<status, execVars>>
        /\ pc[w] = "execute" /\ pc' = [pc EXCEPT ![w] = "settle"]
    BY <1>13 DEF Execute, At, Goto, dbVars
  <2>. QED
    BY <1>1, <1>6, <2>1 DEF TypeOK
<1>14. ASSUME NEW w \in Workers, Settle(w)
       PROVE  Reflection'
  <2>1. /\ UNCHANGED execVars
        /\ pc[w] = "settle" /\ pc' = [pc EXCEPT ![w] = "recompute"]
    BY <1>14 DEF Settle, At, Goto
  <2>2. pc'[w] = "recompute"
    BY <1>1, <2>1 DEF TypeOK
  <2>3. \A v \in Workers : pc'[v] = "write" <=> execLock' = v
    BY <1>1, <1>3, <2>1 DEF TypeOK, execVars
  <2>. QED
    BY <2>2, <2>3 DEF Reflection
<1>15. ASSUME NEW w \in Workers, Recompute(w)
       PROVE  Reflection'
  <2>1. /\ status' = status /\ pc[w] = "recompute" /\ execLock = NoWorker /\ execLock' = w
        /\ pc' = [pc EXCEPT ![w] = "write"]
        /\ derived' = [derived EXCEPT ![w] = Aggregate(Statuses)]
    BY <1>15 DEF Recompute, At, Goto, Statuses, dbVars
  <2>2. Statuses' = Statuses
    BY <2>1 DEF Statuses
  <2>3. pc'[w] = "write" /\ derived'[w] = Aggregate(Statuses)'
    BY <1>1, <2>1, <2>2 DEF TypeOK, Aggregate
  <2>4. \A v \in Workers : pc'[v] = "write" <=> execLock' = v
    BY <1>1, <1>3, <1>4, <2>1 DEF TypeOK
  <2>. QED
    BY <2>3, <2>4 DEF Reflection
<1>16. ASSUME NEW w \in Workers, WriteExecution(w)
       PROVE  Reflection'
  <2>1. /\ status' = status /\ pc[w] = "write" /\ execLock' = NoWorker
        /\ pc' = [pc EXCEPT ![w] = "answer"] /\ execStatus' = derived[w]
    BY <1>16 DEF WriteExecution, At, Goto, dbVars
  <2>2. Statuses' = Statuses
    BY <2>1 DEF Statuses
  <2>3. \A v \in Workers : /\ pc[v] = "write" => v = w
                           /\ pc'[v] # "write" /\ execLock' # v
                           /\ pc[v] = "recompute" => pc'[v] = "recompute"
    BY <1>1, <1>3, <1>4, <2>1 DEF TypeOK
  <2>4. CASE \E v \in Workers : pc[v] = "recompute"
    BY <2>3, <2>4 DEF Reflection
  <2>5. CASE \A v \in Workers : pc[v] # "recompute"
    <3>1. Statuses # {} /\ Statuses \subseteq Terminal => execStatus' = Aggregate(Statuses)
      BY <1>3, <2>1, <2>3, <2>5
    <3>. QED
      BY <2>2, <2>3, <3>1 DEF Reflection
  <2>. QED
    BY <2>4, <2>5
<1>17. ASSUME NEW w \in Workers, Answer(w)
       PROVE  Reflection'
  <2>1. /\ UNCHANGED <<status, execStatus, execLock>> /\ pc[w] = "answer"
        /\ pc' = [pc EXCEPT ![w] = "idle"] /\ derived' = [derived EXCEPT ![w] = "pending"]
    BY <1>17 DEF Answer, At, Free, Goto, dbVars
  <2>2. \A v \in Workers : /\ pc'[v] = "write" <=> pc[v] = "write"
                           /\ pc[v] = "recompute" => pc'[v] = "recompute"
                           /\ pc[v] = "write" => derived'[v] = derived[v]
    BY <1>1, <2>1 DEF TypeOK
  <2>3. Statuses' = Statuses
    BY <2>1 DEF Statuses
  <2>. QED
    BY <1>3, <2>1, <2>2, <2>3 DEF Reflection
<1>18. ASSUME NEW w \in Workers, Throws(w) \/ Crash(w)
       PROVE  Reflection'
  BY <1>18 DEF Throws, Crash, Fault
<1>19. CASE UNCHANGED vars
  BY <1>6, <1>19 DEF vars, execVars
<1>. QED
  BY <1>8, <1>9, <1>10, <1>11, <1>12, <1>13, <1>14, <1>15, <1>16, <1>17, <1>18, <1>19
     DEF Next, Process

\* When the jobs of an execution are over and nobody is about to count them, its
\* status is the one they give it, in whatever order the workers finished.
THEOREM ExecutionIsTheSumOfItsJobs == Spec => []ExecutionReflectsJobs
<1>1. Init => TypeInv /\ Reflection
  <2>1. Init => TypeInv
    BY JobAssumption DEF Init, TypeInv, TypeOK, BusyOnAJob, QueueSound
  <2>2. Init => Reflection
    <3> SUFFICES ASSUME Init
                 PROVE  Reflection
      OBVIOUS
    <3>1. Statuses = {}
      BY DEF Init, Statuses
    <3>. QED
      BY <3>1, JobAssumption DEF Init, Reflection
  <2>. QED
    BY <2>1, <2>2
<1>2. TypeInv /\ Reflection /\ [Next]_vars => (TypeInv /\ Reflection)'
  BY TypeInductive, ReflectionInductive
<1>3. Reflection => ExecutionReflectsJobs
  BY DEF Reflection, ExecutionReflectsJobs, Statuses
<1>. QED
  BY <1>1, <1>2, <1>3, PTL DEF Spec
-----------------------------------------------------------------------------
(* The queue and the row.                                                  *)

\* What the row says of a job while its only delivery is where it is.
RowFollows(w, j) ==
  /\ pc[w] = "claim" => status[j] \in {"pending", "retrying"}
  /\ pc[w] \in {"start", "execute", "settle"} => status[j] \in {"claimed", "running"}
  /\ pc[w] \in {"settle", "recompute", "write", "answer"} =>
       result[w] \in {"ok", "fatal", "transient"}
  /\ pc[w] \in {"recompute", "write", "answer"} => status[j] = Outcome(w)

\* A job in delivery is with the worker that has its lock, and with no other;
\* one that waits may be claimed, and one the queue is done with is over.
SoleDelivery(j) ==
  /\ delivery[j] = "active" => holder[j] \in Workers /\ task[holder[j]] = j
  /\ \A w \in Workers : task[w] = j =>
       delivery[j] = "active" /\ holder[j] = w /\ tries[w] = attemptsMade[j] /\ RowFollows(w, j)
  /\ delivery[j] \in {"delayed", "wait"} => status[j] \in {"pending", "retrying"}
  /\ delivery[j] = "none" /\ j \in unsent => status[j] = "pending"
  /\ delivery[j] \in {"completed", "failed"} => status[j] \in Terminal
  /\ status[j] = "absent" => delivery[j] = "none"

\* So it is while nobody dies, no lock is lost and no statement throws.
Agreement == suffered \subseteq {"slow", "lostReply"} =>
               /\ \A w \in Workers : pc[w] = "idle" <=> task[w] = NoJob
               /\ \A j \in Jobs : SoleDelivery(j)

\* A step of the worker that has a job's only delivery touches no other job.
LEMMA OthersUntouched ==
  ASSUME TypeOK, NEW j \in Jobs, SoleDelivery(j), NEW w \in Workers, task[w] # j, task'[w] # j,
         \A v \in Workers \ {w} : /\ task'[v] = task[v] /\ pc'[v] = pc[v]
                                  /\ result'[v] = result[v] /\ tries'[v] = tries[v],
         status'[j] = status[j], delivery'[j] = delivery[j], holder'[j] = holder[j],
         attemptsMade'[j] = attemptsMade[j], unsent' = unsent
  PROVE  SoleDelivery(j)'
BY DEF SoleDelivery, RowFollows, Outcome

\* A step of the surroundings that leaves a job's row and delivery alone.
LEMMA JobUntouched ==
  ASSUME TypeOK, NEW j \in Jobs, SoleDelivery(j), UNCHANGED workerVars,
         status'[j] = status[j], delivery'[j] = delivery[j], holder'[j] = holder[j],
         attemptsMade'[j] = attemptsMade[j], j \in unsent' => j \in unsent
  PROVE  SoleDelivery(j)'
BY DEF SoleDelivery, RowFollows, Outcome, workerVars

\* A step of the processor on the job it has in delivery.
LEMMA OwnJob ==
  ASSUME TypeOK, NEW j \in Jobs, SoleDelivery(j), NEW w \in Workers, task[w] = j,
         task' = task, tries' = tries, UNCHANGED queueVars, unsent' = unsent,
         status'[j] # "absent", RowFollows(w, j)'
  PROVE  SoleDelivery(j)'
<1>1. delivery[j] = "active" /\ holder[j] = w
  BY DEF SoleDelivery
<1>. QED
  BY <1>1 DEF SoleDelivery, queueVars

\* Publication, promotion, eviction and time, while no fault parts queue and row.
LEMMA SurroundingsAgree ==
  ASSUME TypeOK, NEW j \in Jobs, SoleDelivery(j), NEW i \in Jobs,
         "crash" \notin suffered', "lockLoss" \notin suffered', SoleDelivery(i),
         \/ CreateJob(i) \/ Enqueue(i) \/ Republish(i) \/ CreatorCrashes(i) \/ Promote(i)
         \/ Stall(i) \/ Evict(i) \/ LeaseExpires(i)
  PROVE  SoleDelivery(j)'
<1>1. UNCHANGED workerVars
  BY DEF CreateJob, Enqueue, Republish, CreatorCrashes, Promote, Stall, Evict, LeaseExpires, Add
<1>2. CASE CreateJob(i)
  <2>1. /\ UNCHANGED queueVars /\ unsent' = unsent \cup {i} /\ status[i] = "absent"
        /\ status' = [status EXCEPT ![i] = "pending"]
    BY <1>2 DEF CreateJob
  <2>2. CASE i # j
    BY <1>1, <2>1, <2>2, JobUntouched DEF TypeOK, queueVars
  <2>3. CASE i = j
    <3>1. delivery[j] = "none" /\ status'[j] = "pending"
      BY <2>1, <2>3 DEF SoleDelivery, TypeOK
    <3>2. \A w \in Workers : task[w] # j
      BY <3>1 DEF SoleDelivery
    <3>. QED
      BY <1>1, <2>1, <3>1, <3>2 DEF SoleDelivery, workerVars, queueVars
  <2>. QED
    BY <2>2, <2>3
<1>3. CASE Enqueue(i) \/ Republish(i)
  <2>1. /\ UNCHANGED <<status, attemptsMade, holder>> /\ unsent' \subseteq unsent
        /\ \/ delivery' = delivery
           \/ /\ delivery[i] = "none" /\ (i \in unsent \/ status[i] = "pending")
              /\ \E d \in {"delayed", "wait"} : delivery' = [delivery EXCEPT ![i] = d]
    BY <1>3 DEF Enqueue, Republish, Add, dbVars
  <2>2. CASE delivery'[j] = delivery[j]
    BY <1>1, <2>1, <2>2, JobUntouched
  <2>3. CASE delivery'[j] # delivery[j]
    <3>1. j = i /\ delivery[j] = "none" /\ delivery'[j] \in {"delayed", "wait"}
      BY <2>1, <2>3 DEF TypeOK
    <3>2. status[j] = "pending" /\ \A w \in Workers : task[w] # j
      BY <2>1, <2>3, <3>1 DEF SoleDelivery
    <3>. QED
      BY <1>1, <2>1, <3>1, <3>2 DEF SoleDelivery, workerVars
  <2>. QED
    BY <2>2, <2>3
<1>4. CASE LeaseExpires(i)
  BY <1>1, <1>4, JobUntouched DEF LeaseExpires, queueVars
<1>5. CASE Promote(i)
  <2>1. /\ UNCHANGED <<status, attemptsMade, holder, unsent>>
        /\ delivery[i] = "delayed" /\ delivery' = [delivery EXCEPT ![i] = "wait"]
    BY <1>5 DEF Promote, dbVars
  <2>2. delivery'[j] = delivery[j] \/ (delivery[j] = "delayed" /\ delivery'[j] = "wait")
    BY <2>1 DEF TypeOK
  <2>3. CASE delivery'[j] = delivery[j]
    BY <1>1, <2>1, <2>3, JobUntouched
  <2>4. CASE delivery[j] = "delayed" /\ delivery'[j] = "wait"
    BY <1>1, <2>1, <2>4 DEF SoleDelivery, workerVars
  <2>. QED
    BY <2>2, <2>3, <2>4
<1>6. CASE Evict(i)
  <2>1. /\ UNCHANGED <<status, holder, unsent>> /\ i \notin unsent
        /\ delivery[i] \in {"completed", "failed"}
        /\ delivery' = [delivery EXCEPT ![i] = "none"]
        /\ attemptsMade' = [attemptsMade EXCEPT ![i] = 0]
        /\ \A w \in Workers : task[w] # i
    BY <1>6 DEF Evict, dbVars
  <2>2. CASE i # j
    BY <1>1, <2>1, <2>2, JobUntouched DEF TypeOK
  <2>3. CASE i = j
    <3>1. delivery'[j] = "none"
      BY <2>1, <2>3 DEF TypeOK
    <3>. QED
      BY <1>1, <2>1, <2>3, <3>1 DEF SoleDelivery, workerVars
  <2>. QED
    BY <2>2, <2>3
<1>7. ~CreatorCrashes(i) /\ ~Stall(i)
  BY DEF CreatorCrashes, Stall, LockLost, Fault, SoleDelivery, TypeOK
<1>. QED
  BY <1>2, <1>3, <1>4, <1>5, <1>6, <1>7

\* Every step keeps queue and row together, while no fault parts them.
LEMMA AgreementInductive == TypeInv /\ Agreement /\ [Next]_vars => Agreement'
<1> SUFFICES ASSUME TypeInv, Agreement, [Next]_vars, suffered' \subseteq {"slow", "lostReply"}
             PROVE  /\ \A w \in Workers : (pc[w] = "idle" <=> task[w] = NoJob)'
                    /\ \A j \in Jobs : SoleDelivery(j)'
  BY DEF Agreement
<1>1. TypeOK /\ BusyOnAJob /\ QueueSound
  BY DEF TypeInv
<1>2. suffered \subseteq {"slow", "lostReply"}
  BY DEF Next, Process, vars, faultVars, Fault, CreateJob, Enqueue, Republish, CreatorCrashes,
         Promote, Stall, LockLost, Evict, LeaseExpires, Deliver, ClaimById, MarkRunning, Execute,
         Settle, Recompute, WriteExecution, Answer, Throws, Crash
<1>3. /\ \A w \in Workers : pc[w] = "idle" <=> task[w] = NoJob
      /\ \A j \in Jobs : SoleDelivery(j)
  BY <1>2 DEF Agreement
<1>4. ASSUME NEW i \in Jobs,
             \/ CreateJob(i) \/ Enqueue(i) \/ Republish(i) \/ CreatorCrashes(i) \/ Promote(i)
             \/ Stall(i) \/ Evict(i) \/ LeaseExpires(i)
      PROVE  /\ \A w \in Workers : (pc[w] = "idle" <=> task[w] = NoJob)'
             /\ \A j \in Jobs : SoleDelivery(j)'
  <2>1. UNCHANGED workerVars
    BY <1>4 DEF CreateJob, Enqueue, Republish, CreatorCrashes, Promote, Stall, Evict,
                LeaseExpires, Add
  <2>2. \A w \in Workers : (pc[w] = "idle" <=> task[w] = NoJob)'
    BY <1>3, <2>1 DEF workerVars
  <2>3. "crash" \notin suffered' /\ "lockLoss" \notin suffered'
    OBVIOUS
  <2>4. \A j \in Jobs : SoleDelivery(j)'
    BY <1>1, <1>3, <1>4, <2>3, SurroundingsAgree
  <2>. QED
    BY <2>2, <2>4
<1>5. ASSUME NEW w \in Workers, NEW i \in Jobs, Deliver(w, i)
      PROVE  /\ \A v \in Workers : (pc[v] = "idle" <=> task[v] = NoJob)'
             /\ \A j \in Jobs : SoleDelivery(j)'
  <2>1. /\ UNCHANGED <<status, attemptsMade, unsent, result>>
        /\ pc[w] = "idle" /\ task[w] = NoJob /\ delivery[i] = "wait"
        /\ delivery' = [delivery EXCEPT ![i] = "active"] /\ holder' = [holder EXCEPT ![i] = w]
        /\ pc' = [pc EXCEPT ![w] = "claim"] /\ task' = [task EXCEPT ![w] = i]
        /\ tries' = [tries EXCEPT ![w] = attemptsMade[i]]
    BY <1>3, <1>5 DEF Deliver, dbVars
  <2>2. ASSUME NEW j \in Jobs PROVE SoleDelivery(j)'
    <3>1. CASE j = i
      <4>1. /\ delivery'[j] = "active" /\ holder'[j] = w /\ task'[w] = j /\ pc'[w] = "claim"
            /\ tries'[w] = attemptsMade'[j] /\ status'[j] \in {"pending", "retrying"}
        BY <1>1, <1>3, <2>1, <3>1 DEF TypeOK, SoleDelivery
      <4>2. \A v \in Workers : task'[v] = j => v = w
        BY <1>1, <1>3, <2>1, <3>1 DEF TypeOK, SoleDelivery
      <4>. QED
        BY <4>1, <4>2 DEF SoleDelivery, RowFollows
    <3>2. CASE j # i
      BY <1>1, <1>3, <2>1, <3>2, JobAssumption, OthersUntouched DEF TypeOK
    <3>. QED
      BY <3>1, <3>2
  <2>3. \A v \in Workers : (pc[v] = "idle" <=> task[v] = NoJob)'
    BY <1>1, <1>3, <2>1, JobAssumption DEF TypeOK
  <2>. QED
    BY <2>2, <2>3
<1>6. \* a step of the processor between its delivery and its answer
      ASSUME NEW w \in Workers, NEW to \in {"start", "execute", "settle", "recompute", "write",
                                            "answer"},
             pc[w] # "idle", pc' = [pc EXCEPT ![w] = to], task' = task, tries' = tries,
             UNCHANGED queueVars, unsent' = unsent,
             \A v \in Workers \ {w} : result'[v] = result[v],
             \A j \in Jobs \ {task[w]} : status'[j] = status[j],
             status'[task[w]] # "absent", RowFollows(w, task[w])'
      PROVE  /\ \A v \in Workers : (pc[v] = "idle" <=> task[v] = NoJob)'
             /\ \A j \in Jobs : SoleDelivery(j)'
  <2>1. task[w] \in Jobs
    BY <1>1, <1>6 DEF BusyOnAJob
  <2>2. \A v \in Workers : (pc[v] = "idle" <=> task[v] = NoJob)'
    BY <1>1, <1>3, <1>6 DEF TypeOK
  <2>3. ASSUME NEW j \in Jobs PROVE SoleDelivery(j)'
    <3>1. CASE task[w] = j
      BY <1>1, <1>3, <1>6, <3>1, OwnJob
    <3>2. CASE task[w] # j
      BY <1>1, <1>3, <1>6, <3>2, OthersUntouched DEF TypeOK, queueVars
    <3>. QED
      BY <3>1, <3>2
  <2>. QED
    BY <2>2, <2>3
<1>7. ASSUME NEW w \in Workers,
             \/ ClaimById(w) \/ MarkRunning(w) \/ Execute(w) \/ Settle(w) \/ Recompute(w)
             \/ WriteExecution(w)
      PROVE  /\ \A v \in Workers : (pc[v] = "idle" <=> task[v] = NoJob)'
             /\ \A j \in Jobs : SoleDelivery(j)'
  <2>. DEFINE i == task[w]
  <2>1. /\ pc[w] # "idle" /\ i \in Jobs /\ UNCHANGED <<task, tries, unsent>>
        /\ UNCHANGED queueVars
    BY <1>1, <1>7 DEF ClaimById, MarkRunning, Execute, Settle, Recompute, WriteExecution, At,
                      BusyOnAJob
  <2>2. RowFollows(w, i) /\ delivery[i] = "active"
    BY <1>3, <2>1 DEF SoleDelivery
  <2>3. CASE ClaimById(w)
    <3>1. Claimable(i)
      BY <2>2, <2>3 DEF ClaimById, At, RowFollows, Claimable
    <3>2. /\ status' = [status EXCEPT ![i] = "claimed"] /\ pc' = [pc EXCEPT ![w] = "start"]
          /\ result' = result
      BY <2>3, <3>1 DEF ClaimById, Goto
    <3>3. RowFollows(w, i)'
      BY <1>1, <2>1, <3>2 DEF RowFollows, TypeOK
    <3>. QED
      BY <1>1, <1>6, <2>1, <3>2, <3>3 DEF TypeOK
  <2>4. CASE MarkRunning(w)
    <3>1. /\ status' = [status EXCEPT ![i] = "running"] /\ pc' = [pc EXCEPT ![w] = "execute"]
          /\ result' = result
      BY <2>4 DEF MarkRunning, Goto
    <3>2. RowFollows(w, i)'
      BY <1>1, <2>1, <3>1 DEF RowFollows, TypeOK
    <3>. QED
      BY <1>1, <1>6, <2>1, <3>1, <3>2 DEF TypeOK
  <2>5. CASE Execute(w)
    <3>1. /\ status' = status /\ pc[w] = "execute" /\ pc' = [pc EXCEPT ![w] = "settle"]
          /\ \E r \in {"ok", "fatal", "transient"} : result' = [result EXCEPT ![w] = r]
      BY <2>5 DEF Execute, At, Goto, dbVars
    <3>2. RowFollows(w, i)'
      BY <1>1, <2>1, <2>2, <3>1 DEF RowFollows, TypeOK
    <3>3. status'[i] # "absent"
      BY <2>2, <3>1 DEF RowFollows
    <3>. QED
      BY <1>1, <1>6, <2>1, <3>1, <3>2, <3>3 DEF TypeOK
  <2>6. CASE Settle(w)
    <3>1. /\ status' = [status EXCEPT ![i] = Outcome(w)] /\ pc[w] = "settle"
          /\ pc' = [pc EXCEPT ![w] = "recompute"] /\ result' = result
      BY <2>6 DEF Settle, At, Goto
    <3>2. Outcome(w)' = Outcome(w) /\ Outcome(w) # "absent"
      BY <2>1, <3>1 DEF Outcome
    <3>3. RowFollows(w, i)'
      BY <1>1, <2>1, <2>2, <3>1, <3>2 DEF RowFollows, TypeOK
    <3>. QED
      BY <1>1, <1>6, <2>1, <3>1, <3>2, <3>3 DEF TypeOK
  <2>7. CASE Recompute(w) \/ WriteExecution(w)
    <3>1. /\ UNCHANGED <<status, result>> /\ pc[w] \in {"recompute", "write"}
          /\ \E to \in {"write", "answer"} : pc' = [pc EXCEPT ![w] = to]
      BY <2>7 DEF Recompute, WriteExecution, At, Goto, dbVars
    <3>2. Outcome(w)' = Outcome(w) /\ Outcome(w) # "absent"
      BY <2>1, <3>1 DEF Outcome
    <3>3. RowFollows(w, i)' /\ status'[i] # "absent"
      BY <1>1, <2>1, <2>2, <3>1, <3>2 DEF RowFollows, TypeOK
    <3>. QED
      BY <1>1, <1>6, <2>1, <3>1, <3>3 DEF TypeOK
  <2>. QED
    BY <1>7, <2>3, <2>4, <2>5, <2>6, <2>7
<1>8. ASSUME NEW w \in Workers, Answer(w)
      PROVE  /\ \A v \in Workers : (pc[v] = "idle" <=> task[v] = NoJob)'
             /\ \A j \in Jobs : SoleDelivery(j)'
  <2>. DEFINE i == task[w]
  <2>1. /\ pc[w] = "answer" /\ i \in Jobs /\ UNCHANGED <<status, unsent>>
        /\ pc' = [pc EXCEPT ![w] = "idle"] /\ task' = [task EXCEPT ![w] = NoJob]
        /\ tries' = [tries EXCEPT ![w] = 0] /\ result' = [result EXCEPT ![w] = "none"]
    BY <1>1, <1>8 DEF Answer, At, Free, Goto, BusyOnAJob, dbVars
  <2>2. /\ RowFollows(w, i) /\ holder[i] = w /\ tries[w] = attemptsMade[i]
        /\ \A v \in Workers : task[v] = i => v = w
    BY <1>3, <2>1 DEF SoleDelivery
  <2>3. /\ holder' = [holder EXCEPT ![i] = NoWorker]
        /\ delivery' = [delivery EXCEPT ![i] =
             CASE result[w] \in {"ok", "skip"} -> "completed"
               [] result[w] = "fatal" -> "failed"
               [] OTHER -> IF attemptsMade[i] + 1 < MaxAttempts THEN "delayed" ELSE "failed"]
        /\ attemptsMade' = [attemptsMade EXCEPT ![i] = @ + 1]
    BY <1>8, <2>2 DEF Answer
  <2>4. \A v \in Workers : (pc[v] = "idle" <=> task[v] = NoJob)'
    BY <1>1, <1>3, <2>1 DEF TypeOK
  <2>5. ASSUME NEW j \in Jobs PROVE SoleDelivery(j)'
    <3>1. CASE j # i
      <4>1. task[w] # j /\ task'[w] # j
        BY <1>1, <2>1, <3>1, JobAssumption DEF TypeOK
      <4>. QED
        BY <1>1, <1>3, <2>1, <2>3, <3>1, <4>1, OthersUntouched DEF TypeOK
    <3>2. CASE j = i
      <4>1. status[i] = Outcome(w) /\ result[w] \in {"ok", "fatal", "transient"}
        BY <2>1, <2>2 DEF RowFollows
      <4>2. \A v \in Workers : task'[v] # i
        BY <1>1, <2>1, <2>2, JobAssumption DEF TypeOK
      <4>3. CASE result[w] = "ok"
        <5>1. status'[i] = "succeeded" /\ delivery'[i] = "completed"
          BY <1>1, <2>1, <2>3, <4>1, <4>3 DEF Outcome, TypeOK
        <5>. QED
          BY <3>2, <4>2, <5>1 DEF SoleDelivery, Terminal
      <4>4. CASE result[w] = "fatal"
        <5>1. status'[i] = "failed" /\ delivery'[i] = "failed"
          BY <1>1, <2>1, <2>3, <4>1, <4>4 DEF Outcome, TypeOK
        <5>. QED
          BY <3>2, <4>2, <5>1 DEF SoleDelivery, Terminal
      <4>5. CASE result[w] = "transient"
        <5>1. attemptsMade[i] \in Nat /\ MaxAttempts \in Nat
          BY <1>1, <2>1, JobAssumption DEF TypeOK
        <5>2. CASE attemptsMade[i] + 1 < MaxAttempts
          <6>1. ~(tries[w] + 1 >= MaxAttempts)
            BY <2>2, <5>1, <5>2
          <6>2. Outcome(w) = "retrying"
            BY <4>5, <6>1 DEF Outcome
          <6>3. status'[i] = "retrying" /\ delivery'[i] = "delayed"
            BY <1>1, <2>1, <2>3, <4>1, <4>5, <5>2, <6>2 DEF TypeOK
          <6>. QED
            BY <3>2, <4>2, <6>3 DEF SoleDelivery
        <5>3. CASE ~(attemptsMade[i] + 1 < MaxAttempts)
          <6>1. status'[i] = "dead_letter" /\ delivery'[i] = "failed"
            BY <1>1, <2>1, <2>2, <2>3, <4>1, <4>5, <5>1, <5>3 DEF Outcome, TypeOK
          <6>. QED
            BY <3>2, <4>2, <6>1 DEF SoleDelivery, Terminal
        <5>. QED
          BY <5>2, <5>3
      <4>. QED
        BY <4>1, <4>3, <4>4, <4>5
    <3>. QED
      BY <3>1, <3>2
  <2>. QED
    BY <2>4, <2>5
<1>9. ASSUME NEW w \in Workers, Throws(w) \/ Crash(w)
      PROVE  FALSE
  BY <1>9 DEF Throws, Crash, Fault
<1>10. CASE UNCHANGED vars
  BY <1>1, <1>3, <1>10, JobUntouched DEF vars, workerVars
<1>. QED
  BY <1>4, <1>5, <1>7, <1>8, <1>9, <1>10 DEF Next, Process

\* So it is at the start.
LEMMA AgreementInit == Init => TypeInv /\ Agreement
BY JobAssumption DEF Init, TypeInv, TypeOK, BusyOnAJob, QueueSound, Agreement, SoleDelivery,
                     RowFollows

\* Nothing that only delays a worker or hides a reply from it parts queue and
\* row: a job the queue is done with is over, whatever its retries.
THEOREM QueueAndRowAgree == Spec => []QueueAgreesWithRow
<1>1. TypeInv /\ Agreement /\ [Next]_vars => (TypeInv /\ Agreement)'
  BY TypeInductive, AgreementInductive
<1>2. Agreement => QueueAgreesWithRow
  BY DEF Agreement, SoleDelivery, QueueAgreesWithRow
<1>. QED
  BY <1>1, <1>2, AgreementInit, PTL DEF Spec
-----------------------------------------------------------------------------
(* The row and the platform.                                               *)

\* Some worker acted for the job and has yet to mark it.
Unmarked(j) == \E w \in Workers : Acting(w, j) /\ pc[w] = "settle" /\ result[w] = "ok"

\* A job was acted for once if it succeeded or is about to be marked so, else never.
Truthful(j) == acts[j] = IF Unmarked(j) \/ status[j] = "succeeded" THEN 1 ELSE 0

Told == suffered \subseteq {"slow"} \/ suffered \subseteq {"lockLoss"}

Truth == Told => \A j \in Jobs : Truthful(j)

\* Whichever fault of the two happens, the worker between its claim and its mark
\* is alone with a job in flight: by its lease, or by its delivery.
LEMMA Alone ==
  ASSUME IInv, Agreement, Told, NEW w \in Workers, NEW j \in Jobs, Acting(w, j)
  PROVE  status[j] \in {"claimed", "running"} /\ \A v \in Workers : Acting(v, j) => v = w
<1>1. CASE suffered \subseteq {"lockLoss"}
  BY <1>1 DEF IInv, ClaimHeld
<1>2. CASE suffered \subseteq {"slow"}
  <2>1. SoleDelivery(j)
    BY <1>2 DEF Agreement
  <2>. QED
    BY <2>1 DEF SoleDelivery, RowFollows, Acting
<1>. QED
  BY <1>1, <1>2 DEF Told

\* A step of anybody who is not between an action and its mark.
LEMMA TruthKept ==
  ASSUME TypeOK, NEW j \in Jobs, Truthful(j), acts'[j] = acts[j], Unmarked(j)' <=> Unmarked(j),
         status'[j] = "succeeded" <=> status[j] = "succeeded"
  PROVE  Truthful(j)'
BY DEF Truthful

\* Every step keeps the row truthful, while no other fault happens.
LEMMA TruthInductive == IInv /\ Agreement /\ Truth /\ [Next]_vars => Truth'
<1> SUFFICES ASSUME IInv, Agreement, Truth, [Next]_vars, Told', NEW j \in Jobs
             PROVE  Truthful(j)'
  BY DEF Truth
<1>1. TypeOK /\ BusyOnAJob
  BY DEF IInv
<1>2. Told
  BY DEF Told, Next, Process, vars, faultVars, Fault, CreateJob, Enqueue, Republish,
         CreatorCrashes, Promote, Stall, LockLost, Evict, LeaseExpires, Deliver, ClaimById,
         MarkRunning, Execute, Settle, Recompute, WriteExecution, Answer, Throws, Crash
<1>3. Truthful(j)
  BY <1>2 DEF Truth
<1>4. ASSUME NEW i \in Jobs,
             \/ CreateJob(i) \/ Enqueue(i) \/ Republish(i) \/ CreatorCrashes(i) \/ Promote(i)
             \/ Stall(i) \/ Evict(i) \/ LeaseExpires(i)
      PROVE  Truthful(j)'
  <2>1. /\ UNCHANGED workerVars /\ acts' = acts
        /\ \/ status' = status
           \/ status[i] = "absent" /\ status' = [status EXCEPT ![i] = "pending"]
    BY <1>4 DEF CreateJob, Enqueue, Republish, CreatorCrashes, Promote, Stall, Evict,
                LeaseExpires, Add, dbVars
  <2>2. Unmarked(j)' <=> Unmarked(j)
    BY <2>1 DEF Unmarked, Acting, workerVars
  <2>3. status'[j] = "succeeded" <=> status[j] = "succeeded"
    BY <1>1, <2>1 DEF TypeOK
  <2>. QED
    BY <1>1, <1>3, <2>1, <2>2, <2>3, TruthKept
<1>5. \* a step of a worker that takes it neither into nor out of "settle"
      ASSUME NEW w \in Workers, pc[w] # "settle", pc'[w] # "settle", acts' = acts,
             \A v \in Workers \ {w} : /\ task'[v] = task[v] /\ pc'[v] = pc[v]
                                      /\ result'[v] = result[v],
             status'[j] = "succeeded" <=> status[j] = "succeeded"
      PROVE  Truthful(j)'
  <2>1. Unmarked(j)' <=> Unmarked(j)
    BY <1>5 DEF Unmarked, Acting
  <2>. QED
    BY <1>1, <1>3, <1>5, <2>1, TruthKept
<1>6. ASSUME NEW w \in Workers, NEW i \in Jobs, Deliver(w, i)
      PROVE  Truthful(j)'
  BY <1>1, <1>5, <1>6 DEF Deliver, TypeOK, dbVars
<1>7. ASSUME NEW w \in Workers, ClaimById(w)
      PROVE  Truthful(j)'
  <2>1. /\ pc[w] = "claim" /\ acts' = acts /\ task' = task /\ task[w] \in Jobs
        /\ \/ /\ Claimable(task[w]) /\ status' = [status EXCEPT ![task[w]] = "claimed"]
              /\ pc' = [pc EXCEPT ![w] = "start"] /\ result' = result
           \/ /\ status' = status
              /\ pc' = [pc EXCEPT ![w] = "answer"] /\ result' = [result EXCEPT ![w] = "skip"]
    BY <1>1, <1>7 DEF ClaimById, At, Goto, BusyOnAJob, dbVars
  <2>2. status'[j] = "succeeded" <=> status[j] = "succeeded"
    BY <1>1, <2>1 DEF Claimable, TypeOK
  <2>. QED
    BY <1>1, <1>5, <2>1, <2>2 DEF TypeOK
<1>8. ASSUME NEW w \in Workers, MarkRunning(w)
      PROVE  Truthful(j)'
  <2>1. /\ pc[w] = "start" /\ acts' = acts /\ task' = task /\ task[w] \in Jobs
        /\ status' = [status EXCEPT ![task[w]] = "running"]
        /\ pc' = [pc EXCEPT ![w] = "execute"] /\ result' = result
    BY <1>1, <1>8 DEF MarkRunning, At, Goto, BusyOnAJob
  <2>2. status[task[w]] # "succeeded"
    BY <1>2, <2>1, Alone DEF Acting
  <2>3. status'[j] = "succeeded" <=> status[j] = "succeeded"
    BY <1>1, <2>1, <2>2 DEF TypeOK
  <2>. QED
    BY <1>1, <1>5, <2>1, <2>3 DEF TypeOK
<1>9. ASSUME NEW w \in Workers, Execute(w)
      PROVE  Truthful(j)'
  <2>. DEFINE i == task[w]
  <2>1. /\ pc[w] = "execute" /\ pc' = [pc EXCEPT ![w] = "settle"]
        /\ UNCHANGED <<status, task>> /\ i \in Jobs
    BY <1>1, <1>9 DEF Execute, At, Goto, BusyOnAJob, dbVars
  <2>2. \/ /\ result' = [result EXCEPT ![w] = "ok"]
           /\ acts' = [acts EXCEPT ![i] = @ + 1]
        \/ /\ \E r \in {"fatal", "transient"} : result' = [result EXCEPT ![w] = r]
           /\ acts' = acts
    BY <1>9 DEF Execute, Fault, Told
  <2>3. Acting(w, i) /\ status[i] # "succeeded" /\ \A v \in Workers : Acting(v, i) => v = w
    BY <1>2, <2>1, Alone DEF Acting
  <2>4. CASE j = i
    <3>1. ~Unmarked(i)
      BY <2>1, <2>3 DEF Unmarked
    <3>2. acts[i] = 0
      BY <1>3, <2>3, <2>4, <3>1 DEF Truthful
    <3>3. \A v \in Workers : Acting(v, i)' <=> Acting(v, i)
      BY <1>1, <2>1 DEF Acting, TypeOK
    <3>4. Unmarked(i)' <=> result'[w] = "ok"
      BY <1>1, <2>1, <2>3, <3>3 DEF Unmarked, TypeOK
    <3>5. acts'[i] = IF result'[w] = "ok" THEN 1 ELSE 0
      BY <1>1, <2>1, <2>2, <3>2 DEF TypeOK
    <3>. QED
      BY <2>1, <2>3, <2>4, <3>4, <3>5 DEF Truthful
  <2>5. CASE j # i
    <3>1. Unmarked(j)' <=> Unmarked(j)
      BY <1>1, <2>1, <2>2, <2>5 DEF Unmarked, Acting, TypeOK
    <3>2. acts'[j] = acts[j]
      BY <1>1, <2>2, <2>5 DEF TypeOK
    <3>. QED
      BY <1>1, <1>3, <2>1, <3>1, <3>2, TruthKept
  <2>. QED
    BY <2>4, <2>5
<1>10. ASSUME NEW w \in Workers, Settle(w)
       PROVE  Truthful(j)'
  <2>. DEFINE i == task[w]
  <2>1. /\ pc[w] = "settle" /\ pc' = [pc EXCEPT ![w] = "recompute"]
        /\ status' = [status EXCEPT ![i] = Outcome(w)]
        /\ UNCHANGED <<task, result, acts>> /\ i \in Jobs
    BY <1>1, <1>10 DEF Settle, At, Goto, BusyOnAJob
  <2>2. Acting(w, i) /\ status[i] # "succeeded" /\ \A v \in Workers : Acting(v, i) => v = w
    BY <1>2, <2>1, Alone DEF Acting
  <2>3. CASE j = i
    <3>1. Unmarked(i) <=> result[w] = "ok"
      BY <2>1, <2>2 DEF Unmarked
    <3>2. ~Unmarked(i)'
      BY <1>1, <2>1, <2>2 DEF Unmarked, Acting, TypeOK
    <3>3. status'[i] = "succeeded" <=> result[w] = "ok"
      BY <1>1, <2>1 DEF Outcome, TypeOK
    <3>. QED
      BY <1>3, <2>1, <2>2, <2>3, <3>1, <3>2, <3>3 DEF Truthful
  <2>4. CASE j # i
    <3>1. Unmarked(j)' <=> Unmarked(j)
      BY <1>1, <2>1, <2>4 DEF Unmarked, Acting, TypeOK
    <3>2. status'[j] = status[j]
      BY <1>1, <2>1, <2>4 DEF TypeOK
    <3>. QED
      BY <1>1, <1>3, <2>1, <3>1, <3>2, TruthKept
  <2>. QED
    BY <2>3, <2>4
<1>11. ASSUME NEW w \in Workers, Recompute(w) \/ WriteExecution(w)
       PROVE  Truthful(j)'
  BY <1>1, <1>5, <1>11 DEF Recompute, WriteExecution, At, Goto, TypeOK, dbVars
<1>12. ASSUME NEW w \in Workers, Answer(w)
       PROVE  Truthful(j)'
  BY <1>1, <1>5, <1>12 DEF Answer, At, Free, Goto, TypeOK, dbVars
<1>13. ASSUME NEW w \in Workers, Throws(w) \/ Crash(w)
       PROVE  FALSE
  BY <1>13 DEF Throws, Crash, Fault, Told
<1>14. CASE UNCHANGED vars
  BY <1>3, <1>14 DEF vars, Truthful, Unmarked, Acting
<1>. QED
  BY <1>4, <1>6, <1>7, <1>8, <1>9, <1>10, <1>11, <1>12, <1>13, <1>14 DEF Next, Process

\* Late workers and repeated deliveries do not make a row lie: a job that
\* succeeded acted exactly once, one that failed never did.
THEOREM RowsTellTheTruth == Spec => []OutcomesTellTheTruth
<1>1. Init => Agreement /\ Truth
  <2>1. Init => Truth
    BY DEF Init, Truth, Truthful, Unmarked, Acting
  <2>. QED
    BY <2>1, AgreementInit
<1>2. IInv /\ Agreement /\ Truth /\ [Next]_vars => (Agreement /\ Truth)'
  BY AgreementInductive, TruthInductive DEF IInv, TypeInv
<1>3. IInv /\ Agreement /\ Truth => OutcomesTellTheTruth
  <2> SUFFICES ASSUME IInv, Agreement, Truth, Told, NEW j \in Jobs
               PROVE  /\ status[j] = "succeeded" => acts[j] = 1
                      /\ status[j] \in {"failed", "dead_letter"} => acts[j] = 0
    BY DEF OutcomesTellTheTruth, Told
  <2>1. Unmarked(j) => status[j] \in {"claimed", "running"}
    BY Alone DEF Unmarked
  <2>. QED
    BY <2>1 DEF Truth, Truthful
<1>. QED
  BY <1>1, <1>2, <1>3, Invariant, PTL DEF Spec
=============================================================================
