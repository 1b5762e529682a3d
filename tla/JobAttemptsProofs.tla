-------------------------- MODULE JobAttemptsProofs --------------------------
(***************************************************************************)
(* How often a job is attempted, for any jobs, workers, policy and faults: *)
(* every claim spends a delivery, the queue grants a bounded number of     *)
(* those, a job is given up only once they are used, and each acts on the  *)
(* platform once at most.  Together they are the ledger of jobs.           *)
(***************************************************************************)
EXTENDS JobExecutionProofs, FiniteSetTheorems

\* Workers that have received job j and have yet to claim it.
Claimers(j) == {w \in Workers : pc[w] = "claim" /\ task[w] = j}

\* Attempts made, and those that may still follow from deliveries already made.
Attempted(j) == attempts[j] + Cardinality(Claimers(j))

\* Deliveries the queue has made since it last forgot the job.
Granted(j) == attemptsMade[j] + stalls[j] + (IF delivery[j] = "active" THEN 1 ELSE 0)

Live == {"delayed", "wait", "active"}

\* What is attempted was granted while the queue has the job; a job the queue
\* has forgotten, or never had, was not attempted or is never published again.
WithinGrant(j) ==
  /\ Attempted(j) <= MaxAttempts + MaxStalled
  /\ delivery[j] \in Live => Attempted(j) <= Granted(j)
  /\ delivery[j] = "none" =>
       Attempted(j) = 0 \/ (j \notin unsent /\ status[j] \notin {"absent", "pending"})
  /\ status[j] \in {"absent", "pending"} => attempts[j] = 0

Budget == \A j \in Jobs : WithinGrant(j)

\* Attempts are counted in natural numbers.
LEMMA AttemptedType ==
  ASSUME TypeOK, NEW j \in Jobs
  PROVE  /\ IsFiniteSet(Claimers(j)) /\ Cardinality(Claimers(j)) \in Nat
         /\ attempts[j] \in Nat /\ Attempted(j) \in Nat
         /\ attemptsMade[j] \in Nat /\ stalls[j] \in Nat /\ Granted(j) \in Nat
<1>1. Claimers(j) \in SUBSET Workers /\ IsFiniteSet(Workers)
  BY JobAssumption DEF Claimers
<1>2. IsFiniteSet(Claimers(j))
  BY <1>1, FS_Subset
<1>3. Cardinality(Claimers(j)) \in Nat
  BY <1>2, FS_CardinalityType
<1>4. attempts[j] \in Nat /\ attemptsMade[j] \in Nat /\ stalls[j] \in Nat
  BY JobAssumption DEF TypeOK
<1>. QED
  BY <1>2, <1>3, <1>4 DEF Attempted, Granted

\* Fewer claimers and no new attempt: no more is attempted.
LEMMA FewerClaimers ==
  ASSUME TypeOK, NEW j \in Jobs, attempts' = attempts, Claimers(j)' \subseteq Claimers(j)
  PROVE  Attempted(j)' <= Attempted(j) /\ Attempted(j)' \in Nat
<1>1. IsFiniteSet(Claimers(j)) /\ Cardinality(Claimers(j)) \in Nat /\ attempts[j] \in Nat
  BY AttemptedType
<1>2. /\ IsFiniteSet(Claimers(j)')
      /\ Cardinality(Claimers(j)') <= Cardinality(Claimers(j))
  BY <1>1, FS_Subset
<1>3. Cardinality(Claimers(j)') \in Nat
  BY <1>2, FS_CardinalityType
<1>. QED
  BY <1>1, <1>2, <1>3 DEF Attempted

\* A claim turns a claimer into an attempt, or dismisses it.
LEMMA ClaimSpends ==
  ASSUME TypeOK, BusyOnAJob, NEW w \in Workers, ClaimById(w), NEW j \in Jobs
  PROVE  Attempted(j)' <= Attempted(j) /\ Attempted(j)' \in Nat
<1>1. /\ task[w] \in Jobs /\ pc[w] = "claim" /\ task' = task
      /\ pc' = [pc EXCEPT ![w] = "start"] \/ pc' = [pc EXCEPT ![w] = "answer"]
  BY DEF ClaimById, At, Goto, BusyOnAJob
<1>2. Claimers(j)' = Claimers(j) \ {w}
  BY <1>1 DEF Claimers, TypeOK
<1>3. CASE attempts' = attempts
  BY <1>2, <1>3, FewerClaimers
<1>4. CASE attempts' = [attempts EXCEPT ![task[w]] = @ + 1] /\ task[w] # j
  <2>1. attempts'[j] = attempts[j] /\ w \notin Claimers(j)
    BY <1>4 DEF TypeOK, Claimers
  <2>2. Attempted(j)' = Attempted(j)
    BY <1>2, <2>1 DEF Attempted
  <2>. QED
    BY <2>2, AttemptedType
<1>5. CASE attempts' = [attempts EXCEPT ![task[w]] = @ + 1] /\ task[w] = j
  <2>1. /\ IsFiniteSet(Claimers(j)) /\ Cardinality(Claimers(j)) \in Nat
        /\ attempts[j] \in Nat /\ Attempted(j) \in Nat
    BY AttemptedType
  <2>2. w \in Claimers(j)
    BY <1>1, <1>5 DEF Claimers
  <2>3. Cardinality(Claimers(j)') = Cardinality(Claimers(j)) - 1
    BY <1>2, <2>1, <2>2, FS_RemoveElement
  <2>4. attempts'[j] = attempts[j] + 1
    BY <1>5 DEF TypeOK
  <2>. QED
    BY <2>1, <2>3, <2>4 DEF Attempted
<1>. QED
  BY <1>3, <1>4, <1>5 DEF ClaimById, dbVars

\* A delivery makes one more claimer of its job, and none of another.
LEMMA DeliveryGrants ==
  ASSUME TypeOK, NEW w \in Workers, NEW i \in Jobs, Deliver(w, i), NEW j \in Jobs
  PROVE  /\ j = i => Attempted(j)' = Attempted(j) + 1
         /\ j # i => Attempted(j)' = Attempted(j)
<1>1. /\ pc[w] = "idle" /\ attempts' = attempts
      /\ pc' = [pc EXCEPT ![w] = "claim"] /\ task' = [task EXCEPT ![w] = i]
  BY DEF Deliver, dbVars
<1>2. w \notin Claimers(j)
  BY <1>1 DEF Claimers
<1>3. CASE j = i
  <2>1. Claimers(j)' = Claimers(j) \cup {w}
    BY <1>1, <1>3 DEF Claimers, TypeOK
  <2>2. Cardinality(Claimers(j)') = Cardinality(Claimers(j)) + 1
    BY <1>2, <2>1, AttemptedType, FS_AddElement
  <2>3. attempts'[j] = attempts[j]
    BY <1>1
  <2>. QED
    BY <1>3, <2>2, <2>3, AttemptedType DEF Attempted
<1>4. CASE j # i
  <2>1. Claimers(j)' = Claimers(j)
    BY <1>1, <1>4 DEF Claimers, TypeOK
  <2>. QED
    BY <1>1, <1>4, <2>1 DEF Attempted
<1>. QED
  BY <1>3, <1>4

\* A step that changes nothing the queue knows of a job, and does not make it
\* new again, keeps it within its grant.
LEMMA QuietKeeps ==
  ASSUME TypeOK, NEW j \in Jobs, WithinGrant(j),
         Attempted(j)' <= Attempted(j), Attempted(j)' \in Nat,
         delivery'[j] = delivery[j], attemptsMade'[j] = attemptsMade[j], stalls'[j] = stalls[j],
         j \in unsent' => j \in unsent,
         status'[j] \in {"absent", "pending"} =>
           status[j] \in {"absent", "pending"} /\ attempts'[j] = attempts[j]
  PROVE  WithinGrant(j)'
<1>1. Attempted(j) \in Nat /\ Granted(j) \in Nat /\ Granted(j)' = Granted(j)
  BY AttemptedType DEF Granted
<1>2. MaxAttempts + MaxStalled \in Nat
  BY JobAssumption
<1>. QED
  BY <1>1, <1>2 DEF WithinGrant, Live

\* Steps of the processor that neither receive nor answer a delivery.
LEMMA ProcessingKeeps ==
  ASSUME TypeOK, BusyOnAJob, NEW j \in Jobs, WithinGrant(j), NEW w \in Workers,
         \/ ClaimById(w) \/ MarkRunning(w) \/ Execute(w) \/ Settle(w) \/ Recompute(w)
         \/ WriteExecution(w) \/ Throws(w) \/ Crash(w)
  PROVE  WithinGrant(j)'
<1>1. /\ delivery' = delivery /\ attemptsMade' = attemptsMade /\ stalls' = stalls
      /\ unsent' = unsent
  BY DEF ClaimById, MarkRunning, Execute, Settle, Recompute, WriteExecution, Throws, Crash,
         queueVars
<1>2. CASE ClaimById(w)
  <2>1. Attempted(j)' <= Attempted(j) /\ Attempted(j)' \in Nat
    BY <1>2, ClaimSpends
  <2>2. \/ status' = status /\ attempts' = attempts
        \/ /\ status[task[w]] \in InFlight /\ task[w] \in Jobs
           /\ status' = [status EXCEPT ![task[w]] = "claimed"]
           /\ attempts' = [attempts EXCEPT ![task[w]] = @ + 1]
    BY <1>2 DEF ClaimById, Claimable, InFlight, At, BusyOnAJob, dbVars
  <2>. QED
    BY <1>1, <2>1, <2>2, QuietKeeps DEF TypeOK, InFlight
<1>3. CASE ~ClaimById(w)
  <2>1. attempts' = attempts
    BY <1>3 DEF MarkRunning, Execute, Settle, Recompute, WriteExecution, Throws, Crash, dbVars
  <2>2. Claimers(j)' \subseteq Claimers(j)
    BY <1>3 DEF MarkRunning, Execute, Settle, Recompute, WriteExecution, Throws, Crash, Goto,
                Free, Claimers, TypeOK
  <2>3. Attempted(j)' <= Attempted(j) /\ Attempted(j)' \in Nat
    BY <2>1, <2>2, FewerClaimers
  <2>4. \/ status' = status
        \/ \E s \in {"running", "retrying"} \cup Terminal : status' = [status EXCEPT ![task[w]] = s]
    BY <1>3 DEF MarkRunning, Execute, Settle, Recompute, WriteExecution, Throws, Crash, dbVars,
                Outcome, Terminal
  <2>5. status'[j] \in {"absent", "pending"} => status[j] \in {"absent", "pending"}
    BY <2>4 DEF TypeOK, Terminal
  <2>. QED
    BY <1>1, <2>1, <2>3, <2>5, QuietKeeps
<1>. QED
  BY <1>2, <1>3

\* A delivery is made while the policy leaves the job an attempt.
LEMMA DeliverKeeps ==
  ASSUME TypeOK, QueueSound, NEW j \in Jobs, WithinGrant(j),
         NEW w \in Workers, NEW i \in Jobs, Deliver(w, i)
  PROVE  WithinGrant(j)'
<1>1. /\ Attempted(j) \in Nat /\ Granted(j) \in Nat
      /\ attemptsMade[j] \in Nat /\ stalls[j] \in 0..MaxStalled
      /\ attemptsMade' = attemptsMade /\ stalls' = stalls /\ attempts' = attempts
      /\ status' = status /\ unsent' = unsent
  BY AttemptedType DEF Deliver, TypeOK, dbVars
<1>2. CASE j # i
  <2>1. Attempted(j)' = Attempted(j) /\ delivery'[j] = delivery[j]
    BY <1>2, DeliveryGrants DEF Deliver, TypeOK
  <2>. QED
    BY <1>1, <2>1, QuietKeeps
<1>3. CASE j = i
  <2>1. /\ Attempted(j)' = Attempted(j) + 1
        /\ delivery[j] = "wait" /\ delivery'[j] = "active"
    BY <1>3, DeliveryGrants DEF Deliver, TypeOK
  <2>2. Granted(j)' = Granted(j) + 1 /\ Granted(j) = attemptsMade[j] + stalls[j]
    BY <1>1, <2>1 DEF Granted
  <2>3. Attempted(j) <= Granted(j)
    BY <2>1 DEF WithinGrant, Live
  <2>4. attemptsMade[j] < MaxAttempts
    BY <2>1 DEF QueueSound
  <2>5. Attempted(j)' <= MaxAttempts + MaxStalled
    BY <1>1, <2>1, <2>2, <2>3, <2>4, JobAssumption
  <2>. QED
    BY <1>1, <2>1, <2>2, <2>3, <2>5 DEF WithinGrant
<1>. QED
  BY <1>2, <1>3

\* The answer to a delivery counts it among the attempts made.
LEMMA AnswerKeeps ==
  ASSUME TypeOK, QueueSound, BusyOnAJob, NEW j \in Jobs, WithinGrant(j),
         NEW w \in Workers, Answer(w)
  PROVE  WithinGrant(j)'
<1>1. /\ attempts' = attempts /\ status' = status /\ unsent' = unsent
      /\ task[w] \in Jobs
  BY DEF Answer, At, BusyOnAJob, dbVars
<1>2. Claimers(j)' \subseteq Claimers(j)
  BY DEF Answer, Free, Goto, Claimers, TypeOK
<1>3. Attempted(j)' <= Attempted(j) /\ Attempted(j)' \in Nat
  BY <1>1, <1>2, FewerClaimers
<1>4. CASE holder[task[w]] # w \/ task[w] # j
  <2>1. /\ delivery'[j] = delivery[j] /\ attemptsMade'[j] = attemptsMade[j]
        /\ stalls'[j] = stalls[j]
    BY <1>1, <1>4 DEF Answer, queueVars, TypeOK
  <2>. QED
    BY <1>1, <1>3, <2>1, QuietKeeps
<1>5. CASE holder[task[w]] = w /\ task[w] = j
  <2>1. delivery[j] = "active"
    BY <1>5, JobAssumption DEF QueueSound
  <2>2. /\ delivery'[j] \in {"completed", "failed", "delayed"}
        /\ attemptsMade'[j] = attemptsMade[j] + 1 /\ stalls'[j] = stalls[j]
    BY <1>5 DEF Answer, TypeOK
  <2>3. /\ Attempted(j) \in Nat /\ attemptsMade[j] \in Nat /\ stalls[j] \in Nat
    BY AttemptedType
  <2>4. Granted(j)' = Granted(j)
    BY <2>1, <2>2, <2>3 DEF Granted
  <2>5. Granted(j) \in Nat /\ MaxAttempts + MaxStalled \in Nat
    BY AttemptedType, JobAssumption
  <2>. QED
    BY <1>1, <1>3, <2>1, <2>2, <2>3, <2>4, <2>5 DEF WithinGrant, Live
<1>. QED
  BY <1>4, <1>5

\* Steps outside the processor claim nothing.
LEMMA NobodyClaims ==
  ASSUME TypeOK, NEW j \in Jobs, attempts' = attempts, UNCHANGED workerVars
  PROVE  Attempted(j)' = Attempted(j)
BY DEF Attempted, Claimers, workerVars

\* Publication, the passage of time and the queue's own steps.
LEMMA SurroundingsKeep ==
  ASSUME TypeOK, NEW j \in Jobs, WithinGrant(j), NEW i \in Jobs,
         \/ CreateJob(i) \/ Enqueue(i) \/ Republish(i) \/ CreatorCrashes(i) \/ Promote(i)
         \/ Stall(i) \/ Evict(i) \/ LeaseExpires(i)
  PROVE  WithinGrant(j)'
<1>1. attempts' = attempts /\ UNCHANGED workerVars
  BY DEF CreateJob, Enqueue, Republish, CreatorCrashes, Promote, Stall, Evict, LeaseExpires,
         Add, dbVars
<1>2. Attempted(j)' = Attempted(j) /\ Attempted(j) \in Nat
  BY <1>1, NobodyClaims, AttemptedType
<1>3. /\ attemptsMade[j] \in Nat /\ stalls[j] \in Nat /\ Granted(j) \in Nat
      /\ MaxAttempts + MaxStalled \in Nat
  BY AttemptedType, JobAssumption
<1>4. CASE CreateJob(i)
  <2>1. /\ delivery' = delivery /\ attemptsMade' = attemptsMade /\ stalls' = stalls
        /\ status[i] = "absent" /\ status' = [status EXCEPT ![i] = "pending"]
        /\ unsent' = unsent \cup {i}
    BY <1>4 DEF CreateJob, queueVars
  <2>2. Granted(j)' = Granted(j)
    BY <2>1 DEF Granted
  <2>. QED
    BY <1>1, <1>2, <2>1, <2>2 DEF WithinGrant, TypeOK
<1>5. CASE Enqueue(i) \/ Republish(i)
  <2>1. /\ status' = status /\ attemptsMade' = attemptsMade /\ stalls' = stalls
        /\ unsent' \subseteq unsent
        /\ i \in unsent \/ status[i] = "pending"
        /\ \/ delivery' = delivery
           \/ delivery[i] = "none" /\ \E s \in Live : delivery' = [delivery EXCEPT ![i] = s]
    BY <1>5 DEF Enqueue, Republish, Add, dbVars, Live
  <2>2. CASE delivery'[j] = delivery[j]
    BY <1>1, <1>2, <2>1, <2>2, QuietKeeps
  <2>3. CASE delivery'[j] # delivery[j]
    <3>1. j = i /\ delivery[j] = "none" /\ delivery'[j] # "none"
      BY <2>1, <2>3 DEF TypeOK, Live
    <3>2. Attempted(j) = 0
      BY <2>1, <3>1 DEF WithinGrant
    <3>3. Granted(j)' \in Nat
      BY <1>3, <2>1 DEF Granted
    <3>. QED
      BY <1>1, <1>2, <1>3, <2>1, <3>1, <3>2, <3>3 DEF WithinGrant
  <2>. QED
    BY <2>2, <2>3
<1>6. CASE CreatorCrashes(i) \/ LeaseExpires(i)
  <2>1. /\ status' = status /\ delivery' = delivery /\ attemptsMade' = attemptsMade
        /\ stalls' = stalls /\ unsent' \subseteq unsent
    BY <1>6 DEF CreatorCrashes, LeaseExpires, dbVars, queueVars
  <2>. QED
    BY <1>1, <1>2, <2>1, QuietKeeps
<1>7. CASE Promote(i)
  <2>1. /\ status' = status /\ attemptsMade' = attemptsMade /\ stalls' = stalls
        /\ unsent' = unsent
        /\ delivery[i] = "delayed" /\ delivery' = [delivery EXCEPT ![i] = "wait"]
    BY <1>7 DEF Promote, dbVars
  <2>2. /\ delivery'[j] = delivery[j] \/ (delivery[j] = "delayed" /\ delivery'[j] = "wait")
        /\ Granted(j)' = Granted(j)
    BY <2>1 DEF TypeOK, Granted
  <2>. QED
    BY <1>1, <1>2, <2>1, <2>2 DEF WithinGrant, Live
<1>8. CASE Stall(i)
  <2>1. /\ status' = status /\ attemptsMade' = attemptsMade /\ unsent' = unsent
        /\ delivery[i] = "active"
        /\ \/ /\ delivery' = [delivery EXCEPT ![i] = "wait"]
              /\ stalls' = [stalls EXCEPT ![i] = @ + 1]
           \/ /\ delivery' = [delivery EXCEPT ![i] = "failed"]
              /\ stalls' = stalls
    BY <1>8 DEF Stall, dbVars
  <2>2. CASE j # i
    <3>1. delivery'[j] = delivery[j] /\ stalls'[j] = stalls[j]
      BY <2>1, <2>2 DEF TypeOK
    <3>. QED
      BY <1>1, <1>2, <2>1, <3>1, QuietKeeps
  <2>3. CASE j = i
    <3>1. \/ delivery'[j] = "failed"
          \/ delivery'[j] = "wait" /\ stalls'[j] = stalls[j] + 1
      BY <2>1, <2>3 DEF TypeOK
    <3>2. delivery'[j] = "wait" => Granted(j)' = Granted(j)
      BY <1>3, <2>1, <2>3, <3>1 DEF Granted
    <3>. QED
      BY <1>1, <1>2, <2>1, <2>3, <3>1, <3>2 DEF WithinGrant, Live
  <2>. QED
    BY <2>2, <2>3
<1>9. CASE Evict(i)
  <2>1. /\ status' = status /\ unsent' = unsent /\ i \notin unsent
        /\ \A w \in Workers : task[w] # i
        /\ delivery' = [delivery EXCEPT ![i] = "none"]
        /\ attemptsMade' = [attemptsMade EXCEPT ![i] = 0]
        /\ stalls' = [stalls EXCEPT ![i] = 0]
    BY <1>9 DEF Evict, dbVars
  <2>2. CASE j # i
    <3>1. /\ delivery'[j] = delivery[j] /\ stalls'[j] = stalls[j]
          /\ attemptsMade'[j] = attemptsMade[j]
      BY <2>1, <2>2 DEF TypeOK
    <3>. QED
      BY <1>1, <1>2, <2>1, <3>1, QuietKeeps
  <2>3. CASE j = i
    <3>1. delivery'[j] = "none"
      BY <2>1, <2>3 DEF TypeOK
    <3>2. Claimers(j) = {}
      BY <2>1, <2>3 DEF Claimers
    <3>3. Attempted(j) = attempts[j]
      BY <1>2, <3>2, FS_EmptySet DEF Attempted, TypeOK
    <3>. QED
      BY <1>1, <1>2, <2>1, <2>3, <3>1, <3>3 DEF WithinGrant, Live
  <2>. QED
    BY <2>2, <2>3
<1>. QED
  BY <1>4, <1>5, <1>6, <1>7, <1>8, <1>9

\* Every step keeps every job within its grant.
LEMMA BudgetInductive == TypeInv /\ Budget /\ [Next]_vars => Budget'
<1> SUFFICES ASSUME TypeInv, Budget, [Next]_vars, NEW j \in Jobs
             PROVE  WithinGrant(j)'
  BY DEF Budget
<1>1. TypeOK /\ BusyOnAJob /\ QueueSound /\ WithinGrant(j)
  BY DEF TypeInv, Budget
<1>2. ASSUME NEW i \in Jobs,
             \/ CreateJob(i) \/ Enqueue(i) \/ Republish(i) \/ CreatorCrashes(i) \/ Promote(i)
             \/ Stall(i) \/ Evict(i) \/ LeaseExpires(i)
      PROVE  WithinGrant(j)'
  BY <1>1, <1>2, SurroundingsKeep
<1>3. ASSUME NEW w \in Workers, NEW i \in Jobs, Deliver(w, i)
      PROVE  WithinGrant(j)'
  BY <1>1, <1>3, DeliverKeeps
<1>4. ASSUME NEW w \in Workers,
             \/ ClaimById(w) \/ MarkRunning(w) \/ Execute(w) \/ Settle(w) \/ Recompute(w)
             \/ WriteExecution(w) \/ Throws(w) \/ Crash(w)
      PROVE  WithinGrant(j)'
  BY <1>1, <1>4, ProcessingKeeps
<1>5. ASSUME NEW w \in Workers, Answer(w)
      PROVE  WithinGrant(j)'
  BY <1>1, <1>5, AnswerKeeps
<1>6. CASE UNCHANGED vars
  BY <1>1, <1>6 DEF vars, WithinGrant, Attempted, Claimers, Granted
<1>. QED
  BY <1>2, <1>3, <1>4, <1>5, <1>6 DEF Next, Process

\* A job is never attempted more often than its policy and the queue's allowance
\* for stalls permit: a claim spends a delivery, failures and stalls use up the
\* deliveries, and a job the queue has forgotten is published again only while
\* it was never attempted.
THEOREM AttemptsAreBounded == Spec => []AttemptsBounded
<1>1. Init => TypeInv /\ Budget
  <2> SUFFICES ASSUME Init
               PROVE  TypeInv /\ Budget
    OBVIOUS
  <2>1. TypeInv
    BY JobAssumption DEF Init, TypeInv, TypeOK, BusyOnAJob, QueueSound
  <2>2. ASSUME NEW j \in Jobs
        PROVE  WithinGrant(j)
    <3>1. Claimers(j) = {} /\ attempts[j] = 0 /\ delivery[j] = "none"
      BY DEF Init, Claimers
    <3>2. Attempted(j) = 0
      BY <3>1, FS_EmptySet DEF Attempted
    <3>. QED
      BY <3>1, <3>2, JobAssumption DEF WithinGrant, Live
  <2>. QED
    BY <2>1, <2>2 DEF Budget
<1>2. TypeInv /\ Budget /\ [Next]_vars => (TypeInv /\ Budget)'
  BY TypeInductive, BudgetInductive
<1>3. TypeInv /\ Budget => AttemptsBounded
  <2> SUFFICES ASSUME TypeInv, Budget, NEW j \in Jobs
               PROVE  attempts[j] <= MaxAttempts + MaxStalled
    BY DEF AttemptsBounded
  <2>1. /\ attempts[j] \in Nat /\ Cardinality(Claimers(j)) \in Nat
        /\ Attempted(j) <= MaxAttempts + MaxStalled
    BY AttemptedType DEF TypeInv, Budget, WithinGrant
  <2>. QED
    BY <2>1, JobAssumption DEF Attempted
<1>. QED
  BY <1>1, <1>2, <1>3, PTL DEF Spec
-----------------------------------------------------------------------------
(* What a worker and the queue count.                                      *)

\* The attempt a worker is on is counted in the row once it has claimed the
\* job, and its number is the queue's while the worker has the lock.
CountedBy(w) ==
  /\ result[w] = "skip" => pc[w] = "answer"
  /\ pc[w] # "idle" =>
       /\ attempts[task[w]] >= tries[w]
       /\ pc[w] # "claim" /\ result[w] # "skip" => attempts[task[w]] > tries[w]
       /\ holder[task[w]] = w => tries[w] = attemptsMade[task[w]]

\* The row never counts fewer attempts than the queue, while the queue may
\* still deliver the job.
CountedOf(j) ==
  /\ delivery[j] \in Live => attempts[j] >= attemptsMade[j]
  /\ delivery[j] = "none" => attemptsMade[j] = 0
  /\ status[j] = "dead_letter" => attempts[j] >= MaxAttempts

Tally == "dbError" \notin suffered =>
           (\A w \in Workers : CountedBy(w)) /\ (\A j \in Jobs : CountedOf(j))

\* A step that leaves a worker, its job's count and the queue's lock alone
\* leaves its count right.
LEMMA TallyInductive == TypeInv /\ Tally /\ [Next]_vars => Tally'
<1> SUFFICES ASSUME TypeInv, Tally, [Next]_vars, "dbError" \notin suffered'
             PROVE  (\A w \in Workers : CountedBy(w)') /\ (\A j \in Jobs : CountedOf(j)')
  BY DEF Tally
<1>1. TypeOK /\ BusyOnAJob /\ QueueSound
  BY DEF TypeInv
<1>2. "dbError" \notin suffered
  BY DEF Next, Process, vars, faultVars, Fault, CreateJob, Enqueue, Republish, CreatorCrashes,
         Promote, Stall, LockLost, Evict, LeaseExpires, Deliver, ClaimById, MarkRunning, Execute,
         Settle, Recompute, WriteExecution, Answer, Throws, Crash
<1>3. (\A w \in Workers : CountedBy(w)) /\ (\A j \in Jobs : CountedOf(j))
  BY <1>2 DEF Tally
<1>4. \A j \in Jobs : attempts[j] \in Nat /\ attemptsMade[j] \in Nat
  BY <1>1, JobAssumption DEF TypeOK
<1>5. \A w \in Workers : tries[w] \in Nat /\ w # NoWorker
  BY <1>1, JobAssumption DEF TypeOK
<1> USE <1>1, <1>3, <1>4, <1>5
<1>6. ASSUME NEW i \in Jobs, CreateJob(i)
      PROVE  (\A w \in Workers : CountedBy(w)') /\ (\A j \in Jobs : CountedOf(j)')
  BY <1>6 DEF CreateJob, CountedBy, CountedOf, TypeOK, queueVars, workerVars
<1>7. ASSUME NEW i \in Jobs, Enqueue(i) \/ Republish(i)
      PROVE  (\A w \in Workers : CountedBy(w)') /\ (\A j \in Jobs : CountedOf(j)')
  <2>1. \A w \in Workers : CountedBy(w)'
    BY <1>7 DEF Enqueue, Republish, Add, CountedBy, dbVars, workerVars
  <2>2. \A j \in Jobs : \/ delivery'[j] = delivery[j]
                        \/ delivery[j] = "none" /\ delivery'[j] \in Live
    <3>1. \/ delivery' = delivery
          \/ delivery[i] = "none" /\ \E d \in Live : delivery' = [delivery EXCEPT ![i] = d]
      BY <1>7 DEF Enqueue, Republish, Add, Live
    <3>. QED
      BY <3>1 DEF TypeOK
  <2>3. UNCHANGED <<status, attempts, attemptsMade>>
    BY <1>7 DEF Enqueue, Republish, Add, dbVars
  <2>4. \A j \in Jobs : CountedOf(j)'
    BY <2>2, <2>3 DEF CountedOf, Live
  <2>. QED
    BY <2>1, <2>4
<1>8. ASSUME NEW i \in Jobs, CreatorCrashes(i) \/ LeaseExpires(i)
      PROVE  (\A w \in Workers : CountedBy(w)') /\ (\A j \in Jobs : CountedOf(j)')
  BY <1>8 DEF CreatorCrashes, LeaseExpires, CountedBy, CountedOf, dbVars, queueVars, workerVars
<1>9. ASSUME NEW i \in Jobs, Promote(i)
      PROVE  (\A w \in Workers : CountedBy(w)') /\ (\A j \in Jobs : CountedOf(j)')
  BY <1>9 DEF Promote, CountedBy, CountedOf, TypeOK, Live, dbVars, workerVars
<1>10. ASSUME NEW i \in Jobs, Stall(i)
       PROVE  (\A w \in Workers : CountedBy(w)') /\ (\A j \in Jobs : CountedOf(j)')
  BY <1>10 DEF Stall, BusyOnAJob, CountedBy, CountedOf, TypeOK, Live, dbVars, workerVars
<1>11. ASSUME NEW i \in Jobs, Evict(i)
       PROVE  (\A w \in Workers : CountedBy(w)') /\ (\A j \in Jobs : CountedOf(j)')
  BY <1>11 DEF Evict, BusyOnAJob, CountedBy, CountedOf, TypeOK, Live, dbVars, workerVars
<1>12. ASSUME NEW v \in Workers, NEW i \in Jobs, Deliver(v, i)
       PROVE  (\A w \in Workers : CountedBy(w)') /\ (\A j \in Jobs : CountedOf(j)')
  BY <1>12 DEF Deliver, CountedBy, CountedOf, TypeOK, Live, dbVars
<1>13. ASSUME NEW v \in Workers, ClaimById(v)
       PROVE  (\A w \in Workers : CountedBy(w)') /\ (\A j \in Jobs : CountedOf(j)')
  <2>. DEFINE i == task[v]
  <2>1. /\ i \in Jobs /\ pc[v] = "claim" /\ attempts[i] >= tries[v] /\ result[v] # "skip"
        /\ UNCHANGED <<delivery, attemptsMade, holder, task, tries>>
    BY <1>13 DEF ClaimById, At, BusyOnAJob, CountedBy, queueVars
  <2>2. CASE Claimable(i)
    <3>1. /\ status' = [status EXCEPT ![i] = "claimed"]
          /\ attempts' = [attempts EXCEPT ![i] = @ + 1]
          /\ pc' = [pc EXCEPT ![v] = "start"] /\ result' = result
      BY <1>13, <2>2 DEF ClaimById, Goto
    <3>2. \A j \in Jobs : attempts'[j] >= attempts[j] /\ attempts'[j] \in Nat
      BY <2>1, <3>1 DEF TypeOK
    <3>3. attempts'[i] > tries[v]
      BY <2>1, <3>1 DEF TypeOK
    <3>4. ASSUME NEW w \in Workers PROVE CountedBy(w)'
      <4>1. CASE w = v
        BY <2>1, <3>1, <3>2, <3>3, <4>1 DEF CountedBy, TypeOK
      <4>2. CASE w # v
        <5>1. pc'[w] = pc[w]
          BY <3>1, <4>2 DEF TypeOK
        <5>2. CASE pc[w] = "idle"
          BY <3>1, <5>1, <5>2 DEF CountedBy
        <5>3. CASE pc[w] # "idle"
          <6>1. task[w] \in Jobs /\ CountedBy(w)
            BY <5>3 DEF BusyOnAJob
          <6>2. attempts'[task[w]] >= attempts[task[w]] /\ attempts'[task[w]] \in Nat
            BY <3>2, <6>1
          <6>. QED
            BY <2>1, <3>1, <5>1, <5>3, <6>1, <6>2 DEF CountedBy
        <5>. QED
          BY <5>2, <5>3
      <4>. QED
        BY <4>1, <4>2
    <3>5. ASSUME NEW j \in Jobs PROVE CountedOf(j)'
      <4>1. CountedOf(j) /\ attempts'[j] >= attempts[j] /\ attempts'[j] \in Nat
        BY <3>2
      <4>2. status'[j] = "dead_letter" => status[j] = "dead_letter"
        BY <2>1, <3>1 DEF TypeOK
      <4>. QED
        BY <2>1, <4>1, <4>2, JobAssumption DEF CountedOf
    <3>. QED
      BY <3>4, <3>5
  <2>3. CASE ~Claimable(i)
    <3>1. /\ UNCHANGED <<status, attempts>>
          /\ pc' = [pc EXCEPT ![v] = "answer"] /\ result' = [result EXCEPT ![v] = "skip"]
      BY <1>13, <2>3 DEF ClaimById, Goto, dbVars
    <3>. QED
      BY <2>1, <3>1 DEF CountedBy, CountedOf, TypeOK
  <2>. QED
    BY <2>2, <2>3
<1>14. ASSUME NEW v \in Workers, MarkRunning(v)
       PROVE  (\A w \in Workers : CountedBy(w)') /\ (\A j \in Jobs : CountedOf(j)')
  BY <1>14 DEF MarkRunning, At, Goto, CountedBy, CountedOf, TypeOK, queueVars
<1>15. ASSUME NEW v \in Workers, Execute(v)
       PROVE  (\A w \in Workers : CountedBy(w)') /\ (\A j \in Jobs : CountedOf(j)')
  <2>1. /\ UNCHANGED <<status, attempts, delivery, attemptsMade, holder, task, tries>>
        /\ pc[v] = "execute" /\ pc' = [pc EXCEPT ![v] = "settle"]
        /\ \E r \in {"ok", "fatal", "transient"} : result' = [result EXCEPT ![v] = r]
    BY <1>15 DEF Execute, At, Goto, dbVars, queueVars
  <2>. QED
    BY <2>1 DEF CountedBy, CountedOf, TypeOK
<1>16. ASSUME NEW v \in Workers, Settle(v)
       PROVE  (\A w \in Workers : CountedBy(w)') /\ (\A j \in Jobs : CountedOf(j)')
  <2>. DEFINE i == task[v]
  <2>1. /\ UNCHANGED <<attempts, delivery, attemptsMade, holder, task, tries, result>>
        /\ i \in Jobs /\ pc[v] = "settle" /\ pc' = [pc EXCEPT ![v] = "recompute"]
        /\ status' = [status EXCEPT ![i] = Outcome(v)]
    BY <1>16 DEF Settle, At, Goto, BusyOnAJob, queueVars
  <2>2. attempts[i] > tries[v] /\ attempts[i] \in Nat
    BY <2>1 DEF CountedBy
  <2>3. Outcome(v) = "dead_letter" => tries[v] + 1 >= MaxAttempts
    BY DEF Outcome
  <2>4. Outcome(v) = "dead_letter" => attempts[i] >= MaxAttempts
    BY <2>2, <2>3, JobAssumption
  <2>5. \A w \in Workers : CountedBy(w)'
    BY <2>1 DEF CountedBy, TypeOK
  <2>6. ASSUME NEW j \in Jobs PROVE CountedOf(j)'
    <3>1. status'[j] = IF j = i THEN Outcome(v) ELSE status[j]
      BY <2>1 DEF TypeOK
    <3>. QED
      BY <2>1, <2>4, <3>1 DEF CountedOf
  <2>. QED
    BY <2>5, <2>6
<1>17. ASSUME NEW v \in Workers, Recompute(v) \/ WriteExecution(v)
       PROVE  (\A w \in Workers : CountedBy(w)') /\ (\A j \in Jobs : CountedOf(j)')
  BY <1>17 DEF Recompute, WriteExecution, At, Goto, CountedBy, CountedOf, TypeOK, dbVars,
               queueVars
<1>18. ASSUME NEW v \in Workers, Answer(v)
       PROVE  (\A w \in Workers : CountedBy(w)') /\ (\A j \in Jobs : CountedOf(j)')
  <2>. DEFINE i == task[v]
  <2>1. /\ UNCHANGED <<status, attempts>> /\ i \in Jobs /\ pc[v] = "answer"
        /\ pc' = [pc EXCEPT ![v] = "idle"] /\ task' = [task EXCEPT ![v] = NoJob]
        /\ tries' = [tries EXCEPT ![v] = 0] /\ result' = [result EXCEPT ![v] = "none"]
    BY <1>18 DEF Answer, At, Free, Goto, BusyOnAJob, dbVars
  <2>2. CASE holder[i] # v
    <3>1. UNCHANGED <<delivery, attemptsMade, holder>>
      BY <1>18, <2>2 DEF Answer, queueVars
    <3>. QED
      BY <2>1, <3>1 DEF CountedBy, CountedOf, TypeOK
  <2>3. CASE holder[i] = v
    <3>1. /\ holder' = [holder EXCEPT ![i] = NoWorker]
          /\ \E d \in {"completed", "failed", "delayed"} :
               /\ delivery' = [delivery EXCEPT ![i] = d]
               /\ d = "delayed" => result[v] # "skip"
          /\ attemptsMade' = [attemptsMade EXCEPT ![i] = @ + 1]
      BY <1>18, <2>3 DEF Answer
    <3>2. \A w \in Workers : CountedBy(w)'
      BY <2>1, <3>1 DEF CountedBy, TypeOK
    <3>3. result[v] # "skip" => attempts[i] >= attemptsMade[i] + 1
      BY <2>1, <2>3 DEF CountedBy
    <3>4. \A j \in Jobs : CountedOf(j)'
      BY <2>1, <3>1, <3>3 DEF CountedOf, Live, TypeOK
    <3>. QED
      BY <3>2, <3>4
  <2>. QED
    BY <2>2, <2>3
<1>19. ASSUME NEW v \in Workers, Throws(v) \/ Crash(v)
       PROVE  (\A w \in Workers : CountedBy(w)') /\ (\A j \in Jobs : CountedOf(j)')
  <2>1. ~Throws(v)
    BY DEF Throws, Fault, TypeOK
  <2>. QED
    BY <1>19, <2>1 DEF Crash, Free, Goto, CountedBy, CountedOf, TypeOK, dbVars, queueVars
<1>20. CASE UNCHANGED vars
  BY <1>20 DEF vars, CountedBy, CountedOf
<1>. QED
  BY <1>6, <1>7, <1>8, <1>9, <1>10, <1>11, <1>12, <1>13, <1>14, <1>15, <1>16, <1>17, <1>18,
     <1>19, <1>20 DEF Next, Process

\* A job becomes a dead letter only after as many attempts as its policy allows:
\* the queue's count, by which the processor decides, never runs ahead of the
\* row's while no statement throws.
THEOREM GivenUpOnlyWhenExhausted == Spec => []GivenUpWhenExhausted
<1>1. Init => TypeInv /\ Tally
  BY JobAssumption DEF Init, TypeInv, TypeOK, BusyOnAJob, QueueSound, Tally, CountedBy,
                       CountedOf, Live
<1>2. TypeInv /\ Tally /\ [Next]_vars => (TypeInv /\ Tally)'
  BY TypeInductive, TallyInductive
<1>3. Tally => GivenUpWhenExhausted
  BY DEF Tally, CountedOf, GivenUpWhenExhausted
<1>. QED
  BY <1>1, <1>2, <1>3, PTL DEF Spec

-----------------------------------------------------------------------------
(* Actions on the platform.                                                *)

\* Workers that have claimed job j and have yet to act.
Actors(j) == {w \in Workers : pc[w] \in {"start", "execute"} /\ task[w] = j}

\* Every attempt acts once at most, and what succeeded has acted.
ActsCounted ==
  /\ \A j \in Jobs : /\ acts[j] + Cardinality(Actors(j)) <= attempts[j]
                     /\ status[j] = "succeeded" => acts[j] > 0
  /\ \A w \in Workers : pc[w] = "settle" => /\ result[w] \in {"ok", "fatal", "transient"}
                                            /\ result[w] = "ok" => acts[task[w]] > 0

\* Actors are counted in natural numbers.
LEMMA ActorsType ==
  ASSUME TypeOK, NEW j \in Jobs
  PROVE  /\ IsFiniteSet(Actors(j)) /\ Cardinality(Actors(j)) \in Nat
         /\ attempts[j] \in Nat /\ acts[j] \in Nat
<1>1. Actors(j) \in SUBSET Workers /\ IsFiniteSet(Workers)
  BY JobAssumption DEF Actors
<1>2. IsFiniteSet(Actors(j))
  BY <1>1, FS_Subset
<1>3. Cardinality(Actors(j)) \in Nat
  BY <1>2, FS_CardinalityType
<1>. QED
  BY <1>2, <1>3 DEF TypeOK

\* A step that neither attempts nor acts, and adds no actor, marks nothing a
\* success and brings no worker to its mark keeps the count.
LEMMA CountKept ==
  ASSUME TypeOK, ActsCounted, UNCHANGED <<attempts, acts>>,
         \A j \in Jobs : Actors(j)' \subseteq Actors(j),
         \A j \in Jobs : status'[j] = "succeeded" => status[j] = "succeeded",
         \A w \in Workers : pc'[w] = "settle" =>
           pc[w] = "settle" /\ result'[w] = result[w] /\ task'[w] = task[w]
  PROVE  ActsCounted'
<1>1. ASSUME NEW j \in Jobs
      PROVE  acts'[j] + Cardinality(Actors(j)') <= attempts'[j]
  <2>1. /\ IsFiniteSet(Actors(j)) /\ Cardinality(Actors(j)) \in Nat
        /\ attempts[j] \in Nat /\ acts[j] \in Nat
    BY ActorsType
  <2>2. IsFiniteSet(Actors(j)') /\ Cardinality(Actors(j)') <= Cardinality(Actors(j))
    BY <2>1, FS_Subset
  <2>3. Cardinality(Actors(j)') \in Nat
    BY <2>2, FS_CardinalityType
  <2>. QED
    BY <2>1, <2>2, <2>3 DEF ActsCounted
<1>. QED
  BY <1>1 DEF ActsCounted

\* A claim makes an actor and an attempt at once.
LEMMA ClaimCounts ==
  ASSUME TypeOK, BusyOnAJob, ActsCounted, NEW w \in Workers, ClaimById(w), Claimable(task[w])
  PROVE  ActsCounted'
<1> DEFINE i == task[w]
<1>1. /\ i \in Jobs /\ pc[w] = "claim" /\ UNCHANGED <<task, acts, result>>
      /\ pc' = [pc EXCEPT ![w] = "start"]
      /\ attempts' = [attempts EXCEPT ![i] = @ + 1]
      /\ status' = [status EXCEPT ![i] = "claimed"]
  BY DEF ClaimById, At, Goto, BusyOnAJob
<1>2. ASSUME NEW j \in Jobs
      PROVE  /\ acts'[j] + Cardinality(Actors(j)') <= attempts'[j]
             /\ status'[j] = "succeeded" => acts'[j] > 0
  <2>1. /\ IsFiniteSet(Actors(j)) /\ Cardinality(Actors(j)) \in Nat
        /\ attempts[j] \in Nat /\ acts[j] \in Nat
    BY ActorsType
  <2>2. CASE j = i
    <3>1. Actors(j)' = Actors(j) \cup {w} /\ w \notin Actors(j)
      BY <1>1, <2>2 DEF Actors, TypeOK
    <3>2. Cardinality(Actors(j)') = Cardinality(Actors(j)) + 1
      BY <2>1, <3>1, FS_AddElement
    <3>3. attempts'[j] = attempts[j] + 1 /\ status'[j] = "claimed"
      BY <1>1, <2>2 DEF TypeOK
    <3>. QED
      BY <1>1, <2>1, <3>2, <3>3 DEF ActsCounted
  <2>3. CASE j # i
    <3>1. Actors(j)' = Actors(j)
      BY <1>1, <2>3 DEF Actors, TypeOK
    <3>2. attempts'[j] = attempts[j] /\ status'[j] = status[j]
      BY <1>1, <2>3 DEF TypeOK
    <3>. QED
      BY <1>1, <3>1, <3>2 DEF ActsCounted
  <2>. QED
    BY <2>2, <2>3
<1>3. \A v \in Workers : pc'[v] = "settle" => pc[v] = "settle"
  BY <1>1 DEF TypeOK
<1>. QED
  BY <1>1, <1>2, <1>3 DEF ActsCounted

\* Whoever has acted is no actor any longer.
LEMMA ExecuteCounts ==
  ASSUME TypeOK, BusyOnAJob, ActsCounted, NEW w \in Workers, Execute(w)
  PROVE  ActsCounted'
<1> DEFINE i == task[w]
<1>1. /\ i \in Jobs /\ pc[w] = "execute" /\ UNCHANGED <<task, attempts, status>>
      /\ pc' = [pc EXCEPT ![w] = "settle"]
      /\ \E r \in {"ok", "fatal", "transient"} : result' = [result EXCEPT ![w] = r]
      /\ \/ acts' = [acts EXCEPT ![i] = @ + 1]
         \/ acts' = acts /\ result'[w] # "ok"
  BY DEF Execute, At, Goto, BusyOnAJob, dbVars, TypeOK
<1>2. \A j \in Jobs : acts[j] \in Nat /\ acts'[j] \in Nat /\ acts'[j] >= acts[j]
  BY <1>1 DEF TypeOK
<1>3. ASSUME NEW j \in Jobs
      PROVE  /\ acts'[j] + Cardinality(Actors(j)') <= attempts'[j]
             /\ status'[j] = "succeeded" => acts'[j] > 0
  <2>1. /\ IsFiniteSet(Actors(j)) /\ Cardinality(Actors(j)) \in Nat
        /\ attempts[j] \in Nat /\ acts[j] \in Nat
    BY ActorsType
  <2>2. CASE j = i
    <3>1. w \in Actors(j) /\ Actors(j)' = Actors(j) \ {w}
      BY <1>1, <2>2 DEF Actors, TypeOK
    <3>2. Cardinality(Actors(j)') = Cardinality(Actors(j)) - 1
      BY <2>1, <3>1, FS_RemoveElement
    <3>3. acts'[j] <= acts[j] + 1
      BY <1>1, <2>1, <2>2 DEF TypeOK
    <3>. QED
      BY <1>1, <1>2, <2>1, <3>2, <3>3 DEF ActsCounted
  <2>3. CASE j # i
    <3>1. Actors(j)' = Actors(j)
      BY <1>1, <2>3 DEF Actors, TypeOK
    <3>2. acts'[j] = acts[j]
      BY <1>1, <2>3 DEF TypeOK
    <3>. QED
      BY <1>1, <3>1, <3>2 DEF ActsCounted
  <2>. QED
    BY <2>2, <2>3
<1>4. ASSUME NEW v \in Workers, pc'[v] = "settle"
      PROVE  /\ result'[v] \in {"ok", "fatal", "transient"}
             /\ result'[v] = "ok" => acts'[task'[v]] > 0
  <2>1. CASE v = w
    <3>1. result'[w] \in {"ok", "fatal", "transient"}
      BY <1>1 DEF TypeOK
    <3>2. result'[w] = "ok" => acts'[i] = acts[i] + 1
      BY <1>1 DEF TypeOK
    <3>. QED
      BY <1>1, <1>2, <2>1, <3>1, <3>2
  <2>2. CASE v # w
    <3>1. pc[v] = "settle" /\ result'[v] = result[v] /\ task[v] \in Jobs
      BY <1>1, <1>4, <2>2 DEF TypeOK, BusyOnAJob
    <3>. QED
      BY <1>1, <1>2, <3>1 DEF ActsCounted
  <2>. QED
    BY <2>1, <2>2
<1>. QED
  BY <1>3, <1>4 DEF ActsCounted

\* Every step keeps the count of actions.
LEMMA ActsInductive == TypeInv /\ ActsCounted /\ [Next]_vars => ActsCounted'
<1> SUFFICES ASSUME TypeInv, ActsCounted, [Next]_vars
             PROVE  ActsCounted'
  OBVIOUS
<1>1. TypeOK /\ BusyOnAJob
  BY DEF TypeInv
<1>2. ASSUME NEW i \in Jobs,
             \/ Enqueue(i) \/ Republish(i) \/ CreatorCrashes(i) \/ Promote(i)
             \/ Stall(i) \/ Evict(i) \/ LeaseExpires(i)
      PROVE  ActsCounted'
  BY <1>1, <1>2 DEF Enqueue, Republish, Add, CreatorCrashes, Promote, Stall, Evict, LeaseExpires,
                    ActsCounted, Actors, dbVars, workerVars
<1>3. ASSUME NEW i \in Jobs, CreateJob(i)
      PROVE  ActsCounted'
  BY <1>1, <1>3 DEF CreateJob, ActsCounted, Actors, workerVars, TypeOK
<1>4. ASSUME NEW w \in Workers, NEW i \in Jobs, Deliver(w, i)
      PROVE  ActsCounted'
  <2>1. /\ pc[w] = "idle" /\ pc' = [pc EXCEPT ![w] = "claim"] /\ task' = [task EXCEPT ![w] = i]
        /\ UNCHANGED <<status, attempts, acts, result>>
    BY <1>4 DEF Deliver, dbVars
  <2>. QED
    BY <1>1, <2>1, CountKept DEF Actors, TypeOK
<1>5. ASSUME NEW w \in Workers, ClaimById(w)
      PROVE  ActsCounted'
  <2>1. CASE Claimable(task[w])
    BY <1>1, <1>5, <2>1, ClaimCounts
  <2>2. CASE ~Claimable(task[w])
    <3>1. /\ pc[w] = "claim" /\ pc' = [pc EXCEPT ![w] = "answer"]
          /\ result' = [result EXCEPT ![w] = "skip"]
          /\ UNCHANGED <<status, attempts, acts, task>>
      BY <1>5, <2>2 DEF ClaimById, At, Goto, dbVars
    <3>. QED
      BY <1>1, <3>1, CountKept DEF Actors, TypeOK
  <2>. QED
    BY <2>1, <2>2
<1>6. ASSUME NEW w \in Workers, MarkRunning(w)
      PROVE  ActsCounted'
  <2>1. /\ pc[w] = "start" /\ pc' = [pc EXCEPT ![w] = "execute"]
        /\ status' = [status EXCEPT ![task[w]] = "running"]
        /\ UNCHANGED <<attempts, acts, task, result>>
    BY <1>6 DEF MarkRunning, At, Goto
  <2>. QED
    BY <1>1, <2>1, CountKept DEF Actors, TypeOK
<1>7. ASSUME NEW w \in Workers, Execute(w)
      PROVE  ActsCounted'
  BY <1>1, <1>7, ExecuteCounts
<1>8. ASSUME NEW w \in Workers, Settle(w)
      PROVE  ActsCounted'
  <2>1. /\ pc[w] = "settle" /\ pc' = [pc EXCEPT ![w] = "recompute"] /\ task[w] \in Jobs
        /\ status' = [status EXCEPT ![task[w]] = Outcome(w)]
        /\ UNCHANGED <<attempts, acts, task, result>>
    BY <1>1, <1>8 DEF Settle, At, Goto, BusyOnAJob
  <2>2. Outcome(w) = "succeeded" => acts[task[w]] > 0
    BY <2>1 DEF Outcome, ActsCounted
  <2>3. \A j \in Jobs : status'[j] = "succeeded" => acts'[j] > 0
    BY <1>1, <2>1, <2>2 DEF ActsCounted, TypeOK
  <2>4. \A j \in Jobs : Actors(j)' = Actors(j)
    BY <1>1, <2>1 DEF Actors, TypeOK
  <2>5. \A v \in Workers : pc'[v] = "settle" => pc[v] = "settle"
    BY <1>1, <2>1 DEF TypeOK
  <2>. QED
    BY <2>1, <2>3, <2>4, <2>5 DEF ActsCounted
<1>9. ASSUME NEW w \in Workers, Recompute(w) \/ WriteExecution(w) \/ Answer(w) \/ Throws(w) \/ Crash(w)
      PROVE  ActsCounted'
  <2>1. /\ \E to \in {"idle", "write", "answer"} : pc' = [pc EXCEPT ![w] = to]
        /\ UNCHANGED <<status, attempts, acts>>
        /\ \/ UNCHANGED <<task, result>>
           \/ result' = [result EXCEPT ![w] = "throw"] /\ task' = task
           \/ result' = [result EXCEPT ![w] = "none"] /\ task' = [task EXCEPT ![w] = NoJob]
    BY <1>9 DEF Recompute, WriteExecution, Answer, Throws, Crash, Free, Goto, dbVars
  <2>. QED
    BY <1>1, <2>1, CountKept DEF Actors, TypeOK
<1>10. CASE UNCHANGED vars
  BY <1>10 DEF vars, ActsCounted, Actors
<1>. QED
  BY <1>2, <1>3, <1>4, <1>5, <1>6, <1>7, <1>8, <1>9, <1>10 DEF Next, Process

LEMMA ActsInit == Init => TypeInv /\ ActsCounted
<1> SUFFICES ASSUME Init
             PROVE  TypeInv /\ ActsCounted
  OBVIOUS
<1>1. TypeInv
  BY JobAssumption DEF Init, TypeInv, TypeOK, BusyOnAJob, QueueSound
<1>2. ASSUME NEW j \in Jobs
      PROVE  acts[j] + Cardinality(Actors(j)) <= attempts[j]
  <2>1. Actors(j) = {}
    BY DEF Init, Actors
  <2>. QED
    BY <2>1, FS_EmptySet DEF Init
<1>. QED
  BY <1>1, <1>2 DEF ActsCounted, Init

\* The platform sees no more actions of a job than the attempts its row counts,
\* and at least one of a job that succeeded, whatever is lost, repeated, overruns
\* or dies.
THEOREM EveryActIsAnAttempt == Spec => []ActsAreAttempts
<1>1. TypeInv /\ ActsCounted /\ [Next]_vars => (TypeInv /\ ActsCounted)'
  BY TypeInductive, ActsInductive
<1>2. TypeInv /\ ActsCounted => ActsAreAttempts
  <2> SUFFICES ASSUME TypeInv, ActsCounted, NEW j \in Jobs
               PROVE  acts[j] <= attempts[j] /\ (status[j] = "succeeded" => acts[j] > 0)
    BY DEF ActsAreAttempts
  <2>1. Cardinality(Actors(j)) \in Nat /\ attempts[j] \in Nat /\ acts[j] \in Nat
    BY ActorsType DEF TypeInv
  <2>. QED
    BY <2>1 DEF ActsCounted
<1>. QED
  BY <1>1, <1>2, ActsInit, PTL DEF Spec

-----------------------------------------------------------------------------
(* The ledger of the jobs.                                                 *)

\* All that the steps rest on.
Kept == IInv /\ Tally /\ ActsCounted /\ AttemptsBounded

\* What is in a worker's grip, by where it is.
LEMMA GripOf ==
  ASSUME TypeOK, BusyOnAJob, ActsCounted, NEW w \in Workers
  PROVE  /\ pc[w] \notin {"start", "execute", "settle"} => Grips[w] = Ledger!Free
         /\ pc[w] \in {"start", "execute"} => Grips[w] = [job |-> task[w], reply |-> "none"]
         /\ pc[w] = "settle" => Grips[w] = [job |-> task[w], reply |-> result[w]]
         /\ \A j \in Jobs : Grips[w].job = j <=> Acting(w, j)
<1>1. pc[w] \notin {"start", "execute", "settle"} => Grips[w] = Ledger!Free
  BY DEF Grips, Grip, Ledger!Free
<1>2. pc[w] \in {"start", "execute"} => Grips[w] = [job |-> task[w], reply |-> "none"]
  BY DEF Grips, Grip
<1>3. pc[w] = "settle" => Grips[w] = [job |-> task[w], reply |-> result[w]]
  BY DEF Grips, Grip
<1>4. \A j \in Jobs : Grips[w].job = j <=> Acting(w, j)
  BY <1>1, <1>2, <1>3, JobAssumption DEF Acting, Ledger!Free
<1>. QED
  BY <1>1, <1>2, <1>3, <1>4

\* A step that moves one worker changes that worker's grip alone.
LEMMA GripMoves ==
  ASSUME NEW w \in Workers,
         \A v \in Workers \ {w} : pc'[v] = pc[v] /\ task'[v] = task[v] /\ result'[v] = result[v]
  PROVE  Grips' = [Grips EXCEPT ![w] = Grip(pc'[w], task'[w], result'[w])]
<1>1. \A v \in Workers : Grips'[v] = IF v = w THEN Grip(pc'[w], task'[w], result'[w]) ELSE Grips[v]
  BY DEF Grips
<1>. QED
  BY <1>1 DEF Grips

\* Likewise a step that changes the status of one job.
LEMMA StandingMoves ==
  ASSUME TypeOK, NEW j \in Jobs, NEW s, status' = [status EXCEPT ![j] = s]
  PROVE  Standings' = [Standings EXCEPT ![j] = Standing(s)]
<1>1. \A i \in Jobs : status'[i] = IF i = j THEN s ELSE status[i]
  BY DEF TypeOK
<1>2. \A i \in Jobs : Standings'[i] = IF i = j THEN Standing(s) ELSE Standings[i]
  BY <1>1 DEF Standings
<1>. QED
  BY <1>2 DEF Standings

\* A step of the ledger, or one it does not show.
LStep == [Ledger!Next]_(Ledger!vars)

\* A step that the ledger does not show.
LEMMA Unseen ==
  ASSUME UNCHANGED <<status, attempts, acts, suffered, pc, task, result>>
  PROVE  LStep
BY DEF LStep, Ledger!vars, Standings, Grips

\* A claim takes a job that is open, or whose worker is gone.
LEMMA ClaimTakes ==
  ASSUME Kept, Kept', NEW w \in Workers, ClaimById(w)
  PROVE  LStep
<1> DEFINE i == task[w]
<1>1. /\ TypeOK /\ BusyOnAJob /\ ActsCounted /\ ClaimHeld
      /\ i \in Jobs /\ pc[w] = "claim"
      /\ UNCHANGED <<acts, task, suffered>>
      /\ Grips[w] = Ledger!Free
  BY GripOf DEF Kept, IInv, ClaimById, At, BusyOnAJob, faultVars
<1>2. CASE Claimable(i)
  <2>1. /\ status' = [status EXCEPT ![i] = "claimed"]
        /\ attempts' = [attempts EXCEPT ![i] = @ + 1]
        /\ pc' = [pc EXCEPT ![w] = "start"] /\ result' = result
    BY <1>2 DEF ClaimById, Goto
  <2>2. Standings' = [Standings EXCEPT ![i] = "taken"]
    BY <1>1, <2>1, StandingMoves DEF Standing
  <2>3. Grips' = [Grips EXCEPT ![w] = [job |-> i, reply |-> "none"]]
    <3>1. pc'[w] = "start" /\ task'[w] = i /\ \A v \in Workers \ {w} : pc'[v] = pc[v]
      BY <1>1, <2>1 DEF TypeOK
    <3>2. Grips' = [Grips EXCEPT ![w] = Grip(pc'[w], task'[w], result'[w])]
      BY <1>1, <2>1, <3>1, GripMoves
    <3>. QED
      BY <3>1, <3>2 DEF Grip
  <2>4. attempts[i] < MaxAttempts + MaxStalled
    <3>1. attempts'[i] = attempts[i] + 1 /\ attempts[i] \in Nat
      BY <1>1, <2>1 DEF TypeOK
    <3>2. attempts'[i] <= MaxAttempts + MaxStalled
      BY <1>1 DEF Kept, AttemptsBounded
    <3>. QED
      BY <3>1, <3>2, JobAssumption
  <2>5. Ledger!Takeable(i)
    <3>1. CASE status[i] \in {"pending", "retrying"}
      BY <1>1, <3>1 DEF Ledger!Takeable, Standings, Standing
    <3>2. CASE status[i] \in {"claimed", "running"} /\ ~leased[i]
      <4>1. Standings[i] = "taken"
        BY <1>1, <3>2 DEF Standings, Standing
      <4>2. "slow" \in suffered \/ \A v \in Workers : Grips[v].job # i
        BY <1>1, <3>2, GripOf DEF ClaimHeld
      <4>. QED
        BY <4>1, <4>2 DEF Ledger!Takeable
    <3>. QED
      BY <1>2, <3>1, <3>2 DEF Claimable
  <2>6. Ledger!Take(w, i)
    BY <1>1, <2>1, <2>2, <2>3, <2>4, <2>5 DEF Ledger!Take
  <2>. QED
    BY <1>1, <2>6 DEF LStep, Ledger!Next
<1>3. CASE ~Claimable(i)
  <2>1. /\ UNCHANGED <<status, attempts>>
        /\ pc' = [pc EXCEPT ![w] = "answer"] /\ result' = [result EXCEPT ![w] = "skip"]
        /\ task' = [task EXCEPT ![w] = i]
    BY <1>1, <1>3 DEF ClaimById, Goto, dbVars, TypeOK
  <2>2. Grips' = [Grips EXCEPT ![w] = Grips[w]]
    <3>1. /\ pc'[w] = "answer"
          /\ \A v \in Workers \ {w} :
               pc'[v] = pc[v] /\ task'[v] = task[v] /\ result'[v] = result[v]
      BY <1>1, <2>1 DEF TypeOK
    <3>2. Grips' = [Grips EXCEPT ![w] = Grip(pc'[w], task'[w], result'[w])]
      BY <3>1, GripMoves
    <3>. QED
      BY <1>1, <3>1, <3>2 DEF Grip, Ledger!Free
  <2>3. Grips' = Grips /\ Standings' = Standings
    BY <2>1, <2>2 DEF Grips, Standings
  <2>. QED
    BY <1>1, <2>1, <2>3 DEF LStep, Ledger!vars
<1>. QED
  BY <1>2, <1>3

\* To mark the job running changes the ledger only for a worker that was overtaken.
LEMMA RunningTakesBack ==
  ASSUME Kept, NEW w \in Workers, MarkRunning(w)
  PROVE  LStep
<1> DEFINE i == task[w]
<1>1. /\ TypeOK /\ BusyOnAJob /\ ActsCounted /\ ClaimHeld
      /\ i \in Jobs /\ pc[w] = "start"
      /\ UNCHANGED <<attempts, acts, suffered>>
      /\ Grips[w] = [job |-> i, reply |-> "none"] /\ Acting(w, i)
  BY GripOf DEF Kept, IInv, MarkRunning, At, BusyOnAJob, faultVars, Acting
<1>2. Grips' = Grips
  <2>1. /\ pc'[w] = "execute" /\ task'[w] = i
        /\ \A v \in Workers \ {w} :
             pc'[v] = pc[v] /\ task'[v] = task[v] /\ result'[v] = result[v]
    BY <1>1 DEF MarkRunning, Goto, TypeOK
  <2>2. Grips' = [Grips EXCEPT ![w] = Grip(pc'[w], task'[w], result'[w])]
    BY <2>1, GripMoves
  <2>3. Grip(pc'[w], task'[w], result'[w]) = Grips[w]
    BY <1>1, <2>1 DEF Grip
  <2>. QED
    BY <2>2, <2>3 DEF Grips
<1>3. Standings' = [Standings EXCEPT ![i] = "taken"]
  BY <1>1, StandingMoves DEF MarkRunning, Standing
<1>4. CASE "slow" \in suffered
  <2>1. Ledger!TakeBack(w)
    BY <1>1, <1>2, <1>3, <1>4, JobAssumption DEF Ledger!TakeBack
  <2>. QED
    BY <2>1 DEF LStep, Ledger!Next
<1>5. CASE "slow" \notin suffered
  <2>1. Standings[i] = "taken"
    BY <1>1, <1>5 DEF ClaimHeld, Standings, Standing
  <2>2. Standings' = Standings
    BY <1>3, <2>1 DEF Standings
  <2>. QED
    BY <1>1, <1>2, <2>2 DEF LStep, Ledger!vars
<1>. QED
  BY <1>4, <1>5

\* Execute is the one action on the platform.
LEMMA ExecuteActs ==
  ASSUME Kept, NEW w \in Workers, Execute(w)
  PROVE  LStep
<1> DEFINE i == task[w]
<1>1. /\ TypeOK /\ BusyOnAJob /\ ActsCounted
      /\ i \in Jobs /\ pc[w] = "execute"
      /\ UNCHANGED <<status, attempts, task>>
      /\ suffered' \in {suffered, suffered \cup {"lostReply"}}
      /\ Grips[w] = [job |-> i, reply |-> "none"]
  BY GripOf DEF Kept, IInv, Execute, At, BusyOnAJob, faultVars, Fault, dbVars
<1>2. PICK r \in Ledger!Replies, d \in {0, 1} :
        /\ result' = [result EXCEPT ![w] = r]
        /\ acts' = [acts EXCEPT ![i] = @ + d]
        /\ r = "ok" => d = 1
        /\ r = "fatal" => d = 0
  <2>1. acts = [acts EXCEPT ![i] = @ + 0]
    BY <1>1 DEF TypeOK
  <2>. QED
    BY <2>1 DEF Execute, Ledger!Replies
<1>3. Grips' = [Grips EXCEPT ![w].reply = r]
  <2>1. /\ pc'[w] = "settle" /\ task'[w] = i /\ result'[w] = r
        /\ \A v \in Workers \ {w} :
             pc'[v] = pc[v] /\ task'[v] = task[v] /\ result'[v] = result[v]
    BY <1>1, <1>2 DEF Execute, Goto, TypeOK
  <2>2. Grips' = [Grips EXCEPT ![w] = Grip(pc'[w], task'[w], result'[w])]
    BY <2>1, GripMoves
  <2>3. Grip(pc'[w], task'[w], result'[w]) = [job |-> i, reply |-> r]
    BY <2>1 DEF Grip
  <2>4. [Grips[w] EXCEPT !.reply = r] = [job |-> i, reply |-> r]
    BY <1>1
  <2>. QED
    BY <2>2, <2>3, <2>4 DEF Grips
<1>4. Standings' = Standings
  BY <1>1 DEF Standings
<1>5. /\ ("slow" \in suffered') = ("slow" \in suffered)
      /\ ("dbError" \in suffered') = ("dbError" \in suffered)
  <2>1. /\ "slow" \in suffered' <=> "slow" \in suffered
        /\ "dbError" \in suffered' <=> "dbError" \in suffered
    BY <1>1
  <2>. QED
    BY <2>1
<1>6. Ledger!Act(w, r, d)
  BY <1>1, <1>2, <1>3, <1>4, <1>5, JobAssumption DEF Ledger!Act
<1>. QED
  BY <1>6 DEF LStep, Ledger!Next

\* The mark concludes the attempt as the platform answered it.
LEMMA SettleConcludes ==
  ASSUME Kept, NEW w \in Workers, Settle(w)
  PROVE  LStep
<1> DEFINE i == task[w]
<1>1. /\ TypeOK /\ BusyOnAJob /\ ActsCounted /\ ClaimHeld /\ Tally
      /\ i \in Jobs /\ pc[w] = "settle" /\ Acting(w, i)
      /\ UNCHANGED <<attempts, acts, suffered>>
      /\ Grips[w] = [job |-> i, reply |-> result[w]]
      /\ result[w] \in {"ok", "fatal", "transient"}
  BY GripOf DEF Kept, IInv, Settle, At, BusyOnAJob, faultVars, Acting, ActsCounted
<1>2. Grips' = [Grips EXCEPT ![w] = Ledger!Free]
  <2>1. /\ pc'[w] = "recompute"
        /\ \A v \in Workers \ {w} :
             pc'[v] = pc[v] /\ task'[v] = task[v] /\ result'[v] = result[v]
    BY <1>1 DEF Settle, Goto, TypeOK
  <2>2. Grips' = [Grips EXCEPT ![w] = Grip(pc'[w], task'[w], result'[w])]
    BY <2>1, GripMoves
  <2>. QED
    BY <2>1, <2>2 DEF Grip, Ledger!Free
<1>3. PICK outcome \in Ledger!Standings : outcome = Standing(Outcome(w))
  BY DEF Ledger!Standings, Standing, Outcome
<1>4. Standings' = [Standings EXCEPT ![i] = outcome]
  BY <1>1, <1>3, StandingMoves DEF Settle
<1>5. Standings[i] = "taken" \/ "slow" \in suffered
  BY <1>1 DEF ClaimHeld, Standings, Standing
<1>6. Ledger!Follows(result[w], i, outcome)
  <2>1. CASE result[w] = "ok"
    BY <1>3, <2>1 DEF Ledger!Follows, Outcome, Standing
  <2>2. CASE result[w] = "fatal"
    BY <1>3, <2>2 DEF Ledger!Follows, Outcome, Standing
  <2>3. CASE result[w] = "transient"
    <3>1. CASE tries[w] + 1 >= MaxAttempts
      <4>1. outcome = "dead_letter"
        BY <1>3, <2>3, <3>1 DEF Outcome, Standing
      <4>2. "dbError" \notin suffered => attempts[i] > tries[w]
        BY <1>1, <2>3 DEF Tally, CountedBy
      <4>3. attempts[i] \in Nat /\ tries[w] \in Nat
        BY <1>1, JobAssumption DEF TypeOK
      <4>4. "dbError" \in suffered \/ attempts[i] >= MaxAttempts
        BY <3>1, <4>2, <4>3, JobAssumption
      <4>. QED
        BY <2>3, <4>1, <4>4 DEF Ledger!Follows
    <3>2. CASE ~(tries[w] + 1 >= MaxAttempts)
      <4>1. outcome = "open"
        BY <1>3, <2>3, <3>2 DEF Outcome, Standing
      <4>. QED
        BY <2>3, <4>1 DEF Ledger!Follows
    <3>. QED
      BY <3>1, <3>2
  <2>. QED
    BY <1>1, <2>1, <2>2, <2>3
<1>7. Ledger!Conclude(w, outcome)
  BY <1>1, <1>2, <1>4, <1>5, <1>6 DEF Ledger!Conclude
<1>. QED
  BY <1>7 DEF LStep, Ledger!Next

\* Who throws, crashes or is done lets go of what it had, if it had anything.
LEMMA OthersLetGo ==
  ASSUME Kept, NEW w \in Workers,
         Throws(w) \/ Crash(w) \/ Recompute(w) \/ WriteExecution(w) \/ Answer(w)
  PROVE  LStep
<1>1. /\ TypeOK /\ UNCHANGED <<status, attempts, acts>>
      /\ suffered' \in {suffered, suffered \cup {"dbError"}, suffered \cup {"crash"}}
  BY DEF Kept, IInv, Throws, Crash, Recompute, WriteExecution, Answer, Fault, dbVars, faultVars
<1>2. /\ ("slow" \in suffered') = ("slow" \in suffered)
      /\ ("dbError" \in suffered') = ("dbError" \in suffered) \/ ("dbError" \in suffered') = TRUE
  <2>1. "slow" \in suffered' <=> "slow" \in suffered
    BY <1>1
  <2>2. "dbError" \in suffered => "dbError" \in suffered'
    BY <1>1
  <2>. QED
    BY <2>1, <2>2
<1>3. Standings' = Standings
  BY <1>1 DEF Standings
<1>4. /\ pc'[w] \in {"idle", "write", "answer"}
      /\ \A v \in Workers \ {w} :
           pc'[v] = pc[v] /\ task'[v] = task[v] /\ result'[v] = result[v]
  BY <1>1 DEF Throws, Crash, Recompute, WriteExecution, Answer, Free, Goto, TypeOK
<1>5. Grips' = [Grips EXCEPT ![w] = Ledger!Free]
  <2>1. Grips' = [Grips EXCEPT ![w] = Grip(pc'[w], task'[w], result'[w])]
    BY <1>4, GripMoves
  <2>. QED
    BY <1>4, <2>1 DEF Grip, Ledger!Free
<1>6. Ledger!LetGo(w)
  BY <1>1, <1>2, <1>3, <1>5 DEF Ledger!LetGo
<1>. QED
  BY <1>6 DEF LStep, Ledger!Next

\* What happens around the workers is not seen, but for a new job and a lease
\* that is outlived.
LEMMA SurroundingsSeen ==
  ASSUME Kept, NEW i \in Jobs,
         \/ CreateJob(i) \/ Enqueue(i) \/ Republish(i) \/ CreatorCrashes(i) \/ Promote(i)
         \/ Stall(i) \/ Evict(i) \/ LeaseExpires(i)
  PROVE  LStep
<1>1. TypeOK
  BY DEF Kept, IInv
<1>2. CASE CreateJob(i)
  <2>1. /\ UNCHANGED <<attempts, acts, suffered, pc, task, result>>
        /\ status[i] = "absent" /\ status' = [status EXCEPT ![i] = "pending"]
    BY <1>2 DEF CreateJob, workerVars, faultVars
  <2>2. Standings[i] = "absent" /\ Standings' = [Standings EXCEPT ![i] = "open"]
    BY <1>1, <2>1, StandingMoves DEF Standings, Standing
  <2>3. Grips' = Grips
    BY <2>1 DEF Grips
  <2>4. Ledger!Create(i)
    BY <2>1, <2>2, <2>3 DEF Ledger!Create
  <2>. QED
    BY <2>4 DEF LStep, Ledger!Next
<1>3. CASE ~CreateJob(i)
  <2>1. /\ UNCHANGED <<status, attempts, acts, pc, task, result>>
        /\ \/ suffered' = suffered
           \/ \E k \in {"crash", "lockLoss", "slow"} : suffered' = suffered \cup {k}
    BY <1>3 DEF Enqueue, Republish, Add, CreatorCrashes, Promote, Stall, LockLost, Evict,
                LeaseExpires, Fault, dbVars, workerVars, faultVars
  <2>2. Standings' = Standings /\ Grips' = Grips
    BY <2>1 DEF Standings, Grips
  <2>3. /\ ("dbError" \in suffered') = ("dbError" \in suffered)
        /\ ("slow" \in suffered') = ("slow" \in suffered) \/ ("slow" \in suffered') = TRUE
    <3>1. /\ "dbError" \in suffered' <=> "dbError" \in suffered
          /\ "slow" \in suffered => "slow" \in suffered'
      BY <2>1
    <3>. QED
      BY <3>1
  <2>4. CASE ("slow" \in suffered') = ("slow" \in suffered)
    BY <2>1, <2>2, <2>3, <2>4 DEF LStep, Ledger!vars
  <2>5. CASE ("slow" \in suffered') = TRUE
    BY <2>1, <2>2, <2>3, <2>5 DEF LStep, Ledger!Next, Ledger!Overrun
  <2>. QED
    BY <2>3, <2>4, <2>5
<1>. QED
  BY <1>2, <1>3

\* Queue, leases and locks implement the ledger, for any jobs, workers, policy
\* and faults: each step is one of the ledger or leaves it as it was.
THEOREM ExecutionImplementsLedger == Spec => ImplementsJobLedger
<1>1. Init => Ledger!Init
  BY JobAssumption DEF Init, Ledger!Init, Ledger!Free, Standings, Standing, Grips, Grip
<1>2. Kept /\ Kept' /\ [Next]_vars => [Ledger!Next]_(Ledger!vars)
  <2> SUFFICES ASSUME Kept, Kept', [Next]_vars
               PROVE  LStep
    BY DEF LStep
  <2>1. ASSUME NEW w \in Workers, NEW i \in Jobs, Deliver(w, i)
        PROVE  LStep
    <3>1. /\ TypeOK /\ BusyOnAJob /\ ActsCounted
          /\ pc[w] = "idle" /\ pc'[w] = "claim"
          /\ \A v \in Workers \ {w} :
               pc'[v] = pc[v] /\ task'[v] = task[v] /\ result'[v] = result[v]
          /\ UNCHANGED <<status, attempts, acts, suffered>>
      BY <2>1 DEF Deliver, Kept, IInv, dbVars, faultVars, TypeOK
    <3>2. Grips' = [Grips EXCEPT ![w] = Grip(pc'[w], task'[w], result'[w])]
      BY <3>1, GripMoves
    <3>3. Grips[w] = Ledger!Free
      BY <3>1, GripOf
    <3>4. Grips' = Grips /\ Standings' = Standings
      BY <3>1, <3>2, <3>3 DEF Grip, Grips, Ledger!Free, Standings
    <3>. QED
      BY <3>1, <3>4 DEF LStep, Ledger!vars
  <2>2. CASE UNCHANGED vars
    BY <2>2, Unseen DEF vars
  <2>. QED
    BY <2>1, <2>2, ClaimTakes, RunningTakesBack, ExecuteActs, SettleConcludes, OthersLetGo,
       SurroundingsSeen DEF Next, Process
<1>3. Init => TypeInv /\ Tally
  BY JobAssumption DEF Init, TypeInv, TypeOK, BusyOnAJob, QueueSound, Tally, CountedBy,
                       CountedOf, Live
<1>4. TypeInv /\ Tally /\ ActsCounted /\ [Next]_vars => (TypeInv /\ Tally /\ ActsCounted)'
  BY TypeInductive, TallyInductive, ActsInductive
<1>5. IInv /\ Tally /\ ActsCounted /\ AttemptsBounded => Kept
  BY DEF Kept
<1>. QED
  BY <1>1, <1>2, <1>3, <1>4, <1>5, ActsInit, Invariant, AttemptsAreBounded, PTL
     DEF Spec, ImplementsJobLedger, Ledger!Spec

=============================================================================
