----------------------------- MODULE ProxyPool -----------------------------
(***************************************************************************)
(* The pool of dedicated proxies: the rows of proxies and the pointer      *)
(* accounts.proxy_id, the swap of an account's proxy, the reservations and *)
(* the routes of the operator, the health sweep and the check on demand,   *)
(* and the jobs that send through a proxy and report its failures.         *)
(*                                                                         *)
(* A statement is one step.  The transaction of a swap is two: the claim,  *)
(* which locks the account and the claimed row, and the commit or the      *)
(* rollback.  A statement on a locked row waits.  The outcome of a probe   *)
(* or of a job is anybody's guess; a missing credential is one of the ways *)
(* for it to fail.  A check is due whenever the clock says so, hence at    *)
(* any time.                                                               *)
(***************************************************************************)
EXTENDS Naturals, FiniteSets

CONSTANTS
  Accounts,
  Proxies,         \* numbered in the order of created_at
  Stock,           \* those registered at the start
  Jobs,            \* slots of the workers that call the platform
  NoAccount,       \* assigned_account_id is NULL
  NoProxy,         \* the account does not exist yet; no swap under way
  DownAfter,       \* downAfterFailures
  SwapAfter,       \* swapAfterFailures, 0 when off
  OutageMinCount,
  OutagePercent,   \* outageRatio, in hundredths
  SweepLimit,
  ReconcileLimit,
  MaxOps,          \* bound: requests of the operator
  MaxChecks,       \* bound: sweeps and checks on demand
  MaxJobs,         \* bound: calls to the platform
  MaxRequests      \* bound: all of these together

ASSUME PoolAssumption ==
  /\ Proxies \subseteq Nat /\ Stock \subseteq Proxies
  /\ NoAccount \notin Accounts /\ NoProxy \notin Proxies
  /\ DownAfter \in Nat /\ SwapAfter \in Nat /\ OutageMinCount \in Nat /\ OutagePercent \in Nat
  /\ SweepLimit \in Nat \ {0} /\ ReconcileLimit \in Nat
  /\ MaxOps \in Nat /\ MaxChecks \in Nat /\ MaxJobs \in Nat /\ MaxRequests \in Nat

VARIABLES
  proxy,    \* the table proxies
  account,  \* accounts.proxy_id
  swap,     \* per account, its open swap transaction
  job,      \* per slot, the call under way and then its failure handler
  cached,   \* proxies whose URL the worker's resolver may still remember
  sweep,    \* the health sweep of the one worker that runs it
  check,    \* the check on demand being served
  byHand,   \* history: proxies whose link an operator changed under the pool
  rescued,  \* history: proxies found well while another check of them was open
  handed,   \* history: proxies an account left while it sent through them
  spent     \* the bounds used up

tables  == <<proxy, account>>
history == <<byHand, rescued, handed>>
vars    == <<proxy, account, swap, job, cached, sweep, check, history, spent>>

Row == [state : {"absent", "available", "reserved", "assigned", "retired"},
        owner : Accounts \cup {NoAccount},
        health : {"unknown", "healthy", "degraded", "down"},
        failures : Nat]

IdleSwap  == [new |-> NoProxy, retire |-> FALSE]
IdleJob   == [at |-> "idle", of |-> NoAccount, via |-> NoProxy]
IdleSweep == [at |-> "idle", batch |-> {}, probed |-> {}, well |-> {}, outage |-> FALSE,
              seen |-> [p \in Proxies |-> 0]]
IdleCheck == [of |-> NoProxy, seen |-> 0, well |-> FALSE]

TypeOK ==
  /\ proxy \in [Proxies -> Row]
  /\ account \in [Accounts -> Proxies \cup {NoProxy}]
  /\ swap \in [Accounts -> [new : Proxies \cup {NoProxy}, retire : BOOLEAN]]
  /\ job \in [Jobs -> [at : {"idle", "sending", "failed", "struck"},
                       of : Accounts \cup {NoAccount}, via : Proxies \cup {NoProxy}]]
  /\ \A j \in Jobs : job[j].at # "idle" =>
       job[j].of \in Accounts /\ job[j].via \in Proxies /\ account[job[j].of] \in Proxies
  /\ sweep \in [at : {"idle", "probing", "writing"}, batch : SUBSET Proxies,
                probed : SUBSET Proxies, well : SUBSET Proxies, outage : BOOLEAN,
                seen : [Proxies -> Nat]]
  /\ sweep.at = "writing" => sweep.batch \subseteq sweep.probed
  /\ check \in [of : Proxies \cup {NoProxy}, seen : Nat, well : BOOLEAN]
  /\ check # IdleCheck => check.of \in Proxies
  /\ cached \subseteq Proxies /\ byHand \subseteq Proxies
  /\ rescued \subseteq Proxies /\ handed \subseteq Proxies
  /\ spent \in [ops : Nat, checks : Nat, jobs : Nat]

NewRow(registered) ==
  [state |-> IF registered THEN "available" ELSE "absent", owner |-> NoAccount,
   health |-> "unknown", failures |-> 0]

\* Some of the stock is dedicated already.
Init ==
  /\ account \in {f \in [Accounts -> Stock \cup {NoProxy}] :
                    \A a, b \in Accounts : a # b /\ f[a] = f[b] => f[a] = NoProxy}
  /\ proxy = [p \in Proxies |->
                IF \E a \in Accounts : account[a] = p
                THEN [NewRow(TRUE) EXCEPT !.state = "assigned",
                                          !.owner = CHOOSE a \in Accounts : account[a] = p]
                ELSE NewRow(p \in Stock)]
  /\ swap = [a \in Accounts |-> IdleSwap]
  /\ job = [j \in Jobs |-> IdleJob]
  /\ sweep = IdleSweep /\ check = IdleCheck
  /\ cached = {} /\ byHand = {} /\ rescued = {} /\ handed = {}
  /\ spent = [ops |-> 0, checks |-> 0, jobs |-> 0]

-----------------------------------------------------------------------------
(* The rows and what the statements make of one.                           *)

Registered == {p \in Proxies : proxy[p].state # "absent"}
Locked(p)  == \E a \in Accounts : swap[a].new = p
Points(p)  == {a \in Accounts : account[a] = p}

\* Wrong variant: the unique constraint is missing.
PointerFreeAlways(a, p) == TRUE

\* The unique constraint on accounts.proxy_id lets a point to p.
PointerFree(a, p) == \A b \in Accounts \ {a} : account[b] # p

ClaimRow(r, a)   == [r EXCEPT !.state = "assigned", !.owner = a]
\* Wrong variants: the release forgets the state; it forgets the retired rows.
ReleaseRowOwnerOnly(r)  == [r EXCEPT !.owner = NoAccount]
ReleaseRowOfRetired(r)  == [r EXCEPT !.state = "available", !.owner = NoAccount]

ReleaseRow(r)    == IF r.state = "retired" THEN r
                    ELSE [r EXCEPT !.state = "available", !.owner = NoAccount]
RetireRow(r)     == [r EXCEPT !.state = "retired", !.owner = NoAccount]
CheckRow(r, ok, h) == [r EXCEPT !.health = h, !.failures = IF ok THEN 0 ELSE r.failures + 1]
StrikeRow(r)     == [r EXCEPT !.failures = r.failures + 1,
                              !.health = IF r.health = "healthy" THEN "degraded" ELSE r.health]

\* Wrong variant: the claim does not skip the locked rows.
ClaimableIgnoringLocks == {p \in Proxies : proxy[p].state = "available" /\ proxy[p].health # "down"}

\* What the claim picks: healthy first, oldest first, locked rows skipped.
Claimable == {p \in Proxies : proxy[p].state = "available" /\ proxy[p].health # "down" /\ ~Locked(p)}
Healthy   == {p \in Claimable : proxy[p].health = "healthy"}
Oldest(S) == CHOOSE p \in S : \A q \in S : p <= q
Choice    == Oldest(IF Healthy # {} THEN Healthy ELSE Claimable)

\* What the resolver serves: a row fit for use, or what it remembers of one, as
\* long as the entry has not expired.
Usable(p)     == p \in Registered /\ proxy[p].state # "retired" /\ proxy[p].health # "down"
Resolvable(p) == p \in cached \/ Usable(p)

Within   == spent.ops + spent.checks + spent.jobs < MaxRequests
Operator == Within /\ spent.ops < MaxOps /\ spent' = [spent EXCEPT !.ops = spent.ops + 1]
Checking == Within /\ spent.checks < MaxChecks /\ spent' = [spent EXCEPT !.checks = spent.checks + 1]
Calling  == Within /\ spent.jobs < MaxJobs /\ spent' = [spent EXCEPT !.jobs = spent.jobs + 1]

\* Account a stops using proxy p, while one of its jobs may be sending.
Handed(a, p) == handed \cup {q \in {p} : \E j \in Jobs : job[j].at = "sending" /\ job[j].of = a
                                                         /\ job[j].via = q}

-----------------------------------------------------------------------------
(* swapForAccount.                                                         *)

SwapClaims(a, retire) ==
  /\ account[a] # NoProxy /\ swap[a] = IdleSwap /\ Claimable # {}
  /\ swap' = [swap EXCEPT ![a] = [new |-> Choice, retire |-> retire]]

SwapCommits(a) ==
  LET new == swap[a].new
      old == account[a]
  IN /\ new # NoProxy /\ PointerFree(a, new)
     /\ \A b \in Accounts \ {a} : swap[b].new # old
     /\ account' = [account EXCEPT ![a] = new]
     /\ proxy' = [p \in Proxies |->
                    IF p = new THEN ClaimRow(proxy[p], a)
                    ELSE IF p = old THEN IF swap[a].retire THEN RetireRow(proxy[p])
                                         ELSE ReleaseRow(proxy[p])
                    ELSE proxy[p]]
     /\ swap' = [swap EXCEPT ![a] = IdleSwap]
     /\ handed' = IF old = new THEN handed ELSE Handed(a, old)
     /\ UNCHANGED <<job, cached, sweep, check, byHand, rescued, spent>>

\* The pointer is taken, the deadlock detector chose this transaction, or the
\* connection is gone.
SwapRollsBack(a) ==
  /\ swap[a] # IdleSwap
  /\ swap' = [swap EXCEPT ![a] = IdleSwap]
  /\ UNCHANGED <<tables, job, cached, sweep, check, history, spent>>

-----------------------------------------------------------------------------
(* The routes and the reservations.                                        *)

\* One statement of the operator on one row that no swap holds.
Edit(p, row, hands) ==
  /\ Operator /\ ~Locked(p)
  /\ proxy' = [proxy EXCEPT ![p] = row]
  /\ byHand' = byHand \cup hands
  /\ UNCHANGED <<account, swap, job, cached, sweep, check, rescued, handed>>

CreateProxy(p) ==
  /\ p \notin Registered /\ \A q \in Proxies : q < p => q \in Registered
  /\ Edit(p, NewRow(TRUE), {})

Release(p) ==
  /\ p \in Registered
  /\ Edit(p, ReleaseRow(proxy[p]), IF Points(p) = {} THEN {} ELSE {p})

Retire(p) ==
  /\ p \in Registered
  /\ Edit(p, RetireRow(proxy[p]), IF Points(p) = {} THEN {} ELSE {p})

ReserveForNewAccount ==
  /\ Claimable # {}
  /\ Edit(Choice, [proxy[Choice] EXCEPT !.state = "reserved"], {})

ConfirmReservation(p, a) ==
  /\ proxy[p].state = "reserved" /\ account[a] # NoProxy
  /\ Edit(p, ClaimRow(proxy[p], a), IF account[a] = p THEN {} ELSE {p})

CancelReservation(p) ==
  /\ proxy[p].state = "reserved"
  /\ Edit(p, [proxy[p] EXCEPT !.state = "available"], IF Points(p) = {} THEN {} ELSE {p})

\* accounts.create: the foreign key and the unique constraint guard the insert.
InsertAccount(a, p) ==
  /\ account[a] = NoProxy /\ p \in Registered /\ PointerFree(a, p)
  /\ account' = [account EXCEPT ![a] = p]

\* POST /accounts, with the proxy that was reserved or with any other.
CreateAccount(a, p) ==
  /\ Operator /\ InsertAccount(a, p)
  /\ byHand' = IF proxy[p].state = "reserved" THEN byHand ELSE byHand \cup {p}
  /\ UNCHANGED <<proxy, swap, job, cached, sweep, check, rescued, handed>>

\* accounts.setProxy: the row is claimed whatever its state, the old proxy
\* stays as it is.
SetProxy(a, p) ==
  /\ account[a] # NoProxy /\ swap[a] = IdleSwap
  /\ p \in Registered /\ PointerFree(a, p) /\ ~Locked(p)
  /\ account' = [account EXCEPT ![a] = p]
  /\ proxy' = [proxy EXCEPT ![p] = ClaimRow(proxy[p], a)]

\* PATCH /accounts/:id/proxy
AssociateProxy(a, p) ==
  /\ Operator /\ SetProxy(a, p)
  /\ byHand' = IF account[a] = p THEN byHand ELSE byHand \cup {account[a]}
  /\ handed' = IF account[a] = p THEN handed ELSE Handed(a, account[a])
  /\ UNCHANGED <<swap, job, cached, sweep, check, rescued>>

\* The accounts are right: the limit counts the retired rows, which stay.
Diverging == {p \in Registered : \E a \in Accounts :
                account[a] = p /\ ~(proxy[p].state = "assigned" /\ proxy[p].owner = a)}

ReconcileAssignments ==
  LET batch == {p \in Diverging : Cardinality({q \in Diverging : q < p}) < ReconcileLimit}
  IN /\ Operator
     /\ batch # {} /\ \A p \in batch : ~Locked(p)
     /\ proxy' = [p \in Proxies |->
                    IF p \in batch /\ proxy[p].state # "retired"
                    THEN ClaimRow(proxy[p], CHOOSE a \in Accounts : account[a] = p)
                    ELSE proxy[p]]
     /\ UNCHANGED <<account, swap, job, cached, sweep, check, history>>

SwapRequested(a, retire) ==
  /\ Operator
  /\ SwapClaims(a, retire)
  /\ UNCHANGED <<tables, job, cached, sweep, check, history>>

-----------------------------------------------------------------------------
(* Health: decided from the failures read before the probe, written after. *)

SuspectsOutage(failed, total) ==
  failed >= OutageMinCount /\ failed * 100 >= OutagePercent * total

OutageIn(probed, well) == SuspectsOutage(Cardinality(probed \ well), Cardinality(probed))

\* Wrong variants: this failure is counted twice; the outage is looked at too late.
DecideHealthTooSoon(ok, seen, outage) ==
  IF ok THEN "healthy"
  ELSE IF ~outage /\ seen + 2 >= DownAfter THEN "down" ELSE "degraded"

DecideHealthBeforeOutage(ok, seen, outage) ==
  IF ok THEN "healthy" ELSE IF seen + 1 >= DownAfter THEN "down" ELSE "degraded"

DecideHealth(ok, seen, outage) ==
  IF ok THEN "healthy"
  ELSE IF outage THEN "degraded"
  ELSE IF seen + 1 >= DownAfter THEN "down" ELSE "degraded"

\* recordCheck, while somebody else may be about to record an older answer.
RecordCheck(p, ok, health, others) ==
  /\ ~Locked(p)
  /\ proxy' = [proxy EXCEPT ![p] = CheckRow(proxy[p], ok, health)]
  /\ rescued' = IF ok /\ p \in others THEN rescued \cup {p} ELSE rescued
  /\ UNCHANGED <<account, swap, job, cached, byHand, handed>>

\* A batch is probed and then written in one order.
First(p, S) == p \in S /\ \A q \in S : p <= q

Due == {p \in Registered : proxy[p].state # "retired"}

\* What a probe through the URL of p may answer: it never throws.
Answers(p, ok) == ok => Resolvable(p)

SweepBegins(batch) ==
  /\ sweep.at = "idle" /\ Checking
  /\ batch # {} /\ Cardinality(batch) <= SweepLimit
  /\ sweep' = [IdleSweep EXCEPT !.at = "probing", !.batch = batch,
                                !.seen = [p \in Proxies |-> IF p \in batch THEN proxy[p].failures
                                                            ELSE 0]]
  /\ UNCHANGED <<tables, swap, job, cached, check, history>>

\* Wrong variant: the batch is judged after each probe.
SweepProbesOneByOne(p, ok) ==
  /\ sweep.at = "probing" /\ First(p, sweep.batch \ sweep.probed) /\ Answers(p, ok)
  /\ sweep' = [sweep EXCEPT !.at = "writing", !.probed = sweep.probed \cup {p},
                            !.well = IF ok THEN sweep.well \cup {p} ELSE sweep.well]
  /\ UNCHANGED <<tables, swap, job, cached, check, history, spent>>

\* After the last probe, and before anything is written, the batch is judged.
SweepProbes(p, ok) ==
  LET probed == sweep.probed \cup {p}
      well   == IF ok THEN sweep.well \cup {p} ELSE sweep.well
      last   == sweep.batch = probed
  IN /\ sweep.at = "probing" /\ First(p, sweep.batch \ sweep.probed) /\ Answers(p, ok)
     /\ sweep' = [sweep EXCEPT !.at = IF last THEN "writing" ELSE "probing",
                               !.probed = probed, !.well = well,
                               !.outage = last /\ OutageIn(probed, well)]
     /\ cached' = IF Usable(p) THEN cached \cup {p} ELSE cached
     /\ UNCHANGED <<tables, swap, job, check, history, spent>>

SweepWrites(p) ==
  /\ sweep.at = "writing" /\ First(p, sweep.batch)
  /\ RecordCheck(p, p \in sweep.well,
                 DecideHealth(p \in sweep.well, sweep.seen[p], sweep.outage), {check.of})
  /\ sweep' = IF sweep.batch = {p} THEN IdleSweep
              ELSE [sweep EXCEPT !.batch = sweep.batch \ {p}]
  /\ UNCHANGED <<check, spent>>

\* A statement fails or the worker stops: the rest of the batch is not written.
SweepAborts ==
  /\ sweep.at # "idle"
  /\ sweep' = IdleSweep
  /\ UNCHANGED <<tables, swap, job, cached, check, history, spent>>

\* POST /proxies/:id/check, whose resolver has no cache.
CheckBegins(p, ok) ==
  /\ check = IdleCheck /\ Checking
  /\ p \in Registered /\ (ok => Usable(p))
  /\ check' = [of |-> p, seen |-> proxy[p].failures, well |-> ok]
  /\ UNCHANGED <<tables, swap, job, cached, sweep, history>>

CheckEnds ==
  /\ check # IdleCheck
  /\ RecordCheck(check.of, check.well, DecideHealth(check.well, check.seen, FALSE),
                 sweep.batch)
  /\ check' = IdleCheck
  /\ UNCHANGED <<sweep, spent>>

-----------------------------------------------------------------------------
(* The jobs and the handler of their failures.                             *)

JobStarts(j, a, at) ==
  /\ job[j] = IdleJob /\ account[a] # NoProxy /\ Calling
  /\ job' = [job EXCEPT ![j] = [at |-> at, of |-> a, via |-> account[a]]]
  /\ UNCHANGED <<tables, swap, sweep, check, history>>

JobSends(j, a) ==
  /\ Resolvable(account[a])
  /\ JobStarts(j, a, "sending")
  /\ cached' = cached \cup {account[a]}

JobRefused(j, a) ==
  /\ ~Usable(account[a])
  /\ JobStarts(j, a, "failed")
  /\ UNCHANGED cached

JobEnds(j) ==
  /\ job[j].at = "sending"
  /\ job' = [job EXCEPT ![j] = IdleJob]
  /\ UNCHANGED <<tables, swap, cached, sweep, check, history, spent>>

\* A ProxyError: the handler looks up the proxy the account has by then.
JobFails(j) ==
  /\ job[j].at = "sending"
  /\ job' = [job EXCEPT ![j] = [at |-> "failed", of |-> job[j].of, via |-> account[job[j].of]]]
  /\ UNCHANGED <<tables, swap, cached, sweep, check, history, spent>>

HandlerStrikes(j) ==
  /\ job[j].at = "failed" /\ ~Locked(job[j].via)
  /\ proxy' = [proxy EXCEPT ![job[j].via] = StrikeRow(proxy[job[j].via])]
  /\ job' = [job EXCEPT ![j] = [at |-> "struck", of |-> job[j].of, via |-> job[j].via]]
  /\ UNCHANGED <<account, swap, cached, sweep, check, history, spent>>

StruckOut(j) == SwapAfter > 0 /\ proxy[job[j].via].failures >= SwapAfter

HandlerSwaps(j) ==
  /\ job[j].at = "struck" /\ StruckOut(j)
  /\ SwapClaims(job[j].of, TRUE)
  /\ job' = [job EXCEPT ![j] = IdleJob]
  /\ UNCHANGED <<tables, cached, sweep, check, history, spent>>

\* Below the limit, or the pool is exhausted.
HandlerLeaves(j) ==
  /\ job[j].at = "struck" /\ (~StruckOut(j) \/ Claimable = {})
  /\ job' = [job EXCEPT ![j] = IdleJob]
  /\ UNCHANGED <<tables, swap, cached, sweep, check, history, spent>>

-----------------------------------------------------------------------------
OperatorNext ==
  \/ \E p \in Proxies : CreateProxy(p) \/ Release(p) \/ Retire(p) \/ CancelReservation(p)
  \/ ReserveForNewAccount
  \/ ReconcileAssignments
  \/ \E a \in Accounts, p \in Proxies :
       CreateAccount(a, p) \/ AssociateProxy(a, p) \/ ConfirmReservation(p, a)
  \/ \E a \in Accounts, retire \in BOOLEAN : SwapRequested(a, retire)

HealthNext ==
  \/ \E batch \in SUBSET Due : SweepBegins(batch)
  \/ \E p \in Proxies, ok \in BOOLEAN : SweepProbes(p, ok) \/ CheckBegins(p, ok)
  \/ \E p \in Proxies : SweepWrites(p)
  \/ SweepAborts
  \/ CheckEnds

JobNext ==
  \/ \E j \in Jobs, a \in Accounts : JobSends(j, a) \/ JobRefused(j, a)
  \/ \E j \in Jobs : JobEnds(j) \/ JobFails(j) \/ HandlerStrikes(j) \/ HandlerSwaps(j)
                     \/ HandlerLeaves(j)

Next ==
  \/ OperatorNext
  \/ \E a \in Accounts : SwapCommits(a) \/ SwapRollsBack(a)
  \/ HealthNext
  \/ JobNext

Spec == Init /\ [][Next]_vars

-----------------------------------------------------------------------------
(* Properties.                                                             *)

\* A claimed row stays claimable until its swap ends: no route, sweep, check
\* or second swap takes it, condemns it or claims it in between
\* (claimAvailable: FOR UPDATE SKIP LOCKED, inside the swap's transaction).
ClaimHolds ==
  \A a \in Accounts : swap[a].new # NoProxy =>
    /\ proxy[swap[a].new].state = "available" /\ proxy[swap[a].new].health # "down"
    /\ \A b \in Accounts \ {a} : swap[b].new # swap[a].new

\* The two sides of the link tell the same story whatever the swaps, the
\* reservations and their failures, except for the proxies whose link an
\* operator changed under the pool (assignmentService: the swap is one
\* transaction; the routes that are not are what byHand collects).
LinkAgrees ==
  \A p \in Proxies \ byHand :
    /\ proxy[p].state = "assigned" => \E a \in Accounts : proxy[p].owner = a /\ account[a] = p
    /\ proxy[p].state \notin {"assigned", "reserved"} => Points(p) = {}

\* Two accounts send through one proxy only if one of them was moved off it
\* in the middle of a job (rule 10: the resolver's answer outlives the swap).
SharedOnlyWhenHanded ==
  \A i, j \in Jobs :
    job[i].at = "sending" /\ job[j].at = "sending" /\ job[i].via = job[j].via
      => job[i].of = job[j].of \/ job[i].via \in handed

\* A proxy that is down has failed DownAfter times in a row, unless an answer
\* older than its last success was written over it: the sweep and the check
\* decide on the count they read before the probe (runHealthSweep, the route).
DownNeedsStreak ==
  \A p \in Proxies \ rescued : proxy[p].health = "down" => proxy[p].failures >= DownAfter

\* A retired proxy comes back only when an operator points an account at it:
\* no release, claim, reservation, reconciliation, check or strike revives it
\* ("nunca mais e atribuido", proxyRepository.retire).
RetiredForGood ==
  [][\A p \in Proxies : proxy[p].state = "retired" /\ proxy'[p].state # "retired" =>
       \E a \in Accounts : account'[a] = p /\ swap[a] = IdleSwap]_vars

\* What condemns a proxy is its own check on demand or a sweep whose batch
\* does not look like an outage of the provider: a failed job never does
\* (rule 2, decideHealth and registerFailure).
OutageCondemnsNobody ==
  [][\A p \in Proxies : proxy[p].health # "down" /\ proxy'[p].health = "down" =>
       \/ check.of = p /\ check' = IdleCheck
       \/ /\ sweep.at = "writing" /\ p \in sweep.batch /\ p \notin sweep'.batch
          /\ ~OutageIn(sweep.probed, sweep.well)]_vars
=============================================================================
