--------------------------- MODULE SessionRefresh ---------------------------
(***************************************************************************)
(* The access tokens of the accounts: the periodic sweep that plans their  *)
(* refresh, the workers that refresh them or use them, the failure handler *)
(* that judges a session by its errors, and the OAuth login.               *)
(*                                                                         *)
(* Every statement or transaction that writes, every call to the platform  *)
(* and every publication is one step; what a worker or a login reads       *)
(* before its first call it reads in one step, and acts on it later.  A    *)
(* worker is a process with one slot and a cache of its own.  One tick of  *)
(* the clock is one interval of the sweep.  What a job's lease and its     *)
(* retries do is the matter of JobExecution: here a job is delivered to    *)
(* one worker at a time.                                                   *)
(***************************************************************************)
EXTENDS Integers, FiniteSets

CONSTANTS
  Accounts,
  Workers,
  Sweepers,     \* processes with SESSION_SWEEP_ENABLED
  Logins,       \* OAuth callbacks being served
  NoRow,        \* access_token_ref is NULL
  NoAccount,    \* the account of an idle login
  Life,         \* ticks a new token lives
  Window,       \* refreshWithinMs and expiringWindowMs, in ticks
  MinRetry,     \* minRetryIntervalMs, in ticks
  Limit,        \* sweepLimit
  MaxFailures,  \* maxFailures
  MaxAttempts,  \* REFRESH_RETRY_POLICY.maxAttempts
  Horizon,      \* bound: the last tick
  MaxLogins,    \* bound: how many logins start
  MaxEvents,    \* bound: acts of operators and verdicts of the platform
  MaxFaults,    \* bound: crashes, failed calls and failed statements
  MaxUpsets,    \* bound: logins, events, faults and late intervals together
  MaxLate,      \* bound: intervals that end before their work is done
  OperatorSets  \* bound: the healths an operator sets

Healths == {"healthy", "degraded", "rate_limited", "checkpoint_required", "token_dead", "suspended",
            "unknown"}

ASSUME SessionAssumption ==
  /\ OperatorSets \subseteq Healths
  /\ NoRow \notin Logins /\ NoAccount \notin Accounts
  /\ Life \in Nat \ {0} /\ Window \in Nat /\ Window < Life
  /\ MinRetry \in Nat /\ Limit \in Nat \ {0}
  /\ MaxFailures \in Nat \ {0} /\ MaxAttempts \in Nat \ {0}
  /\ Horizon \in Nat /\ MaxLogins \in Nat /\ MaxEvents \in Nat /\ MaxFaults \in Nat
  /\ MaxUpsets \in Nat /\ MaxLate \in Nat

Never  == -1                         \* a NULL timestamp
Times  == 0 .. (Horizon + Life)
Tokens == [exp : Times, gen : Nat]
NoToken == [exp |-> 0, gen |-> 0]    \* dead from the start: as good as none

\* What a worker is at: the refresh of a session that ends at a given time,
\* or an ordinary operation of an account.
Keys     == Accounts \X Times
Ordinary == Accounts \X {Never}

VARIABLES
  account,    \* rows of accounts
  vault,      \* the token in each row of an account; a row is named after the login that put it
  job,        \* jobs of the system pipeline, by idempotency key, and their finished attempts
  sweep,      \* the sweepers: where, candidates left, candidate at hand
  swept,      \* sweepers that completed a sweep in this tick
  worker,     \* the workers: where, at what, with which reference, token and reply
  cache,      \* the decrypted tokens each worker remembers
  login,      \* the logins: where, of whom, reference, token
  gen,        \* the platform: tokens of an earlier generation are revoked
  challenged, \* the platform: a human must pass a verification
  now,
  late,       \* intervals that ended before their work was done
  logins, events, faults \* how many so far

clockVars == <<now, late>>
boundVars == <<logins, events, faults>>
vars == <<account, vault, job, sweep, swept, worker, cache, login, gen, challenged, now, late,
          logins, events, faults>>

IdleSweep  == [at |-> "idle", todo |-> {}, creating |-> {}]
IdleWorker == [at |-> "idle", task |-> <<NoAccount, Never>>, row |-> NoRow,
               token |-> NoToken, answer |-> "none"]
IdleLogin  == [at |-> "idle", of |-> NoAccount, row |-> NoRow, token |-> NoToken]
NoCache    == [a \in Accounts |-> [r \in Logins |-> NoToken]]

NeverLoggedIn == [ref |-> NoRow, status |-> "none", expires |-> Never, attempted |-> Never,
                  failures |-> 0, health |-> "unknown", blocked |-> FALSE]
LoggedIn(r)   == [ref |-> r, status |-> "valid", expires |-> Life, attempted |-> Never,
                  failures |-> 0, health |-> "healthy", blocked |-> FALSE]

\* An account either never logged in or has a fresh session, in the row an
\* earlier login put.
Init ==
  /\ account \in [Accounts -> {NeverLoggedIn} \cup {LoggedIn(r) : r \in Logins}]
  /\ vault = [a \in Accounts |-> [r \in Logins |->
                IF r = account[a].ref THEN [exp |-> Life, gen |-> 0] ELSE NoToken]]
  /\ job = [k \in Keys |-> [state |-> "absent", tries |-> 0]]
  /\ sweep = [s \in Sweepers |-> IdleSweep]
  /\ swept = {}
  /\ worker = [w \in Workers |-> IdleWorker]
  /\ cache = [w \in Workers |-> NoCache]
  /\ login = [l \in Logins |-> IdleLogin]
  /\ gen = [a \in Accounts |-> 0]
  /\ challenged = [a \in Accounts |-> FALSE]
  /\ now = 0 /\ late = 0
  /\ logins = 0 /\ events = 0 /\ faults = 0

UpsetsLeft == logins + events + faults + late < MaxUpsets
Fault == /\ faults < MaxFaults /\ UpsetsLeft
         /\ faults' = faults + 1 /\ UNCHANGED <<logins, events>>
Event == /\ events < MaxEvents /\ UpsetsLeft
         /\ events' = events + 1 /\ UNCHANGED <<logins, faults>>

-----------------------------------------------------------------------------
(* The sweep.                                                              *)

\* The batches ORDER BY session_expires_at LIMIT can return.
Earliest(S) ==
  {B \in SUBSET S : /\ Cardinality(B) <= Limit
                    /\ B # S => Cardinality(B) = Limit
                    /\ \A a \in B, b \in S \ B : account[a].expires <= account[b].expires}

Derived(exp) == CASE exp <= now          -> "expired"
                  [] now < exp /\ exp <= now + Window -> "expiring"
                  [] exp > now + Window  -> "valid"

Reconcile(s) ==
  /\ sweep[s].at = "idle" /\ s \notin swept
  /\ \E B \in Earliest({a \in Accounts : /\ account[a].expires # Never
                                         /\ account[a].status \in {"valid", "expiring", "expired"}}) :
       account' = [a \in Accounts |-> IF a \in B
                     THEN [account[a] EXCEPT !.status = Derived(account[a].expires)]
                     ELSE account[a]]
  /\ sweep' = [sweep EXCEPT ![s].at = "select"]
  /\ UNCHANGED <<vault, job, swept, worker, cache, login, gen, challenged, clockVars, boundVars>>

\* Wrong variant: reconciled to expiring, a session is no longer a candidate.
DueWhileValid(a) ==
  LET c == account[a] IN
  /\ c.ref # NoRow
  /\ c.expires # Never /\ c.expires <= now + Window
  /\ c.status = "valid"
  /\ ~c.blocked
  /\ c.health \notin {"checkpoint_required", "token_dead", "suspended"}
  /\ c.failures < MaxFailures
  /\ c.attempted = Never \/ c.attempted <= now - MinRetry

\* findDueForRefresh.
DueForRefresh(a) ==
  LET c == account[a] IN
  /\ c.ref # NoRow
  /\ c.expires # Never /\ c.expires <= now + Window
  /\ c.status \in {"valid", "expiring"}
  /\ ~c.blocked
  /\ c.health \notin {"checkpoint_required", "token_dead", "suspended"}
  /\ c.failures < MaxFailures
  /\ c.attempted = Never \/ c.attempted <= now - MinRetry

Select(s) ==
  /\ sweep[s].at = "select"
  /\ \E B \in Earliest({a \in Accounts : DueForRefresh(a)}) :
       sweep' = [sweep EXCEPT ![s].at = "create",
                              ![s].todo = {<<a, account[a].expires>> : a \in B}]
  /\ UNCHANGED <<account, vault, job, swept, worker, cache, login, gen, challenged, clockVars,
                 boundVars>>

\* The candidate at hand: they are taken in order of expiry.
NextCandidate(s, k) == /\ sweep[s].at = "create" /\ k \in sweep[s].todo
                       /\ \A c \in sweep[s].todo : k[2] <= c[2]

\* The insert of createAndEnqueueJob under refreshIdempotencyKey.
Create(s, k) ==
  /\ NextCandidate(s, k)
  /\ job[k].state = "absent"
  /\ job' = [job EXCEPT ![k].state = "unsent"]
  /\ sweep' = [sweep EXCEPT ![s].at = "enqueue", ![s].creating = {k}]
  /\ UNCHANGED <<account, vault, swept, worker, cache, login, gen, challenged, clockVars,
                 boundVars>>

\* The key is taken: neither enqueued nor marked.
Skip(s, k) ==
  /\ NextCandidate(s, k)
  /\ job[k].state # "absent"
  /\ sweep' = [sweep EXCEPT ![s].todo = @ \ {k}]
  /\ UNCHANGED <<account, vault, job, swept, worker, cache, login, gen, challenged, clockVars,
                 boundVars>>

Enqueue(s, k) ==
  /\ sweep[s].at = "enqueue" /\ k \in sweep[s].creating
  /\ job' = [job EXCEPT ![k].state = "queued"]
  /\ sweep' = [sweep EXCEPT ![s].at = "mark"]
  /\ UNCHANGED <<account, vault, swept, worker, cache, login, gen, challenged, clockVars,
                 boundVars>>

MarkAttempted(s, k) ==
  /\ sweep[s].at = "mark" /\ k \in sweep[s].creating
  /\ account' = [account EXCEPT ![k[1]].attempted = now]
  /\ sweep' = [sweep EXCEPT ![s] = [at |-> "create", todo |-> @.todo \ {k}, creating |-> {}]]
  /\ UNCHANGED <<vault, job, swept, worker, cache, login, gen, challenged, clockVars, boundVars>>

EndSweep(s) ==
  /\ sweep[s].at = "create" /\ sweep[s].todo = {}
  /\ sweep' = [sweep EXCEPT ![s] = IdleSweep]
  /\ swept' = swept \cup {s}
  /\ UNCHANGED <<account, vault, job, worker, cache, login, gen, challenged, clockVars, boundVars>>

\* The sweeper dies, or a statement or the queue throws: the rest is dropped.
SweepAborts(s) ==
  /\ sweep[s].at # "idle"
  /\ Fault
  /\ sweep' = [sweep EXCEPT ![s] = IdleSweep]
  /\ UNCHANGED <<account, vault, job, swept, worker, cache, login, gen, challenged, clockVars>>

-----------------------------------------------------------------------------
(* The workers.                                                            *)

Dead(a, t) == t.exp <= now \/ t.gen < gen[a]
NewToken(a) == [exp |-> now + Life, gen |-> gen[a]]

\* resolveToken: the cached token, or else the one in the vault.
Resolved(w, a) ==
  LET r == account[a].ref IN
  CASE r = NoRow                            -> NoToken
    [] r # NoRow /\ cache[w][a][r] # NoToken -> cache[w][a][r]
    [] OTHER                                -> vault[a][r]

\* The job is claimed, the account's reference loaded, its token remembered.
Take(w, t) ==
  LET r == account[t[1]].ref IN
  /\ worker[w].at = "idle"
  /\ worker' = [worker EXCEPT ![w] = [at |-> "call", task |-> t, row |-> r,
                                      token |-> Resolved(w, t[1]), answer |-> "none"]]
  /\ cache' = IF r = NoRow THEN cache
              ELSE [cache EXCEPT ![w][t[1]][r] = Resolved(w, t[1])]
  /\ UNCHANGED <<account, vault, sweep, swept, login, gen, challenged, clockVars, boundVars>>

TakeRefresh(w, k) == /\ job[k].state = "queued"
                     /\ job' = [job EXCEPT ![k].state = "running"]
                     /\ Take(w, k)

TakeOperation(w, t) == Take(w, t) /\ UNCHANGED job

Refreshing(w) == worker[w].task \in Keys

Answer(w, verdict, place) ==
  worker' = [worker EXCEPT ![w].answer = verdict, ![w].at = place]

\* The platform's verdict on the token the call carries.
Call(w) ==
  LET a == worker[w].task[1]
      dead == Dead(a, worker[w].token)
  IN /\ worker[w].at = "call"
     /\ \/ dead /\ Answer(w, "dead", "report") /\ UNCHANGED boundVars
        \/ ~dead /\ challenged[a] /\ Answer(w, "checkpoint", "report") /\ UNCHANGED boundVars
        \/ /\ ~dead /\ ~challenged[a] /\ Refreshing(w)
           /\ worker' = [worker EXCEPT ![w].answer = "ok", ![w].at = "persist",
                                       ![w].token = NewToken(a)]
           /\ UNCHANGED boundVars
        \/ /\ ~dead /\ ~challenged[a] /\ ~Refreshing(w)
           /\ worker' = [worker EXCEPT ![w] = IdleWorker]
           /\ UNCHANGED boundVars
        \/ /\ Refreshing(w) /\ Fault
           /\ \E failure \in {"retryable", "refused"} : Answer(w, failure, "report")
     /\ UNCHANGED <<account, vault, job, sweep, swept, cache, login, gen, challenged, clockVars>>

\* Wrong variant: a refresh that works clears every verdict.
RefreshClears(c, exp) ==
  [c EXCEPT !.status = "valid", !.expires = exp, !.attempted = now, !.failures = 0,
            !.health = "healthy"]

\* applyRefreshSuccess.
RefreshSuccess(c, exp) ==
  [c EXCEPT !.status = "valid", !.expires = exp, !.attempted = now, !.failures = 0,
            !.health = IF @ \in {"degraded", "unknown"} THEN "healthy" ELSE @]

\* rotateToken: token and expiry in one transaction, then the cache.  An
\* account that no longer points to the row makes it roll back.
RotateToken(w) ==
  LET a == worker[w].task[1]
      r == worker[w].row
      t == worker[w].token
  IN /\ worker[w].at = "persist"
     /\ \/ /\ account[a].ref = r
           /\ vault' = [vault EXCEPT ![a][r] = t]
           /\ account' = [account EXCEPT ![a] = RefreshSuccess(@, t.exp)]
           /\ cache' = [cache EXCEPT ![w][a][r] = NoToken]
           /\ worker' = [worker EXCEPT ![w].at = "settle"]
        \/ /\ account[a].ref # r
           /\ Answer(w, "retryable", "report")
           /\ UNCHANGED <<account, vault, cache>>
     /\ UNCHANGED <<job, sweep, swept, login, gen, challenged, clockVars, boundVars>>

\* Wrong variant: the expiry is written first, and nothing rolls it back.
RotateFailsHalfway(w) ==
  /\ worker[w].at = "persist"
  /\ Fault
  /\ account' = [account EXCEPT ![worker[w].task[1]] = RefreshSuccess(@, worker[w].token.exp)]
  /\ Answer(w, "retryable", "report")
  /\ UNCHANGED <<vault, job, sweep, swept, cache, login, gen, challenged, clockVars>>

\* ROLLBACK: the token is renewed but not persisted.
RotateFails(w) ==
  /\ worker[w].at = "persist"
  /\ Fault
  /\ Answer(w, "retryable", "report")
  /\ UNCHANGED <<account, vault, job, sweep, swept, cache, login, gen, challenged, clockVars>>

AfterReport(w) ==
  worker' = IF Refreshing(w) THEN [worker EXCEPT ![w].at = "settle"]
            ELSE [worker EXCEPT ![w] = IdleWorker]

\* Wrong variant: whatever refuses the refresh for good has killed the session.
VerdictOnRefusal(c, answer) ==
  CASE answer = "checkpoint" ->
         [c EXCEPT !.health = "checkpoint_required", !.status = IF @ = "none" THEN "valid" ELSE @]
    [] answer \in {"dead", "refused"} -> [c EXCEPT !.health = "token_dead", !.status = "revoked"]
    [] OTHER -> [c EXCEPT !.failures = @ + 1, !.attempted = now]

\* createSessionFailureHandler: what an error says of the session.
Verdict(c, answer) ==
  CASE answer = "checkpoint" ->
         [c EXCEPT !.health = "checkpoint_required", !.status = IF @ = "none" THEN "valid" ELSE @]
    [] answer = "dead" -> [c EXCEPT !.health = "token_dead", !.status = "revoked"]
    [] OTHER -> [c EXCEPT !.failures = @ + 1, !.attempted = now]

Report(w) ==
  /\ worker[w].at = "report"
  /\ account' = [account EXCEPT ![worker[w].task[1]] = Verdict(@, worker[w].answer)]
  /\ AfterReport(w)
  /\ UNCHANGED <<vault, job, sweep, swept, cache, login, gen, challenged, clockVars, boundVars>>

\* The handler throws; the worker goes on.
ReportFails(w) ==
  /\ worker[w].at = "report"
  /\ Fault
  /\ AfterReport(w)
  /\ UNCHANGED <<account, vault, job, sweep, swept, cache, login, gen, challenged, clockVars>>

\* The worker writes the outcome of a refresh and answers the queue.
Settle(w) ==
  LET k == worker[w].task
      outcome == CASE worker[w].answer = "ok"        -> "succeeded"
                   [] worker[w].answer = "retryable" /\ job[k].tries + 1 < MaxAttempts -> "queued"
                   [] OTHER                          -> "failed"
  IN /\ worker[w].at = "settle"
     /\ job' = [job EXCEPT ![k] = [state |-> outcome, tries |-> @.tries + 1]]
     /\ worker' = [worker EXCEPT ![w] = IdleWorker]
     /\ UNCHANGED <<account, vault, sweep, swept, cache, login, gen, challenged, clockVars,
                    boundVars>>

\* The process dies.  Its refresh is delivered again, or nevermore.
WorkerCrashes(w) ==
  /\ worker[w].at # "idle"
  /\ Fault
  /\ \/ /\ Refreshing(w)
        /\ \E fate \in {"queued", "stuck"} : job' = [job EXCEPT ![worker[w].task].state = fate]
     \/ ~Refreshing(w) /\ UNCHANGED job
  /\ worker' = [worker EXCEPT ![w] = IdleWorker]
  /\ cache' = [cache EXCEPT ![w] = NoCache]
  /\ UNCHANGED <<account, vault, sweep, swept, login, gen, challenged, clockVars>>

\* An entry comes to the end of its time, or makes room for another.
CacheEvicts(w, a) ==
  /\ \E r \in Logins : /\ cache[w][a][r] # NoToken
                       /\ cache' = [cache EXCEPT ![w][a][r] = NoToken]
  /\ UNCHANGED <<account, vault, job, sweep, swept, worker, login, gen, challenged, clockVars,
                 boundVars>>

-----------------------------------------------------------------------------
(* The login: completeAuthorization.                                       *)

\* The context is read and the code exchanged for a new token; the human
\* before the browser passes whatever verification is asked.
Exchange(l, a) ==
  /\ login[l].at = "idle"
  /\ logins < MaxLogins /\ UpsetsLeft /\ logins' = logins + 1 /\ UNCHANGED <<events, faults>>
  /\ login' = [login EXCEPT ![l] = [at |-> "store", of |-> a, row |-> account[a].ref,
                                    token |-> NewToken(a)]]
  /\ challenged' = [challenged EXCEPT ![a] = FALSE]
  /\ UNCHANGED <<account, vault, job, sweep, swept, worker, cache, gen, clockVars>>

\* Wrong variant: the reference put returns is forgotten.
StoreForgetsRow(l) ==
  LET r == IF login[l].row # NoRow THEN login[l].row ELSE l
  IN /\ login[l].at = "store"
     /\ vault' = [vault EXCEPT ![login[l].of][r] = login[l].token]
     /\ login' = [login EXCEPT ![l].at = "attach"]
     /\ UNCHANGED <<account, job, sweep, swept, worker, cache, gen, challenged, clockVars,
                    boundVars>>

\* replace in the row the account had, or put in a new one.
Store(l) ==
  LET r == IF login[l].row # NoRow THEN login[l].row ELSE l
  IN /\ login[l].at = "store"
     /\ vault' = [vault EXCEPT ![login[l].of][r] = login[l].token]
     /\ login' = [login EXCEPT ![l].at = "attach", ![l].row = r]
     /\ UNCHANGED <<account, job, sweep, swept, worker, cache, gen, challenged, clockVars,
                    boundVars>>

\* attachSession.
Attached(c, r, exp) ==
  [c EXCEPT !.ref = r, !.status = "valid", !.expires = exp, !.attempted = Never, !.failures = 0,
            !.health = IF @ \in {"token_dead", "checkpoint_required", "unknown", "degraded"}
                       THEN "healthy" ELSE @]

Attach(l) ==
  /\ login[l].at = "attach"
  /\ account' = [account EXCEPT
       ![login[l].of] = Attached(@, login[l].row, login[l].token.exp)]
  /\ login' = [login EXCEPT ![l] = IdleLogin]
  /\ UNCHANGED <<vault, job, sweep, swept, worker, cache, gen, challenged, clockVars, boundVars>>

LoginAborts(l) ==
  /\ login[l].at # "idle"
  /\ Fault
  /\ login' = [login EXCEPT ![l] = IdleLogin]
  /\ UNCHANGED <<account, vault, job, sweep, swept, worker, cache, gen, challenged, clockVars>>

-----------------------------------------------------------------------------
(* The platform, the operators and the clock.                              *)

Revoke(a) == /\ Event
             /\ gen' = [gen EXCEPT ![a] = @ + 1]
             /\ UNCHANGED <<account, vault, job, sweep, swept, worker, cache, login, challenged,
                            clockVars>>

Challenge(a) == /\ Event
                /\ challenged' = [challenged EXCEPT ![a] = TRUE]
                /\ UNCHANGED <<account, vault, job, sweep, swept, worker, cache, login, gen,
                               clockVars>>

\* updateStatus: an operator sets the health of an account, its life cycle, or
\* both; what is not given stays.
UpdateStatus(a) ==
  /\ Event
  /\ \E h \in OperatorSets \cup {account[a].health}, b \in BOOLEAN :
       account' = [account EXCEPT ![a].health = h, ![a].blocked = b]
  /\ UNCHANGED <<vault, job, sweep, swept, worker, cache, login, gen, challenged, clockVars>>

\* Something due in this tick is not done yet.
WorkLeft == \/ swept # Sweepers
            \/ \E s \in Sweepers : sweep[s].at # "idle"
            \/ \E w \in Workers : worker[w].at # "idle"
            \/ \E l \in Logins : login[l].at # "idle"
            \/ \E k \in Keys : job[k].state = "queued"

\* No entry of a cache (tokenCacheTtlMs, 30 s) outlives an interval (15 min).
Tick == /\ now < Horizon
        /\ now' = now + 1
        /\ \/ ~WorkLeft /\ UNCHANGED late
           \/ WorkLeft /\ late < MaxLate /\ UpsetsLeft /\ late' = late + 1
        /\ swept' = {}
        /\ cache' = [w \in Workers |-> NoCache]
        /\ UNCHANGED <<account, vault, job, sweep, worker, login, gen, challenged, boundVars>>

Next ==
  \/ \E s \in Sweepers :
       \/ Reconcile(s) \/ Select(s) \/ EndSweep(s) \/ SweepAborts(s)
       \/ \E k \in Keys : Create(s, k) \/ Skip(s, k) \/ Enqueue(s, k) \/ MarkAttempted(s, k)
  \/ \E w \in Workers :
       \/ \E k \in Keys : TakeRefresh(w, k)
       \/ \E t \in Ordinary : TakeOperation(w, t)
       \/ \E a \in Accounts : CacheEvicts(w, a)
       \/ Call(w) \/ RotateToken(w) \/ RotateFails(w) \/ Report(w) \/ ReportFails(w)
       \/ Settle(w) \/ WorkerCrashes(w)
  \/ \E l \in Logins :
       \/ \E a \in Accounts : Exchange(l, a)
       \/ Store(l) \/ Attach(l) \/ LoginAborts(l)
  \/ \E a \in Accounts : Revoke(a) \/ Challenge(a) \/ UpdateStatus(a)
  \/ Tick

Spec == Init /\ [][Next]_vars

-----------------------------------------------------------------------------
(* Properties.                                                             *)

AccountRow == [ref : Logins \cup {NoRow},
               status : {"none", "valid", "expiring", "expired", "revoked"},
               expires : Times \cup {Never}, attempted : Times \cup {Never},
               failures : Nat, health : Healths, blocked : BOOLEAN]
JobRow     == [state : {"absent", "unsent", "queued", "running", "stuck", "succeeded", "failed"},
               tries : Nat]
SweepState == [at : {"idle", "select", "create", "enqueue", "mark"},
               todo : SUBSET Keys, creating : SUBSET Keys]
WorkState  == [at : {"call", "persist", "report", "settle"}, task : Keys \cup Ordinary,
               row : Logins \cup {NoRow}, token : Tokens,
               answer : {"none", "ok", "dead", "checkpoint", "retryable", "refused"}]
LoginState == [at : {"store", "attach"}, of : Accounts, row : Logins \cup {NoRow},
               token : Tokens]

\* A worker acts on what it has: without a row it calls with no token, it
\* persists into a row, and only refreshes are persisted and settled.
Backed(v) == /\ v.at = "call" /\ v.row = NoRow => v.token = NoToken
             /\ v.at = "persist" => v.row # NoRow
             /\ v.at \in {"persist", "settle"} => v.task \in Keys

\* Every variable stays within its domain; what is not idle has an account, and
\* what is about to be persisted or attached has a row.
TypeOK ==
  /\ account \in [Accounts -> AccountRow]
  /\ vault \in [Accounts -> [Logins -> Tokens]]
  /\ job \in [Keys -> JobRow]
  /\ sweep \in [Sweepers -> SweepState]
  /\ swept \subseteq Sweepers
  /\ worker \in [Workers -> WorkState \cup {IdleWorker}]
  /\ cache \in [Workers -> [Accounts -> [Logins -> Tokens]]]
  /\ login \in [Logins -> LoginState \cup {IdleLogin}]
  /\ gen \in [Accounts -> Nat]
  /\ challenged \in [Accounts -> BOOLEAN]
  /\ now \in 0 .. Horizon /\ late \in 0 .. MaxLate
  /\ logins \in 0 .. MaxLogins /\ events \in 0 .. MaxEvents /\ faults \in 0 .. MaxFaults
  /\ \A w \in Workers : Backed(worker[w])
  /\ \A l \in Logins : login[l].at = "attach" => login[l].row # NoRow

\* A session is never said to last longer than the token in its row: refreshes,
\* logins, crashes between their steps and failed transactions included.  A
\* refresh that a login overtakes differs by no more than the time both take,
\* so the two instants are told apart only when work outlasts an interval.
ExpiryNeverOverstated ==
  late = 0 => \A a \in Accounts :
    account[a].ref # NoRow => account[a].expires <= vault[a][account[a].ref].exp

\* A session that the sweep is to keep alive.
InService(a) == /\ account[a].ref # NoRow
                /\ account[a].status \in {"valid", "expiring"}
                /\ account[a].failures < MaxFailures

\* The one job the session's expiry allows ended badly or will never be delivered.
RefreshLost(a) ==
  LET k == <<a, account[a].expires>> IN
  \/ job[k].state \in {"failed", "stuck"}
  \/ job[k].state = "unsent" /\ \A s \in Sweepers : k \notin sweep[s].creating

\* The refresh comes before the expiry: while every interval's work is done
\* within it and nobody intervenes, no session runs out unless its one refresh
\* job is lost; retries, crashes and repeated sweeps do not matter.
RefreshedInTime ==
  (late = 0 /\ events = 0) =>
    \A a \in Accounts : InService(a) /\ ~RefreshLost(a) => now < account[a].expires

NeedsHuman(c) == c.health \in {"token_dead", "checkpoint_required"}

\* An account that needs a human comes back only by a human: no refresh still
\* under way, and no late answer to an older call, restores it.
OnlyHumansRevive ==
  [][\A a \in Accounts : NeedsHuman(account[a]) /\ ~NeedsHuman(account'[a]) =>
       UpdateStatus(a) \/ \E l \in Logins : login[l].of = a /\ Attach(l)]_vars

\* markTokenDead is for a session that is over: while no login overtakes the
\* verdict on the token it replaces, an account said to have a dead token has
\* one, whatever refreshes and caches other workers are busy with.
OnlyDeadTokensKill ==
  (late = 0 /\ logins = 0 /\ "token_dead" \notin OperatorSets) =>
    \A a \in Accounts : account[a].health = "token_dead" /\ account[a].ref # NoRow
                          => Dead(a, vault[a][account[a].ref])

\* planPreventiveRefresh's comment says that a candidate it skips has a job in
\* flight ("já tinham job em voo"): its job did not end without a refresh.
SkippedIsInFlight ==
  [][\A s \in Sweepers, k \in Keys : Skip(s, k) => job[k].state # "failed"]_vars
=============================================================================
