------------------------ MODULE SessionRefreshProofs ------------------------
(***************************************************************************)
(* What is proved of SessionRefresh for any accounts, workers, sweepers,   *)
(* logins and bounds: its type correctness, that an account in need of a   *)
(* human is restored by nobody else, that no session is said to outlast    *)
(* its token, that none is said dead whose token lives, and that no        *)
(* session runs out unrefreshed if sweeps are large enough and intervals   *)
(* leave room.                                                             *)
(***************************************************************************)
EXTENDS SessionRefresh, TLAPS, FiniteSetTheorems

LEMMA NowTyped ==
  ASSUME SessionAssumption, now \in 0 .. Horizon
  PROVE  /\ now \in Times /\ now + Life \in Times /\ Life \in Times /\ 0 \in Times
         /\ NoToken \in Tokens
  BY DEF SessionAssumption, Times, Tokens, NoToken

LEMMA FaultTyped ==
  ASSUME SessionAssumption, TypeOK, Fault
  PROVE  logins' \in 0 .. MaxLogins /\ events' \in 0 .. MaxEvents /\ faults' \in 0 .. MaxFaults
  BY DEF SessionAssumption, TypeOK, Fault

LEMMA EventTyped ==
  ASSUME SessionAssumption, TypeOK, Event
  PROVE  logins' \in 0 .. MaxLogins /\ events' \in 0 .. MaxEvents /\ faults' \in 0 .. MaxFaults
  BY DEF SessionAssumption, TypeOK, Event

-----------------------------------------------------------------------------
(* Type correctness, one lemma for the steps of each kind of process.      *)

LEMMA InitTyped == SessionAssumption /\ Init => TypeOK
<1> SUFFICES ASSUME SessionAssumption, Init PROVE TypeOK
  OBVIOUS
<1>1. Life \in Times /\ Life \in Nat /\ NoToken \in Tokens
  BY DEF SessionAssumption, Times, Tokens, NoToken
<1>2. account \in [Accounts -> AccountRow]
  <2>1. NeverLoggedIn \in AccountRow
    BY DEF AccountRow, NeverLoggedIn, Healths
  <2>2. \A r \in Logins : LoggedIn(r) \in AccountRow
    BY <1>1 DEF AccountRow, LoggedIn, Healths
  <2> QED BY <2>1, <2>2 DEF Init
<1>3. vault \in [Accounts -> [Logins -> Tokens]]
  BY <1>1 DEF Init, Tokens
<1>4. job \in [Keys -> JobRow]
  BY DEF Init, JobRow
<1>5. sweep \in [Sweepers -> SweepState] /\ swept \subseteq Sweepers
  BY DEF Init, SweepState, IdleSweep
<1>6. /\ worker \in [Workers -> WorkState \cup {IdleWorker}]
      /\ \A w \in Workers : Backed(worker[w])
  BY DEF Init, IdleWorker, Backed
<1>7. cache \in [Workers -> [Accounts -> [Logins -> Tokens]]]
  BY <1>1 DEF Init, NoCache
<1>8. /\ login \in [Logins -> LoginState \cup {IdleLogin}]
      /\ \A l \in Logins : login[l].at = "idle"
  BY DEF Init, IdleLogin
<1>9. /\ gen \in [Accounts -> Nat] /\ challenged \in [Accounts -> BOOLEAN]
      /\ now \in 0 .. Horizon /\ late \in 0 .. MaxLate
      /\ logins \in 0 .. MaxLogins /\ events \in 0 .. MaxEvents /\ faults \in 0 .. MaxFaults
  BY DEF Init, SessionAssumption
<1> QED BY <1>2, <1>3, <1>4, <1>5, <1>6, <1>7, <1>8, <1>9 DEF TypeOK

\* A job changes its state.
LEMMA JobMoves ==
  ASSUME TypeOK, NEW k \in Keys,
         NEW st \in {"absent", "unsent", "queued", "running", "stuck", "succeeded", "failed"},
         NEW n \in Nat, job' = [job EXCEPT ![k] = [state |-> st, tries |-> n]]
  PROVE  job' \in [Keys -> JobRow]
  BY DEF TypeOK, JobRow

LEMMA JobMarked ==
  ASSUME TypeOK, NEW k \in Keys,
         NEW st \in {"absent", "unsent", "queued", "running", "stuck", "succeeded", "failed"},
         job' = [job EXCEPT ![k].state = st]
  PROVE  job' \in [Keys -> JobRow]
<1>1. job[k] \in JobRow
  BY DEF TypeOK
<1>2. [job[k] EXCEPT !.state = st] \in JobRow
  BY <1>1 DEF JobRow
<1>3. job' = [job EXCEPT ![k] = [job[k] EXCEPT !.state = st]]
  OBVIOUS
<1> QED BY <1>2, <1>3 DEF TypeOK

LEMMA SweeperTyped ==
  ASSUME SessionAssumption, TypeOK, NEW s \in Sweepers,
         \/ Reconcile(s) \/ Select(s) \/ EndSweep(s) \/ SweepAborts(s)
         \/ \E k \in Keys : Create(s, k) \/ Skip(s, k) \/ Enqueue(s, k) \/ MarkAttempted(s, k)
  PROVE  TypeOK'
<1>1. CASE Reconcile(s)
  <2>1. account' \in [Accounts -> AccountRow]
    <3>1. \A a \in Accounts : Derived(account[a].expires) \in {"valid", "expiring", "expired"}
                              \/ account[a].expires = Never
      BY DEF TypeOK, Derived, AccountRow, Times, Never, SessionAssumption
    <3>2. PICK B \in Earliest({a \in Accounts : /\ account[a].expires # Never
                               /\ account[a].status \in {"valid", "expiring", "expired"}}) :
            account' = [a \in Accounts |-> IF a \in B
                         THEN [account[a] EXCEPT !.status = Derived(account[a].expires)]
                         ELSE account[a]]
      BY <1>1 DEF Reconcile
    <3>3. \A a \in B : account[a].expires # Never
      BY <3>2 DEF Earliest
    <3>4. ASSUME NEW a \in Accounts, NEW v \in {"valid", "expiring", "expired"}
          PROVE  [account[a] EXCEPT !.status = v] \in AccountRow
      <4>1. account[a] \in AccountRow
        BY DEF TypeOK
      <4> QED BY <4>1 DEF AccountRow
    <3>5. ASSUME NEW a \in Accounts PROVE account'[a] \in AccountRow
      <4>1. CASE a \in B
        <5>1. PICK v \in {"valid", "expiring", "expired"} : v = Derived(account[a].expires)
          BY <3>1, <3>3, <4>1
        <5>2. account'[a] = [account[a] EXCEPT !.status = v]
          BY <3>2, <4>1, <5>1
        <5> QED BY <3>4, <5>2
      <4>2. CASE a \notin B
        BY <3>2, <4>2 DEF TypeOK
      <4> QED BY <4>1, <4>2
    <3> QED BY <3>2, <3>5
  <2>2. sweep' \in [Sweepers -> SweepState]
    <3>1. sweep[s] \in SweepState
      BY DEF TypeOK
    <3>2. [sweep[s] EXCEPT !.at = "select"] \in SweepState
      BY <3>1 DEF SweepState
    <3>3. sweep' = [sweep EXCEPT ![s] = [sweep[s] EXCEPT !.at = "select"]]
      BY <1>1 DEF Reconcile
    <3> QED BY <3>2, <3>3 DEF TypeOK
  <2> QED BY <1>1, <2>1, <2>2 DEF Reconcile, TypeOK, clockVars, boundVars
<1>2. CASE Select(s)
  <2>1. PICK B \in Earliest({a \in Accounts : DueForRefresh(a)}) :
          sweep' = [sweep EXCEPT ![s].at = "create",
                                 ![s].todo = {<<a, account[a].expires>> : a \in B}]
    BY <1>2 DEF Select
  <2>2. \A a \in B : a \in Accounts /\ account[a].expires \in Times
    BY <2>1 DEF Earliest, DueForRefresh, TypeOK, AccountRow
  <2>3. {<<a, account[a].expires>> : a \in B} \subseteq Keys
    BY <2>2 DEF Keys
  <2>4. sweep' \in [Sweepers -> SweepState]
    <3> DEFINE T == {<<a, account[a].expires>> : a \in B}
    <3>1. sweep[s] \in SweepState
      BY DEF TypeOK
    <3>2. T \in SUBSET Keys /\ sweep' = [sweep EXCEPT ![s].at = "create", ![s].todo = T]
      BY <2>1, <2>3
    <3> HIDE DEF T
    <3>3. [sweep[s] EXCEPT !.at = "create", !.todo = T] \in SweepState
      BY <3>1, <3>2 DEF SweepState
    <3>4. sweep' = [sweep EXCEPT ![s] = [sweep[s] EXCEPT !.at = "create", !.todo = T]]
      BY <3>1, <3>2 DEF SweepState, TypeOK
    <3> QED BY <3>3, <3>4 DEF TypeOK
  <2> QED BY <1>2, <2>4 DEF Select, TypeOK, clockVars, boundVars
<1>3. CASE EndSweep(s)
  BY <1>3 DEF EndSweep, TypeOK, SweepState, IdleSweep, clockVars, boundVars
<1>4. CASE SweepAborts(s)
  BY <1>4, FaultTyped DEF SweepAborts, TypeOK, SweepState, IdleSweep, clockVars
<1>5. ASSUME NEW k \in Keys, Create(s, k) PROVE TypeOK'
  <2>1. job' \in [Keys -> JobRow]
    BY <1>5, JobMarked DEF Create
  <2>2. sweep' \in [Sweepers -> SweepState]
    <3>1. sweep[s] \in SweepState
      BY DEF TypeOK
    <3>2. [sweep[s] EXCEPT !.at = "enqueue", !.creating = {k}] \in SweepState
      BY <3>1 DEF SweepState
    <3>3. sweep' = [sweep EXCEPT ![s] = [sweep[s] EXCEPT !.at = "enqueue", !.creating = {k}]]
      BY <1>5 DEF Create
    <3> QED BY <3>2, <3>3 DEF TypeOK
  <2> QED BY <1>5, <2>1, <2>2 DEF Create, TypeOK, clockVars, boundVars
<1>6. ASSUME NEW k \in Keys, Skip(s, k) PROVE TypeOK'
  <2>1. sweep[s] \in SweepState
    BY DEF TypeOK
  <2>2. [sweep[s] EXCEPT !.todo = @ \ {k}] \in SweepState
    BY <2>1 DEF SweepState
  <2>3. sweep' = [sweep EXCEPT ![s] = [sweep[s] EXCEPT !.todo = @ \ {k}]]
    BY <1>6 DEF Skip
  <2>4. sweep' \in [Sweepers -> SweepState]
    BY <2>2, <2>3 DEF TypeOK
  <2> QED BY <1>6, <2>4 DEF Skip, TypeOK, clockVars, boundVars
<1>7. ASSUME NEW k \in Keys, Enqueue(s, k) PROVE TypeOK'
  <2>1. job' \in [Keys -> JobRow]
    BY <1>7, JobMarked DEF Enqueue
  <2>2. sweep' \in [Sweepers -> SweepState]
    <3>1. sweep[s] \in SweepState
      BY DEF TypeOK
    <3>2. [sweep[s] EXCEPT !.at = "mark"] \in SweepState
      BY <3>1 DEF SweepState
    <3>3. sweep' = [sweep EXCEPT ![s] = [sweep[s] EXCEPT !.at = "mark"]]
      BY <1>7 DEF Enqueue
    <3> QED BY <3>2, <3>3 DEF TypeOK
  <2> QED BY <1>7, <2>1, <2>2 DEF Enqueue, TypeOK, clockVars, boundVars
<1>8. ASSUME NEW k \in Keys, MarkAttempted(s, k) PROVE TypeOK'
  <2>1. account' \in [Accounts -> AccountRow]
    <3>1. k[1] \in Accounts /\ account[k[1]] \in AccountRow /\ now \in Times
      BY NowTyped DEF TypeOK, Keys
    <3>2. [account[k[1]] EXCEPT !.attempted = now] \in AccountRow
      BY <3>1 DEF AccountRow
    <3>3. account' = [account EXCEPT ![k[1]] = [account[k[1]] EXCEPT !.attempted = now]]
      BY <1>8 DEF MarkAttempted
    <3> QED BY <3>1, <3>2, <3>3 DEF TypeOK
  <2>2. sweep' \in [Sweepers -> SweepState]
    BY <1>8 DEF MarkAttempted, TypeOK, SweepState
  <2> QED BY <1>8, <2>1, <2>2 DEF MarkAttempted, TypeOK, clockVars, boundVars
<1> QED BY <1>1, <1>2, <1>3, <1>4, <1>5, <1>6, <1>7, <1>8
-----------------------------------------------------------------------------
(* The workers.                                                            *)

\* What a worker or a login holds once it is no longer idle.
LEMMA BusyTyped ==
  ASSUME TypeOK
  PROVE  /\ \A w \in Workers : worker[w].at # "idle" => worker[w] \in WorkState
         /\ \A w \in Workers : worker[w].at = "idle" => worker[w] = IdleWorker
         /\ \A l \in Logins : login[l].at # "idle" => login[l] \in LoginState
<1>1. IdleWorker.at = "idle" /\ IdleLogin.at = "idle"
  BY DEF IdleWorker, IdleLogin
<1>2. /\ \A v \in WorkState : v.at # "idle"
      /\ \A v \in LoginState : v.at # "idle"
  BY DEF WorkState, LoginState
<1>3. /\ \A w \in Workers : worker[w] \in WorkState \cup {IdleWorker}
      /\ \A l \in Logins : login[l] \in LoginState \cup {IdleLogin}
  BY DEF TypeOK
<1> QED BY <1>1, <1>2, <1>3

LEMMA IdleBacked == Backed(IdleWorker) /\ IdleWorker \in WorkState \cup {IdleWorker}
  BY DEF Backed, IdleWorker

\* A worker that moves to a well-typed state leaves the others as they are.
LEMMA WorkerMoves ==
  ASSUME TypeOK, NEW w \in Workers, NEW v \in WorkState \cup {IdleWorker},
         worker' = [worker EXCEPT ![w] = v],
         Backed(v)
  PROVE  /\ worker' \in [Workers -> WorkState \cup {IdleWorker}]
         /\ \A x \in Workers : Backed(worker'[x])
<1>1. /\ \A x \in Workers : Backed(worker[x]) /\ worker[x] \in WorkState \cup {IdleWorker}
      /\ DOMAIN worker = Workers
  BY DEF TypeOK
<1>2. \A x \in Workers : worker'[x] = IF x = w THEN v ELSE worker[x]
  BY <1>1
<1>3. \A x \in Workers : Backed(worker'[x]) /\ worker'[x] \in WorkState \cup {IdleWorker}
  BY <1>1, <1>2
<1>4. worker' \in [Workers -> WorkState \cup {IdleWorker}]
  BY <1>1 DEF TypeOK
<1> QED BY <1>3, <1>4

\* The answers of the platform leave a worker in a well-typed state.
LEMMA AnswerTyped ==
  ASSUME TypeOK, NEW w \in Workers, worker[w].at # "idle",
         NEW verdict \in {"ok", "dead", "checkpoint", "retryable", "refused"},
         Answer(w, verdict, "report")
  PROVE  /\ worker' \in [Workers -> WorkState \cup {IdleWorker}]
         /\ \A x \in Workers : Backed(worker'[x])
<1> DEFINE v == [worker[w] EXCEPT !.answer = verdict, !.at = "report"]
<1>1. worker[w] \in WorkState
  BY BusyTyped
<1>2. v \in WorkState /\ Backed(v)
  BY <1>1 DEF WorkState, Backed
<1>3. worker' = [worker EXCEPT ![w] = v]
  BY <1>1 DEF Answer, WorkState, TypeOK
<1> HIDE DEF v
<1> QED BY <1>2, <1>3, WorkerMoves

\* What a worker leaves alone.
LEMMA RestTyped ==
  ASSUME TypeOK, UNCHANGED <<sweep, swept, login, gen, challenged, clockVars>>,
         account' \in [Accounts -> AccountRow], vault' \in [Accounts -> [Logins -> Tokens]],
         job' \in [Keys -> JobRow], cache' \in [Workers -> [Accounts -> [Logins -> Tokens]]],
         worker' \in [Workers -> WorkState \cup {IdleWorker}],
         \A x \in Workers : Backed(worker'[x]),
         logins' \in 0 .. MaxLogins, events' \in 0 .. MaxEvents, faults' \in 0 .. MaxFaults
  PROVE  TypeOK'
  BY DEF TypeOK, clockVars

LEMMA TakeTyped ==
  ASSUME SessionAssumption, TypeOK, NEW w \in Workers, NEW t \in Keys \cup Ordinary,
         Take(w, t), job' \in [Keys -> JobRow]
  PROVE  TypeOK'
<1> DEFINE r == account[t[1]].ref
           v == [at |-> "call", task |-> t, row |-> r, token |-> Resolved(w, t[1]),
                 answer |-> "none"]
<1>1. t[1] \in Accounts
  BY DEF Keys, Ordinary
<1>2. r \in Logins \cup {NoRow} /\ NoToken \in Tokens
  BY <1>1, NowTyped DEF TypeOK, AccountRow
<1>3. Resolved(w, t[1]) \in Tokens
  <2>1. CASE r = NoRow
    BY <1>2, <2>1 DEF Resolved
  <2>2. CASE r # NoRow
    <3>1. cache[w][t[1]][r] \in Tokens /\ vault[t[1]][r] \in Tokens
      BY <1>1, <1>2, <2>2 DEF TypeOK
    <3> QED BY <2>2, <3>1 DEF Resolved
  <2> QED BY <2>1, <2>2
<1>4. v \in WorkState /\ Backed(v)
  BY <1>2, <1>3 DEF WorkState, Resolved, Backed
<1>5. worker' = [worker EXCEPT ![w] = v]
  BY DEF Take
<1>6. cache' \in [Workers -> [Accounts -> [Logins -> Tokens]]]
  <2>1. CASE r = NoRow
    BY <2>1 DEF Take, TypeOK
  <2>2. CASE r # NoRow
    BY <1>1, <1>2, <1>3, <2>2 DEF Take, TypeOK
  <2> QED BY <2>1, <2>2
<1> HIDE DEF v
<1>7. /\ worker' \in [Workers -> WorkState \cup {IdleWorker}]
      /\ \A x \in Workers : Backed(worker'[x])
  BY <1>4, <1>5, WorkerMoves
<1>8. account' \in [Accounts -> AccountRow] /\ vault' \in [Accounts -> [Logins -> Tokens]]
  BY DEF Take, TypeOK
<1> QED BY <1>6, <1>7, <1>8, RestTyped DEF Take, TypeOK, boundVars

LEMMA CallTyped ==
  ASSUME SessionAssumption, TypeOK, NEW w \in Workers, Call(w)
  PROVE  TypeOK'
<1> DEFINE a == worker[w].task[1]
<1>1. worker[w] \in WorkState
  BY BusyTyped DEF Call
<1>2. a \in Accounts
  BY <1>1 DEF WorkState, Keys, Ordinary
<1>3. /\ account' \in [Accounts -> AccountRow] /\ vault' \in [Accounts -> [Logins -> Tokens]]
      /\ job' \in [Keys -> JobRow] /\ cache' \in [Workers -> [Accounts -> [Logins -> Tokens]]]
      /\ UNCHANGED <<sweep, swept, login, gen, challenged, clockVars>>
  BY DEF Call, TypeOK
<1>4. logins' \in 0 .. MaxLogins /\ events' \in 0 .. MaxEvents /\ faults' \in 0 .. MaxFaults
  <2>1. UNCHANGED boundVars \/ Fault
    BY DEF Call
  <2> QED BY <2>1, FaultTyped DEF TypeOK, boundVars
<1>5. \/ \E x \in {"dead", "checkpoint", "retryable", "refused"} : Answer(w, x, "report")
      \/ /\ Refreshing(w) /\ ~Dead(a, worker[w].token)
         /\ worker' = [worker EXCEPT ![w].answer = "ok", ![w].at = "persist",
                                     ![w].token = NewToken(a)]
      \/ worker' = [worker EXCEPT ![w] = IdleWorker]
  BY DEF Call
<1>6. /\ worker' \in [Workers -> WorkState \cup {IdleWorker}]
      /\ \A x \in Workers : Backed(worker'[x])
  <2>1. CASE \E x \in {"dead", "checkpoint", "retryable", "refused"} : Answer(w, x, "report")
    BY <2>1, AnswerTyped DEF Call
  <2>2. CASE worker' = [worker EXCEPT ![w] = IdleWorker]
    BY <2>2, WorkerMoves, IdleBacked
  <2>3. CASE /\ Refreshing(w) /\ ~Dead(a, worker[w].token)
             /\ worker' = [worker EXCEPT ![w].answer = "ok", ![w].at = "persist",
                                         ![w].token = NewToken(a)]
    <3> DEFINE t == NewToken(a)
               v == [worker[w] EXCEPT !.answer = "ok", !.at = "persist", !.token = t]
    <3>1. t \in Tokens
      BY <1>2, NowTyped DEF NewToken, TypeOK, Tokens
    <3>2. worker' = [worker EXCEPT ![w] = v]
      BY <1>1, <2>3 DEF WorkState, TypeOK
    <3>3. worker[w].row # NoRow
      <4>1. worker[w].token # NoToken
        BY <2>3 DEF Dead, NoToken, TypeOK
      <4> QED BY <4>1 DEF TypeOK, Backed, Call
    <3> HIDE DEF t
    <3>4. v \in WorkState /\ Backed(v)
      BY <1>1, <2>3, <3>1, <3>3 DEF WorkState, Backed, Refreshing
    <3> HIDE DEF v
    <3> QED BY <3>2, <3>4, WorkerMoves
  <2> QED BY <1>5, <2>1, <2>2, <2>3
<1> QED BY <1>3, <1>4, <1>6, RestTyped

\* A worker goes on to report or to settle what it is at.
LEMMA WorkerGoesOn ==
  ASSUME TypeOK, NEW w \in Workers, worker[w].at # "idle", NEW place \in {"report", "settle"},
         place = "settle" => worker[w].task \in Keys,
         worker' = [worker EXCEPT ![w].at = place]
  PROVE  /\ worker' \in [Workers -> WorkState \cup {IdleWorker}]
         /\ \A x \in Workers : Backed(worker'[x])
<1> DEFINE v == [worker[w] EXCEPT !.at = place]
<1>1. worker[w] \in WorkState
  BY BusyTyped
<1>2. v \in WorkState /\ Backed(v)
  BY <1>1 DEF WorkState, Backed
<1>3. worker' = [worker EXCEPT ![w] = v]
  OBVIOUS
<1> HIDE DEF v
<1> QED BY <1>2, <1>3, WorkerMoves

LEMMA AfterReportTyped ==
  ASSUME TypeOK, NEW w \in Workers, worker[w].at = "report", AfterReport(w)
  PROVE  /\ worker' \in [Workers -> WorkState \cup {IdleWorker}]
         /\ \A x \in Workers : Backed(worker'[x])
<1>1. CASE Refreshing(w)
  BY <1>1, WorkerGoesOn DEF AfterReport, Refreshing
<1>2. CASE ~Refreshing(w)
  BY <1>2, WorkerMoves, IdleBacked DEF AfterReport
<1> QED BY <1>1, <1>2

\* What is written to the row of an account.
LEMMA AccountMoves ==
  ASSUME TypeOK, NEW a \in Accounts, NEW c \in AccountRow, account' = [account EXCEPT ![a] = c]
  PROVE  account' \in [Accounts -> AccountRow]
  BY DEF TypeOK

LEMMA RowsTyped ==
  ASSUME NEW c \in AccountRow, now \in Times
  PROVE  /\ \A exp \in Times : RefreshSuccess(c, exp) \in AccountRow
         /\ \A answer : Verdict(c, answer) \in AccountRow
         /\ \A r \in Logins, exp \in Times : Attached(c, r, exp) \in AccountRow
<1>1. ASSUME NEW h \in Healths, NEW st \in {"none", "valid", "expiring", "expired", "revoked"}
      PROVE  [c EXCEPT !.health = h, !.status = st] \in AccountRow
  BY DEF AccountRow
<1>2. ASSUME NEW exp \in Times PROVE RefreshSuccess(c, exp) \in AccountRow
  <2>1. PICK h \in Healths : h = IF c.health \in {"degraded", "unknown"} THEN "healthy"
                                ELSE c.health
    BY DEF AccountRow, Healths
  <2>2. [c EXCEPT !.status = "valid", !.expires = exp, !.attempted = now, !.failures = 0,
                  !.health = h] \in AccountRow
    BY DEF AccountRow
  <2> QED BY <2>1, <2>2 DEF RefreshSuccess
<1>3. ASSUME NEW r \in Logins, NEW exp \in Times PROVE Attached(c, r, exp) \in AccountRow
  <2>1. PICK h \in Healths :
          h = IF c.health \in {"token_dead", "checkpoint_required", "unknown", "degraded"}
              THEN "healthy" ELSE c.health
    BY DEF AccountRow, Healths
  <2>2. [c EXCEPT !.ref = r, !.status = "valid", !.expires = exp, !.attempted = Never,
                  !.failures = 0, !.health = h] \in AccountRow
    BY DEF AccountRow
  <2> QED BY <2>1, <2>2 DEF Attached
<1>4. ASSUME NEW answer PROVE Verdict(c, answer) \in AccountRow
  <2>1. CASE answer = "checkpoint"
    <3>1. PICK st \in {"none", "valid", "expiring", "expired", "revoked"} :
            st = IF c.status = "none" THEN "valid" ELSE c.status
      BY DEF AccountRow
    <3>2. "checkpoint_required" \in Healths
      BY DEF Healths
    <3> QED BY <1>1, <2>1, <3>1, <3>2 DEF Verdict
  <2>2. CASE answer = "dead"
    BY <1>1, <2>2 DEF Verdict, Healths
  <2>3. CASE answer # "checkpoint" /\ answer # "dead"
    <3>1. c.failures \in Nat
      BY DEF AccountRow
    <3>2. PICK n \in Nat : n = c.failures + 1
      BY <3>1
    <3>3. [c EXCEPT !.failures = n, !.attempted = now] \in AccountRow
      BY DEF AccountRow
    <3> QED BY <2>3, <3>2, <3>3 DEF Verdict
  <2> QED BY <2>1, <2>2, <2>3
<1> QED BY <1>2, <1>3, <1>4

LEMMA RotateTyped ==
  ASSUME SessionAssumption, TypeOK, NEW w \in Workers, RotateToken(w) \/ RotateFails(w)
  PROVE  TypeOK'
<1> DEFINE a == worker[w].task[1]
           r == worker[w].row
           t == worker[w].token
<1>1. worker[w] \in WorkState /\ worker[w].at = "persist"
  BY BusyTyped DEF RotateToken, RotateFails
<1>2. a \in Accounts /\ r \in Logins /\ t \in Tokens /\ t.exp \in Times /\ now \in Times
      /\ NoToken \in Tokens /\ worker[w].task \in Keys
  <2>1. worker[w].task \in Keys /\ r # NoRow
    BY <1>1 DEF TypeOK, Backed
  <2> QED BY <1>1, <2>1, NowTyped DEF WorkState, Keys, TypeOK, Tokens
<1>3. job' \in [Keys -> JobRow] /\ UNCHANGED <<sweep, swept, login, gen, challenged, clockVars>>
  BY DEF RotateToken, RotateFails, TypeOK
<1>4. CASE /\ vault' = [vault EXCEPT ![a][r] = t]
           /\ account' = [account EXCEPT ![a] = RefreshSuccess(@, t.exp)]
           /\ cache' = [cache EXCEPT ![w][a][r] = NoToken]
           /\ worker' = [worker EXCEPT ![w].at = "settle"]
           /\ UNCHANGED boundVars
  <2>1. vault' \in [Accounts -> [Logins -> Tokens]]
    BY <1>2, <1>4 DEF TypeOK
  <2>2. cache' \in [Workers -> [Accounts -> [Logins -> Tokens]]]
    BY <1>2, <1>4 DEF TypeOK
  <2>3. account' \in [Accounts -> AccountRow]
    <3>1. account[a] \in AccountRow
      BY <1>2 DEF TypeOK
    <3>2. RefreshSuccess(account[a], t.exp) \in AccountRow
      BY <1>2, <3>1, RowsTyped
    <3> QED BY <1>2, <1>4, <3>2, AccountMoves
  <2>4. /\ worker' \in [Workers -> WorkState \cup {IdleWorker}]
        /\ \A x \in Workers : Backed(worker'[x])
    BY <1>1, <1>2, <1>4, WorkerGoesOn
  <2> QED BY <1>3, <1>4, <2>1, <2>2, <2>3, <2>4, RestTyped DEF TypeOK, boundVars
<1>5. CASE /\ Answer(w, "retryable", "report")
           /\ UNCHANGED <<account, vault, cache>>
           /\ UNCHANGED boundVars \/ Fault
  <2>1. /\ worker' \in [Workers -> WorkState \cup {IdleWorker}]
        /\ \A x \in Workers : Backed(worker'[x])
    BY <1>1, <1>5, AnswerTyped
  <2>2. logins' \in 0 .. MaxLogins /\ events' \in 0 .. MaxEvents /\ faults' \in 0 .. MaxFaults
    BY <1>5, FaultTyped DEF TypeOK, boundVars
  <2>3. /\ account' \in [Accounts -> AccountRow] /\ vault' \in [Accounts -> [Logins -> Tokens]]
        /\ cache' \in [Workers -> [Accounts -> [Logins -> Tokens]]]
    BY <1>5 DEF TypeOK
  <2> QED BY <1>3, <2>1, <2>2, <2>3, RestTyped
<1> QED BY <1>4, <1>5 DEF RotateToken, RotateFails

LEMMA ReportTyped ==
  ASSUME SessionAssumption, TypeOK, NEW w \in Workers, Report(w) \/ ReportFails(w)
  PROVE  TypeOK'
<1> DEFINE a == worker[w].task[1]
<1>1. worker[w] \in WorkState /\ worker[w].at = "report" /\ AfterReport(w)
  BY BusyTyped DEF Report, ReportFails
<1>2. a \in Accounts /\ now \in Times
  BY <1>1, NowTyped DEF WorkState, Keys, Ordinary, TypeOK
<1>3. /\ worker' \in [Workers -> WorkState \cup {IdleWorker}]
      /\ \A x \in Workers : Backed(worker'[x])
  BY <1>1, AfterReportTyped
<1>4. account' \in [Accounts -> AccountRow]
  <2>1. CASE account' = [account EXCEPT ![a] = Verdict(@, worker[w].answer)]
    <3>1. account[a] \in AccountRow
      BY <1>2 DEF TypeOK
    <3>2. Verdict(account[a], worker[w].answer) \in AccountRow
      BY <1>2, <3>1, RowsTyped
    <3> QED BY <1>2, <2>1, <3>2, AccountMoves
  <2>2. CASE UNCHANGED account
    BY <2>2 DEF TypeOK
  <2> QED BY <2>1, <2>2 DEF Report, ReportFails
<1>5. logins' \in 0 .. MaxLogins /\ events' \in 0 .. MaxEvents /\ faults' \in 0 .. MaxFaults
  BY FaultTyped DEF Report, ReportFails, TypeOK, boundVars
<1>6. /\ vault' \in [Accounts -> [Logins -> Tokens]] /\ job' \in [Keys -> JobRow]
      /\ cache' \in [Workers -> [Accounts -> [Logins -> Tokens]]]
      /\ UNCHANGED <<sweep, swept, login, gen, challenged, clockVars>>
  BY DEF Report, ReportFails, TypeOK
<1> QED BY <1>3, <1>4, <1>5, <1>6, RestTyped

LEMMA SettleTyped ==
  ASSUME SessionAssumption, TypeOK, NEW w \in Workers, Settle(w)
  PROVE  TypeOK'
<1>1. worker[w].task \in Keys
  BY DEF Settle, TypeOK, Backed
<1>2. job' \in [Keys -> JobRow]
  <2> DEFINE k == worker[w].task
  <2>1. PICK st \in {"succeeded", "queued", "failed"} :
          job' = [job EXCEPT ![k] = [state |-> st, tries |-> @.tries + 1]]
    BY DEF Settle
  <2>2. job[k].tries + 1 \in Nat
    BY <1>1 DEF TypeOK, JobRow
  <2>3. PICK n \in Nat : n = job[k].tries + 1
    BY <2>2
  <2>4. job' = [job EXCEPT ![k] = [state |-> st, tries |-> n]]
    BY <2>1, <2>3
  <2> QED BY <1>1, <2>4, JobMoves
<1>3. /\ worker' \in [Workers -> WorkState \cup {IdleWorker}]
      /\ \A x \in Workers : Backed(worker'[x])
  BY WorkerMoves, IdleBacked DEF Settle
<1> QED BY <1>2, <1>3, RestTyped DEF Settle, TypeOK, boundVars

LEMMA CrashTyped ==
  ASSUME SessionAssumption, TypeOK, NEW w \in Workers, WorkerCrashes(w)
  PROVE  TypeOK'
<1>1. job' \in [Keys -> JobRow]
  <2>1. CASE UNCHANGED job
    BY <2>1 DEF TypeOK
  <2>2. CASE Refreshing(w) /\ \E fate \in {"queued", "stuck"} :
                                job' = [job EXCEPT ![worker[w].task].state = fate]
    BY <2>2, JobMarked DEF Refreshing
  <2> QED BY <2>1, <2>2 DEF WorkerCrashes
<1>2. /\ worker' \in [Workers -> WorkState \cup {IdleWorker}]
      /\ \A x \in Workers : Backed(worker'[x])
  BY WorkerMoves, IdleBacked DEF WorkerCrashes
<1>3. NoCache \in [Accounts -> [Logins -> Tokens]]
  BY NowTyped DEF NoCache, TypeOK
<1>4. cache' \in [Workers -> [Accounts -> [Logins -> Tokens]]]
  BY <1>3 DEF WorkerCrashes, TypeOK
<1>5. logins' \in 0 .. MaxLogins /\ events' \in 0 .. MaxEvents /\ faults' \in 0 .. MaxFaults
  BY FaultTyped DEF WorkerCrashes
<1>6. /\ account' \in [Accounts -> AccountRow] /\ vault' \in [Accounts -> [Logins -> Tokens]]
      /\ UNCHANGED <<sweep, swept, login, gen, challenged, clockVars>>
  BY DEF WorkerCrashes, TypeOK
<1> QED BY <1>1, <1>2, <1>4, <1>5, <1>6, RestTyped

LEMMA WorkerTyped ==
  ASSUME SessionAssumption, TypeOK, NEW w \in Workers,
         \/ \E k \in Keys : TakeRefresh(w, k)
         \/ \E t \in Ordinary : TakeOperation(w, t)
         \/ \E a \in Accounts : CacheEvicts(w, a)
         \/ Call(w) \/ RotateToken(w) \/ RotateFails(w) \/ Report(w) \/ ReportFails(w)
         \/ Settle(w) \/ WorkerCrashes(w)
  PROVE  TypeOK'
<1>1. ASSUME NEW k \in Keys, TakeRefresh(w, k) PROVE TypeOK'
  BY <1>1, JobMarked, TakeTyped DEF TakeRefresh
<1>2. ASSUME NEW t \in Ordinary, TakeOperation(w, t) PROVE TypeOK'
  BY <1>2, TakeTyped DEF TakeOperation, TypeOK
<1>3. ASSUME NEW a \in Accounts, CacheEvicts(w, a) PROVE TypeOK'
  <2>1. cache' \in [Workers -> [Accounts -> [Logins -> Tokens]]]
    BY <1>3, NowTyped DEF CacheEvicts, TypeOK
  <2> QED BY <1>3, <2>1, RestTyped DEF CacheEvicts, TypeOK, boundVars
<1> QED BY <1>1, <1>2, <1>3, CallTyped, RotateTyped, ReportTyped, SettleTyped, CrashTyped
-----------------------------------------------------------------------------
(* The logins, the platform and the clock.                                 *)

\* A login that moves to a well-typed state leaves the others as they are.
LEMMA LoginMoves ==
  ASSUME TypeOK, NEW l \in Logins, NEW v \in LoginState \cup {IdleLogin},
         login' = [login EXCEPT ![l] = v], v.at = "attach" => v.row # NoRow
  PROVE  /\ login' \in [Logins -> LoginState \cup {IdleLogin}]
         /\ \A x \in Logins : login'[x].at = "attach" => login'[x].row # NoRow
<1>1. /\ \A x \in Logins : login[x].at = "attach" => login[x].row # NoRow
      /\ login \in [Logins -> LoginState \cup {IdleLogin}]
  BY DEF TypeOK
<1>2. \A x \in Logins : login'[x] = IF x = l THEN v ELSE login[x]
  BY <1>1
<1> QED BY <1>1, <1>2

LEMMA LoginTyped ==
  ASSUME SessionAssumption, TypeOK, NEW l \in Logins,
         \/ \E a \in Accounts : Exchange(l, a)
         \/ Store(l) \/ Attach(l) \/ LoginAborts(l)
  PROVE  TypeOK'
<1>1. ASSUME NEW a \in Accounts, Exchange(l, a) PROVE TypeOK'
  <2> DEFINE v == [at |-> "store", of |-> a, row |-> account[a].ref, token |-> NewToken(a)]
  <2>1. NewToken(a) \in Tokens /\ account[a].ref \in Logins \cup {NoRow}
    BY NowTyped DEF NewToken, Tokens, TypeOK, AccountRow
  <2>2. v \in LoginState /\ v.at # "attach"
    BY <2>1 DEF LoginState
  <2>3. login' = [login EXCEPT ![l] = v]
    BY <1>1 DEF Exchange
  <2> HIDE DEF v
  <2>4. /\ login' \in [Logins -> LoginState \cup {IdleLogin}]
        /\ \A x \in Logins : login'[x].at = "attach" => login'[x].row # NoRow
    BY <2>2, <2>3, LoginMoves
  <2>5. logins' \in 0 .. MaxLogins /\ events' \in 0 .. MaxEvents /\ faults' \in 0 .. MaxFaults
    BY <1>1 DEF Exchange, TypeOK, SessionAssumption
  <2> QED BY <1>1, <2>4, <2>5 DEF Exchange, TypeOK, clockVars
<1>2. CASE Store(l)
  <2> DEFINE r == IF login[l].row # NoRow THEN login[l].row ELSE l
             v == [login[l] EXCEPT !.at = "attach", !.row = r]
  <2>1. login[l] \in LoginState
    BY <1>2, BusyTyped DEF Store
  <2>2. r \in Logins /\ r # NoRow
    BY <2>1 DEF LoginState, SessionAssumption
  <2>3. login' = [login EXCEPT ![l] = v]
    BY <1>2, <2>1 DEF Store, LoginState
  <2>4. vault' = [vault EXCEPT ![login[l].of][r] = login[l].token]
    BY <1>2 DEF Store
  <2> HIDE DEF r
  <2>5. v \in LoginState /\ v.row # NoRow
    BY <2>1, <2>2 DEF LoginState
  <2> HIDE DEF v
  <2>6. /\ login' \in [Logins -> LoginState \cup {IdleLogin}]
        /\ \A x \in Logins : login'[x].at = "attach" => login'[x].row # NoRow
    BY <2>3, <2>5, LoginMoves
  <2>7. vault' \in [Accounts -> [Logins -> Tokens]]
    BY <2>1, <2>2, <2>4 DEF LoginState, TypeOK
  <2> QED BY <1>2, <2>6, <2>7 DEF Store, TypeOK, clockVars, boundVars
<1>3. \* what is left has the login go back to rest
      ASSUME login' = [login EXCEPT ![l] = IdleLogin]
      PROVE  /\ login' \in [Logins -> LoginState \cup {IdleLogin}]
             /\ \A x \in Logins : login'[x].at = "attach" => login'[x].row # NoRow
  <2>1. IdleLogin.at # "attach"
    BY DEF IdleLogin
  <2> QED BY <1>3, <2>1, LoginMoves
<1>4. CASE Attach(l)
  <2> DEFINE a == login[l].of
  <2>1. login[l] \in LoginState /\ login[l].row # NoRow
    BY <1>4, BusyTyped DEF Attach, TypeOK
  <2>2. a \in Accounts /\ login[l].row \in Logins /\ login[l].token.exp \in Times /\ now \in Times
    BY <2>1, NowTyped DEF LoginState, Tokens, TypeOK
  <2>3. account[a] \in AccountRow
    BY <2>2 DEF TypeOK
  <2>4. Attached(account[a], login[l].row, login[l].token.exp) \in AccountRow
    BY <2>2, <2>3, RowsTyped
  <2>5. account' \in [Accounts -> AccountRow]
    BY <1>4, <2>2, <2>4, AccountMoves DEF Attach
  <2> QED BY <1>3, <1>4, <2>5 DEF Attach, TypeOK, clockVars, boundVars
<1>5. CASE LoginAborts(l)
  BY <1>3, <1>5, FaultTyped DEF LoginAborts, TypeOK, clockVars
<1> QED BY <1>1, <1>2, <1>4, <1>5

LEMMA OutsideTyped ==
  ASSUME SessionAssumption, TypeOK,
         (\E a \in Accounts : Revoke(a) \/ Challenge(a) \/ UpdateStatus(a)) \/ Tick
  PROVE  TypeOK'
<1>1. ASSUME NEW a \in Accounts, Revoke(a) PROVE TypeOK'
  BY <1>1, EventTyped DEF Revoke, TypeOK, clockVars
<1>2. ASSUME NEW a \in Accounts, Challenge(a) PROVE TypeOK'
  BY <1>2, EventTyped DEF Challenge, TypeOK, clockVars
<1>3. ASSUME NEW a \in Accounts, UpdateStatus(a) PROVE TypeOK'
  <2>1. account[a] \in AccountRow
    BY DEF TypeOK
  <2>2. PICK h \in OperatorSets \cup {account[a].health}, b \in BOOLEAN :
          account' = [account EXCEPT ![a].health = h, ![a].blocked = b]
    BY <1>3 DEF UpdateStatus
  <2>3. h \in Healths
    BY <2>1 DEF AccountRow, SessionAssumption
  <2>4. account' \in [Accounts -> AccountRow]
    <3>1. [account[a] EXCEPT !.health = h, !.blocked = b] \in AccountRow
      BY <2>1, <2>3 DEF AccountRow
    <3>2. account' = [account EXCEPT ![a] = [account[a] EXCEPT !.health = h, !.blocked = b]]
      BY <2>1, <2>2 DEF AccountRow, TypeOK
    <3> QED BY <3>1, <3>2, AccountMoves
  <2> QED BY <1>3, <2>4, EventTyped DEF UpdateStatus, TypeOK, clockVars
<1>4. CASE Tick
  <2>1. NoCache \in [Accounts -> [Logins -> Tokens]]
    BY NowTyped DEF NoCache, TypeOK
  <2>2. cache' \in [Workers -> [Accounts -> [Logins -> Tokens]]]
    BY <1>4, <2>1 DEF Tick
  <2>3. now' \in 0 .. Horizon /\ late' \in 0 .. MaxLate /\ swept' \subseteq Sweepers
    BY <1>4 DEF Tick, TypeOK, SessionAssumption
  <2> QED BY <1>4, <2>2, <2>3 DEF Tick, TypeOK, boundVars
<1> QED BY <1>1, <1>2, <1>3, <1>4

\* Every variable keeps its type, whatever the processes do and in whatever order.
THEOREM TypeCorrect == Spec => []TypeOK
<1> USE SessionAssumption
<1>1. TypeOK /\ [Next]_vars => TypeOK'
  <2> SUFFICES ASSUME TypeOK, [Next]_vars PROVE TypeOK'
    OBVIOUS
  <2>1. CASE UNCHANGED vars
    BY <2>1 DEF TypeOK, vars, clockVars, boundVars
  <2>2. CASE Next
    BY <2>2, SweeperTyped, WorkerTyped, LoginTyped, OutsideTyped DEF Next
  <2> QED BY <2>1, <2>2
<1> QED BY <1>1, InitTyped, PTL DEF Spec
-----------------------------------------------------------------------------
(* Who restores an account.                                                *)

Restored(a) == NeedsHuman(account[a]) /\ ~NeedsHuman(account'[a])

\* A step that writes one row restores no other account.
LEMMA OthersKept ==
  ASSUME TypeOK, NEW b \in Accounts, NEW c, account' = [account EXCEPT ![b] = c],
         NEW a \in Accounts, Restored(a)
  PROVE  a = b /\ NeedsHuman(account[b]) /\ ~NeedsHuman(c)
<1>1. account'[a] = IF a = b THEN c ELSE account[a]
  BY DEF TypeOK
<1> QED BY <1>1 DEF Restored

\* Neither a refresh that works nor the verdict on one that fails restores a session.
LEMMA WritesKeep ==
  ASSUME NEW c \in AccountRow, NeedsHuman(c)
  PROVE  /\ \A exp : NeedsHuman(RefreshSuccess(c, exp))
         /\ \A answer : NeedsHuman(Verdict(c, answer))
         /\ \A t : NeedsHuman([c EXCEPT !.attempted = t])
         /\ \A st : NeedsHuman([c EXCEPT !.status = st])
<1>1. c.health \in {"token_dead", "checkpoint_required"}
  BY DEF NeedsHuman
<1>2. ASSUME NEW exp PROVE NeedsHuman(RefreshSuccess(c, exp))
  BY <1>1 DEF NeedsHuman, RefreshSuccess, AccountRow
<1>3. ASSUME NEW answer PROVE NeedsHuman(Verdict(c, answer))
  BY <1>1 DEF NeedsHuman, Verdict, AccountRow
<1>4. ASSUME NEW t PROVE NeedsHuman([c EXCEPT !.attempted = t])
  BY <1>1 DEF NeedsHuman, AccountRow
<1>5. ASSUME NEW st PROVE NeedsHuman([c EXCEPT !.status = st])
  BY <1>1 DEF NeedsHuman, AccountRow
<1> QED BY <1>2, <1>3, <1>4, <1>5

\* No sweeper restores an account.
LEMMA SweepersKeep ==
  ASSUME TypeOK, NEW s \in Sweepers, NEW a \in Accounts,
         \/ Reconcile(s) \/ Select(s) \/ EndSweep(s) \/ SweepAborts(s)
         \/ \E k \in Keys : Create(s, k) \/ Skip(s, k) \/ Enqueue(s, k) \/ MarkAttempted(s, k)
  PROVE  ~Restored(a)
<1>1. account[a] \in AccountRow
  BY DEF TypeOK
<1>2. CASE Reconcile(s)
  <2>1. account'[a] = account[a] \/ \E st : account'[a] = [account[a] EXCEPT !.status = st]
    BY <1>2 DEF Reconcile
  <2> QED BY <1>1, <2>1, WritesKeep DEF Restored
<1>3. ASSUME NEW k \in Keys, MarkAttempted(s, k) PROVE ~Restored(a)
  <2>1. k[1] \in Accounts
    BY DEF Keys
  <2>2. account' = [account EXCEPT ![k[1]] = [account[k[1]] EXCEPT !.attempted = now]]
    BY <1>3 DEF MarkAttempted
  <2>3. account[k[1]] \in AccountRow
    BY <2>1 DEF TypeOK
  <2> QED BY <2>1, <2>2, <2>3, OthersKept, WritesKeep
<1>4. CASE UNCHANGED account
  BY <1>4 DEF Restored
<1> QED BY <1>2, <1>3, <1>4 DEF Select, EndSweep, SweepAborts, Create, Skip, Enqueue

\* No worker restores an account.
LEMMA WorkersKeep ==
  ASSUME TypeOK, NEW w \in Workers, NEW a \in Accounts,
         \/ \E k \in Keys : TakeRefresh(w, k)
         \/ \E t \in Ordinary : TakeOperation(w, t)
         \/ \E b \in Accounts : CacheEvicts(w, b)
         \/ Call(w) \/ RotateToken(w) \/ RotateFails(w) \/ Report(w) \/ ReportFails(w)
         \/ Settle(w) \/ WorkerCrashes(w)
  PROVE  ~Restored(a)
<1> DEFINE b == worker[w].task[1]
<1>1. worker[w].at \in {"persist", "report"} => b \in Accounts /\ account[b] \in AccountRow
  <2>1. worker[w].at \in {"persist", "report"} => worker[w] \in WorkState
    BY BusyTyped
  <2> QED BY <2>1 DEF WorkState, Keys, Ordinary, TypeOK
<1>2. CASE RotateToken(w)
  <2>1. \/ UNCHANGED account
        \/ account' = [account EXCEPT ![b] = RefreshSuccess(account[b], worker[w].token.exp)]
    BY <1>2 DEF RotateToken
  <2>2. worker[w].at = "persist"
    BY <1>2 DEF RotateToken
  <2> HIDE DEF b
  <2> QED BY <1>1, <2>1, <2>2, OthersKept, WritesKeep DEF Restored
<1>3. CASE Report(w)
  <2>1. account' = [account EXCEPT ![b] = Verdict(account[b], worker[w].answer)]
        /\ worker[w].at = "report"
    BY <1>3 DEF Report
  <2> HIDE DEF b
  <2>2. PICK c : c = Verdict(account[b], worker[w].answer)
    OBVIOUS
  <2>3. NeedsHuman(account[b]) => NeedsHuman(c)
    BY <1>1, <2>1, <2>2, WritesKeep
  <2> QED BY <1>1, <2>1, <2>2, <2>3, OthersKept
<1>4. CASE UNCHANGED account
  BY <1>4 DEF Restored
<1> QED BY <1>2, <1>3, <1>4
        DEF TakeRefresh, TakeOperation, Take, CacheEvicts, Call, RotateFails, ReportFails, Settle,
            WorkerCrashes

\* An account whose token is dead, or that must pass a verification, is restored
\* by an operator or by a login of its own, never by a refresh under way.
THEOREM OnlyHumansReviveAlways == Spec => OnlyHumansRevive
<1> DEFINE ByHuman(a) == UpdateStatus(a) \/ \E l \in Logins : login[l].of = a /\ Attach(l)
           Step == \A a \in Accounts : Restored(a) => ByHuman(a)
<1>1. TypeOK /\ Next => Step
  <2> SUFFICES ASSUME TypeOK, Next, NEW a \in Accounts, Restored(a) PROVE ByHuman(a)
    OBVIOUS
  <2>1. ASSUME NEW l \in Logins, Attach(l) PROVE ByHuman(a)
    <3>1. login[l] \in LoginState
      BY <2>1, BusyTyped DEF Attach
    <3>2. PICK b \in Accounts : b = login[l].of
      BY <3>1 DEF LoginState
    <3>3. PICK c : account' = [account EXCEPT ![b] = c]
      BY <2>1, <3>2 DEF Attach
    <3>4. a = b
      BY <3>3, OthersKept
    <3> QED BY <2>1, <3>2, <3>4
  <2>2. ASSUME NEW b \in Accounts, UpdateStatus(b) PROVE ByHuman(a)
    <3>1. \E c : account' = [account EXCEPT ![b] = c]
      <4>1. PICK h, v : account' = [account EXCEPT ![b].health = h, ![b].blocked = v]
        BY <2>2 DEF UpdateStatus
      <4>2. account[b] \in AccountRow
        BY DEF TypeOK
      <4>3. account' = [account EXCEPT ![b] = [account[b] EXCEPT !.health = h, !.blocked = v]]
        BY <4>1, <4>2 DEF AccountRow, TypeOK
      <4> QED BY <4>3
    <3>2. a = b
      BY <3>1, OthersKept
    <3> QED BY <2>2, <3>2
  <2>3. CASE UNCHANGED account
    BY <2>3 DEF Restored
  <2> QED
    BY <2>1, <2>2, <2>3, SweepersKeep, WorkersKeep
       DEF Next, Exchange, Store, LoginAborts, Revoke, Challenge, Tick
<1>2. TypeOK /\ [Next]_vars => [Step]_vars
  BY <1>1
<1>3. Step => (\A a \in Accounts : NeedsHuman(account[a]) /\ ~NeedsHuman(account'[a]) =>
                 UpdateStatus(a) \/ \E l \in Logins : login[l].of = a /\ Attach(l))
  BY DEF Restored
<1> HIDE DEF Step
<1> QED BY <1>2, <1>3, TypeCorrect, PTL DEF Spec, OnlyHumansRevive
-----------------------------------------------------------------------------
(* The expiry of a session.                                                *)

\* A token issued in this interval.
Issued(t) == t.exp = now + Life

\* While every interval's work is done within it, whatever is about to be
\* persisted or attached was issued in this interval, and no later write
\* shortens the life of what a login has stored.
Punctual ==
  late = 0 =>
    /\ \A w \in Workers : worker[w].at = "persist" => Issued(worker[w].token)
    /\ \A l \in Logins : login[l].at # "idle" => Issued(login[l].token)
    /\ \A l \in Logins : login[l].at = "attach" => Issued(vault[login[l].of][login[l].row])
    /\ \A a \in Accounts, r \in Logins : vault[a][r].exp <= now + Life
    /\ \A a \in Accounts :
         account[a].ref # NoRow => account[a].expires <= vault[a][account[a].ref].exp

\* A step that writes no token, moves no expiry and lets no login go on.
LEMMA StillPunctual ==
  ASSUME Punctual, UNCHANGED <<vault, now, late>>,
         \A a \in Accounts : /\ account'[a].ref = account[a].ref
                             /\ account'[a].expires = account[a].expires,
         \A w \in Workers : worker'[w].at = "persist" =>
                              worker'[w] = worker[w] \/ Issued(worker'[w].token),
         \A l \in Logins : login'[l].at # "idle" => login'[l] = login[l]
  PROVE  Punctual'
  BY DEF Punctual, Issued

\* The sweepers only mark accounts, and so do the operators.
LEMMA MarkersPunctual ==
  ASSUME TypeOK, Punctual,
         \/ \E s \in Sweepers :
              \/ Reconcile(s) \/ Select(s) \/ EndSweep(s) \/ SweepAborts(s)
              \/ \E k \in Keys : Create(s, k) \/ Skip(s, k) \/ Enqueue(s, k) \/ MarkAttempted(s, k)
         \/ \E a \in Accounts : Revoke(a) \/ Challenge(a) \/ UpdateStatus(a)
  PROVE  Punctual'
<1>1. UNCHANGED <<vault, now, late, worker, login>>
  BY DEF Reconcile, Select, EndSweep, SweepAborts, Create, Skip, Enqueue, MarkAttempted, Revoke,
         Challenge, UpdateStatus, clockVars
<1>2. \A a \in Accounts : account[a] \in AccountRow
  BY DEF TypeOK
<1>3. \A a \in Accounts : /\ account'[a].ref = account[a].ref
                          /\ account'[a].expires = account[a].expires
  <2>1. ASSUME NEW s \in Sweepers, Reconcile(s), NEW a \in Accounts
        PROVE  /\ account'[a].ref = account[a].ref
               /\ account'[a].expires = account[a].expires
    <3>1. account'[a] = account[a] \/ \E st : account'[a] = [account[a] EXCEPT !.status = st]
      BY <2>1 DEF Reconcile
    <3> QED BY <1>2, <3>1 DEF AccountRow
  <2>2. ASSUME NEW s \in Sweepers, NEW k \in Keys, MarkAttempted(s, k), NEW a \in Accounts
        PROVE  /\ account'[a].ref = account[a].ref
               /\ account'[a].expires = account[a].expires
    <3>1. account'[a] = account[a] \/ account'[a] = [account[a] EXCEPT !.attempted = now]
      BY <2>2 DEF MarkAttempted, TypeOK
    <3> QED BY <1>2, <3>1 DEF AccountRow
  <2>3. ASSUME NEW b \in Accounts, UpdateStatus(b), NEW a \in Accounts
        PROVE  /\ account'[a].ref = account[a].ref
               /\ account'[a].expires = account[a].expires
    <3>1. PICK h, v : account' = [account EXCEPT ![b].health = h, ![b].blocked = v]
      BY <2>3 DEF UpdateStatus
    <3>2. account'[a] = account[a] \/ account'[a] = [account[a] EXCEPT !.health = h, !.blocked = v]
      BY <1>2, <3>1 DEF TypeOK, AccountRow
    <3> QED BY <1>2, <3>2 DEF AccountRow
  <2>4. CASE UNCHANGED account
    BY <2>4
  <2> QED BY <2>1, <2>2, <2>3, <2>4
          DEF Select, EndSweep, SweepAborts, Create, Skip, Enqueue, Revoke, Challenge
<1> QED BY <1>1, <1>3, StillPunctual

\* A worker's step moves no clock, no login and no other worker.
LEMMA OtherWorkersStay ==
  ASSUME TypeOK, NEW w \in Workers,
         \/ \E k \in Keys : TakeRefresh(w, k)
         \/ \E t \in Ordinary : TakeOperation(w, t)
         \/ \E a \in Accounts : CacheEvicts(w, a)
         \/ Call(w) \/ RotateToken(w) \/ RotateFails(w) \/ Report(w) \/ ReportFails(w)
         \/ Settle(w) \/ WorkerCrashes(w)
  PROVE  /\ UNCHANGED <<now, late, login>>
         /\ \A x \in Workers \ {w} : worker'[x] = worker[x]
<1>1. UNCHANGED <<now, late, login>>
  BY DEF TakeRefresh, TakeOperation, Take, CacheEvicts, Call, RotateToken, RotateFails, Report,
         ReportFails, Settle, WorkerCrashes, clockVars
<1>2. CASE \E k \in Keys \cup Ordinary : Take(w, k)
  BY <1>1, <1>2 DEF Take, TypeOK
<1>3. CASE (\E b \in Accounts : CacheEvicts(w, b)) \/ Call(w)
  BY <1>1, <1>3 DEF CacheEvicts, Call, Answer, TypeOK
<1>4. CASE \/ RotateToken(w) \/ RotateFails(w) \/ Report(w) \/ ReportFails(w) \/ Settle(w)
           \/ WorkerCrashes(w)
  BY <1>1, <1>4 DEF RotateToken, RotateFails, Report, ReportFails, Settle, WorkerCrashes, Answer,
              AfterReport, TypeOK
<1> QED BY <1>1, <1>2, <1>3, <1>4 DEF TakeRefresh, TakeOperation

\* A worker persists only what it was issued in this interval.
LEMMA WorkersPunctual ==
  ASSUME SessionAssumption, TypeOK, Punctual, NEW w \in Workers,
         \/ \E k \in Keys : TakeRefresh(w, k)
         \/ \E t \in Ordinary : TakeOperation(w, t)
         \/ \E a \in Accounts : CacheEvicts(w, a)
         \/ Call(w) \/ RotateToken(w) \/ RotateFails(w) \/ Report(w) \/ ReportFails(w)
         \/ Settle(w) \/ WorkerCrashes(w)
  PROVE  Punctual'
<1> DEFINE a == worker[w].task[1]
           r == worker[w].row
           t == worker[w].token
<1>1. /\ \A x \in Workers : worker[x] \in WorkState \cup {IdleWorker}
      /\ worker[w].at # "idle" => worker[w] \in WorkState /\ a \in Accounts
  <2>1. worker[w].at # "idle" => worker[w] \in WorkState
    BY BusyTyped
  <2> QED BY <2>1 DEF TypeOK, WorkState, Keys, Ordinary
<1>2. /\ UNCHANGED <<now, late, login>>
      /\ \A x \in Workers \ {w} : worker'[x] = worker[x]
  BY OtherWorkersStay
<1>3. CASE RotateToken(w) /\ account[a].ref = r
  <2>1. /\ worker[w].at = "persist" /\ vault' = [vault EXCEPT ![a][r] = t]
        /\ account' = [account EXCEPT ![a] = RefreshSuccess(@, t.exp)]
        /\ worker' = [worker EXCEPT ![w].at = "settle"]
    BY <1>3 DEF RotateToken
  <2>2. a \in Accounts /\ r \in Logins /\ r # NoRow /\ t.exp \in Int
    <3>1. r # NoRow
      BY <2>1 DEF TypeOK, Backed
    <3> QED BY <1>1, <2>1, <3>1 DEF WorkState, Tokens, Times, SessionAssumption
  <2>3. SUFFICES ASSUME late = 0 PROVE Punctual'
    BY <1>2 DEF Punctual
  <2>4. Issued(t)
    BY <2>1, <2>3 DEF Punctual
  <2>5. \A b \in Accounts, q \in Logins :
          vault'[b][q] = IF b = a /\ q = r THEN t ELSE vault[b][q]
    BY <2>1, <2>2 DEF TypeOK
  <2>6. \A x \in Workers : worker'[x].at = "persist" => x # w
    BY <1>1, <2>1 DEF WorkState, TypeOK
  <2>7. now + Life \in Int
    BY DEF TypeOK, SessionAssumption
  <2>8. ASSUME NEW b \in Accounts, account'[b].ref # NoRow
        PROVE  account'[b].expires <= vault'[b][account'[b].ref].exp
    <3>1. CASE b = a
      <4>1. account[a] \in AccountRow
        BY <2>2 DEF TypeOK
      <4>2. account'[a] = RefreshSuccess(account[a], t.exp)
        BY <2>1, <2>2 DEF TypeOK
      <4>3. account'[a].ref = r /\ account'[a].expires = t.exp
        BY <1>3, <4>1, <4>2 DEF RefreshSuccess, AccountRow
      <4> QED BY <2>2, <2>5, <3>1, <4>3
    <3>2. CASE b # a
      <4>1. account'[b] = account[b] /\ account[b].ref \in Logins \cup {NoRow}
        BY <2>1, <3>2 DEF TypeOK, AccountRow
      <4> QED BY <2>3, <2>5, <2>8, <3>2, <4>1 DEF Punctual
    <3> QED BY <3>1, <3>2
  <2>9. \A l \in Logins : login[l].at = "attach" =>
          login[l].of \in Accounts /\ login[l].row \in Logins
    BY BusyTyped DEF LoginState, TypeOK
  <2> QED BY <1>2, <2>3, <2>4, <2>5, <2>6, <2>7, <2>8, <2>9 DEF Punctual, Issued
<1>4. CASE Report(w)
  <2>1. /\ UNCHANGED vault /\ worker[w].at = "report"
        /\ account' = [account EXCEPT ![a] = Verdict(@, worker[w].answer)]
        /\ worker'[w].at # "persist"
    BY <1>1, <1>4 DEF Report, AfterReport, WorkState, IdleWorker, TypeOK
  <2>2. ASSUME NEW b \in Accounts
        PROVE  account'[b].ref = account[b].ref /\ account'[b].expires = account[b].expires
    <3>1. account[b] \in AccountRow
      BY DEF TypeOK
    <3>2. account'[b] = account[b] \/ account'[b] = Verdict(account[b], worker[w].answer)
      BY <2>1 DEF TypeOK
    <3> QED BY <3>1, <3>2 DEF Verdict, AccountRow
  <2> QED BY <1>2, <2>1, <2>2, StillPunctual
<1>5. CASE Call(w)
  <2>1. /\ UNCHANGED <<vault, account>> /\ worker[w].at = "call"
        /\ \/ worker'[w].at # "persist"
           \/ worker' = [worker EXCEPT ![w].answer = "ok", ![w].at = "persist",
                                       ![w].token = NewToken(a)]
    BY <1>1, <1>5 DEF Call, Answer, WorkState, IdleWorker, TypeOK
  <2>2. worker'[w].at = "persist" => worker'[w].token = NewToken(a)
    BY <1>1, <2>1 DEF WorkState, TypeOK
  <2>3. worker'[w].at = "persist" => Issued(worker'[w].token)
    BY <2>2 DEF NewToken, Issued
  <2> QED BY <1>2, <2>1, <2>3, StillPunctual
<1>6. CASE /\ ~(RotateToken(w) /\ account[a].ref = r)
           /\ ~Report(w) /\ ~Call(w)
  <2>1. UNCHANGED <<vault, account>>
    BY <1>6 DEF TakeRefresh, TakeOperation, Take, CacheEvicts, RotateToken, RotateFails,
                ReportFails, Settle, WorkerCrashes
  <2>2. worker'[w].at = "persist" => worker'[w] = worker[w]
    <3>1. IdleWorker.at = "idle"
      BY DEF IdleWorker
    <3>2. CASE \E k \in Keys \cup Ordinary : Take(w, k)
      BY <3>2 DEF Take, TypeOK
    <3>3. CASE RotateToken(w) \/ RotateFails(w)
      BY <1>1, <1>6, <3>3 DEF RotateToken, RotateFails, Answer, WorkState, TypeOK
    <3>4. CASE ReportFails(w)
      BY <1>1, <3>1, <3>4 DEF ReportFails, AfterReport, WorkState, TypeOK
    <3>5. CASE (\E b \in Accounts : CacheEvicts(w, b)) \/ Settle(w) \/ WorkerCrashes(w)
      BY <3>1, <3>5 DEF CacheEvicts, Settle, WorkerCrashes, TypeOK
    <3> QED BY <1>6, <3>2, <3>3, <3>4, <3>5 DEF TakeRefresh, TakeOperation
  <2> QED BY <1>2, <2>1, <2>2, StillPunctual
<1> QED BY <1>3, <1>4, <1>5, <1>6

\* A login attaches only what it was issued, and stored, in this interval.
LEMMA LoginsPunctual ==
  ASSUME SessionAssumption, TypeOK, Punctual, NEW l \in Logins,
         \/ \E a \in Accounts : Exchange(l, a)
         \/ Store(l) \/ Attach(l) \/ LoginAborts(l)
  PROVE  Punctual'
<1>1. UNCHANGED <<now, late, worker>>
  BY DEF Exchange, Store, Attach, LoginAborts, clockVars
<1>2. SUFFICES ASSUME late = 0 PROVE Punctual'
  BY <1>1 DEF Punctual
<1>3. /\ DOMAIN login = Logins /\ \A x \in Logins : login[x] \in LoginState \cup {IdleLogin}
      /\ \A x \in Logins : login[x].at # "idle" => login[x] \in LoginState
      /\ IdleLogin.at = "idle"
  BY BusyTyped DEF TypeOK, IdleLogin
<1>4. now + Life \in Int
  BY DEF TypeOK, SessionAssumption
<1>5. ASSUME NEW a \in Accounts, Exchange(l, a) PROVE Punctual'
  <2>1. /\ UNCHANGED <<vault, account>>
        /\ login' = [login EXCEPT ![l] = [at |-> "store", of |-> a, row |-> account[a].ref,
                                          token |-> NewToken(a)]]
    BY <1>5 DEF Exchange
  <2>2. /\ \A x \in Logins \ {l} : login'[x] = login[x]
        /\ login'[l].at = "store" /\ login'[l].token.exp = now + Life
    BY <1>3, <2>1 DEF NewToken
  <2> QED BY <1>1, <1>2, <2>1, <2>2 DEF Punctual, Issued
<1>6. CASE Store(l)
  <2> DEFINE a == login[l].of
             r == IF login[l].row # NoRow THEN login[l].row ELSE l
             t == login[l].token
  <2>1. /\ UNCHANGED account /\ login[l].at = "store"
        /\ vault' = [vault EXCEPT ![a][r] = t]
        /\ login' = [login EXCEPT ![l].at = "attach", ![l].row = r]
    BY <1>6 DEF Store
  <2>2. a \in Accounts /\ r \in Logins /\ Issued(t)
    BY <1>2, <1>3, <2>1 DEF LoginState, Punctual
  <2>3. \A b \in Accounts, q \in Logins :
          vault'[b][q] = IF b = a /\ q = r THEN t ELSE vault[b][q]
    BY <2>1, <2>2 DEF TypeOK
  <2>4. /\ \A x \in Logins \ {l} : login'[x] = login[x]
        /\ login'[l].of = a /\ login'[l].row = r /\ login'[l].token = t
    BY <1>3, <2>1 DEF LoginState
  <2>5. \A b \in Accounts, q \in Logins : vault[b][q].exp <= now + Life /\ vault[b][q].exp \in Int
    BY <1>2 DEF Punctual, TypeOK, Tokens, Times, SessionAssumption
  <2> HIDE DEF r
  <2>6. ASSUME NEW b \in Accounts, account[b].ref # NoRow
        PROVE  account[b].expires <= vault'[b][account[b].ref].exp
    <3>1. account[b].ref \in Logins /\ account[b].expires <= vault[b][account[b].ref].exp
      BY <1>2, <2>6 DEF Punctual, TypeOK, AccountRow
    <3>2. account[b].expires \in Int
      BY DEF TypeOK, AccountRow, Times, Never, SessionAssumption
    <3>3. vault[b][account[b].ref].exp <= vault'[b][account[b].ref].exp
      BY <1>4, <2>2, <2>3, <2>5, <3>1 DEF Issued
    <3>4. vault'[b][account[b].ref].exp \in Int
      BY <1>4, <2>2, <2>3, <2>5, <3>1 DEF Issued
    <3> QED BY <2>5, <3>1, <3>2, <3>3, <3>4
  <2>7. ASSUME NEW x \in Logins, login'[x].at = "attach"
        PROVE  vault'[login'[x].of][login'[x].row].exp = now + Life
    <3>1. CASE x = l
      BY <2>2, <2>3, <2>4, <3>1 DEF Issued
    <3>2. CASE x # l
      <4>1. login[x].at = "attach" /\ login[x] \in LoginState /\ login[x].row # NoRow
        BY <1>3, <2>4, <2>7, <3>2 DEF TypeOK
      <4>2. login[x].of \in Accounts /\ login[x].row \in Logins
        BY <4>1 DEF LoginState
      <4> QED BY <1>2, <2>2, <2>3, <2>4, <3>2, <4>1, <4>2 DEF Punctual, Issued
    <3> QED BY <3>1, <3>2
  <2>8. \A x \in Logins : login'[x].at # "idle" => login'[x].token.exp = now + Life
    BY <1>2, <2>2, <2>4 DEF Punctual, Issued
  <2>9. \A b \in Accounts, q \in Logins : vault'[b][q].exp <= now + Life
    BY <1>4, <2>2, <2>3, <2>5 DEF Issued
  <2> QED BY <1>1, <1>2, <2>1, <2>6, <2>7, <2>8, <2>9 DEF Punctual, Issued
<1>7. CASE Attach(l)
  <2> DEFINE a == login[l].of
  <2>1. /\ UNCHANGED vault /\ login[l].at = "attach" /\ login' = [login EXCEPT ![l] = IdleLogin]
        /\ account' = [account EXCEPT ![a] = Attached(@, login[l].row, login[l].token.exp)]
    BY <1>7 DEF Attach
  <2>2. /\ a \in Accounts /\ Issued(login[l].token) /\ Issued(vault[a][login[l].row])
    BY <1>2, <1>3, <2>1 DEF LoginState, Punctual
  <2>3. \A x \in Logins : login'[x].at # "idle" => login'[x] = login[x]
    BY <1>3, <2>1
  <2>4. ASSUME NEW b \in Accounts, account'[b].ref # NoRow
        PROVE  account'[b].expires <= vault[b][account'[b].ref].exp
    <3>1. CASE b = a
      <4>1. account[a] \in AccountRow
        BY <2>2 DEF TypeOK
      <4>2. account'[a] = Attached(account[a], login[l].row, login[l].token.exp)
        BY <2>1, <2>2 DEF TypeOK
      <4>3. account'[a].ref = login[l].row /\ account'[a].expires = login[l].token.exp
        BY <4>1, <4>2 DEF Attached, AccountRow
      <4> QED BY <1>4, <2>2, <3>1, <4>3 DEF Issued
    <3>2. CASE b # a
      BY <1>2, <2>1, <2>4, <3>2 DEF Punctual, TypeOK
    <3> QED BY <3>1, <3>2
  <2> QED BY <1>1, <1>2, <2>1, <2>3, <2>4 DEF Punctual, Issued
<1>8. CASE LoginAborts(l)
  <2>1. /\ UNCHANGED <<vault, account>>
        /\ \A x \in Logins : login'[x].at # "idle" => login'[x] = login[x]
    BY <1>3, <1>8 DEF LoginAborts
  <2> QED BY <1>1, <2>1, StillPunctual
<1> QED BY <1>5, <1>6, <1>7, <1>8

\* The clock moves on, in time, only when nobody is busy.
LEMMA TickPunctual == ASSUME SessionAssumption, TypeOK, Punctual, Tick PROVE Punctual'
<1>1. SUFFICES ASSUME late' = 0 PROVE Punctual'
  BY DEF Punctual
<1>2. late = 0 /\ ~WorkLeft /\ now' = now + 1 /\ UNCHANGED <<account, vault, worker, login>>
  BY <1>1 DEF Tick, TypeOK
<1>3. /\ \A w \in Workers : worker[w].at = "idle"
      /\ \A l \in Logins : login[l].at = "idle"
  BY <1>2 DEF WorkLeft
<1>4. ASSUME NEW a \in Accounts, NEW r \in Logins PROVE vault[a][r].exp <= now + 1 + Life
  <2>1. vault[a][r].exp \in Int /\ now \in Int /\ Life \in Int
    BY DEF TypeOK, Tokens, Times, SessionAssumption
  <2> QED BY <1>2, <2>1 DEF Punctual
<1> QED BY <1>2, <1>3, <1>4 DEF Punctual, Issued

LEMMA PunctualAtFirst == SessionAssumption /\ Init => Punctual
<1> SUFFICES ASSUME SessionAssumption, Init PROVE Punctual
  OBVIOUS
<1>1. \A a \in Accounts : \/ account[a].ref = NoRow
                          \/ account[a].ref \in Logins /\ account[a].expires = Life
  BY DEF Init, NeverLoggedIn, LoggedIn
<1>2. Life \in Nat
  BY DEF SessionAssumption
<1>3. \A a \in Accounts, r \in Logins :
        /\ vault[a][r].exp <= Life
        /\ r = account[a].ref => vault[a][r].exp = Life
  BY <1>2 DEF Init, NoToken
<1> QED BY <1>1, <1>2, <1>3 DEF Init, Punctual, IdleWorker, IdleLogin

LEMMA PunctualInductive ==
  ASSUME SessionAssumption, TypeOK, Punctual, [Next]_vars
  PROVE  Punctual'
<1>1. CASE UNCHANGED vars
  BY <1>1 DEF vars, clockVars, Punctual, Issued
<1> QED BY <1>1, MarkersPunctual, WorkersPunctual, LoginsPunctual, TickPunctual DEF Next

\* While every interval's work is done within it, no session is said to outlast
\* the token in its row, whichever refreshes and logins meet, fail or crash.
THEOREM ExpiryIsNeverOverstated == Spec => []ExpiryNeverOverstated
<1> USE SessionAssumption
<1>1. Punctual => ExpiryNeverOverstated
  BY DEF Punctual, ExpiryNeverOverstated
<1> QED BY <1>1, PunctualAtFirst, PunctualInductive, TypeCorrect, PTL DEF Spec
-----------------------------------------------------------------------------
(* Who kills a session.                                                    *)

\* The token of the account's session is dead, or there is none.
Over(a) == account[a].ref # NoRow => Dead(a, vault[a][account[a].ref])

\* A copy of a token is of the first generation, and has run out exactly if the
\* one in the vault has.
SameToken(a, t) == /\ t.gen = 0
                   /\ account[a].ref # NoRow =>
                        (t.exp <= now <=> vault[a][account[a].ref].exp <= now)

\* What a worker holds is as good as the vault's, and what it reports dead is dead.
WorkerKnows(w) ==
  LET a == worker[w].task[1]
  IN worker[w].at # "idle" =>
       /\ worker[w].row = account[a].ref
       /\ worker[w].at \in {"call", "persist"} => SameToken(a, worker[w].token)
       /\ worker[w].at = "persist" => worker[w].token.exp > now
       /\ worker[w].at = "report" /\ worker[w].answer = "dead" => Over(a)

Undisturbed == late = 0 /\ logins = 0 /\ "token_dead" \notin OperatorSets

Killed ==
  Undisturbed =>
    /\ \A l \in Logins : login[l].at = "idle"
    /\ \A w \in Workers : WorkerKnows(w)
    /\ \A w \in Workers, a \in Accounts, r \in Logins :
         cache[w][a][r] # NoToken => r = account[a].ref /\ SameToken(a, cache[w][a][r])
    /\ \A a \in Accounts, r \in Logins : vault[a][r].gen = 0
    /\ \A a \in Accounts : account[a].health = "token_dead" => Over(a)

\* A step within an interval that keeps dead what is dead and alive what is alive.
LEMMA StillKilled ==
  ASSUME TypeOK, Killed, Undisturbed,
         UNCHANGED <<login, now>>,
         \A a \in Accounts : account'[a].ref = account[a].ref,
         \A a \in Accounts : Over(a) => Over(a)',
         \A a \in Accounts : \A t : SameToken(a, t) => SameToken(a, t)',
         \A a \in Accounts, r \in Logins : vault'[a][r].gen = 0,
         \A w \in Workers : worker'[w] = worker[w] \/ WorkerKnows(w)',
         \A w \in Workers, a \in Accounts, r \in Logins :
           cache'[w][a][r] # NoToken =>
             \/ cache'[w][a][r] = cache[w][a][r]
             \/ r = account[a].ref /\ SameToken(a, cache'[w][a][r]),
         \A a \in Accounts : account'[a].health = "token_dead" =>
                               account[a].health = "token_dead" \/ Over(a)'
  PROVE  Killed'
<1>1. /\ \A l \in Logins : login[l].at = "idle"
      /\ \A w \in Workers : WorkerKnows(w)
      /\ \A w \in Workers, a \in Accounts, r \in Logins :
           cache[w][a][r] # NoToken => r = account[a].ref /\ SameToken(a, cache[w][a][r])
      /\ \A a \in Accounts : account[a].health = "token_dead" => Over(a)
  BY DEF Killed
<1>2. ASSUME NEW w \in Workers, worker'[w] = worker[w] PROVE WorkerKnows(w)'
  <2> DEFINE a == worker[w].task[1]
  <2>1. CASE worker[w].at = "idle"
    BY <1>2, <2>1 DEF WorkerKnows
  <2>2. CASE worker[w].at # "idle"
    <3>1. a \in Accounts
      BY <2>2, BusyTyped DEF WorkState, Keys, Ordinary
    <3>2. /\ worker[w].row = account[a].ref
          /\ worker[w].at \in {"call", "persist"} => SameToken(a, worker[w].token)
          /\ worker[w].at = "persist" => worker[w].token.exp > now
          /\ worker[w].at = "report" /\ worker[w].answer = "dead" => Over(a)
      BY <1>1, <2>2 DEF WorkerKnows
    <3>3. PICK b \in Accounts : b = a
      BY <3>1
    <3>4. /\ worker'[w].task[1] = b /\ account'[b].ref = account[b].ref /\ now' = now
          /\ Over(b) => Over(b)'
          /\ SameToken(b, worker[w].token) => SameToken(b, worker[w].token)'
          /\ worker[w].token' = worker[w].token
      BY <1>2, <3>3
    <3> QED BY <1>2, <3>2, <3>3, <3>4 DEF WorkerKnows
  <2> QED BY <2>1, <2>2
<1> QED BY <1>1, <1>2 DEF Killed

\* What the sweepers, the platform and the operators do kills no session.
LEMMA MarkersKill ==
  ASSUME SessionAssumption, TypeOK, Killed, Undisturbed,
         \/ \E s \in Sweepers :
              \/ Reconcile(s) \/ Select(s) \/ EndSweep(s) \/ SweepAborts(s)
              \/ \E k \in Keys : Create(s, k) \/ Skip(s, k) \/ Enqueue(s, k) \/ MarkAttempted(s, k)
         \/ \E a \in Accounts : Revoke(a) \/ Challenge(a) \/ UpdateStatus(a)
  PROVE  Killed'
<1>1. UNCHANGED <<vault, now, worker, cache, login>>
  BY DEF Reconcile, Select, EndSweep, SweepAborts, Create, Skip, Enqueue, MarkAttempted, Revoke,
         Challenge, UpdateStatus, clockVars
<1>2. \A a \in Accounts : account[a] \in AccountRow
  BY DEF TypeOK
<1>3. \A a \in Accounts : /\ account'[a].ref = account[a].ref
                          /\ account'[a].health = "token_dead" =>
                               account[a].health = "token_dead"
  <2>1. ASSUME NEW s \in Sweepers, Reconcile(s), NEW a \in Accounts
        PROVE  account'[a].ref = account[a].ref /\ account'[a].health = account[a].health
    <3>1. account'[a] = account[a] \/ \E st : account'[a] = [account[a] EXCEPT !.status = st]
      BY <2>1 DEF Reconcile
    <3> QED BY <1>2, <3>1 DEF AccountRow
  <2>2. ASSUME NEW s \in Sweepers, NEW k \in Keys, MarkAttempted(s, k), NEW a \in Accounts
        PROVE  account'[a].ref = account[a].ref /\ account'[a].health = account[a].health
    <3>1. account'[a] = account[a] \/ account'[a] = [account[a] EXCEPT !.attempted = now]
      BY <2>2 DEF MarkAttempted, TypeOK
    <3> QED BY <1>2, <3>1 DEF AccountRow
  <2>3. ASSUME NEW b \in Accounts, UpdateStatus(b), NEW a \in Accounts
        PROVE  /\ account'[a].ref = account[a].ref
               /\ account'[a].health = "token_dead" => account[a].health = "token_dead"
    <3>1. PICK h \in OperatorSets \cup {account[b].health}, v \in BOOLEAN :
            account' = [account EXCEPT ![b].health = h, ![b].blocked = v]
      BY <2>3 DEF UpdateStatus
    <3>2. \/ account'[a] = account[a]
          \/ a = b /\ account'[a] = [account[a] EXCEPT !.health = h, !.blocked = v]
      BY <1>2, <3>1 DEF TypeOK, AccountRow
    <3>3. h = "token_dead" => account[b].health = "token_dead"
      BY DEF Undisturbed
    <3> QED BY <1>2, <3>2, <3>3 DEF AccountRow
  <2>4. CASE UNCHANGED account
    BY <2>4
  <2> QED BY <2>1, <2>2, <2>3, <2>4
          DEF Select, EndSweep, SweepAborts, Create, Skip, Enqueue, Revoke, Challenge
<1>4. \A a \in Accounts : gen'[a] \in Nat /\ gen'[a] >= gen[a]
  <2>1. \A a \in Accounts : gen[a] \in Nat
    BY DEF TypeOK
  <2>2. gen' = gen \/ \E b \in Accounts : gen' = [gen EXCEPT ![b] = @ + 1]
    BY DEF Reconcile, Select, EndSweep, SweepAborts, Create, Skip, Enqueue, MarkAttempted, Revoke,
           Challenge, UpdateStatus
  <2> QED BY <2>1, <2>2 DEF TypeOK
<1>5. \A a \in Accounts : account[a].ref # NoRow => vault[a][account[a].ref] \in Tokens
  BY <1>2 DEF AccountRow, TypeOK
<1>6. \A a \in Accounts : gen[a] \in Nat
  BY DEF TypeOK
<1>7. \A a \in Accounts : Over(a) => Over(a)'
  BY <1>1, <1>3, <1>4, <1>5, <1>6 DEF Over, Dead, Tokens
<1>8. \A a \in Accounts : \A t : SameToken(a, t) => SameToken(a, t)'
  BY <1>1, <1>3 DEF SameToken
<1>9. \A a \in Accounts, r \in Logins : vault'[a][r].gen = 0
  BY <1>1 DEF Killed
<1> QED BY <1>1, <1>3, <1>7, <1>8, <1>9, StillKilled

\* The answer of the platform to a token that is dead is due to the session.
LEMMA WorkersKill ==
  ASSUME SessionAssumption, TypeOK, Killed, Undisturbed, NEW w \in Workers,
         \/ \E k \in Keys : TakeRefresh(w, k)
         \/ \E t \in Ordinary : TakeOperation(w, t)
         \/ \E a \in Accounts : CacheEvicts(w, a)
         \/ Call(w) \/ RotateToken(w) \/ RotateFails(w) \/ Report(w) \/ ReportFails(w)
         \/ Settle(w) \/ WorkerCrashes(w)
  PROVE  Killed'
<1> DEFINE a == worker[w].task[1]
           r == worker[w].row
           t == worker[w].token
<1>1. worker[w].at # "idle" => worker[w] \in WorkState /\ a \in Accounts
  <2>1. worker[w].at # "idle" => worker[w] \in WorkState
    BY BusyTyped
  <2> QED BY <2>1 DEF WorkState, Keys, Ordinary
<1>2. /\ UNCHANGED <<now, late, login, gen>>
      /\ \A x \in Workers \ {w} : worker'[x] = worker[x]
      /\ DOMAIN worker = Workers
  BY OtherWorkersStay
     DEF TakeRefresh, TakeOperation, Take, CacheEvicts, Call, RotateToken, RotateFails, Report,
         ReportFails, Settle, WorkerCrashes, TypeOK
<1>3. /\ WorkerKnows(w)
      /\ \A b \in Accounts, q \in Logins : vault[b][q].gen = 0
      /\ \A b \in Accounts, q \in Logins :
           cache[w][b][q] # NoToken => q = account[b].ref /\ SameToken(b, cache[w][b][q])
  BY DEF Killed
<1>4. \A b \in Accounts : gen[b] \in Nat /\ account[b] \in AccountRow
  BY DEF TypeOK
<1>5. IdleWorker.at = "idle"
  BY DEF IdleWorker
<1>6. \* a step that leaves the rows and the tokens in them alone
      ASSUME UNCHANGED <<account, vault>>,
             worker'[w] = worker[w] \/ WorkerKnows(w)',
             \A x \in Workers, b \in Accounts, q \in Logins :
               cache'[x][b][q] # NoToken =>
                 \/ cache'[x][b][q] = cache[x][b][q]
                 \/ q = account[b].ref /\ SameToken(b, cache'[x][b][q])
      PROVE  Killed'
    <2>1. /\ \A b \in Accounts : Over(b) => Over(b)'
          /\ \A b \in Accounts : \A x : SameToken(b, x) => SameToken(b, x)'
      BY <1>2, <1>6 DEF Over, Dead, SameToken
    <2> QED BY <1>2, <1>3, <1>6, <2>1, StillKilled
<1>7. ASSUME NEW k \in Keys \cup Ordinary, Take(w, k) PROVE Killed'
  <2>1. PICK b \in Accounts : b = k[1]
    BY DEF Keys, Ordinary
  <2>2. PICK q \in Logins \cup {NoRow} : q = account[b].ref
    BY <1>4 DEF AccountRow
  <2>3. PICK x : x = Resolved(w, b)
    OBVIOUS
  <2>4. SameToken(b, x)
    <3>1. CASE q = NoRow
      BY <2>2, <2>3, <3>1 DEF Resolved, SameToken, NoToken
    <3>2. CASE q # NoRow
      <4>1. x = IF cache[w][b][q] # NoToken THEN cache[w][b][q] ELSE vault[b][q]
        BY <2>2, <2>3, <3>2 DEF Resolved
      <4> QED BY <1>3, <2>2, <3>2, <4>1 DEF SameToken
    <3> QED BY <3>1, <3>2
  <2>5. /\ worker'[w] = [at |-> "call", task |-> k, row |-> q, token |-> x, answer |-> "none"]
        /\ UNCHANGED <<account, vault>>
    BY <1>2, <1>7, <2>1, <2>2, <2>3 DEF Take
  <2>6. \A v \in Workers, c \in Accounts, l \in Logins :
          \/ cache'[v][c][l] = cache[v][c][l]
          \/ c = b /\ l = q /\ cache'[v][c][l] = x
    <3>1. CASE q = NoRow
      BY <1>7, <2>1, <2>2, <3>1 DEF Take
    <3>2. CASE q # NoRow
      <4>1. cache' = [cache EXCEPT ![w][b][q] = x]
        BY <1>7, <2>1, <2>2, <2>3, <3>2 DEF Take
      <4> QED BY <3>2, <4>1 DEF TypeOK
    <3> QED BY <3>1, <3>2
  <2>7. SameToken(b, x)' /\ account'[b].ref = q
    BY <1>2, <2>2, <2>4, <2>5 DEF SameToken
  <2>8. WorkerKnows(w)'
    BY <2>1, <2>5, <2>7 DEF WorkerKnows
  <2> QED BY <1>6, <2>2, <2>4, <2>5, <2>6, <2>8
<1>8. CASE Call(w)
  <2>1. PICK b \in Accounts : b = a /\ worker[w].at = "call" /\ worker[w] \in WorkState
    BY <1>1, <1>8 DEF Call
  <2>2. worker[w].row = account[b].ref /\ SameToken(b, t)
    BY <1>3, <2>1 DEF WorkerKnows
  <2>3. UNCHANGED <<account, vault, cache>>
    BY <1>8 DEF Call
  <2>4. CASE worker' = [worker EXCEPT ![w] = IdleWorker]
    <3>1. worker'[w].at = "idle"
      BY <1>2, <1>5, <2>4
    <3> QED BY <1>6, <2>3, <3>1 DEF WorkerKnows
  <2>5. CASE /\ \E v \in {"checkpoint", "retryable", "refused", "dead"} : Answer(w, v, "report")
                  /\ (v = "dead" => Dead(b, t))
    <3>1. PICK v \in {"checkpoint", "retryable", "refused", "dead"} :
            Answer(w, v, "report") /\ (v = "dead" => Dead(b, t))
      BY <2>5
    <3>2. worker'[w] = [worker[w] EXCEPT !.answer = v, !.at = "report"]
      BY <1>2, <2>1, <3>1 DEF Answer, WorkState
    <3>3. /\ worker'[w].at = "report" /\ worker'[w].answer = v /\ worker'[w].row = worker[w].row
          /\ worker'[w].task = worker[w].task
      BY <2>1, <3>2 DEF WorkState
    <3>4. v = "dead" => Over(b)
      <4>1. account[b].ref # NoRow => vault[b][account[b].ref].gen = 0
        BY <1>3, <1>4 DEF AccountRow
      <4> QED BY <1>4, <2>2, <3>1, <4>1 DEF Over, Dead, SameToken
    <3>5. Over(b) => Over(b)'
      BY <1>2, <2>3 DEF Over, Dead
    <3>6. WorkerKnows(w)'
      BY <2>1, <2>2, <2>3, <3>3, <3>4, <3>5 DEF WorkerKnows
    <3> QED BY <1>6, <2>3, <3>6
  <2>6. CASE /\ ~Dead(b, t)
             /\ worker' = [worker EXCEPT ![w].answer = "ok", ![w].at = "persist",
                                         ![w].token = NewToken(b)]
    <3>1. /\ worker'[w].at = "persist" /\ worker'[w].row = worker[w].row
          /\ worker'[w].task = worker[w].task /\ worker'[w].token = NewToken(b)
      BY <1>2, <2>1, <2>6 DEF WorkState
    <3>2. PICK y : y = NewToken(b)
      OBVIOUS
    <3>3. y.gen = 0 /\ y.exp > now
      <4>1. gen[b] = 0
        BY <1>4, <2>2, <2>6 DEF Dead, SameToken
      <4>2. now \in Int /\ Life \in Nat \ {0}
        BY DEF TypeOK, SessionAssumption
      <4> QED BY <3>2, <4>1, <4>2 DEF NewToken
    <3>4. account[b].ref # NoRow => ~(vault[b][account[b].ref].exp <= now)
      BY <2>2, <2>6 DEF Dead, SameToken
    <3>5. y.exp \in Int /\ now \in Int
      BY <3>2 DEF NewToken, TypeOK, SessionAssumption
    <3>6. SameToken(b, y)'
      BY <1>2, <2>3, <3>3, <3>4, <3>5 DEF SameToken
    <3>7. WorkerKnows(w)'
      BY <1>2, <2>1, <2>2, <2>3, <3>1, <3>2, <3>3, <3>6 DEF WorkerKnows
    <3> QED BY <1>6, <2>3, <3>7
  <2> QED BY <1>8, <2>1, <2>4, <2>5, <2>6 DEF Call
<1>9. CASE RotateToken(w) /\ account[a].ref = r
  <2>1. PICK b \in Accounts : b = a /\ worker[w].at = "persist" /\ worker[w] \in WorkState
    BY <1>1, <1>9 DEF RotateToken
  <2>2. r # NoRow /\ r \in Logins
    BY <2>1 DEF TypeOK, Backed, WorkState
  <2>3. PICK q \in Logins : q = r /\ q # NoRow /\ account[b].ref = q
    BY <1>9, <2>1, <2>2
  <2>4. PICK y : y = t
    OBVIOUS
  <2>5. /\ y.gen = 0 /\ y.exp > now /\ y.exp \in Int /\ now \in Int
        /\ ~(vault[b][q].exp <= now) /\ vault[b][q].gen = 0
    BY <1>3, <2>1, <2>3, <2>4 DEF WorkerKnows, SameToken, WorkState, Tokens, Times, TypeOK,
                                  SessionAssumption
  <2>6. /\ vault' = [vault EXCEPT ![b][q] = y]
        /\ account' = [account EXCEPT ![b] = RefreshSuccess(@, y.exp)]
        /\ cache' = [cache EXCEPT ![w][b][q] = NoToken]
        /\ worker' = [worker EXCEPT ![w].at = "settle"]
    BY <1>9, <2>1, <2>3, <2>4 DEF RotateToken
  <2>7. \A c \in Accounts, l \in Logins :
          vault'[c][l] = IF c = b /\ l = q THEN y ELSE vault[c][l]
    BY <2>6 DEF TypeOK
  <2>8. \A c \in Accounts : /\ account'[c].ref = account[c].ref
                            /\ account'[c].health = "token_dead" =>
                                 account[c].health = "token_dead"
    <3>1. \A c \in Accounts : \/ account'[c] = account[c]
                              \/ account'[c] = RefreshSuccess(account[c], y.exp)
      BY <2>6 DEF TypeOK
    <3>2. ASSUME NEW d \in AccountRow
          PROVE  /\ RefreshSuccess(d, y.exp).ref = d.ref
                 /\ RefreshSuccess(d, y.exp).health = "token_dead" => d.health = "token_dead"
      <4>1. RefreshSuccess(d, y.exp).ref = d.ref
        BY DEF RefreshSuccess, AccountRow
      <4>2. RefreshSuccess(d, y.exp).health \in {"healthy", d.health}
        BY DEF RefreshSuccess, AccountRow
      <4> QED BY <4>1, <4>2
    <3> QED BY <1>4, <3>1, <3>2
  <2>9. ASSUME NEW c \in Accounts PROVE Over(c) => Over(c)'
    <3>1. CASE c = b
      BY <1>2, <1>4, <2>3, <2>5, <2>7, <2>8, <3>1 DEF Over, Dead
    <3>2. CASE c # b
      <4>1. account[c].ref # NoRow => vault'[c][account[c].ref] = vault[c][account[c].ref]
        BY <1>4, <2>7, <3>2 DEF AccountRow
      <4> QED BY <1>2, <2>8, <4>1 DEF Over, Dead
    <3> QED BY <3>1, <3>2
  <2>10. ASSUME NEW c \in Accounts, NEW x PROVE SameToken(c, x) => SameToken(c, x)'
    <3>1. CASE c = b
      BY <1>2, <2>3, <2>5, <2>7, <2>8, <3>1 DEF SameToken
    <3>2. CASE c # b
      <4>1. account[c].ref # NoRow => vault'[c][account[c].ref] = vault[c][account[c].ref]
        BY <1>4, <2>7, <3>2 DEF AccountRow
      <4> QED BY <1>2, <2>8, <4>1 DEF SameToken
    <3> QED BY <3>1, <3>2
  <2>11. \A c \in Accounts, l \in Logins : vault'[c][l].gen = 0
    BY <1>3, <2>5, <2>7
  <2>12. \A v \in Workers, c \in Accounts, l \in Logins :
           cache'[v][c][l] # NoToken => cache'[v][c][l] = cache[v][c][l]
    BY <2>6 DEF TypeOK
  <2>13. WorkerKnows(w)'
    <3>1. /\ worker'[w].at = "settle" /\ worker'[w].row = worker[w].row
          /\ worker'[w].task = worker[w].task
      BY <1>2, <2>1, <2>6 DEF WorkState
    <3> QED BY <2>1, <2>3, <2>8, <3>1 DEF WorkerKnows
  <2> QED BY <1>2, <2>8, <2>9, <2>10, <2>11, <2>12, <2>13, StillKilled
<1>10. CASE Report(w)
  <2>1. PICK b \in Accounts : b = a /\ worker[w].at = "report" /\ worker[w] \in WorkState
    BY <1>1, <1>10 DEF Report
  <2>2. PICK v : v = worker[w].answer
    OBVIOUS
  <2>3. /\ account' = [account EXCEPT ![b] = Verdict(@, v)] /\ UNCHANGED <<vault, cache>>
        /\ AfterReport(w)
    BY <1>10, <2>1, <2>2 DEF Report
  <2>4. v = "dead" => Over(b)
    BY <1>3, <2>1, <2>2 DEF WorkerKnows
  <2>5. ASSUME NEW d \in AccountRow
        PROVE  /\ Verdict(d, v).ref = d.ref
               /\ Verdict(d, v).health = "token_dead" => d.health = "token_dead" \/ v = "dead"
    BY DEF Verdict, AccountRow
  <2>6. \A c \in Accounts : account'[c] = account[c] \/ (c = b /\ account'[c] = Verdict(account[c], v))
    BY <2>3 DEF TypeOK
  <2>7. \A c \in Accounts : account'[c].ref = account[c].ref
    BY <1>4, <2>5, <2>6
  <2>8. /\ \A c \in Accounts : Over(c) => Over(c)'
        /\ \A c \in Accounts : \A x : SameToken(c, x) => SameToken(c, x)'
    BY <1>2, <2>3, <2>7 DEF Over, Dead, SameToken
  <2>9. \A c \in Accounts : account'[c].health = "token_dead" =>
                              account[c].health = "token_dead" \/ Over(c)'
    BY <1>4, <2>4, <2>5, <2>6, <2>8
  <2>10. WorkerKnows(w)'
    <3>1. \/ worker'[w].at = "idle"
          \/ /\ worker'[w].at = "settle" /\ worker'[w].row = worker[w].row
             /\ worker'[w].task = worker[w].task
      BY <1>2, <1>5, <2>1, <2>3 DEF AfterReport, WorkState
    <3> QED BY <1>3, <2>1, <2>7, <3>1 DEF WorkerKnows
  <2> QED BY <1>2, <1>3, <2>3, <2>7, <2>8, <2>9, <2>10, StillKilled
<1>11. CASE (RotateToken(w) /\ account[a].ref # r) \/ RotateFails(w) \/ ReportFails(w)
  <2>1. PICK b \in Accounts :
          b = a /\ worker[w].at \in {"persist", "report"} /\ worker[w] \in WorkState
    BY <1>1, <1>11 DEF RotateToken, RotateFails, ReportFails
  <2>2. UNCHANGED <<account, vault, cache>>
    BY <1>11 DEF RotateToken, RotateFails, ReportFails
  <2>3. \/ worker'[w].at = "idle"
        \/ /\ \/ worker'[w].at = "report" /\ worker'[w].answer = "retryable"
              \/ worker'[w].at = "settle"
           /\ worker'[w].row = worker[w].row /\ worker'[w].task = worker[w].task
    BY <1>2, <1>5, <1>11, <2>1
       DEF RotateToken, RotateFails, ReportFails, AfterReport, Answer, WorkState
  <2>4. WorkerKnows(w)'
    BY <1>3, <2>1, <2>2, <2>3 DEF WorkerKnows
  <2> QED BY <1>6, <2>2, <2>4
<1>12. CASE Settle(w) \/ WorkerCrashes(w)
  <2>1. UNCHANGED <<account, vault>> /\ worker'[w].at = "idle"
    BY <1>2, <1>5, <1>12 DEF Settle, WorkerCrashes
  <2>2. \A x \in Workers, b \in Accounts, q \in Logins :
          cache'[x][b][q] # NoToken => cache'[x][b][q] = cache[x][b][q]
    <3>1. UNCHANGED cache \/ cache' = [cache EXCEPT ![w] = NoCache]
      BY <1>12 DEF Settle, WorkerCrashes
    <3>2. \A b \in Accounts, q \in Logins : NoCache[b][q] = NoToken
      BY DEF NoCache
    <3>3. DOMAIN cache = Workers
      BY DEF TypeOK
    <3> QED BY <3>1, <3>2, <3>3
  <2> QED BY <1>6, <2>1, <2>2 DEF WorkerKnows
<1>13. ASSUME NEW b \in Accounts, CacheEvicts(w, b) PROVE Killed'
  <2>1. UNCHANGED <<account, vault, worker>>
    BY <1>13 DEF CacheEvicts
  <2>2. \A x \in Workers, c \in Accounts, q \in Logins :
          cache'[x][c][q] # NoToken => cache'[x][c][q] = cache[x][c][q]
    BY <1>13 DEF CacheEvicts, TypeOK
  <2> QED BY <1>6, <2>1, <2>2
<1> QED
  BY <1>7, <1>8, <1>9, <1>10, <1>11, <1>12, <1>13 DEF TakeRefresh, TakeOperation

\* The clock brings no dead token back, and finds every worker idle.
LEMMA TickKills ==
  ASSUME SessionAssumption, TypeOK, Killed, Undisturbed, Tick, late' = 0
  PROVE  Killed'
<1>1. /\ ~WorkLeft /\ now' = now + 1 /\ UNCHANGED <<account, vault, worker, login, gen>>
      /\ cache' = [w \in Workers |-> NoCache]
  BY DEF Tick, Undisturbed, TypeOK
<1>2. \A w \in Workers : worker[w].at = "idle"
  BY <1>1 DEF WorkLeft
<1>3. ASSUME NEW a \in Accounts, Over(a) PROVE Over(a)'
  <2>1. account[a].ref # NoRow => vault[a][account[a].ref] \in Tokens
    BY DEF TypeOK, AccountRow
  <2>2. account[a].ref # NoRow => vault[a][account[a].ref].exp \in Int /\ now \in Int
    BY <2>1 DEF Tokens, Times, TypeOK, SessionAssumption
  <2> QED BY <1>1, <1>3, <2>2 DEF Over, Dead
<1>4. \A w \in Workers, a \in Accounts, r \in Logins : cache'[w][a][r] = NoToken
  BY <1>1 DEF NoCache
<1> QED BY <1>1, <1>2, <1>3, <1>4 DEF Killed, Undisturbed, WorkerKnows

\* While every interval's work is done within it and nobody logs in, only a
\* session whose token is really dead is said to have a dead token, whatever
\* copies of it other workers refresh, remember or use.
THEOREM OnlyTheDeadAreKilled == Spec => []OnlyDeadTokensKill
<1> USE SessionAssumption
<1>1. Init => Killed
  <2> SUFFICES ASSUME Init PROVE Killed
    OBVIOUS
  <2>1. \A a \in Accounts : account[a].health # "token_dead"
    BY DEF Init, NeverLoggedIn, LoggedIn
  <2>2. \A a \in Accounts, r \in Logins : vault[a][r].gen = 0
    BY DEF Init, NoToken
  <2>3. \A w \in Workers, a \in Accounts, r \in Logins : cache[w][a][r] = NoToken
    BY DEF Init, NoCache
  <2>4. /\ \A l \in Logins : login[l].at = "idle"
        /\ \A w \in Workers : WorkerKnows(w)
    BY DEF Init, IdleLogin, IdleWorker, WorkerKnows
  <2> QED BY <2>1, <2>2, <2>3, <2>4 DEF Killed
<1>2. TypeOK /\ Killed /\ [Next]_vars => Killed'
  <2> SUFFICES ASSUME TypeOK, Killed, [Next]_vars, Undisturbed' PROVE Killed'
    BY DEF Killed
  <2>1. /\ Undisturbed
        /\ ~\E l \in Logins : \/ \E a \in Accounts : Exchange(l, a)
                              \/ Store(l) \/ Attach(l) \/ LoginAborts(l)
    <3>1. logins \in Nat /\ late \in Nat
      BY DEF TypeOK, SessionAssumption
    <3>2. /\ logins' = logins \/ logins' = logins + 1
          /\ late' = late \/ late' = late + 1
      BY DEF Next, vars, clockVars, boundVars, Fault, Event, Reconcile, Select, EndSweep,
             SweepAborts, Create, Skip, Enqueue, MarkAttempted, TakeRefresh, TakeOperation, Take,
             CacheEvicts, Call, RotateToken, RotateFails, Report, ReportFails, Settle,
             WorkerCrashes, Exchange, Store, Attach, LoginAborts, Revoke, Challenge, UpdateStatus,
             Tick
    <3>3. Undisturbed
      BY <3>1, <3>2 DEF Undisturbed
    <3>4. \A l \in Logins : login[l].at = "idle"
      BY <3>3 DEF Killed
    <3>5. ASSUME NEW l \in Logins, NEW a \in Accounts, Exchange(l, a) PROVE FALSE
      <4>1. logins' = logins + 1 /\ logins' = 0
        BY <3>5 DEF Exchange, Undisturbed
      <4> QED BY <3>1, <4>1
    <3>6. ASSUME NEW l \in Logins, Store(l) \/ Attach(l) \/ LoginAborts(l) PROVE FALSE
      BY <3>4, <3>6 DEF Store, Attach, LoginAborts
    <3> QED BY <3>3, <3>5, <3>6
  <2>2. CASE UNCHANGED vars
    <3>1. UNCHANGED <<account, vault, worker, cache, login, gen, now, late, logins>>
      BY <2>2 DEF vars, clockVars, boundVars
    <3>2. /\ \A a \in Accounts : Over(a) => Over(a)'
          /\ \A a \in Accounts : \A t : SameToken(a, t) => SameToken(a, t)'
      BY <3>1 DEF Over, Dead, SameToken
    <3>3. \A a \in Accounts, r \in Logins : vault[a][r].gen = 0
      BY <2>1 DEF Killed
    <3> QED BY <2>1, <3>1, <3>2, <3>3, StillKilled
  <2>3. CASE Tick
    BY <2>1, <2>3, TickKills DEF Undisturbed
  <2> QED BY <2>1, <2>2, <2>3, MarkersKill, WorkersKill DEF Next
<1>3. Killed => OnlyDeadTokensKill
  BY DEF Killed, Undisturbed, Over, OnlyDeadTokensKill
<1> QED BY <1>1, <1>2, <1>3, TypeCorrect, PTL DEF Spec

-----------------------------------------------------------------------------
(* Who refreshes in time: what processes have in hand.                     *)

SweeperStep(s) == \/ Reconcile(s) \/ Select(s) \/ EndSweep(s) \/ SweepAborts(s)
                  \/ \E k \in Keys : \/ Create(s, k) \/ Skip(s, k) \/ Enqueue(s, k)
                                     \/ MarkAttempted(s, k)

WorkerStep(w) == \/ \E k \in Keys : TakeRefresh(w, k)
                 \/ \E t \in Ordinary : TakeOperation(w, t)
                 \/ \E a \in Accounts : CacheEvicts(w, a)
                 \/ Call(w) \/ RotateToken(w) \/ RotateFails(w) \/ Report(w) \/ ReportFails(w)
                 \/ Settle(w) \/ WorkerCrashes(w)

LoginStep(l) == (\E a \in Accounts : Exchange(l, a)) \/ Store(l) \/ Attach(l) \/ LoginAborts(l)

\* A running job is with one worker.
Delivered ==
  /\ \A k \in Keys : job[k].state = "running" => \E w \in Workers : worker[w].task = k
  /\ \A w \in Workers : worker[w].task \in Keys =>
       /\ job[worker[w].task].state = "running"
       /\ \A x \in Workers : worker[x].task = worker[w].task => x = w

\* A sweeper creates one job at a time, which nobody else creates.
SweptInOrder(s) ==
  /\ s \in swept => sweep[s].at = "idle"
  /\ sweep[s].at \in {"idle", "select"} => sweep[s].todo = {}
  /\ sweep[s].at \in {"idle", "select", "create"} => sweep[s].creating = {}
  /\ \A k \in sweep[s].creating : job[k].state # "absent"
  /\ sweep[s].at = "enqueue" =>
       \A k \in sweep[s].creating :
         /\ job[k].state = "unsent"
         /\ \A r \in Sweepers : sweep[r].at = "enqueue" /\ k \in sweep[r].creating => r = s

Orderly == Delivered /\ \A s \in Sweepers : SweptInOrder(s)

\* The worker's task and what becomes of its job.
LEMMA WorkersDeliver ==
  ASSUME SessionAssumption, TypeOK, Delivered, NEW w \in Workers, WorkerStep(w)
  PROVE  /\ Delivered'
         /\ \A k \in Keys : \/ job'[k].state = job[k].state
                            \/ job[k].state = "queued" /\ job'[k].state = "running"
                            \/ /\ job[k].state = "running"
                               /\ job'[k].state \in {"queued", "failed", "stuck"}
                            \/ /\ job[k].state = "running" /\ job'[k].state = "succeeded"
                               /\ worker[w].at = "settle" /\ worker[w].answer = "ok"
                               /\ worker[w].task = k
<1>1. /\ \A x \in Workers \ {w} : worker'[x] = worker[x]
      /\ DOMAIN worker = Workers
      /\ \A k \in Keys : job[k] \in JobRow
      /\ worker[w].at # "idle" => worker[w] \in WorkState
      /\ worker[w].at = "idle" => worker[w] = IdleWorker
  BY OtherWorkersStay, BusyTyped DEF WorkerStep, TypeOK
<1>2. IdleWorker.task \notin Keys /\ IdleWorker.at = "idle" /\ Ordinary \cap Keys = {}
  BY DEF IdleWorker, Keys, Ordinary, Times, Never, SessionAssumption
<1>3. \* the task stays
      ASSUME worker'[w].task = worker[w].task, UNCHANGED job
      PROVE  Delivered'
  BY <1>1, <1>3 DEF Delivered
<1>4. \* an operation ends
      ASSUME worker[w].task \notin Keys, worker'[w].task \notin Keys, UNCHANGED job
      PROVE  Delivered'
  BY <1>1, <1>4 DEF Delivered
<1>5. ASSUME NEW k \in Keys, worker[w].task = k, worker'[w].task = IdleWorker.task,
             NEW st \in {"queued", "failed", "stuck", "succeeded"},
             \A i \in Keys : job'[i].state = IF i = k THEN st ELSE job[i].state
      PROVE  Delivered'
  BY <1>1, <1>2, <1>5 DEF Delivered
<1>6. ASSUME NEW k \in Keys, TakeRefresh(w, k)
      PROVE  /\ Delivered' /\ job[k].state = "queued"
             /\ \A i \in Keys : job'[i].state = IF i = k THEN "running" ELSE job[i].state
  <2>1. /\ worker[w].task \notin Keys /\ worker'[w].task = k /\ job[k].state = "queued"
    BY <1>1, <1>2, <1>6 DEF TakeRefresh, Take
  <2>2. \A i \in Keys : job'[i].state = IF i = k THEN "running" ELSE job[i].state
    BY <1>1, <1>6 DEF TakeRefresh, TypeOK, JobRow
  <2> QED BY <1>1, <2>1, <2>2 DEF Delivered
<1>7. ASSUME NEW t \in Ordinary, TakeOperation(w, t) PROVE Delivered' /\ UNCHANGED job
  <2>1. worker[w].task \notin Keys /\ worker'[w].task = t /\ UNCHANGED job
    BY <1>1, <1>2, <1>7 DEF TakeOperation, Take
  <2> QED BY <1>2, <1>4, <2>1
<1>8. CASE \E a \in Accounts : CacheEvicts(w, a)
  BY <1>3, <1>8 DEF CacheEvicts
<1>9. CASE Call(w) \/ RotateToken(w) \/ RotateFails(w) \/ Report(w) \/ ReportFails(w)
  <2>1. worker[w] \in WorkState /\ UNCHANGED job
    BY <1>1, <1>9 DEF Call, RotateToken, RotateFails, Report, ReportFails
  <2>2. \/ worker'[w].task = worker[w].task
        \/ ~Refreshing(w) /\ worker'[w] = IdleWorker
    BY <1>1, <1>9, <2>1 DEF Call, RotateToken, RotateFails, Report, ReportFails, AfterReport,
                            Answer, WorkState
  <2> QED BY <1>2, <1>3, <1>4, <2>1, <2>2 DEF Refreshing
<1>10. CASE Settle(w)
  <2>1. worker[w].task \in Keys /\ worker'[w] = IdleWorker /\ worker[w].at = "settle"
    BY <1>1, <1>10 DEF Settle, TypeOK, Backed
  <2>2. PICK st \in {"queued", "failed", "succeeded"} :
          /\ \A i \in Keys : job'[i].state = IF i = worker[w].task THEN st ELSE job[i].state
          /\ st = "succeeded" => worker[w].answer = "ok"
    <3>1. PICK st \in {"queued", "failed", "succeeded"} :
            /\ job' = [job EXCEPT ![worker[w].task] = [state |-> st, tries |-> @.tries + 1]]
            /\ st = "succeeded" => worker[w].answer = "ok"
      BY <1>10 DEF Settle
    <3> QED BY <2>1, <3>1 DEF TypeOK
  <2>3. Delivered'
    BY <1>5, <2>1, <2>2
  <2>4. job[worker[w].task].state = "running"
    BY <2>1 DEF Delivered
  <2> QED BY <2>1, <2>2, <2>3, <2>4
<1>11. CASE WorkerCrashes(w)
  <2>1. worker'[w] = IdleWorker
    BY <1>1, <1>11 DEF WorkerCrashes
  <2>2. CASE ~Refreshing(w) /\ UNCHANGED job
    BY <1>2, <1>4, <2>1, <2>2 DEF Refreshing
  <2>3. CASE worker[w].task \in Keys /\ \E fate \in {"queued", "stuck"} :
                                          job' = [job EXCEPT ![worker[w].task].state = fate]
    <3>1. PICK fate \in {"queued", "stuck"} : job' = [job EXCEPT ![worker[w].task].state = fate]
      BY <2>3
    <3>2. \A i \in Keys : job'[i].state = IF i = worker[w].task THEN fate ELSE job[i].state
      BY <1>1, <3>1 DEF TypeOK, JobRow
    <3>3. Delivered'
      BY <1>5, <2>1, <2>3, <3>2
    <3>4. job[worker[w].task].state = "running"
      BY <2>3 DEF Delivered
    <3> QED BY <3>2, <3>3, <3>4
  <2> QED BY <1>11, <2>2, <2>3 DEF WorkerCrashes, Refreshing
<1> QED BY <1>6, <1>7, <1>8, <1>9, <1>10, <1>11
        DEF WorkerStep, Call, RotateToken, RotateFails, Report, ReportFails, CacheEvicts

\* What a sweep plans to create, creates and has created.
LEMMA SweepersInOrder ==
  ASSUME TypeOK, Orderly, NEW s \in Sweepers, SweeperStep(s)
  PROVE  /\ Delivered' /\ \A r \in Sweepers : SweptInOrder(r)'
         /\ \A k \in Keys :
              \/ job'[k].state = job[k].state
              \/ job[k].state = "absent" /\ job'[k].state = "unsent" /\ k \in sweep[s].todo
              \/ job[k].state = "unsent" /\ job'[k].state = "queued" /\ k \in sweep[s].creating
         /\ \A r \in Sweepers, k \in Keys :
              k \in sweep'[r].creating => \/ k \in sweep[r].creating
                                          \/ k \in sweep[r].todo /\ job[k].state = "absent"
<1>1. /\ DOMAIN sweep = Sweepers /\ \A r \in Sweepers : sweep[r] \in SweepState
      /\ \A k \in Keys : job[k] \in JobRow
      /\ job \in [Keys -> JobRow]
  BY DEF TypeOK
<1>2. UNCHANGED worker
  BY DEF SweeperStep, Reconcile, Select, EndSweep, SweepAborts, Create, Skip, Enqueue,
         MarkAttempted
<1>3. Delivered /\ \A r \in Sweepers : SweptInOrder(r)
  BY DEF Orderly
<1>4. IdleSweep.at = "idle" /\ IdleSweep.todo = {} /\ IdleSweep.creating = {}
  BY DEF IdleSweep
<1>5. \* a step that creates and publishes nothing
      ASSUME UNCHANGED job, \A r \in Sweepers \ {s} : sweep'[r] = sweep[r],
             sweep'[s].at # "enqueue", sweep'[s].creating \subseteq sweep[s].creating,
             sweep'[s].at \in {"idle", "select"} => sweep'[s].todo = {},
             sweep'[s].at \in {"idle", "select", "create"} => sweep'[s].creating = {},
             \A r \in Sweepers : r \in swept' => sweep'[r].at = "idle"
      PROVE  /\ Delivered' /\ \A r \in Sweepers : SweptInOrder(r)'
             /\ \A r \in Sweepers, k \in Keys :
                  k \in sweep'[r].creating => k \in sweep[r].creating
  <2>1. Delivered'
    BY <1>2, <1>3, <1>5 DEF Delivered
  <2>2. ASSUME NEW r \in Sweepers PROVE SweptInOrder(r)'
    <3>1. CASE r = s
      BY <1>3, <1>5, <3>1 DEF SweptInOrder
    <3>2. CASE r # s
      BY <1>3, <1>5, <3>2 DEF SweptInOrder
    <3> QED BY <3>1, <3>2
  <2> QED BY <1>5, <2>1, <2>2
<1> DEFINE Kept == /\ Delivered' /\ \A r \in Sweepers : SweptInOrder(r)'
                   /\ \A r \in Sweepers, k \in Keys :
                        k \in sweep'[r].creating => k \in sweep[r].creating
<1>6. ASSUME Reconcile(s) PROVE Kept
  <2>1. /\ UNCHANGED <<job, swept>> /\ s \notin swept /\ sweep[s].at = "idle"
        /\ sweep' = [sweep EXCEPT ![s].at = "select"]
    BY <1>6 DEF Reconcile
  <2>2. /\ sweep'[s].at = "select" /\ sweep'[s].todo = {} /\ sweep'[s].creating = {}
        /\ \A r \in Sweepers \ {s} : sweep'[r] = sweep[r]
    BY <1>1, <1>3, <2>1 DEF SweptInOrder, SweepState
  <2> QED BY <1>3, <1>5, <2>1, <2>2 DEF SweptInOrder
<1>7. ASSUME Select(s) PROVE Kept
  <2>1. /\ UNCHANGED <<job, swept>> /\ sweep[s].at = "select"
        /\ \E T : sweep' = [sweep EXCEPT ![s].at = "create", ![s].todo = T]
    BY <1>7 DEF Select
  <2>2. /\ sweep'[s].at = "create" /\ sweep'[s].creating = {}
        /\ \A r \in Sweepers \ {s} : sweep'[r] = sweep[r]
    BY <1>1, <1>3, <2>1 DEF SweptInOrder, SweepState
  <2> QED BY <1>3, <1>5, <2>1, <2>2 DEF SweptInOrder
<1>8. ASSUME EndSweep(s) \/ SweepAborts(s) PROVE Kept
  <2>1. /\ UNCHANGED job /\ swept' \subseteq swept \cup {s}
        /\ sweep' = [sweep EXCEPT ![s] = IdleSweep]
    BY <1>8 DEF EndSweep, SweepAborts
  <2>2. sweep'[s] = IdleSweep /\ \A r \in Sweepers \ {s} : sweep'[r] = sweep[r]
    BY <1>1, <2>1
  <2> QED BY <1>3, <1>4, <1>5, <2>1, <2>2 DEF SweptInOrder
<1>9. ASSUME NEW k \in Keys, Skip(s, k) \/ MarkAttempted(s, k)
      PROVE  /\ Delivered' /\ \A r \in Sweepers : SweptInOrder(r)' /\ UNCHANGED job
             /\ \A r \in Sweepers, i \in Keys :
                  i \in sweep'[r].creating => i \in sweep[r].creating
  <2>1. /\ UNCHANGED <<job, swept>> /\ sweep[s].at \in {"create", "mark"}
        /\ \/ /\ sweep' = [sweep EXCEPT ![s].todo = @ \ {k}] /\ sweep[s].at = "create"
           \/ sweep' = [sweep EXCEPT ![s] = [at |-> "create", todo |-> @.todo \ {k},
                                             creating |-> {}]]
    BY <1>9 DEF Skip, MarkAttempted, NextCandidate
  <2>2. /\ sweep'[s].at = "create" /\ sweep'[s].creating = {}
        /\ \A r \in Sweepers \ {s} : sweep'[r] = sweep[r]
    BY <1>1, <1>3, <2>1 DEF SweptInOrder, SweepState
  <2> QED BY <1>3, <1>5, <2>1, <2>2 DEF SweptInOrder
<1>10. ASSUME NEW k \in Keys, Create(s, k)
       PROVE  /\ Delivered' /\ \A r \in Sweepers : SweptInOrder(r)'
              /\ job[k].state = "absent" /\ k \in sweep[s].todo
              /\ \A i \in Keys : job'[i].state = IF i = k THEN "unsent" ELSE job[i].state
              /\ \A r \in Sweepers : sweep'[r].creating = IF r = s THEN {k} ELSE sweep[r].creating
  <2>1. /\ job[k].state = "absent" /\ k \in sweep[s].todo /\ sweep[s].at = "create"
        /\ job' = [job EXCEPT ![k].state = "unsent"] /\ UNCHANGED swept
        /\ sweep' = [sweep EXCEPT ![s].at = "enqueue", ![s].creating = {k}]
    BY <1>10 DEF Create, NextCandidate
  <2>2. \A i \in Keys : job'[i].state = IF i = k THEN "unsent" ELSE job[i].state
    BY <1>1, <2>1 DEF JobRow
  <2>3. /\ sweep'[s].at = "enqueue" /\ sweep'[s].creating = {k} /\ sweep'[s].todo = sweep[s].todo
        /\ \A r \in Sweepers \ {s} : sweep'[r] = sweep[r]
    BY <1>1, <2>1 DEF SweepState
  <2>4. Delivered'
    BY <1>2, <1>3, <2>1, <2>2 DEF Delivered
  <2>5. \A r \in Sweepers : k \notin sweep[r].creating /\ (r \in swept => sweep[r].at = "idle")
    BY <1>3, <2>1 DEF SweptInOrder
  <2>6. ASSUME NEW r \in Sweepers PROVE SweptInOrder(r)'
    <3>1. CASE r = s
      <4>1. /\ sweep'[s].at = "enqueue" /\ sweep'[s].creating = {k} /\ s \notin swept'
            /\ job'[k].state = "unsent"
        BY <2>1, <2>2, <2>3, <2>5
      <4>2. \A x \in Sweepers : k \in sweep'[x].creating => x = s
        BY <2>3, <2>5
      <4> QED BY <3>1, <4>1, <4>2 DEF SweptInOrder
    <3>2. CASE r # s
      <4>1. /\ sweep'[r] = sweep[r] /\ SweptInOrder(r) /\ swept' = swept
            /\ sweep[r].creating \subseteq Keys
        BY <1>1, <1>3, <2>1, <2>3, <3>2 DEF SweepState
      <4>2. \A i \in sweep[r].creating : job'[i].state = job[i].state
        BY <2>2, <2>5, <4>1
      <4>3. ASSUME NEW x \in Sweepers, NEW i \in sweep[r].creating, i \in sweep'[x].creating
            PROVE  sweep'[x] = sweep[x]
        BY <2>3, <2>5, <4>3
      <4> QED BY <4>1, <4>2, <4>3 DEF SweptInOrder
    <3> QED BY <3>1, <3>2
  <2>7. \A r \in Sweepers : sweep'[r].creating = IF r = s THEN {k} ELSE sweep[r].creating
    BY <2>3
  <2> QED BY <2>1, <2>2, <2>4, <2>6, <2>7
<1>11. ASSUME NEW k \in Keys, Enqueue(s, k)
       PROVE  /\ Delivered' /\ \A r \in Sweepers : SweptInOrder(r)'
              /\ job[k].state = "unsent" /\ k \in sweep[s].creating
              /\ \A i \in Keys : job'[i].state = IF i = k THEN "queued" ELSE job[i].state
              /\ \A r \in Sweepers : sweep'[r].creating = sweep[r].creating
  <2>1. /\ sweep[s].at = "enqueue" /\ k \in sweep[s].creating /\ UNCHANGED swept
        /\ job' = [job EXCEPT ![k].state = "queued"]
        /\ sweep' = [sweep EXCEPT ![s].at = "mark"]
    BY <1>11 DEF Enqueue
  <2>2. /\ job[k].state = "unsent"
        /\ \A i \in Keys : job'[i].state = IF i = k THEN "queued" ELSE job[i].state
    BY <1>1, <1>3, <2>1 DEF JobRow, SweptInOrder
  <2>3. /\ sweep'[s].at = "mark" /\ sweep'[s].creating = sweep[s].creating
        /\ \A r \in Sweepers \ {s} : sweep'[r] = sweep[r]
    BY <1>1, <2>1 DEF SweepState
  <2>4. Delivered'
    BY <1>2, <1>3, <2>2 DEF Delivered
  <2>5. \A r \in Sweepers : sweep[r].at = "enqueue" /\ k \in sweep[r].creating => r = s
    BY <1>3, <2>1 DEF SweptInOrder
  <2>6. ASSUME NEW r \in Sweepers PROVE SweptInOrder(r)'
    <3>1. SweptInOrder(r) /\ SweptInOrder(s) /\ swept' = swept /\ sweep[r].creating \subseteq Keys
      BY <1>1, <1>3, <2>1 DEF SweepState
    <3>2. CASE r = s
      BY <2>1, <2>2, <2>3, <3>1, <3>2 DEF SweptInOrder
    <3>3. CASE r # s
      BY <2>1, <2>2, <2>3, <2>5, <3>1, <3>3 DEF SweptInOrder
    <3> QED BY <3>2, <3>3
  <2> QED BY <2>1, <2>2, <2>3, <2>4, <2>6
<1>12. CASE UNCHANGED job
  <2>1. /\ Delivered' /\ \A r \in Sweepers : SweptInOrder(r)'
        /\ \A r \in Sweepers, k \in Keys :
             k \in sweep'[r].creating => k \in sweep[r].creating
    <3>1. ASSUME NEW k \in Keys, Enqueue(s, k)
          PROVE  FALSE
      BY <1>11, <1>12, <3>1
    <3>2. ASSUME NEW k \in Keys, Create(s, k)
          PROVE  FALSE
      BY <1>10, <1>12, <3>2
    <3> QED BY <1>6, <1>7, <1>8, <1>9, <3>1, <3>2 DEF SweeperStep
  <2> QED BY <1>12, <2>1
<1>13. CASE ~UNCHANGED job
  <2>1. \E k \in Keys : Create(s, k) \/ Enqueue(s, k)
    BY <1>9, <1>13 DEF SweeperStep, Reconcile, Select, EndSweep, SweepAborts
  <2>2. ASSUME NEW k \in Keys, Create(s, k)
        PROVE  /\ \A i \in Keys :
                    \/ job'[i].state = job[i].state
                    \/ job[i].state = "absent" /\ job'[i].state = "unsent" /\ i \in sweep[s].todo
               /\ \A r \in Sweepers, i \in Keys :
                    i \in sweep'[r].creating => \/ i \in sweep[r].creating
                                                \/ i \in sweep[r].todo /\ job[i].state = "absent"
    <3>1. /\ job[k].state = "absent" /\ k \in sweep[s].todo
          /\ \A i \in Keys : job'[i].state = IF i = k THEN "unsent" ELSE job[i].state
          /\ \A r \in Sweepers : sweep'[r].creating = IF r = s THEN {k} ELSE sweep[r].creating
      BY <1>10, <2>2
    <3> QED BY <3>1
  <2>3. ASSUME NEW k \in Keys, Enqueue(s, k)
        PROVE  /\ \A i \in Keys :
                    \/ job'[i].state = job[i].state
                    \/ job[i].state = "unsent" /\ job'[i].state = "queued" /\ i \in sweep[s].creating
               /\ \A r \in Sweepers, i \in Keys :
                    i \in sweep'[r].creating => i \in sweep[r].creating
    BY <1>11, <2>3
  <2> QED BY <1>10, <1>11, <2>1, <2>2, <2>3
<1> QED BY <1>12, <1>13
-----------------------------------------------------------------------------
(* What a step within an interval does to the row of an account.           *)

InHand(k) == \/ job[k].state \in {"queued", "running"}
             \/ \E s \in Sweepers : k \in sweep[s].todo \cup sweep[s].creating

\* Without events only dead tokens and failed refreshes are reported.
Reports(w) == worker[w].at = "report" =>
                /\ worker[w].answer \in {"dead", "retryable", "refused"}
                /\ worker[w].answer # "dead" => worker[w].task \in Keys

SameSession(c, d) == d.ref = c.ref /\ d.expires = c.expires /\ d.blocked = c.blocked

\* A row is reconciled, marked as attempted, said to have a dead token, or renewed.
RowMoved(a) ==
  LET c == account[a]
      d == account'[a]
  IN \/ d = c
     \/ /\ SameSession(c, d) /\ d.attempted = c.attempted /\ d.failures = c.failures
        /\ d.health = c.health
        /\ {c.status, d.status} \subseteq {"valid", "expiring", "expired"}
        /\ d.status = "expired" <=> c.expires <= now
     \/ /\ SameSession(c, d) /\ d.attempted = now /\ d.failures >= c.failures
        /\ d.health = c.health /\ d.status = c.status
        /\ \E k \in Keys : k[1] = a /\ InHand(k) /\ job[k].state # "absent"
     \/ /\ SameSession(c, d) /\ d.attempted = c.attempted /\ d.failures = c.failures
        /\ d.health = "token_dead" /\ d.status = "revoked"
        /\ \E w \in Workers : /\ worker[w].at = "report" /\ worker[w].answer = "dead"
                              /\ worker[w].task[1] = a
     \/ /\ d.ref # NoRow /\ d.expires = now + Life /\ d.status = "valid" /\ d.blocked = c.blocked
        /\ d.attempted \in {now, Never} /\ d.health \in {c.health, "healthy"}
        /\ \/ /\ d.ref = c.ref
              /\ \E w \in Workers : /\ worker[w].at = "persist" /\ worker[w].task \in Keys
                                    /\ worker[w].task[1] = a
           \/ /\ d.health # "token_dead"
              /\ \E l \in Logins : /\ login[l].at = "attach" /\ login[l].of = a
                                   /\ login[l].row = d.ref

LEMMA RowsMove ==
  ASSUME SessionAssumption, TypeOK, Orderly, Punctual, late = 0, \A w \in Workers : Reports(w),
         \/ \E s \in Sweepers : SweeperStep(s)
         \/ \E w \in Workers : WorkerStep(w)
         \/ \E l \in Logins : LoginStep(l)
  PROVE  \A a \in Accounts : RowMoved(a)
<1>1. /\ DOMAIN account = Accounts
      /\ \A a \in Accounts : account[a] \in AccountRow
      /\ \A w \in Workers : worker[w].at # "idle" => worker[w] \in WorkState
      /\ \A l \in Logins : login[l].at # "idle" => login[l] \in LoginState
      /\ \A s \in Sweepers : sweep[s] \in SweepState
  BY BusyTyped DEF TypeOK
<1>2. ASSUME UNCHANGED account PROVE \A a \in Accounts : RowMoved(a)
  BY <1>2 DEF RowMoved
<1>3. ASSUME NEW s \in Sweepers, Reconcile(s), NEW a \in Accounts PROVE RowMoved(a)
  <2>1. \/ account'[a] = account[a]
        \/ /\ account'[a] = [account[a] EXCEPT !.status = Derived(account[a].expires)]
           /\ account[a].expires # Never
           /\ account[a].status \in {"valid", "expiring", "expired"}
    <3>1. PICK B \in Earliest({x \in Accounts : /\ account[x].expires # Never
                                  /\ account[x].status \in {"valid", "expiring", "expired"}}) :
            account' = [x \in Accounts |-> IF x \in B
                          THEN [account[x] EXCEPT !.status = Derived(account[x].expires)]
                          ELSE account[x]]
      BY <1>3 DEF Reconcile
    <3> QED BY <3>1 DEF Earliest
  <2>2. CASE account'[a] # account[a]
    <3>1. PICK e \in Times : e = account[a].expires /\ now \in Int /\ Window \in Nat /\ e \in Int
      BY <1>1, <2>1, <2>2 DEF AccountRow, TypeOK, SessionAssumption, Times
    <3>2. Derived(e) \in {"valid", "expiring", "expired"} /\ (Derived(e) = "expired" <=> e <= now)
      BY <3>1 DEF Derived
    <3>3. PICK st : st = Derived(e)
      OBVIOUS
    <3>4. account'[a] = [account[a] EXCEPT !.status = st] /\ account[a] \in AccountRow
      BY <1>1, <2>1, <2>2, <3>1, <3>3
    <3>5. /\ SameSession(account[a], account'[a]) /\ account'[a].attempted = account[a].attempted
          /\ account'[a].failures = account[a].failures /\ account'[a].health = account[a].health
          /\ account'[a].status = st
      BY <3>4 DEF AccountRow, SameSession
    <3> QED BY <2>1, <2>2, <3>1, <3>2, <3>3, <3>5 DEF RowMoved
  <2> QED BY <2>2 DEF RowMoved
<1>4. ASSUME NEW s \in Sweepers, NEW k \in Keys, MarkAttempted(s, k), NEW a \in Accounts
      PROVE  RowMoved(a)
  <2>1. /\ k \in sweep[s].creating /\ account' = [account EXCEPT ![k[1]].attempted = now]
        /\ job[k].state # "absent" /\ k[1] \in Accounts
    BY <1>4 DEF MarkAttempted, Orderly, SweptInOrder, Keys
  <2>2. CASE a = k[1]
    <3>1. account'[a] = [account[a] EXCEPT !.attempted = now] /\ account[a] \in AccountRow
      BY <1>1, <2>1, <2>2
    <3>2. /\ SameSession(account[a], account'[a]) /\ account'[a].attempted = now
          /\ account'[a].failures = account[a].failures /\ account'[a].health = account[a].health
          /\ account'[a].status = account[a].status /\ account[a].failures \in Nat
      BY <3>1 DEF AccountRow, SameSession
    <3> QED BY <2>1, <2>2, <3>2 DEF RowMoved, InHand
  <2>3. CASE a # k[1]
    BY <1>1, <2>1, <2>3 DEF RowMoved
  <2> QED BY <2>2, <2>3
<1>5. ASSUME NEW w \in Workers, RotateToken(w), NEW a \in Accounts PROVE RowMoved(a)
  <2> DEFINE t == worker[w].token
  <2>1. /\ worker[w].at = "persist" /\ worker[w].task \in Keys /\ worker[w].row # NoRow
        /\ t.exp = now + Life
    BY <1>5 DEF RotateToken, TypeOK, Backed, Punctual, Issued
  <2>2. CASE account[worker[w].task[1]].ref = worker[w].row /\ a = worker[w].task[1]
    <3>1. /\ account'[a] = RefreshSuccess(account[a], now + Life) /\ account[a] \in AccountRow
          /\ account[a].ref # NoRow
      BY <1>1, <1>5, <2>1, <2>2 DEF RotateToken
    <3>2. /\ account'[a].ref = account[a].ref /\ account'[a].expires = now + Life
          /\ account'[a].status = "valid" /\ account'[a].blocked = account[a].blocked
          /\ account'[a].attempted = now /\ account'[a].health \in {account[a].health, "healthy"}
      BY <3>1 DEF RefreshSuccess, AccountRow
    <3> QED BY <2>1, <2>2, <3>1, <3>2 DEF RowMoved
  <2>3. CASE ~(account[worker[w].task[1]].ref = worker[w].row /\ a = worker[w].task[1])
    BY <1>1, <1>5, <2>3 DEF RotateToken, RowMoved
  <2> QED BY <2>2, <2>3
<1>6. ASSUME NEW w \in Workers, Report(w), NEW a \in Accounts PROVE RowMoved(a)
  <2>1. PICK v : v = worker[w].answer
    OBVIOUS
  <2>2. /\ worker[w].at = "report" /\ v \in {"dead", "retryable", "refused"}
        /\ v # "dead" => worker[w].task \in Keys
        /\ account' = [account EXCEPT ![worker[w].task[1]] = Verdict(@, v)]
    BY <1>6, <2>1 DEF Report, Reports
  <2>3. CASE a = worker[w].task[1]
    <3>1. account'[a] = Verdict(account[a], v) /\ account[a] \in AccountRow
      BY <1>1, <2>2, <2>3
    <3>2. CASE v = "dead"
      <4>1. account'[a] = [account[a] EXCEPT !.health = "token_dead", !.status = "revoked"]
        BY <3>1, <3>2 DEF Verdict
      <4>2. /\ SameSession(account[a], account'[a])
            /\ account'[a].attempted = account[a].attempted
            /\ account'[a].failures = account[a].failures /\ account'[a].health = "token_dead"
            /\ account'[a].status = "revoked"
        BY <3>1, <4>1 DEF AccountRow, SameSession
      <4> QED BY <2>1, <2>2, <2>3, <3>2, <4>2 DEF RowMoved
    <3>3. CASE v # "dead"
      <4>1. account'[a] = [account[a] EXCEPT !.failures = @ + 1, !.attempted = now]
        BY <2>2, <3>1, <3>3 DEF Verdict
      <4>2. /\ SameSession(account[a], account'[a]) /\ account'[a].attempted = now
            /\ account'[a].failures = account[a].failures + 1 /\ account[a].failures \in Nat
            /\ account'[a].health = account[a].health /\ account'[a].status = account[a].status
        BY <3>1, <4>1 DEF AccountRow, SameSession
      <4>3. \E k \in Keys : k[1] = a /\ InHand(k) /\ job[k].state # "absent"
        BY <2>2, <2>3, <3>3 DEF Orderly, Delivered, InHand
      <4>4. account'[a].failures >= account[a].failures
        BY <4>2
      <4> QED BY <4>2, <4>3, <4>4 DEF RowMoved
    <3> QED BY <3>2, <3>3
  <2>4. CASE a # worker[w].task[1]
    BY <1>1, <2>2, <2>4 DEF RowMoved
  <2> QED BY <2>3, <2>4
<1>7. ASSUME NEW l \in Logins, Attach(l), NEW a \in Accounts PROVE RowMoved(a)
  <2>1. /\ login[l].at = "attach" /\ login[l].token.exp = now + Life /\ login[l].row # NoRow
        /\ account' = [account EXCEPT ![login[l].of] = Attached(@, login[l].row, now + Life)]
    BY <1>7 DEF Attach, Punctual, Issued, TypeOK
  <2>2. CASE a = login[l].of
    <3>1. account'[a] = Attached(account[a], login[l].row, now + Life) /\ account[a] \in AccountRow
      BY <1>1, <2>1, <2>2
    <3>2. /\ account'[a].ref = login[l].row /\ account'[a].expires = now + Life
          /\ account'[a].status = "valid" /\ account'[a].blocked = account[a].blocked
          /\ account'[a].attempted = Never
      BY <3>1 DEF Attached, AccountRow
    <3>3. account'[a].health \in {account[a].health, "healthy"} \ {"token_dead"}
      BY <3>1 DEF Attached, AccountRow
    <3> QED BY <2>1, <2>2, <3>2, <3>3 DEF RowMoved
  <2>3. CASE a # login[l].of
    BY <1>1, <2>1, <2>3 DEF RowMoved
  <2> QED BY <2>2, <2>3
<1>8. ASSUME NEW s \in Sweepers, SweeperStep(s) PROVE \A a \in Accounts : RowMoved(a)
  BY <1>2, <1>3, <1>4, <1>8 DEF SweeperStep, Select, EndSweep, SweepAborts, Create, Skip, Enqueue
<1>9. ASSUME NEW w \in Workers, WorkerStep(w) PROVE \A a \in Accounts : RowMoved(a)
  BY <1>2, <1>5, <1>6, <1>9
     DEF WorkerStep, TakeRefresh, TakeOperation, Take, CacheEvicts, Call, RotateFails, ReportFails,
         Settle, WorkerCrashes
<1>10. ASSUME NEW l \in Logins, LoginStep(l) PROVE \A a \in Accounts : RowMoved(a)
  BY <1>2, <1>7, <1>10 DEF LoginStep, Exchange, Store, LoginAborts
<1> QED BY <1>8, <1>9, <1>10
-----------------------------------------------------------------------------
(* The accounts whose session nobody can find dead in this interval.       *)

Sound(w, r) == /\ worker[w].row = r
               /\ worker[w].at \in {"call", "persist"} => worker[w].token.exp > now
               /\ worker[w].at = "report" => worker[w].answer # "dead"

\* The vault has a living token, and every process that is busy with the
\* account has a living one of that row.
Steady(a) ==
  LET r == account[a].ref
  IN /\ r # NoRow /\ vault[a][r].exp > now
     /\ \A w \in Workers : /\ cache[w][a][r] # NoToken => cache[w][a][r].exp > now
                           /\ worker[w].task[1] = a => Sound(w, r)
     /\ \A l \in Logins : login[l].of = a => login[l].row = r

LEMMA StillSteady ==
  ASSUME TypeOK, NEW a \in Accounts, Steady(a), RowMoved(a), NEW r, r = account[a].ref,
         UNCHANGED now,
         vault'[a][r] = vault[a][r] \/ vault'[a][r].exp > now,
         \A w \in Workers : \/ cache'[w][a][r] \in {cache[w][a][r], NoToken}
                            \/ cache'[w][a][r].exp > now,
         \A w \in Workers : \/ worker'[w] = worker[w]
                            \/ worker'[w].task[1] = a => Sound(w, r)',
         \A l \in Logins : login'[l].of = a => \/ login[l].of = a /\ login'[l].row = login[l].row
                                               \/ login'[l].row = r
  PROVE  Steady(a)'
<1>1. /\ r # NoRow /\ vault[a][r].exp > now
      /\ \A w \in Workers : /\ cache[w][a][r] # NoToken => cache[w][a][r].exp > now
                            /\ worker[w].task[1] = a => Sound(w, r)
      /\ \A l \in Logins : login[l].of = a => login[l].row = r
  BY DEF Steady
<1>2. account'[a].ref = r
  BY <1>1 DEF RowMoved, SameSession
<1>3. \A w \in Workers : worker'[w] = worker[w] /\ Sound(w, r) => Sound(w, r)'
  BY DEF Sound
<1>4. \A w \in Workers : worker'[w].task[1] = a => Sound(w, r)'
  BY <1>1, <1>3
<1>5. \A w \in Workers : cache'[w][a][r] # NoToken => cache'[w][a][r].exp > now'
  BY <1>1
<1>6. \A l \in Logins : login'[l].of = a => login'[l].row = r
  BY <1>1
<1>7. vault'[a][r].exp > now'
  BY <1>1
<1> QED BY <1>1, <1>2, <1>4, <1>5, <1>6, <1>7 DEF Steady

LEMMA SweepersSteady ==
  ASSUME TypeOK, NEW s \in Sweepers, SweeperStep(s), NEW a \in Accounts, Steady(a), RowMoved(a)
  PROVE  Steady(a)'
<1>1. UNCHANGED <<vault, worker, cache, login, now>>
  BY DEF SweeperStep, Reconcile, Select, EndSweep, SweepAborts, Create, Skip, Enqueue,
         MarkAttempted, clockVars
<1> QED BY <1>1, StillSteady

LEMMA LoginsSteady ==
  ASSUME SessionAssumption, TypeOK, Punctual, late = 0, NEW l \in Logins, LoginStep(l),
         NEW a \in Accounts, Steady(a), RowMoved(a)
  PROVE  Steady(a)'
<1>1. UNCHANGED <<worker, cache, now>>
  BY DEF LoginStep, Exchange, Store, Attach, LoginAborts, clockVars
<1>2. /\ DOMAIN login = Logins
      /\ login[l].at # "idle" => login[l] \in LoginState
      /\ IdleLogin.of \notin Accounts
  BY BusyTyped DEF TypeOK, IdleLogin, SessionAssumption
<1>3. PICK r \in Logins : r = account[a].ref /\ r # NoRow
  BY DEF Steady, TypeOK, AccountRow
<1>4. \A x \in Logins : login[x].of = a => login[x].row = r
  BY <1>3 DEF Steady
<1>5. ASSUME NEW b \in Accounts, Exchange(l, b) PROVE Steady(a)'
  <2>1. /\ UNCHANGED vault
        /\ login' = [login EXCEPT ![l] = [at |-> "store", of |-> b, row |-> account[b].ref,
                                          token |-> NewToken(b)]]
    BY <1>5 DEF Exchange
  <2>2. \A x \in Logins : login'[x].of = a => \/ login[x].of = a /\ login'[x].row = login[x].row
                                              \/ login'[x].row = r
    BY <1>2, <1>3, <2>1
  <2> QED BY <1>1, <1>3, <2>1, <2>2, StillSteady
<1>6. CASE Store(l)
  <2>1. login[l] \in LoginState /\ login[l].token.exp = now + Life
    <3>1. login[l].at = "store"
      BY <1>6 DEF Store
    <3> QED BY <1>2, <3>1 DEF Punctual, Issued
  <2>2. PICK b \in Accounts, t \in Tokens : b = login[l].of /\ t = login[l].token
    BY <2>1 DEF LoginState
  <2>3. PICK q \in Logins : /\ q = IF login[l].row # NoRow THEN login[l].row ELSE l
                            /\ b = a => q = login[l].row
    BY <1>3, <1>4, <2>1, <2>2 DEF LoginState
  <2>4. /\ vault' = [vault EXCEPT ![b][q] = t]
        /\ login' = [login EXCEPT ![l].at = "attach", ![l].row = q]
    BY <1>6, <2>2, <2>3 DEF Store
  <2>5. vault'[a][r] = vault[a][r] \/ vault'[a][r] = t
    BY <1>3, <2>4 DEF TypeOK
  <2>6. t.exp > now
    BY <2>1, <2>2 DEF SessionAssumption, TypeOK
  <2>7. /\ \A x \in Logins \ {l} : login'[x] = login[x]
        /\ login'[l].of = b /\ login'[l].row = q
    <3>1. login'[l] = [login[l] EXCEPT !.at = "attach", !.row = q]
      BY <1>2, <2>1, <2>4 DEF LoginState
    <3> QED BY <1>2, <2>1, <2>2, <2>4, <3>1 DEF LoginState
  <2>8. \A x \in Logins : login'[x].of = a => login[x].of = a /\ login'[x].row = login[x].row
    BY <2>2, <2>3, <2>7
  <2> QED BY <1>1, <1>3, <2>5, <2>6, <2>8, StillSteady
<1>7. CASE Attach(l) \/ LoginAborts(l)
  <2>1. UNCHANGED vault /\ login' = [login EXCEPT ![l] = IdleLogin]
    BY <1>7 DEF Attach, LoginAborts
  <2>2. \A x \in Logins : login'[x].of = a => login[x].of = a /\ login'[x].row = login[x].row
    BY <1>2, <2>1
  <2> QED BY <1>1, <1>3, <2>1, <2>2, StillSteady
<1> QED BY <1>5, <1>6, <1>7 DEF LoginStep

LEMMA WorkersSteady ==
  ASSUME SessionAssumption, TypeOK, Punctual, late = 0, NEW w \in Workers, WorkerStep(w),
         NEW a \in Accounts, Steady(a), RowMoved(a), gen[a] = 0
  PROVE  Steady(a)'
<1>1. /\ UNCHANGED <<now, login>> /\ DOMAIN worker = Workers
      /\ \A x \in Workers \ {w} : worker'[x] = worker[x]
  BY OtherWorkersStay DEF WorkerStep, TypeOK
<1>2. /\ worker[w].at # "idle" => worker[w] \in WorkState
      /\ IdleWorker.task[1] # a
  BY BusyTyped DEF IdleWorker, SessionAssumption
<1>3. PICK r \in Logins : r = account[a].ref /\ r # NoRow
  BY DEF Steady, TypeOK, AccountRow
<1>4. /\ vault[a][r].exp > now
      /\ cache[w][a][r] # NoToken => cache[w][a][r].exp > now
      /\ worker[w].task[1] = a => Sound(w, r)
  BY <1>3 DEF Steady
<1>5. \* a step that leaves the tokens alone
      ASSUME UNCHANGED vault, worker'[w] = worker[w] \/ (worker'[w].task[1] = a => Sound(w, r)'),
             \A x \in Workers : \/ cache'[x][a][r] \in {cache[x][a][r], NoToken}
                                \/ cache'[x][a][r].exp > now
      PROVE  Steady(a)'
  BY <1>1, <1>3, <1>5, StillSteady
<1>6. ASSUME NEW k \in Keys \cup Ordinary, Take(w, k) PROVE Steady(a)'
  <2> DEFINE b == k[1]
             x == Resolved(w, b)
  <2>1. b \in Accounts /\ x = Resolved(w, b)
    BY DEF Keys, Ordinary
  <2> HIDE DEF x
  <2>2. /\ worker'[w] = [at |-> "call", task |-> k, row |-> account[b].ref, token |-> x,
                         answer |-> "none"]
        /\ UNCHANGED vault
    BY <1>1, <1>6, <2>1 DEF Take
  <2>3. b = a => x.exp > now
    BY <1>3, <1>4, <2>1 DEF Resolved
  <2>4. \A v \in Workers : \/ cache'[v][a][r] = cache[v][a][r]
                           \/ cache'[v][a][r].exp > now
    <3>1. CASE b = a
      <4>1. cache' = [cache EXCEPT ![w][a][r] = x]
        BY <1>3, <1>6, <2>1, <3>1 DEF Take
      <4> QED BY <1>3, <2>3, <3>1, <4>1 DEF TypeOK
    <3>2. CASE b # a
      <4>1. UNCHANGED cache \/ cache' = [cache EXCEPT ![w][b][account[b].ref] = x]
        BY <1>6, <2>1 DEF Take
      <4>2. DOMAIN cache = Workers /\ DOMAIN cache[w] = Accounts
        BY DEF TypeOK
      <4>3. \A v \in Workers : cache'[v][a] = cache[v][a]
        BY <3>2, <4>1, <4>2
      <4> QED BY <4>3
    <3> QED BY <3>1, <3>2
  <2>5. worker'[w].task[1] = a => Sound(w, r)'
    BY <1>1, <1>3, <2>1, <2>2, <2>3 DEF Sound
  <2> QED BY <1>5, <2>2, <2>4, <2>5
<1>7. CASE Call(w)
  <2>1. worker[w].at = "call" /\ worker[w] \in WorkState /\ UNCHANGED <<vault, cache>>
    BY <1>2, <1>7 DEF Call
  <2>2. CASE worker[w].task[1] # a
    <3>1. worker'[w].task[1] # a
      BY <1>1, <1>2, <1>7, <2>1, <2>2 DEF Call, Answer, WorkState
    <3> QED BY <1>5, <2>1, <3>1
  <2>3. CASE worker[w].task[1] = a
    <3>1. ~Dead(a, worker[w].token)
      BY <1>4, <2>1, <2>3 DEF Sound, Dead, WorkState, Tokens, Times, TypeOK, SessionAssumption
    <3>2. NewToken(a).exp > now
      BY DEF NewToken, TypeOK, SessionAssumption
    <3>3. PICK y : y = NewToken(a)
      OBVIOUS
    <3>4. \/ worker' = [worker EXCEPT ![w] = IdleWorker]
          \/ \E v \in {"checkpoint", "retryable", "refused"} : Answer(w, v, "report")
          \/ worker' = [worker EXCEPT ![w].answer = "ok", ![w].at = "persist", ![w].token = y]
      BY <1>7, <2>3, <3>1, <3>3 DEF Call
    <3>5. CASE worker' = [worker EXCEPT ![w] = IdleWorker]
      BY <1>1, <1>2, <1>5, <2>1, <3>5
    <3>6. ASSUME NEW v \in {"checkpoint", "retryable", "refused"}, Answer(w, v, "report")
          PROVE  Steady(a)'
      <4>1. worker'[w].at = "report" /\ worker'[w].answer = v /\ worker'[w].row = worker[w].row
        BY <1>1, <2>1, <3>6 DEF Answer, WorkState
      <4> QED BY <1>4, <1>5, <2>1, <2>3, <4>1 DEF Sound
    <3>7. CASE worker' = [worker EXCEPT ![w].answer = "ok", ![w].at = "persist", ![w].token = y]
      <4>1. worker'[w].at = "persist" /\ worker'[w].token = y /\ worker'[w].row = worker[w].row
        BY <1>1, <2>1, <3>7 DEF WorkState
      <4> QED BY <1>1, <1>4, <1>5, <2>1, <2>3, <3>2, <3>3, <4>1 DEF Sound
    <3> QED BY <3>4, <3>5, <3>6, <3>7
  <2> QED BY <2>2, <2>3
<1>8. CASE RotateToken(w)
  <2>1. /\ worker[w].at = "persist" /\ worker[w] \in WorkState /\ worker[w].row # NoRow
        /\ worker[w].token.exp = now + Life
    BY <1>2, <1>8 DEF RotateToken, TypeOK, Backed, Punctual, Issued
  <2>2. PICK b \in Accounts, q \in Logins, t \in Tokens :
          b = worker[w].task[1] /\ q = worker[w].row /\ t = worker[w].token /\ t.exp > now
    BY <2>1 DEF WorkState, Keys, Ordinary, TypeOK, SessionAssumption
  <2>3. /\ UNCHANGED vault \/ vault' = [vault EXCEPT ![b][q] = t]
        /\ UNCHANGED cache \/ cache' = [cache EXCEPT ![w][b][q] = NoToken]
        /\ \/ worker' = [worker EXCEPT ![w].at = "settle"]
           \/ Answer(w, "retryable", "report")
    BY <1>8, <2>2 DEF RotateToken
  <2>4. /\ vault'[a][r] = vault[a][r] \/ vault'[a][r] = t
        /\ \A x \in Workers : cache'[x][a][r] \in {cache[x][a][r], NoToken}
    <3>1. vault'[a][r] = vault[a][r] \/ vault'[a][r] = t
      <4>1. DOMAIN vault = Accounts /\ DOMAIN vault[b] = Logins
        BY DEF TypeOK
      <4>2. CASE vault' = [vault EXCEPT ![b][q] = t]
        BY <1>3, <4>1, <4>2
      <4> QED BY <2>3, <4>2
    <3>2. ASSUME NEW x \in Workers
          PROVE  cache'[x][a][r] = cache[x][a][r] \/ cache'[x][a][r] = NoToken
      <4>1. /\ DOMAIN cache = Workers /\ DOMAIN cache[w] = Accounts
            /\ r \in DOMAIN cache[w][a]
        BY <1>3 DEF TypeOK
      <4> QED BY <2>3, <4>1
    <3> QED BY <3>1, <3>2
  <2>5. /\ worker'[w].task = worker[w].task /\ worker'[w].row = worker[w].row
        /\ worker'[w].at \notin {"call", "persist"}
        /\ worker'[w].at = "report" => worker'[w].answer # "dead"
    BY <1>1, <2>1, <2>3 DEF Answer, WorkState
  <2>6. worker'[w].task[1] = a => Sound(w, r)'
    BY <1>4, <2>5 DEF Sound
  <2> QED BY <1>1, <1>3, <2>2, <2>4, <2>6, StillSteady
<1>9. CASE RotateFails(w) \/ Report(w) \/ ReportFails(w)
  <2>1. worker[w] \in WorkState /\ UNCHANGED <<vault, cache>>
    BY <1>2, <1>9 DEF RotateFails, Report, ReportFails
  <2>2. \/ worker'[w].task[1] # a
        \/ /\ worker'[w].task = worker[w].task /\ worker'[w].row = worker[w].row
           /\ worker'[w].at \notin {"call", "persist"}
           /\ worker'[w].at = "report" => worker'[w].answer # "dead"
    BY <1>1, <1>2, <1>9, <2>1 DEF RotateFails, Report, ReportFails, AfterReport, Answer, WorkState
  <2> QED BY <1>4, <1>5, <2>1, <2>2 DEF Sound
<1>10. CASE Settle(w) \/ WorkerCrashes(w)
  <2>1. UNCHANGED vault /\ worker'[w].task[1] # a
    BY <1>1, <1>2, <1>10 DEF Settle, WorkerCrashes
  <2>2. UNCHANGED cache \/ cache' = [cache EXCEPT ![w] = NoCache]
    BY <1>10 DEF Settle, WorkerCrashes
  <2>3. ASSUME NEW x \in Workers
        PROVE  cache'[x][a][r] = cache[x][a][r] \/ cache'[x][a][r] = NoToken
    <3>1. DOMAIN cache = Workers /\ NoCache[a][r] = NoToken
      BY <1>3 DEF TypeOK, NoCache
    <3> QED BY <2>2, <3>1
  <2> QED BY <1>5, <2>1, <2>3
<1>11. ASSUME NEW b \in Accounts, CacheEvicts(w, b) PROVE Steady(a)'
  <2>1. UNCHANGED <<vault, worker>>
    BY <1>11 DEF CacheEvicts
  <2>2. \A x \in Workers : cache'[x][a][r] \in {cache[x][a][r], NoToken}
    BY <1>3, <1>11 DEF CacheEvicts, TypeOK
  <2> QED BY <1>5, <2>1, <2>2
<1> QED BY <1>6, <1>7, <1>8, <1>9, <1>10, <1>11 DEF WorkerStep, TakeRefresh, TakeOperation
-----------------------------------------------------------------------------
(* What a step within an interval does to jobs, sweeps and workers.        *)

Key(a) == <<a, account[a].expires>>

JobMoved(k) ==
  LET from == job[k].state
      to   == job'[k].state
  IN \/ to = from
     \/ from = "absent" /\ to = "unsent" /\ \E s \in Sweepers : k \in sweep[s].todo
     \/ from = "unsent" /\ to = "queued" /\ \E s \in Sweepers : k \in sweep[s].creating
     \/ from = "queued" /\ to = "running"
     \/ from = "running" /\ to \in {"queued", "failed", "stuck"}
     \/ /\ from = "running" /\ to = "succeeded"
        /\ \E w \in Workers : /\ worker[w].at = "settle" /\ worker[w].answer = "ok"
                              /\ worker[w].task = k

\* The sweeper has passed the accounts that were due.
Past(s) == s \in swept \/ sweep[s].at \in {"create", "enqueue", "mark"}

SweepMoved(s) ==
  /\ \A k \in sweep'[s].todo : k \in sweep[s].todo \/ \E a \in Accounts : k = Key(a) /\ DueForRefresh(a)
  /\ \A k \in sweep'[s].creating : \/ k \in sweep[s].creating
                                   \/ k \in sweep[s].todo /\ job[k].state = "absent"
  /\ Past(s)' => \/ Past(s) /\ \A k \in sweep[s].todo : k \in sweep'[s].todo \/ job[k].state # "absent"
                 \/ \A a \in Accounts : DueForRefresh(a) => Key(a) \in sweep'[s].todo

WorkerMoved(w) ==
  LET v == worker'[w]
  IN \/ v = worker[w]
     \/ v.at \in {"idle", "call", "persist"}
     \/ v.at = "report" /\ v.answer = "dead"
     \/ v.at = "report" /\ v.answer \in {"retryable", "refused"} /\ v.task \in Keys
     \/ v.at = "settle" /\ v.answer # "ok"
     \/ v.at = "settle" /\ v.task \in Keys /\ InHand(v.task) /\ account'[v.task[1]].expires = now + Life

\* What an interval must give a sweep and a refresh time for: every account is
\* due before its session ends, and every sweep takes all that are due.
Prompt == /\ Sweepers # {} /\ 0 < Window /\ MinRetry < Life
          /\ IsFiniteSet(Accounts) /\ Cardinality(Accounts) <= Limit

LEMMA WholeBatch ==
  ASSUME SessionAssumption, Prompt, NEW S \in SUBSET Accounts, NEW B \in Earliest(S)
  PROVE  B = S
<1>1. B \subseteq S /\ (B # S => Cardinality(B) = Limit)
  BY DEF Earliest
<1>2. IsFiniteSet(S) /\ IsFiniteSet(B) /\ Cardinality(S) <= Cardinality(Accounts)
  BY <1>1, FS_Subset DEF Prompt
<1>3. CASE B # S
  <2>1. Cardinality(B) <= Cardinality(S) /\ Cardinality(S) # Cardinality(B)
    BY <1>1, <1>2, <1>3, FS_Subset
  <2>2. Cardinality(B) \in Nat /\ Cardinality(S) \in Nat /\ Cardinality(Accounts) \in Nat
    BY <1>2, FS_CardinalityType DEF Prompt
  <2> QED BY <1>1, <1>2, <1>3, <2>1, <2>2 DEF Prompt, SessionAssumption
<1> QED BY <1>3

LEMMA SweepsMove ==
  ASSUME SessionAssumption, Prompt, TypeOK, Orderly, NEW s \in Sweepers, SweeperStep(s),
         NEW r \in Sweepers
  PROVE  SweepMoved(r)
<1>1. /\ DOMAIN sweep = Sweepers /\ \A x \in Sweepers : sweep[x] \in SweepState
      /\ SweptInOrder(s)
  BY DEF TypeOK, Orderly
<1>2. \A k \in Keys : k \in sweep'[r].creating => \/ k \in sweep[r].creating
                                                  \/ k \in sweep[r].todo /\ job[k].state = "absent"
  BY SweepersInOrder
<1>3. sweep'[r].creating \subseteq Keys
  BY <1>1, SweeperTyped DEF SweeperStep, TypeOK, SweepState
<1>4. SUFFICES /\ \A k \in sweep'[r].todo :
                    k \in sweep[r].todo \/ \E a \in Accounts : k = Key(a) /\ DueForRefresh(a)
               /\ Past(r)' =>
                    \/ /\ Past(r)
                       /\ \A k \in sweep[r].todo : k \in sweep'[r].todo \/ job[k].state # "absent"
                    \/ \A a \in Accounts : DueForRefresh(a) => Key(a) \in sweep'[r].todo
  BY <1>2, <1>3 DEF SweepMoved
<1>5. CASE r # s
  <2>1. sweep'[r] = sweep[r] /\ (r \in swept' <=> r \in swept)
    BY <1>1, <1>5 DEF SweeperStep, Reconcile, Select, EndSweep, SweepAborts, Create, Skip, Enqueue,
                      MarkAttempted
  <2> QED BY <2>1 DEF Past
<1>6. CASE r = s
  <2>1. CASE Reconcile(s)
    <3>1. /\ sweep'[s].at = "select" /\ sweep'[s].todo = sweep[s].todo
          /\ s \notin swept'
      BY <1>1, <2>1 DEF Reconcile, SweepState
    <3> QED BY <1>6, <3>1 DEF Past
  <2>2. CASE Select(s)
    <3>1. PICK B \in Earliest({a \in Accounts : DueForRefresh(a)}) :
            sweep' = [sweep EXCEPT ![s].at = "create",
                                   ![s].todo = {<<a, account[a].expires>> : a \in B}]
      BY <2>2 DEF Select
    <3>2. B = {a \in Accounts : DueForRefresh(a)}
      BY WholeBatch
    <3>3. sweep'[s].todo = {Key(a) : a \in B}
      BY <1>1, <3>1 DEF SweepState, Key
    <3> QED BY <1>6, <3>2, <3>3
  <2>3. CASE EndSweep(s)
    <3>1. /\ sweep'[s] = IdleSweep /\ sweep[s].todo = {} /\ sweep[s].at = "create"
      BY <1>1, <2>3 DEF EndSweep
    <3> QED BY <1>6, <3>1 DEF Past, IdleSweep
  <2>4. CASE SweepAborts(s)
    <3>1. /\ sweep'[s] = IdleSweep /\ s \notin swept'
      BY <1>1, <2>4 DEF SweepAborts, SweptInOrder
    <3> QED BY <1>6, <3>1 DEF Past, IdleSweep
  <2>5. ASSUME NEW k \in Keys, Create(s, k) \/ Enqueue(s, k)
        PROVE  sweep'[s].todo = sweep[s].todo /\ Past(s)
    BY <1>1, <2>5 DEF Create, Enqueue, NextCandidate, SweepState, Past
  <2>6. ASSUME NEW k \in Keys, Skip(s, k) \/ MarkAttempted(s, k)
        PROVE  sweep'[s].todo = sweep[s].todo \ {k} /\ job[k].state # "absent" /\ Past(s)
    <3>1. sweep[s].at \in {"create", "mark"} /\ job[k].state # "absent"
      BY <1>1, <2>6 DEF Skip, MarkAttempted, NextCandidate, SweptInOrder
    <3>2. sweep'[s].todo = sweep[s].todo \ {k}
      BY <1>1, <2>6 DEF Skip, MarkAttempted, SweepState
    <3> QED BY <3>1, <3>2 DEF Past
  <2> QED BY <1>6, <2>1, <2>2, <2>3, <2>4, <2>5, <2>6 DEF SweeperStep
<1> QED BY <1>5, <1>6

LEMMA WorkersMove ==
  ASSUME SessionAssumption, TypeOK, Orderly, Punctual, late = 0, NEW w \in Workers, WorkerStep(w),
         \A a \in Accounts : ~challenged[a], \A x \in Workers : Reports(x), NEW v \in Workers
  PROVE  WorkerMoved(v)
<1>1. /\ \A x \in Workers \ {w} : worker'[x] = worker[x]
      /\ DOMAIN worker = Workers /\ IdleWorker.at = "idle"
      /\ worker[w].at # "idle" => worker[w] \in WorkState
  BY OtherWorkersStay, BusyTyped DEF WorkerStep, TypeOK, IdleWorker
<1>2. SUFFICES WorkerMoved(w)
  BY <1>1 DEF WorkerMoved
<1>3. CASE \E t \in Keys \cup Ordinary : Take(w, t)
  BY <1>1, <1>3 DEF Take, WorkerMoved
<1>4. CASE \E a \in Accounts : CacheEvicts(w, a)
  BY <1>4 DEF CacheEvicts, WorkerMoved
<1>5. CASE Call(w)
  <2>1. worker[w] \in WorkState /\ worker[w].task[1] \in Accounts
    BY <1>1, <1>5 DEF Call, WorkState, Keys, Ordinary
  <2>2. \/ worker' = [worker EXCEPT ![w] = IdleWorker]
        \/ Answer(w, "dead", "report")
        \/ Refreshing(w) /\ \E f \in {"retryable", "refused"} : Answer(w, f, "report")
        \/ \E t : worker' = [worker EXCEPT ![w].answer = "ok", ![w].at = "persist", ![w].token = t]
    BY <1>5, <2>1 DEF Call
  <2>3. \/ worker'[w].at \in {"idle", "persist"}
        \/ worker'[w].at = "report" /\ worker'[w].answer = "dead"
        \/ /\ worker'[w].at = "report" /\ worker'[w].answer \in {"retryable", "refused"}
           /\ worker'[w].task \in Keys
    BY <1>1, <2>1, <2>2 DEF Answer, Refreshing, WorkState
  <2> QED BY <2>3 DEF WorkerMoved
<1>6. CASE RotateToken(w) \/ RotateFails(w)
  <2>1. /\ worker[w] \in WorkState /\ worker[w].task \in Keys /\ worker[w].at = "persist"
        /\ worker[w].token.exp = now + Life
    BY <1>1, <1>6 DEF RotateToken, RotateFails, TypeOK, Backed, Punctual, Issued
  <2>2. CASE Answer(w, "retryable", "report")
    <3>1. /\ worker'[w].at = "report" /\ worker'[w].answer = "retryable"
          /\ worker'[w].task = worker[w].task
      BY <1>1, <2>1, <2>2 DEF Answer, WorkState
    <3> QED BY <2>1, <3>1 DEF WorkerMoved
  <2>3. CASE RotateToken(w) /\ ~Answer(w, "retryable", "report")
    <3>1. PICK b \in Accounts : b = worker[w].task[1] /\ account[b] \in AccountRow
      BY <2>1 DEF Keys, TypeOK
    <3>2. /\ worker' = [worker EXCEPT ![w].at = "settle"]
          /\ account' = [account EXCEPT ![b] = RefreshSuccess(@, now + Life)]
      BY <2>1, <2>3, <3>1 DEF RotateToken
    <3>3. worker'[w].at = "settle" /\ worker'[w].task = worker[w].task
      BY <1>1, <2>1, <3>2 DEF WorkState
    <3>4. account'[b].expires = now + Life
      BY <3>1, <3>2 DEF RefreshSuccess, AccountRow, TypeOK
    <3>5. InHand(worker[w].task)
      BY <2>1 DEF InHand, Orderly, Delivered
    <3> QED BY <2>1, <3>1, <3>3, <3>4, <3>5 DEF WorkerMoved, InHand
  <2> QED BY <1>6, <2>2, <2>3 DEF RotateFails
<1>7. CASE Report(w) \/ ReportFails(w)
  <2>1. worker[w].at = "report" /\ AfterReport(w) /\ worker[w] \in WorkState
    BY <1>1, <1>7 DEF Report, ReportFails
  <2>2. worker[w].answer # "ok"
    BY <2>1 DEF Reports
  <2>3. \/ worker'[w].at = "idle"
        \/ worker'[w].at = "settle" /\ worker'[w].answer = worker[w].answer
    BY <1>1, <2>1 DEF AfterReport, WorkState
  <2> QED BY <2>2, <2>3 DEF WorkerMoved
<1>8. CASE Settle(w) \/ WorkerCrashes(w)
  BY <1>1, <1>8 DEF Settle, WorkerCrashes, WorkerMoved
<1> QED BY <1>3, <1>4, <1>5, <1>6, <1>7, <1>8 DEF WorkerStep, TakeRefresh, TakeOperation
-----------------------------------------------------------------------------
(* Every refresh comes in time.                                            *)

\* A job that is on its way to a worker, or is about to be created.
Live(k) == \/ job[k].state \in {"queued", "running"}
           \/ job[k].state = "unsent" /\ \E s \in Sweepers : k \in sweep[s].creating
           \/ job[k].state = "absent" /\ \E s \in Sweepers : k \in sweep[s].todo

\* An account is due again after each attempt, unless its session has had its
\* job; and until it is issued a new token nobody finds the old one dead.
RowInTime(a) ==
  LET c == account[a]
  IN /\ gen[a] = 0 /\ ~challenged[a] /\ ~c.blocked
     /\ c.ref = NoRow <=> c.expires = Never
     /\ c.health \notin {"checkpoint_required", "suspended"}
     /\ c.health = "token_dead" => c.status = "revoked"
     /\ c.status = "expired" => c.expires <= now
     /\ c.attempted <= now
     /\ c.ref # NoRow /\ c.attempted # Never =>
          c.attempted <= c.expires - Life \/ job[Key(a)].state # "absent"
     /\ c.ref # NoRow /\ now < c.expires /\ c.expires < now + Life => Steady(a)
     /\ InService(a) /\ ~RefreshLost(a) => now < c.expires

WorkerInTime(w) ==
  /\ Reports(w)
  /\ worker[w].at = "settle" /\ worker[w].answer = "ok" =>
       worker[w].task[2] < account[worker[w].task[1]].expires

\* A job that succeeded moved the end of the session; one under way has the
\* session it was created for, or one of this interval.
JobInTime(k) ==
  /\ job[k].state # "absent" \/ InHand(k) => k[2] <= now + Window
  /\ job[k].state = "succeeded" => k[2] < account[k[1]].expires
  /\ InHand(k) => account[k[1]].expires \in {k[2], now + Life}
  /\ Live(k) => Steady(k[1]) /\ account[k[1]].health # "token_dead"

SweepInTime(s) ==
  \A a \in Accounts : Past(s) /\ DueForRefresh(a) =>
                        job[Key(a)].state # "absent" \/ Key(a) \in sweep[s].todo

InTime == /\ \A a \in Accounts : RowInTime(a)
          /\ \A w \in Workers : WorkerInTime(w)
          /\ \A k \in Keys : JobInTime(k)
          /\ \A s \in Sweepers : SweepInTime(s)

\* A step within an interval.
Moved == /\ UNCHANGED <<now, gen>>
         /\ \A a \in Accounts : /\ challenged'[a] => challenged[a]
                                /\ RowMoved(a)
                                /\ Steady(a) => Steady(a)'
         /\ \A k \in Keys : JobMoved(k)
         /\ \A s \in Sweepers : SweepMoved(s)
         /\ \A w \in Workers : WorkerMoved(w)

LEMMA ClockTyped ==
  ASSUME SessionAssumption, TypeOK
  PROVE  /\ now \in Int /\ Life \in Int /\ 0 < Life /\ Window \in Nat /\ Window < Life
         /\ MinRetry \in Nat /\ MaxFailures \in Int /\ Never \in Int /\ Never < 0 /\ 0 <= now
         /\ \A a \in Accounts : /\ account[a].expires \in Int /\ account[a].attempted \in Int
                                /\ account[a].failures \in Int
                                /\ account[a].expires # Never => Key(a) \in Keys
         /\ \A k \in Keys : k[1] \in Accounts /\ k[2] \in Int /\ k = <<k[1], k[2]>>
BY DEF SessionAssumption, TypeOK, AccountRow, Times, Never, Key, Keys

\* The end of a session stays, or is a lifetime from now, which is no earlier.
LEMMA ExpiryMoves ==
  ASSUME SessionAssumption, TypeOK, Punctual, late = 0, NEW a \in Accounts, RowInTime(a), RowMoved(a)
  PROVE  /\ \/ account'[a].ref = account[a].ref /\ account'[a].expires = account[a].expires
            \/ account'[a].ref # NoRow /\ account'[a].expires = now + Life
         /\ account[a].expires <= now + Life
<1>1. account[a].expires <= now + Life
  <2>1. CASE account[a].ref = NoRow
    BY <2>1, ClockTyped DEF RowInTime
  <2>2. CASE account[a].ref # NoRow
    <3>1. account[a].ref \in Logins
      BY <2>2 DEF TypeOK, AccountRow
    <3>2. vault[a][account[a].ref].exp \in Int
      BY <3>1 DEF TypeOK, Tokens, Times, SessionAssumption
    <3> QED BY <2>2, <3>1, <3>2, ClockTyped DEF Punctual
  <2> QED BY <2>1, <2>2
<1> QED BY <1>1 DEF RowMoved, SameSession

\* No account becomes due within an interval.
LEMMA NoneBecomesDue ==
  ASSUME SessionAssumption, TypeOK, NEW a \in Accounts, RowInTime(a), RowMoved(a), UNCHANGED now,
         TypeOK', DueForRefresh(a)'
  PROVE  DueForRefresh(a) /\ account'[a].expires = account[a].expires
<1> DEFINE c == account[a]
           d == account'[a]
<1>1. /\ d.ref # NoRow /\ d.expires # Never /\ d.expires <= now + Window
      /\ d.status \in {"valid", "expiring"} /\ ~d.blocked
      /\ d.health \notin {"checkpoint_required", "token_dead", "suspended"}
      /\ d.failures < MaxFailures
      /\ d.attempted = Never \/ d.attempted <= now - MinRetry
  BY DEF DueForRefresh
<1>2. d.failures \in Int /\ d.attempted \in Int
  BY DEF TypeOK, AccountRow, Times, Never, SessionAssumption
<1>3. CASE d.expires = now + Life
  BY <1>1, <1>3, ClockTyped
<1>4. CASE SameSession(c, d)
  <2>1. c.ref = d.ref /\ c.expires = d.expires /\ ~c.blocked
    BY <1>1, <1>4 DEF SameSession
  <2>2. c.status \in {"valid", "expiring"}
    BY <1>1, <1>4, <2>1, ClockTyped DEF RowMoved, RowInTime
  <2>3. c.health \notin {"checkpoint_required", "token_dead", "suspended"}
    BY <1>1, <2>2 DEF RowInTime
  <2>4. c.failures < MaxFailures /\ (c.attempted = Never \/ c.attempted <= now - MinRetry)
    BY <1>1, <1>2, <1>3, ClockTyped DEF RowMoved, RowInTime
  <2> QED BY <1>1, <2>1, <2>2, <2>3, <2>4 DEF DueForRefresh
<1> QED BY <1>3, <1>4 DEF RowMoved, SameSession

\* A refresh that is lost stays lost.
LEMMA StillLost ==
  ASSUME SessionAssumption, TypeOK, NEW a \in Accounts, account[a].expires # Never, Moved,
         account'[a].expires = account[a].expires, RefreshLost(a)
  PROVE  RefreshLost(a)'
<1>1. PICK k \in Keys : k = Key(a)
  BY ClockTyped
<1>2. /\ \/ job[k].state \in {"failed", "stuck"}
         \/ job[k].state = "unsent" /\ \A s \in Sweepers : k \notin sweep[s].creating
      /\ JobMoved(k) /\ \A s \in Sweepers : SweepMoved(s)
  BY <1>1 DEF RefreshLost, Key, Moved
<1>3. \/ job'[k].state \in {"failed", "stuck"}
      \/ job'[k].state = "unsent" /\ \A s \in Sweepers : k \notin sweep'[s].creating
  BY <1>2 DEF JobMoved, SweepMoved
<1> QED BY <1>1, <1>3 DEF RefreshLost, Key

LEMMA RowsInTime ==
  ASSUME SessionAssumption, TypeOK, TypeOK', Orderly, Punctual, late = 0, InTime, Moved,
         NEW a \in Accounts
  PROVE  RowInTime(a)'
<1> DEFINE c == account[a]
           d == account'[a]
<1>1. /\ RowInTime(a) /\ RowMoved(a) /\ (Steady(a) => Steady(a)') /\ now' = now
      /\ gen'[a] = 0 /\ ~challenged'[a]
  BY DEF InTime, Moved, RowInTime
<1>2. /\ d.attempted \in Int /\ d.expires \in Int /\ d.failures \in Int /\ Key(a)' = <<a, d.expires>>
  BY DEF TypeOK, AccountRow, Times, Never, SessionAssumption, Key
<1>3. \/ d.ref = c.ref /\ d.expires = c.expires
      \/ d.ref # NoRow /\ d.expires = now + Life
  BY <1>1, ExpiryMoves
<1>4. ~d.blocked /\ (d.ref = NoRow <=> d.expires = Never)
  BY <1>1, <1>3, ClockTyped DEF RowInTime, RowMoved, SameSession
<1>5. d.health \notin {"checkpoint_required", "suspended"} /\ d.attempted <= now
  BY <1>1, ClockTyped DEF RowInTime, RowMoved
<1>6. d.health = "token_dead" => d.status = "revoked"
  <2>1. ASSUME NEW w \in Workers, worker[w].at = "persist", worker[w].task \in Keys,
               worker[w].task[1] = a
        PROVE  c.health # "token_dead"
    <3>1. job[worker[w].task].state = "running"
      BY <2>1 DEF Orderly, Delivered
    <3> QED BY <2>1, <3>1 DEF InTime, JobInTime, Live
  <2> QED BY <1>1, <2>1 DEF RowInTime, RowMoved
<1>7. d.status = "expired" => d.expires <= now
  BY <1>1 DEF RowInTime, RowMoved, SameSession
<1>8. d.ref # NoRow /\ d.attempted # Never =>
        d.attempted <= d.expires - Life \/ job'[<<a, d.expires>>].state # "absent"
  <2>1. CASE d.expires = now + Life
    BY <1>2, <1>5, <2>1, ClockTyped
  <2>2. CASE d.expires = c.expires /\ d.ref = c.ref /\ d.ref # NoRow
    <3>1. PICK k \in Keys : k = Key(a)
      BY <1>1, <2>2, ClockTyped DEF RowInTime
    <3>2. job[k].state # "absent" => job'[k].state # "absent"
      BY DEF Moved, JobMoved
    <3>3. d.attempted = c.attempted \/ d.expires = now + Life \/ job[k].state # "absent"
      <4>1. ASSUME NEW i \in Keys, i[1] = a, InHand(i), job[i].state # "absent"
            PROVE  c.expires = now + Life \/ job[k].state # "absent"
        <5>1. c.expires \in {i[2], now + Life}
          BY <4>1 DEF InTime, JobInTime
        <5>2. c.expires = i[2] => i = k
          BY <3>1, <4>1, ClockTyped DEF Key
        <5> QED BY <4>1, <5>1, <5>2
      <4> QED BY <1>1, <2>2, <4>1 DEF RowMoved
    <3> QED BY <1>1, <2>1, <2>2, <3>1, <3>2, <3>3 DEF RowInTime, Key
  <2> QED BY <1>3, <2>1, <2>2
<1>9. d.ref # NoRow /\ now < d.expires /\ d.expires < now + Life => Steady(a)'
  BY <1>1, <1>2, <1>3, ClockTyped DEF RowInTime
<1>10. InService(a)' /\ ~RefreshLost(a)' => now < d.expires
  <2>1. CASE d.expires = now + Life
    BY <2>1, ClockTyped
  <2>2. CASE d.expires = c.expires /\ d.ref = c.ref /\ InService(a)' /\ ~RefreshLost(a)'
    <3>1. d.ref # NoRow /\ d.status \in {"valid", "expiring"} /\ d.failures < MaxFailures
      BY <2>2 DEF InService
    <3>2. ~RefreshLost(a)
      BY <1>1, <2>2, <3>1, StillLost DEF RowInTime
    <3>3. \/ c.status \in {"valid", "expiring"} /\ c.failures < MaxFailures
          \/ now < d.expires
      BY <1>1, <1>2, <2>1, <3>1, ClockTyped DEF RowMoved, RowInTime
    <3> QED BY <1>1, <2>2, <3>1, <3>2, <3>3 DEF RowInTime, InService
  <2> QED BY <1>3, <2>1, <2>2
<1> QED BY <1>1, <1>2, <1>4, <1>5, <1>6, <1>7, <1>8, <1>9, <1>10 DEF RowInTime

LEMMA JobsInTime ==
  ASSUME SessionAssumption, TypeOK, TypeOK', Orderly, Punctual, late = 0, InTime, Moved,
         NEW k \in Keys
  PROVE  JobInTime(k)'
<1>1. PICK a \in Accounts : a = k[1] /\ k[2] \in Int
  BY ClockTyped
<1>2. /\ JobInTime(k) /\ JobMoved(k) /\ RowInTime(a) /\ RowMoved(a) /\ (Steady(a) => Steady(a)')
      /\ now' = now /\ \A s \in Sweepers : SweepMoved(s)
  BY DEF InTime, Moved
<1>3. /\ \/ account'[a].expires = account[a].expires
         \/ account'[a].expires = now + Life
      /\ account[a].expires <= now + Life /\ account'[a].expires \in Int
  BY <1>2, ExpiryMoves DEF TypeOK, AccountRow, Times, Never, SessionAssumption
<1>4. \* a candidate is due, and has the session's key
      (\E b \in Accounts : k = Key(b) /\ DueForRefresh(b)) =>
        /\ k = Key(a) /\ DueForRefresh(a) /\ k[2] = account[a].expires /\ k[2] <= now + Window
  BY <1>1 DEF Key, DueForRefresh
<1>5. InHand(k)' => InHand(k) \/ (k = Key(a) /\ DueForRefresh(a))
  BY <1>2, <1>4 DEF InHand, JobMoved, SweepMoved
<1>6. job'[k].state # "absent" \/ InHand(k)' => k[2] <= now + Window
  BY <1>2, <1>4, <1>5 DEF JobInTime, JobMoved, InHand
<1>7. job'[k].state = "succeeded" => k[2] < account'[a].expires
  <2>1. ASSUME NEW w \in Workers, worker[w].at = "settle", worker[w].answer = "ok",
               worker[w].task = k
        PROVE  k[2] < account[a].expires
    BY <1>1, <2>1 DEF InTime, WorkerInTime
  <2>2. job'[k].state = "succeeded" => k[2] < account[a].expires
    BY <1>1, <1>2, <2>1 DEF JobInTime, JobMoved
  <2> QED BY <1>1, <1>3, <2>2, ClockTyped
<1>8. InHand(k)' => account'[a].expires \in {k[2], now + Life}
  BY <1>1, <1>2, <1>3, <1>4, <1>5 DEF JobInTime
<1>9. Live(k)' => Live(k) \/ (job[k].state = "absent" /\ k = Key(a) /\ DueForRefresh(a))
  BY <1>2, <1>4 DEF Live, JobMoved, SweepMoved
<1>10. ASSUME job[k].state = "absent", k = Key(a), DueForRefresh(a)
       PROVE  Steady(a) /\ account[a].health # "token_dead"
  <2>1. InService(a) /\ ~RefreshLost(a)
    BY <1>10 DEF DueForRefresh, InService, RefreshLost, Key
  <2>2. now < account[a].expires /\ account[a].expires < now + Life
    BY <1>2, <1>10, <2>1, ClockTyped DEF RowInTime, DueForRefresh
  <2> QED BY <1>2, <1>10, <2>2 DEF RowInTime, DueForRefresh
<1>11. ASSUME Live(k)' PROVE Steady(a)' /\ account'[a].health # "token_dead"
  <2>1. Steady(a) /\ account[a].health # "token_dead"
    BY <1>1, <1>2, <1>9, <1>10, <1>11 DEF JobInTime
  <2>2. ASSUME NEW w \in Workers, worker[w].at = "report", worker[w].answer = "dead",
               worker[w].task[1] = a
        PROVE  FALSE
    BY <2>1, <2>2 DEF Steady, Sound
  <2>3. account'[a].health # "token_dead"
    BY <1>2, <2>1, <2>2 DEF RowMoved
  <2> QED BY <1>2, <2>1, <2>3
<1> QED BY <1>1, <1>2, <1>6, <1>7, <1>8, <1>11 DEF JobInTime

LEMMA SweepsInTime ==
  ASSUME SessionAssumption, TypeOK, TypeOK', InTime, Moved, NEW s \in Sweepers
  PROVE  SweepInTime(s)'
<1> SUFFICES ASSUME NEW a \in Accounts, Past(s)', DueForRefresh(a)', job'[Key(a)'].state = "absent"
             PROVE  Key(a)' \in sweep'[s].todo
  BY DEF SweepInTime
<1>1. RowInTime(a) /\ RowMoved(a) /\ SweepMoved(s) /\ SweepInTime(s) /\ UNCHANGED now
  BY DEF InTime, Moved
<1>2. DueForRefresh(a) /\ account'[a].expires = account[a].expires
  BY <1>1, NoneBecomesDue
<1>3. PICK k \in Keys : k = Key(a) /\ k = Key(a)'
  BY <1>2, ClockTyped DEF DueForRefresh, Key
<1>4. job[k].state = "absent"
  BY <1>3 DEF Moved, JobMoved
<1> QED BY <1>1, <1>2, <1>3, <1>4 DEF SweepMoved, SweepInTime

LEMMA WorkersInTime ==
  ASSUME SessionAssumption, TypeOK, TypeOK', Orderly, Punctual, late = 0, InTime, Moved,
         NEW w \in Workers
  PROVE  WorkerInTime(w)'
<1>1. WorkerInTime(w) /\ WorkerMoved(w) /\ now' = now
  BY DEF InTime, Moved
<1>2. CASE worker'[w] = worker[w]
  <2>1. Reports(w)'
    BY <1>1, <1>2 DEF WorkerInTime, Reports
  <2>2. ASSUME worker[w].at = "settle", worker[w].answer = "ok"
        PROVE  worker[w].task[2] < account'[worker[w].task[1]].expires
    <3>1. PICK k \in Keys : k = worker[w].task
      BY <2>2 DEF TypeOK, Backed
    <3>2. PICK a \in Accounts : a = k[1] /\ k[2] \in Int
      BY ClockTyped
    <3>3. k[2] < account[a].expires
      BY <1>1, <2>2, <3>1, <3>2 DEF WorkerInTime
    <3>4. /\ account'[a].expires \in {account[a].expires, now + Life}
          /\ account[a].expires <= now + Life
      BY ExpiryMoves DEF InTime, Moved
    <3> QED BY <3>1, <3>2, <3>3, <3>4, ClockTyped
  <2> QED BY <1>2, <2>1, <2>2 DEF WorkerInTime
<1>3. CASE worker'[w].at \in {"idle", "call", "persist", "report"} /\ worker'[w] # worker[w]
  BY <1>1, <1>3 DEF WorkerMoved, WorkerInTime, Reports
<1>4. CASE worker'[w].at = "settle" /\ worker'[w].answer # "ok"
  BY <1>4 DEF WorkerInTime, Reports
<1>5. CASE /\ worker'[w].at = "settle" /\ worker'[w].task \in Keys /\ InHand(worker'[w].task)
           /\ account'[worker'[w].task[1]].expires = now + Life
  <2>1. PICK k \in Keys : k = worker'[w].task
    BY <1>5
  <2>2. k[2] <= now + Window
    BY <1>5, <2>1 DEF InTime, JobInTime
  <2>3. k[2] < now + Life
    BY <2>2, ClockTyped
  <2> QED BY <1>5, <2>1, <2>3 DEF WorkerInTime, Reports
<1> QED BY <1>1, <1>2, <1>3, <1>4, <1>5 DEF WorkerMoved

\* Jobs and sweeps stay in order, whoever moves.
LEMMA OrderlyInductive ==
  ASSUME SessionAssumption, TypeOK, Orderly, [Next]_vars
  PROVE  Orderly'
<1>1. Delivered /\ (\A s \in Sweepers : SweptInOrder(s)) /\ \A s \in Sweepers : sweep[s] \in SweepState
  BY DEF Orderly, TypeOK
<1>2. ASSUME NEW s \in Sweepers, SweeperStep(s) PROVE Orderly'
  BY <1>2, SweepersInOrder DEF Orderly
<1>3. ASSUME NEW w \in Workers, WorkerStep(w) PROVE Orderly'
  <2>1. UNCHANGED <<sweep, swept>>
    BY <1>3 DEF WorkerStep, TakeRefresh, TakeOperation, Take, CacheEvicts, Call, RotateToken,
                RotateFails, Report, ReportFails, Settle, WorkerCrashes
  <2>2. /\ Delivered'
        /\ \A k \in Keys : /\ job[k].state = "unsent" => job'[k].state = "unsent"
                           /\ job[k].state # "absent" => job'[k].state # "absent"
    BY <1>1, <1>3, WorkersDeliver
  <2>3. ASSUME NEW s \in Sweepers PROVE SweptInOrder(s)'
    <3>1. sweep[s].creating \subseteq Keys /\ SweptInOrder(s)
      BY <1>1 DEF SweepState
    <3> QED BY <2>1, <2>2, <3>1 DEF SweptInOrder
  <2> QED BY <2>2, <2>3 DEF Orderly
<1>4. CASE UNCHANGED <<job, sweep, swept, worker>>
  BY <1>1, <1>4 DEF Orderly, Delivered, SweptInOrder
<1>5. CASE Tick
  <2>1. UNCHANGED <<job, sweep, worker>> /\ swept' = {}
    BY <1>5 DEF Tick
  <2> QED BY <1>1, <2>1 DEF Orderly, Delivered, SweptInOrder
<1>6. ASSUME NEW l \in Logins, LoginStep(l) PROVE Orderly'
  BY <1>4, <1>6 DEF LoginStep, Exchange, Store, Attach, LoginAborts
<1>7. ASSUME NEW a \in Accounts, Revoke(a) \/ Challenge(a) \/ UpdateStatus(a) PROVE Orderly'
  BY <1>4, <1>7 DEF Revoke, Challenge, UpdateStatus
<1>8. CASE UNCHANGED vars
  BY <1>4, <1>8 DEF vars
<1>9. CASE Next
  BY <1>2, <1>3, <1>5, <1>6, <1>7, <1>9 DEF Next, SweeperStep, WorkerStep, LoginStep
<1> QED BY <1>8, <1>9

\* Every step of a sweeper, a worker or a login is one of those.
LEMMA EveryStepMoves ==
  ASSUME SessionAssumption, Prompt, TypeOK, Orderly, Punctual, late = 0, InTime,
         \/ \E s \in Sweepers : SweeperStep(s)
         \/ \E w \in Workers : WorkerStep(w)
         \/ \E l \in Logins : LoginStep(l)
  PROVE  Moved
<1>1. \A w \in Workers : Reports(w)
  BY DEF InTime, WorkerInTime
<1>2. /\ \A a \in Accounts : gen[a] = 0 /\ ~challenged[a]
      /\ DOMAIN challenged = Accounts
  BY DEF InTime, RowInTime, TypeOK
<1>3. \A a \in Accounts : RowMoved(a)
  BY <1>1, RowsMove
<1>4. ASSUME NEW s \in Sweepers, SweeperStep(s) PROVE Moved
  <2>1. UNCHANGED <<worker, now, gen, challenged>>
    BY <1>4 DEF SweeperStep, Reconcile, Select, EndSweep, SweepAborts, Create, Skip, Enqueue,
                MarkAttempted, clockVars
  <2>2. \A k \in Keys : JobMoved(k)
    BY <1>4, SweepersInOrder DEF JobMoved
  <2>3. \A r \in Sweepers : SweepMoved(r)
    BY <1>4, SweepsMove
  <2>4. \A a \in Accounts : Steady(a) => Steady(a)'
    BY <1>3, <1>4, SweepersSteady
  <2>5. \A w \in Workers : WorkerMoved(w)
    BY <2>1 DEF WorkerMoved
  <2> QED BY <1>3, <2>1, <2>2, <2>3, <2>4, <2>5 DEF Moved
<1>5. ASSUME NEW w \in Workers, WorkerStep(w) PROVE Moved
  <2>1. UNCHANGED <<sweep, swept, now, gen, challenged>>
    BY <1>5 DEF WorkerStep, TakeRefresh, TakeOperation, Take, CacheEvicts, Call, RotateToken,
                RotateFails, Report, ReportFails, Settle, WorkerCrashes, clockVars
  <2>2. \A k \in Keys : JobMoved(k)
    BY <1>5, WorkersDeliver DEF JobMoved, Orderly
  <2>3. \A r \in Sweepers : SweepMoved(r)
    BY <2>1 DEF SweepMoved, Past
  <2>4. \A a \in Accounts : Steady(a) => Steady(a)'
    BY <1>2, <1>3, <1>5, WorkersSteady
  <2>5. \A v \in Workers : WorkerMoved(v)
    BY <1>1, <1>2, <1>5, WorkersMove
  <2> QED BY <1>3, <2>1, <2>2, <2>3, <2>4, <2>5 DEF Moved
<1>6. ASSUME NEW l \in Logins, LoginStep(l) PROVE Moved
  <2>1. UNCHANGED <<job, sweep, swept, worker, now, gen>>
    BY <1>6 DEF LoginStep, Exchange, Store, Attach, LoginAborts, clockVars
  <2>2. \A a \in Accounts : challenged'[a] => challenged[a]
    BY <1>2, <1>6 DEF LoginStep, Exchange, Store, Attach, LoginAborts
  <2>3. \A a \in Accounts : Steady(a) => Steady(a)'
    BY <1>3, <1>6, LoginsSteady
  <2>4. /\ \A k \in Keys : JobMoved(k)
        /\ \A r \in Sweepers : SweepMoved(r)
        /\ \A v \in Workers : WorkerMoved(v)
    BY <2>1 DEF JobMoved, SweepMoved, Past, WorkerMoved
  <2> QED BY <1>3, <2>1, <2>2, <2>3, <2>4 DEF Moved
<1> QED BY <1>4, <1>5, <1>6

LEMMA NothingMoves == TypeOK /\ UNCHANGED vars => Moved
<1> SUFFICES ASSUME TypeOK, UNCHANGED vars PROVE Moved
  OBVIOUS
<1>1. UNCHANGED <<account, vault, job, sweep, swept, worker, cache, login, gen, challenged, now>>
  BY DEF vars, clockVars
<1>2. \A a \in Accounts : RowMoved(a) /\ (Steady(a) => Steady(a)')
  BY <1>1 DEF RowMoved, Steady, Sound
<1>3. /\ \A k \in Keys : JobMoved(k)
      /\ \A r \in Sweepers : SweepMoved(r)
      /\ \A v \in Workers : WorkerMoved(v)
  BY <1>1 DEF JobMoved, SweepMoved, Past, WorkerMoved
<1> QED BY <1>1, <1>2, <1>3 DEF Moved

\* When an interval ends, an account that was due has had its job, and the job
\* has moved the end of the session or is lost.
LEMMA TickInTime ==
  ASSUME SessionAssumption, Prompt, TypeOK, Orderly, Punctual, late = 0, InTime, Tick, late' = 0
  PROVE  InTime'
<1>1. /\ ~WorkLeft /\ now' = now + 1 /\ swept' = {} /\ cache' = [w \in Workers |-> NoCache]
      /\ UNCHANGED <<account, vault, job, sweep, worker, login, gen, challenged>>
  BY DEF Tick, TypeOK
<1>2. /\ swept = Sweepers /\ \A s \in Sweepers : sweep[s].at = "idle"
      /\ \A w \in Workers : worker[w] = IdleWorker
      /\ \A l \in Logins : login[l] = IdleLogin
      /\ \A k \in Keys : job[k].state # "queued"
  BY <1>1, BusyTyped DEF WorkLeft, TypeOK, LoginState
<1>3. IdleWorker.task \notin Keys /\ IdleWorker.task[1] \notin Accounts /\ IdleLogin.of \notin Accounts
      /\ IdleWorker.at = "idle"
  BY DEF IdleWorker, IdleLogin, Keys, SessionAssumption
<1>4. \A k \in Keys : job[k].state # "running"
  BY <1>2, <1>3 DEF Orderly, Delivered
<1>5. \A s \in Sweepers : sweep[s].todo = {} /\ sweep[s].creating = {}
  BY <1>2 DEF Orderly, SweptInOrder
<1>6. ASSUME NEW a \in Accounts PROVE RowInTime(a)'
  <2> DEFINE c == account[a]
  <2>1. RowInTime(a) /\ account'[a] = c /\ Key(a)' = Key(a)
    BY <1>1 DEF InTime, Key
  <2>2. ASSUME c.ref # NoRow, now' < c.expires PROVE Steady(a)'
    <3>1. PICK r \in Logins : r = c.ref
      BY <2>2 DEF TypeOK, AccountRow
    <3>2. vault[a][r].exp \in Int
      BY DEF TypeOK, Tokens, Times, SessionAssumption
    <3>3. vault[a][r].exp > now'
      BY <1>1, <2>2, <3>1, <3>2, ClockTyped DEF Punctual
    <3>4. \A w \in Workers : cache'[w][a][r] = NoToken
      BY <1>1 DEF NoCache
    <3>5. /\ \A w \in Workers : worker'[w].task[1] # a
          /\ \A l \in Logins : login'[l].of # a
      BY <1>1, <1>2, <1>3
    <3> QED BY <1>1, <2>2, <3>1, <3>3, <3>4, <3>5 DEF Steady
  <2>3. ASSUME InService(a), ~RefreshLost(a) PROVE now + 1 < c.expires
    <3>1. now < c.expires /\ c.ref # NoRow /\ c.expires # Never
      BY <2>1, <2>3 DEF RowInTime, InService
    <3>2. PICK k \in Keys : k = Key(a)
      BY <3>1, ClockTyped
    <3>3. job[k].state \in {"absent", "succeeded"}
      <4>1. job[k] \in JobRow
        BY DEF TypeOK
      <4>2. job[k].state \notin {"unsent", "failed", "stuck"}
        BY <1>5, <2>3, <3>2 DEF RefreshLost, Key
      <4> QED BY <1>2, <1>4, <4>1, <4>2 DEF JobRow
    <3>4. job[k].state # "succeeded"
      <4>1. k[1] = a /\ k[2] = c.expires
        BY <3>2 DEF Key
      <4> QED BY <4>1, ClockTyped DEF InTime, JobInTime
    <3>5. ~DueForRefresh(a)
      <4>1. PICK s \in Sweepers : TRUE
        BY DEF Prompt
      <4>2. Past(s) /\ SweepInTime(s)
        BY <1>2 DEF Past, InTime
      <4> QED BY <1>5, <3>2, <3>3, <3>4, <4>2 DEF SweepInTime
    <3>6. ASSUME c.expires = now + 1 PROVE DueForRefresh(a)
      <4>1. c.attempted = Never \/ c.attempted <= now - MinRetry
        BY <2>1, <3>1, <3>2, <3>3, <3>4, <3>6, ClockTyped DEF RowInTime, Prompt
      <4>2. c.expires <= now + Window
        BY <3>6, ClockTyped DEF Prompt
      <4> QED BY <2>1, <2>3, <3>1, <4>1, <4>2 DEF DueForRefresh, InService, RowInTime
    <3> QED BY <3>1, <3>5, <3>6, ClockTyped
  <2>4. InService(a)' /\ ~RefreshLost(a)' => InService(a) /\ ~RefreshLost(a)
    BY <1>1 DEF InService, RefreshLost
  <2>5. c.attempted <= now' /\ (c.status = "expired" => c.expires <= now')
    BY <1>1, <2>1, ClockTyped DEF RowInTime
  <2> QED BY <1>1, <2>1, <2>2, <2>3, <2>4, <2>5 DEF RowInTime
<1>7. ASSUME NEW w \in Workers PROVE WorkerInTime(w)'
  BY <1>1, <1>2, <1>3 DEF WorkerInTime, Reports
<1>8. ASSUME NEW k \in Keys PROVE JobInTime(k)'
  <2>1. JobInTime(k) /\ ~InHand(k) /\ ~Live(k)
    BY <1>2, <1>4, <1>5 DEF InTime, InHand, Live
  <2>2. ~InHand(k)' /\ ~Live(k)'
    BY <1>1, <2>1 DEF InHand, Live
  <2>3. k[2] <= now + Window => k[2] <= now' + Window
    BY <1>1, ClockTyped
  <2> QED BY <1>1, <2>1, <2>2, <2>3 DEF JobInTime
<1>9. ASSUME NEW s \in Sweepers PROVE SweepInTime(s)'
  BY <1>1, <1>2 DEF SweepInTime, Past
<1> QED BY <1>6, <1>7, <1>8, <1>9 DEF InTime

LEMMA InTimeAtFirst == SessionAssumption /\ Init => Orderly /\ InTime
<1> SUFFICES ASSUME SessionAssumption, Init PROVE Orderly /\ InTime
  OBVIOUS
<1>1. /\ \A w \in Workers : worker[w] = IdleWorker
      /\ \A s \in Sweepers : sweep[s] = IdleSweep
      /\ \A k \in Keys : job[k].state = "absent"
      /\ swept = {} /\ now = 0
      /\ \A a \in Accounts : gen[a] = 0 /\ ~challenged[a]
  BY DEF Init
<1>2. IdleWorker.task \notin Keys /\ IdleWorker.at = "idle" /\ IdleSweep.at = "idle"
      /\ IdleSweep.todo = {} /\ IdleSweep.creating = {}
  BY DEF IdleWorker, IdleSweep, Keys, SessionAssumption
<1>3. Orderly
  BY <1>1, <1>2 DEF Orderly, Delivered, SweptInOrder
<1>4. ASSUME NEW a \in Accounts PROVE RowInTime(a)
  <2>1. \/ account[a] = NeverLoggedIn
        \/ \E r \in Logins : account[a] = LoggedIn(r)
    BY DEF Init
  <2>2. Life \in Int /\ 0 < Life /\ Never = -1
    BY DEF SessionAssumption, Never
  <2>3. CASE account[a] = NeverLoggedIn
    BY <1>1, <2>2, <2>3 DEF NeverLoggedIn, RowInTime, InService
  <2>4. ASSUME NEW r \in Logins, account[a] = LoggedIn(r) PROVE RowInTime(a)
    <3>1. r # NoRow
      BY DEF SessionAssumption
    <3> QED BY <1>1, <2>2, <2>4, <3>1 DEF LoggedIn, RowInTime, InService
  <2> QED BY <2>1, <2>3, <2>4
<1>5. \A w \in Workers : WorkerInTime(w)
  BY <1>1, <1>2 DEF WorkerInTime, Reports
<1>6. \A k \in Keys : JobInTime(k)
  BY <1>1, <1>2 DEF JobInTime, InHand, Live
<1>7. \A s \in Sweepers : SweepInTime(s)
  BY <1>1, <1>2 DEF SweepInTime, Past
<1> QED BY <1>3, <1>4, <1>5, <1>6, <1>7 DEF InTime

\* Every interval's work was done within it, and nobody intervened.
Quiet == late = 0 /\ events = 0

\* If intervals leave room for a sweep and a retry, and a sweep takes every
\* account that is due, then, while every interval's work is done within it and
\* nobody intervenes, no session in service runs out unless its one refresh job
\* is lost, whatever sweeps, retries, crashes and logins meet.
THEOREM RefreshesComeInTime == ASSUME Prompt PROVE Spec => []RefreshedInTime
<1> USE SessionAssumption
<1> DEFINE Timely == Punctual /\ Orderly /\ (Quiet => InTime)
<1>1. Init => Timely
  BY PunctualAtFirst, InTimeAtFirst
<1>2. TypeOK /\ TypeOK' /\ Timely /\ [Next]_vars => Timely'
  <2> SUFFICES ASSUME TypeOK, TypeOK', Timely, [Next]_vars PROVE Timely'
    OBVIOUS
  <2>1. Punctual' /\ Orderly'
    BY PunctualInductive, OrderlyInductive
  <2>2. ASSUME Quiet' PROVE InTime'
    <3>1. late \in Nat /\ events \in Nat /\ late' = 0 /\ events' = 0
      BY <2>2 DEF Quiet, TypeOK, SessionAssumption
    <3>2. late' >= late /\ events' >= events
      <4>1. late' \in {late, late + 1} /\ events' \in {events, events + 1}
        BY DEF Next, vars, clockVars, boundVars, Fault, Event, Reconcile, Select, EndSweep,
               SweepAborts, Create, Skip, Enqueue, MarkAttempted, TakeRefresh, TakeOperation, Take,
               CacheEvicts, Call, RotateToken, RotateFails, Report, ReportFails, Settle,
               WorkerCrashes, Exchange, Store, Attach, LoginAborts, Revoke, Challenge,
               UpdateStatus, Tick
      <4> QED BY <3>1, <4>1
    <3>3. late = 0 /\ events = 0 /\ InTime
      BY <3>1, <3>2 DEF Quiet
    <3>4. ASSUME NEW a \in Accounts, Revoke(a) \/ Challenge(a) \/ UpdateStatus(a) PROVE FALSE
      <4>1. events' = events + 1
        BY <3>4 DEF Revoke, Challenge, UpdateStatus, Event
      <4> QED BY <3>1, <3>3, <4>1
    <3>5. CASE Moved
      BY <2>1, <3>3, <3>5, RowsInTime, JobsInTime, SweepsInTime, WorkersInTime DEF InTime
    <3>6. CASE Tick
      BY <3>1, <3>3, <3>6, TickInTime
    <3>7. CASE UNCHANGED vars
      BY <3>3, <3>5, <3>7, NothingMoves
    <3> QED BY <3>3, <3>4, <3>5, <3>6, <3>7, EveryStepMoves
            DEF Next, SweeperStep, WorkerStep, LoginStep
  <2> QED BY <2>1, <2>2
<1>3. Timely => RefreshedInTime
  BY DEF Quiet, InTime, RowInTime, RefreshedInTime
<1> QED BY <1>1, <1>2, <1>3, TypeCorrect, PTL DEF Spec

=============================================================================
