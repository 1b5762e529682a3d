-------------------------- MODULE ProxyPoolProofs --------------------------
(***************************************************************************)
(* Proofs about ProxyPool.  TypeOK is inductive by itself; on top of it    *)
(* three invariants are, each about variables of its own: Links (rows,     *)
(* pointers and claims), SendsEntitled (jobs and what was handed over) and *)
(* Health (what the sweep and the check have read).  The action properties *)
(* follow from them step by step.                                          *)
(***************************************************************************)
EXTENDS ProxyPool, WellFoundedInduction, TLAPS

-----------------------------------------------------------------------------
(* Rows and choices.                                                       *)

\* The oldest of some proxies is one of them.
LEMMA OldestIsIn == ASSUME NEW S \in SUBSET Nat, S # {} PROVE Oldest(S) \in S
<1> DEFINE R == OpToRel(<, Nat)
<1>1. IsWellFoundedOn(R, Nat) BY NatLessThanWellFounded
<1>2. R = {ss \in Nat \X Nat : ss[1] < ss[2]} BY DEF OpToRel
<1> HIDE DEF R
<1>3. PICK x \in S : \A y \in S : ~(<<y, x>> \in R) BY <1>1, WFMin
<1>4. \A y \in S : x <= y
  <2> TAKE y \in S
  <2>1. x \in Nat /\ y \in Nat OBVIOUS
  <2>2. ~(y < x) BY <1>2, <1>3, <2>1
  <2> QED BY <2>1, <2>2
<1> QED BY <1>4 DEF Oldest

\* What the claim picks is claimable.
LEMMA ChoiceIsClaimable == ASSUME Claimable # {} PROVE Choice \in Claimable
<1>1. Proxies \subseteq Nat BY PoolAssumption DEF PoolAssumption
<1>2. Claimable \in SUBSET Nat /\ Healthy \in SUBSET Nat /\ Healthy \subseteq Claimable
  BY <1>1 DEF Claimable, Healthy
<1>3. CASE Healthy # {} BY <1>2, <1>3, OldestIsIn DEF Choice
<1>4. CASE Healthy = {} BY <1>2, <1>4, OldestIsIn DEF Choice
<1> QED BY <1>3, <1>4

\* Whatever uses up a bound, the counts stay numbers.
LEMMA SpendingIsTyped ==
  ASSUME TypeOK
  PROVE  Operator \/ Checking \/ Calling =>
           spent' \in [ops : Nat, checks : Nat, jobs : Nat]
BY DEF TypeOK, Operator, Checking, Calling

\* A claim opens a swap on a proxy of the pool.
LEMMA ClaimsAreTyped ==
  ASSUME TypeOK, NEW a \in Accounts, NEW retire \in BOOLEAN, SwapClaims(a, retire)
  PROVE  /\ swap' \in [Accounts -> [new : Proxies \cup {NoProxy}, retire : BOOLEAN]]
         /\ Choice \in Claimable /\ Choice \in Proxies
         /\ swap' = [swap EXCEPT ![a] = [new |-> Choice, retire |-> retire]]
<1>1. Choice \in Claimable BY ChoiceIsClaimable DEF SwapClaims
<1>2. Choice \in Proxies BY <1>1 DEF Claimable
<1> QED BY <1>1, <1>2 DEF SwapClaims, TypeOK

-----------------------------------------------------------------------------
(* Types.                                                                  *)

LEMMA TypeInit == Init => TypeOK
<1> SUFFICES ASSUME Init PROVE TypeOK OBVIOUS
<1>1. account \in [Accounts -> Proxies \cup {NoProxy}]
  BY PoolAssumption DEF Init, PoolAssumption
<1>2. \A p \in Proxies : proxy[p] \in Row
  <2> TAKE p \in Proxies
  <2>1. NewRow(TRUE) \in Row /\ NewRow(p \in Stock) \in Row BY DEF NewRow, Row
  <2>2. CASE \E a \in Accounts : account[a] = p
    <3>1. (CHOOSE a \in Accounts : account[a] = p) \in Accounts BY <2>2
    <3>2. proxy[p] = [NewRow(TRUE) EXCEPT !.state = "assigned",
                                          !.owner = CHOOSE a \in Accounts : account[a] = p]
      BY <2>2 DEF Init
    <3>3. PICK o \in Accounts : o = CHOOSE a \in Accounts : account[a] = p BY <3>1
    <3>4. [NewRow(TRUE) EXCEPT !.state = "assigned", !.owner = o] \in Row BY DEF NewRow, Row
    <3> QED BY <3>2, <3>3, <3>4
  <2>3. CASE ~\E a \in Accounts : account[a] = p BY <2>1, <2>3 DEF Init
  <2> QED BY <2>2, <2>3
<1>3. proxy \in [Proxies -> Row] BY <1>2 DEF Init
<1>4. swap \in [Accounts -> [new : Proxies \cup {NoProxy}, retire : BOOLEAN]]
  BY DEF Init, IdleSwap
<1>5. /\ job \in [Jobs -> [at : {"idle", "sending", "failed", "struck"},
                           of : Accounts \cup {NoAccount}, via : Proxies \cup {NoProxy}]]
      /\ \A j \in Jobs : job[j].at = "idle"
  BY DEF Init, IdleJob
<1>6. /\ sweep \in [at : {"idle", "probing", "writing"}, batch : SUBSET Proxies,
                    probed : SUBSET Proxies, well : SUBSET Proxies, outage : BOOLEAN,
                    seen : [Proxies -> Nat]]
      /\ sweep.at = "writing" => sweep.batch \subseteq sweep.probed
  BY DEF Init, IdleSweep
<1>7. check \in [of : Proxies \cup {NoProxy}, seen : Nat, well : BOOLEAN] /\ check = IdleCheck
  BY DEF Init, IdleCheck
<1> QED BY <1>1, <1>3, <1>4, <1>5, <1>6, <1>7 DEF TypeOK, Init

\* A row written in its place keeps the table typed.
LEMMA TableStaysTyped ==
  ASSUME TypeOK, NEW p \in Proxies, NEW r \in Row
  PROVE  [proxy EXCEPT ![p] = r] \in [Proxies -> Row]
BY DEF TypeOK

\* One statement of the operator on one row.
LEMMA EditIsTyped ==
  ASSUME TypeOK, NEW p \in Proxies, NEW r \in Row, NEW hands \in SUBSET Proxies,
         Edit(p, r, hands)
  PROVE  TypeOK'
<1>1. proxy' \in [Proxies -> Row] BY TableStaysTyped DEF Edit
<1>2. spent' \in [ops : Nat, checks : Nat, jobs : Nat] BY SpendingIsTyped DEF Edit
<1> QED BY <1>1, <1>2 DEF Edit, TypeOK

LEMMA OperatorIsTyped == TypeOK /\ OperatorNext => TypeOK'
<1> SUFFICES ASSUME TypeOK, OperatorNext PROVE TypeOK' OBVIOUS
<1>0. \A p \in Proxies : proxy[p] \in Row BY DEF TypeOK
<1>1. ASSUME NEW p \in Proxies, CreateProxy(p) PROVE TypeOK'
  <2>1. NewRow(TRUE) \in Row BY DEF NewRow, Row
  <2>2. {} \in SUBSET Proxies /\ Edit(p, NewRow(TRUE), {}) BY <1>1 DEF CreateProxy
  <2> QED BY <2>1, <2>2, EditIsTyped
<1>2. ASSUME NEW p \in Proxies, Release(p) PROVE TypeOK'
  <2>1. ReleaseRow(proxy[p]) \in Row BY <1>0 DEF ReleaseRow, Row
  <2>2. (IF Points(p) = {} THEN {} ELSE {p}) \in SUBSET Proxies OBVIOUS
  <2> QED BY <1>2, <2>1, <2>2, EditIsTyped DEF Release
<1>3. ASSUME NEW p \in Proxies, Retire(p) PROVE TypeOK'
  <2>1. RetireRow(proxy[p]) \in Row BY <1>0 DEF RetireRow, Row
  <2>2. (IF Points(p) = {} THEN {} ELSE {p}) \in SUBSET Proxies OBVIOUS
  <2> QED BY <1>3, <2>1, <2>2, EditIsTyped DEF Retire
<1>4. ASSUME NEW p \in Proxies, CancelReservation(p) PROVE TypeOK'
  <2>1. [proxy[p] EXCEPT !.state = "available"] \in Row BY <1>0 DEF Row
  <2>2. (IF Points(p) = {} THEN {} ELSE {p}) \in SUBSET Proxies OBVIOUS
  <2> QED BY <1>4, <2>1, <2>2, EditIsTyped DEF CancelReservation
<1>5. CASE ReserveForNewAccount
  <2>1. Choice \in Proxies BY <1>5, ChoiceIsClaimable DEF ReserveForNewAccount, Claimable
  <2>2. [proxy[Choice] EXCEPT !.state = "reserved"] \in Row BY <1>0, <2>1 DEF Row
  <2> QED BY <1>5, <2>1, <2>2, EditIsTyped DEF ReserveForNewAccount
<1>6. CASE ReconcileAssignments
  <2>1. ASSUME NEW p \in Proxies PROVE proxy'[p] \in Row
    <3>1. CASE proxy'[p] = proxy[p] BY <1>0, <3>1
    <3>2. CASE proxy'[p] # proxy[p]
      <4>1. p \in Diverging /\ proxy'[p] = ClaimRow(proxy[p], CHOOSE a \in Accounts : account[a] = p)
        BY <1>6, <3>2 DEF ReconcileAssignments
      <4>2. (CHOOSE a \in Accounts : account[a] = p) \in Accounts BY <4>1 DEF Diverging
      <4> QED BY <1>0, <4>1, <4>2 DEF ClaimRow, Row
    <3> QED BY <3>1, <3>2
  <2>2. proxy' \in [Proxies -> Row] BY <1>6, <2>1 DEF ReconcileAssignments
  <2>3. spent' \in [ops : Nat, checks : Nat, jobs : Nat]
    BY <1>6, SpendingIsTyped DEF ReconcileAssignments
  <2> QED BY <1>6, <2>2, <2>3 DEF ReconcileAssignments, history, TypeOK
<1>7. ASSUME NEW a \in Accounts, NEW p \in Proxies, CreateAccount(a, p) PROVE TypeOK'
  <2>1. spent' \in [ops : Nat, checks : Nat, jobs : Nat] BY <1>7, SpendingIsTyped DEF CreateAccount
  <2>2. account' \in [Accounts -> Proxies \cup {NoProxy}]
    BY <1>7 DEF CreateAccount, InsertAccount, TypeOK
  <2>3. byHand' \subseteq Proxies BY <1>7 DEF CreateAccount, TypeOK
  <2>4. \A b \in Accounts : account[b] \in Proxies => account'[b] \in Proxies
    BY <1>7 DEF CreateAccount, InsertAccount, TypeOK
  <2> QED BY <1>7, <2>1, <2>2, <2>3, <2>4 DEF CreateAccount, TypeOK
<1>8. ASSUME NEW a \in Accounts, NEW p \in Proxies, AssociateProxy(a, p) PROVE TypeOK'
  <2>1. spent' \in [ops : Nat, checks : Nat, jobs : Nat] BY <1>8, SpendingIsTyped DEF AssociateProxy
  <2>2. account' \in [Accounts -> Proxies \cup {NoProxy}]
    BY <1>8 DEF AssociateProxy, SetProxy, TypeOK
  <2>3. proxy' \in [Proxies -> Row]
    <3>1. ClaimRow(proxy[p], a) \in Row BY <1>0 DEF ClaimRow, Row
    <3> QED BY <1>8, <3>1, TableStaysTyped DEF AssociateProxy, SetProxy
  <2>4. account[a] \in Proxies BY <1>8 DEF AssociateProxy, SetProxy, TypeOK
  <2>5. byHand' \subseteq Proxies /\ handed' \subseteq Proxies
    BY <1>8, <2>4 DEF AssociateProxy, Handed, TypeOK
  <2>6. \A b \in Accounts : account[b] \in Proxies => account'[b] \in Proxies
    BY <1>8 DEF AssociateProxy, SetProxy, TypeOK
  <2> QED BY <1>8, <2>1, <2>2, <2>3, <2>5, <2>6 DEF AssociateProxy, TypeOK
<1>9. ASSUME NEW a \in Accounts, NEW p \in Proxies, ConfirmReservation(p, a) PROVE TypeOK'
  <2>1. ClaimRow(proxy[p], a) \in Row BY <1>0 DEF ClaimRow, Row
  <2>2. (IF account[a] = p THEN {} ELSE {p}) \in SUBSET Proxies OBVIOUS
  <2> QED BY <1>9, <2>1, <2>2, EditIsTyped DEF ConfirmReservation
<1>10. ASSUME NEW a \in Accounts, NEW retire \in BOOLEAN, SwapRequested(a, retire) PROVE TypeOK'
  <2>1. swap' \in [Accounts -> [new : Proxies \cup {NoProxy}, retire : BOOLEAN]]
    BY <1>10, ClaimsAreTyped DEF SwapRequested
  <2>2. spent' \in [ops : Nat, checks : Nat, jobs : Nat] BY <1>10, SpendingIsTyped DEF SwapRequested
  <2> QED BY <1>10, <2>1, <2>2 DEF SwapRequested, tables, history, TypeOK
<1> QED BY <1>1, <1>2, <1>3, <1>4, <1>5, <1>6, <1>7, <1>8, <1>9, <1>10 DEF OperatorNext

LEMMA SwapIsTyped ==
  ASSUME TypeOK, NEW a \in Accounts, SwapCommits(a) \/ SwapRollsBack(a)
  PROVE  TypeOK'
<1>1. CASE SwapCommits(a)
  <2>1. swap[a].new \in Proxies BY <1>1 DEF SwapCommits, TypeOK
  <2>2. ASSUME NEW p \in Proxies PROVE proxy'[p] \in Row
    <3>1. proxy[p] \in Row BY DEF TypeOK
    <3>2. ClaimRow(proxy[p], a) \in Row BY <3>1 DEF ClaimRow, Row
    <3>3. RetireRow(proxy[p]) \in Row BY <3>1 DEF RetireRow, Row
    <3>4. ReleaseRow(proxy[p]) \in Row BY <3>1 DEF ReleaseRow, Row
    <3> QED BY <1>1, <3>1, <3>2, <3>3, <3>4 DEF SwapCommits
  <2>3. proxy' \in [Proxies -> Row] BY <1>1, <2>2 DEF SwapCommits
  <2>4. account' \in [Accounts -> Proxies \cup {NoProxy}] BY <1>1, <2>1 DEF SwapCommits, TypeOK
  <2>5. swap' \in [Accounts -> [new : Proxies \cup {NoProxy}, retire : BOOLEAN]]
    BY <1>1 DEF SwapCommits, IdleSwap, TypeOK
  <2>6. handed' \subseteq Proxies
    <3>1. \A j \in Jobs : job[j].at = "sending" => job[j].via \in Proxies BY DEF TypeOK
    <3> QED BY <1>1, <3>1 DEF SwapCommits, Handed, TypeOK
  <2>7. \A b \in Accounts : account[b] \in Proxies => account'[b] \in Proxies
    BY <1>1, <2>1 DEF SwapCommits, TypeOK
  <2> QED BY <1>1, <2>3, <2>4, <2>5, <2>6, <2>7 DEF SwapCommits, TypeOK
<1>2. CASE SwapRollsBack(a)
  <2>1. swap' \in [Accounts -> [new : Proxies \cup {NoProxy}, retire : BOOLEAN]]
    BY <1>2 DEF SwapRollsBack, IdleSwap, TypeOK
  <2> QED BY <1>2, <2>1 DEF SwapRollsBack, tables, history, TypeOK
<1> QED BY <1>1, <1>2

\* A recorded check keeps the tables and the histories typed.
LEMMA RecordIsTyped ==
  ASSUME TypeOK, NEW p \in Proxies, NEW ok, NEW seen, NEW outage, NEW others,
         RecordCheck(p, ok, DecideHealth(ok, seen, outage), others)
  PROVE  proxy' \in [Proxies -> Row] /\ rescued' \subseteq Proxies
<1>1. proxy[p] \in Row BY DEF TypeOK
<1>2. PICK h \in {"unknown", "healthy", "degraded", "down"} : h = DecideHealth(ok, seen, outage)
  BY DEF DecideHealth
<1>3. (IF ok THEN 0 ELSE proxy[p].failures + 1) \in Nat BY <1>1 DEF Row
<1>4. CheckRow(proxy[p], ok, h) \in Row BY <1>1, <1>3 DEF CheckRow, Row
<1>5. proxy' \in [Proxies -> Row] BY <1>2, <1>4, TableStaysTyped DEF RecordCheck
<1> QED BY <1>5 DEF RecordCheck, TypeOK

LEMMA HealthIsTyped == TypeOK /\ HealthNext => TypeOK'
<1> SUFFICES ASSUME TypeOK, HealthNext PROVE TypeOK' OBVIOUS
<1>0. /\ sweep \in [at : {"idle", "probing", "writing"}, batch : SUBSET Proxies,
                    probed : SUBSET Proxies, well : SUBSET Proxies, outage : BOOLEAN,
                    seen : [Proxies -> Nat]]
      /\ check \in [of : Proxies \cup {NoProxy}, seen : Nat, well : BOOLEAN]
  BY DEF TypeOK
<1>1. ASSUME NEW batch \in SUBSET Due, SweepBegins(batch) PROVE TypeOK'
  <2>1. spent' \in [ops : Nat, checks : Nat, jobs : Nat] BY <1>1, SpendingIsTyped DEF SweepBegins
  <2>2. batch \in SUBSET Proxies BY DEF Due, Registered
  <2>3. [p \in Proxies |-> IF p \in batch THEN proxy[p].failures ELSE 0] \in [Proxies -> Nat]
    BY DEF TypeOK, Row
  <2>4. /\ sweep' \in [at : {"idle", "probing", "writing"}, batch : SUBSET Proxies,
                       probed : SUBSET Proxies, well : SUBSET Proxies, outage : BOOLEAN,
                       seen : [Proxies -> Nat]]
        /\ sweep'.at = "probing"
    BY <1>1, <2>2, <2>3 DEF SweepBegins, IdleSweep
  <2> QED BY <1>1, <2>1, <2>4 DEF SweepBegins, tables, history, TypeOK
<1>2. ASSUME NEW p \in Proxies, NEW ok \in BOOLEAN, SweepProbes(p, ok) PROVE TypeOK'
  <2> DEFINE probed == sweep.probed \cup {p}
             well   == IF ok THEN sweep.well \cup {p} ELSE sweep.well
             last   == sweep.batch = probed
             outage == last /\ OutageIn(probed, well)
  <2>1. probed \in SUBSET Proxies /\ well \in SUBSET Proxies /\ last \in BOOLEAN BY <1>0
  <2>2. outage \in BOOLEAN OBVIOUS
  <2>3. sweep' = [sweep EXCEPT !.at = IF last THEN "writing" ELSE "probing",
                               !.probed = probed, !.well = well, !.outage = outage]
    BY <1>2 DEF SweepProbes
  <2> HIDE DEF probed, well, last, outage
  <2>4. /\ sweep' \in [at : {"idle", "probing", "writing"}, batch : SUBSET Proxies,
                       probed : SUBSET Proxies, well : SUBSET Proxies, outage : BOOLEAN,
                       seen : [Proxies -> Nat]]
        /\ sweep'.at = "writing" => last
        /\ sweep'.batch = sweep.batch /\ sweep'.probed = probed
    BY <1>0, <2>1, <2>2, <2>3
  <2>5. sweep'.at = "writing" => sweep'.batch \subseteq sweep'.probed BY <2>4 DEF last
  <2>6. cached' \subseteq Proxies BY <1>2 DEF SweepProbes, TypeOK
  <2> QED BY <1>2, <2>4, <2>5, <2>6 DEF SweepProbes, tables, history, TypeOK
<1>3. ASSUME NEW p \in Proxies, NEW ok \in BOOLEAN, CheckBegins(p, ok) PROVE TypeOK'
  <2>1. spent' \in [ops : Nat, checks : Nat, jobs : Nat] BY <1>3, SpendingIsTyped DEF CheckBegins
  <2>2. proxy[p].failures \in Nat BY DEF TypeOK, Row
  <2>3. check' \in [of : Proxies \cup {NoProxy}, seen : Nat, well : BOOLEAN] /\ check'.of = p
    BY <1>3, <2>2 DEF CheckBegins
  <2> QED BY <1>3, <2>1, <2>3 DEF CheckBegins, tables, history, TypeOK
<1>4. ASSUME NEW p \in Proxies, SweepWrites(p) PROVE TypeOK'
  <2>2. RecordCheck(p, p \in sweep.well,
                    DecideHealth(p \in sweep.well, sweep.seen[p], sweep.outage), {check.of})
    BY <1>4 DEF SweepWrites
  <2>3. proxy' \in [Proxies -> Row] /\ rescued' \subseteq Proxies BY <2>2, RecordIsTyped
  <2>4. /\ sweep' \in [at : {"idle", "probing", "writing"}, batch : SUBSET Proxies,
                       probed : SUBSET Proxies, well : SUBSET Proxies, outage : BOOLEAN,
                       seen : [Proxies -> Nat]]
        /\ sweep'.at = "writing" => sweep'.batch \subseteq sweep'.probed
    <3>1. CASE sweep.batch = {p} BY <1>4, <3>1 DEF SweepWrites, IdleSweep
    <3>2. CASE sweep.batch # {p}
      <4>1. sweep' = [sweep EXCEPT !.batch = sweep.batch \ {p}] BY <1>4, <3>2 DEF SweepWrites
      <4>2. sweep.at = "writing" /\ sweep.batch \subseteq sweep.probed
        BY <1>4 DEF SweepWrites, TypeOK
      <4> QED BY <1>0, <4>1, <4>2
    <3> QED BY <3>1, <3>2
  <2> QED BY <1>4, <2>2, <2>3, <2>4 DEF SweepWrites, RecordCheck, TypeOK
<1>5. CASE SweepAborts
  <2>1. /\ sweep' \in [at : {"idle", "probing", "writing"}, batch : SUBSET Proxies,
                       probed : SUBSET Proxies, well : SUBSET Proxies, outage : BOOLEAN,
                       seen : [Proxies -> Nat]]
        /\ sweep'.at = "idle"
    BY <1>5 DEF SweepAborts, IdleSweep
  <2> QED BY <1>5, <2>1 DEF SweepAborts, tables, history, TypeOK
<1>6. CASE CheckEnds
  <2>1. check.of \in Proxies BY <1>6 DEF CheckEnds, TypeOK
  <2>2. RecordCheck(check.of, check.well, DecideHealth(check.well, check.seen, FALSE), sweep.batch)
    BY <1>6 DEF CheckEnds
  <2>3. proxy' \in [Proxies -> Row] /\ rescued' \subseteq Proxies BY <2>1, <2>2, RecordIsTyped
  <2>4. check' \in [of : Proxies \cup {NoProxy}, seen : Nat, well : BOOLEAN] /\ check' = IdleCheck
    BY <1>6 DEF CheckEnds, IdleCheck
  <2> QED BY <1>6, <2>2, <2>3, <2>4 DEF CheckEnds, RecordCheck, TypeOK
<1> QED BY <1>1, <1>2, <1>3, <1>4, <1>5, <1>6 DEF HealthNext

LEMMA JobsAreTyped == TypeOK /\ JobNext => TypeOK'
<1> DEFINE JobsTyped == \A k \in Jobs : job'[k].at # "idle" =>
                          job'[k].of \in Accounts /\ job'[k].via \in Proxies
                            /\ account[job'[k].of] \in Proxies
           JobSet == [Jobs -> [at : {"idle", "sending", "failed", "struck"},
                               of : Accounts \cup {NoAccount}, via : Proxies \cup {NoProxy}]]
<1> SUFFICES ASSUME TypeOK, JobNext PROVE TypeOK' OBVIOUS
<1>1. ASSUME NEW j \in Jobs, NEW a \in Accounts, NEW at \in {"sending", "failed"},
             JobStarts(j, a, at), cached' \subseteq Proxies
      PROVE  TypeOK'
  <2>1. account[a] \in Proxies BY <1>1 DEF JobStarts, TypeOK
  <2>2. job' \in JobSet /\ JobsTyped BY <1>1, <2>1 DEF JobStarts, TypeOK
  <2>3. spent' \in [ops : Nat, checks : Nat, jobs : Nat] BY <1>1, SpendingIsTyped DEF JobStarts
  <2> QED BY <1>1, <2>2, <2>3 DEF JobStarts, tables, history, TypeOK
<1>2. ASSUME NEW j \in Jobs, NEW a \in Accounts, JobSends(j, a) PROVE TypeOK'
  <2>1. account[a] \in Proxies BY <1>2 DEF JobSends, JobStarts, TypeOK
  <2>2. cached' \subseteq Proxies BY <1>2, <2>1 DEF JobSends, TypeOK
  <2> QED BY <1>1, <1>2, <2>2 DEF JobSends
<1>3. ASSUME NEW j \in Jobs, NEW a \in Accounts, JobRefused(j, a) PROVE TypeOK'
  <2>1. cached' \subseteq Proxies BY <1>3 DEF JobRefused, TypeOK
  <2> QED BY <1>1, <1>3, <2>1 DEF JobRefused
<1>4. ASSUME NEW j \in Jobs, JobEnds(j) PROVE TypeOK'
  <2>1. job' \in JobSet /\ JobsTyped BY <1>4 DEF JobEnds, IdleJob, TypeOK
  <2> QED BY <1>4, <2>1 DEF JobEnds, tables, history, TypeOK
<1>5. ASSUME NEW j \in Jobs, JobFails(j) PROVE TypeOK'
  <2>1. job[j].of \in Accounts /\ account[job[j].of] \in Proxies BY <1>5 DEF JobFails, TypeOK
  <2>2. job' \in JobSet /\ JobsTyped BY <1>5, <2>1 DEF JobFails, TypeOK
  <2> QED BY <1>5, <2>2 DEF JobFails, tables, history, TypeOK
<1>6. ASSUME NEW j \in Jobs, HandlerStrikes(j) PROVE TypeOK'
  <2>1. job[j].of \in Accounts /\ account[job[j].of] \in Proxies /\ job[j].via \in Proxies
    BY <1>6 DEF HandlerStrikes, TypeOK
  <2>2. job' \in JobSet /\ JobsTyped BY <1>6, <2>1 DEF HandlerStrikes, TypeOK
  <2>3. proxy[job[j].via] \in Row BY <2>1 DEF TypeOK
  <2>4. PICK h \in {"unknown", "healthy", "degraded", "down"} :
          h = IF proxy[job[j].via].health = "healthy" THEN "degraded" ELSE proxy[job[j].via].health
    BY <2>3 DEF Row
  <2>5. proxy[job[j].via].failures + 1 \in Nat BY <2>3 DEF Row
  <2>6. StrikeRow(proxy[job[j].via]) \in Row BY <2>3, <2>4, <2>5 DEF StrikeRow, Row
  <2>7. proxy' \in [Proxies -> Row] BY <1>6, <2>1, <2>6, TableStaysTyped DEF HandlerStrikes
  <2> QED BY <1>6, <2>2, <2>7 DEF HandlerStrikes, history, TypeOK
<1>7. ASSUME NEW j \in Jobs, HandlerSwaps(j) PROVE TypeOK'
  <2>1. job' \in JobSet /\ JobsTyped BY <1>7 DEF HandlerSwaps, IdleJob, TypeOK
  <2>2. job[j].of \in Accounts BY <1>7 DEF HandlerSwaps, TypeOK
  <2>3. swap' \in [Accounts -> [new : Proxies \cup {NoProxy}, retire : BOOLEAN]]
    BY <1>7, <2>2, ClaimsAreTyped DEF HandlerSwaps
  <2> QED BY <1>7, <2>1, <2>3 DEF HandlerSwaps, tables, history, TypeOK
<1>8. ASSUME NEW j \in Jobs, HandlerLeaves(j) PROVE TypeOK'
  <2>1. job' \in JobSet /\ JobsTyped BY <1>8 DEF HandlerLeaves, IdleJob, TypeOK
  <2> QED BY <1>8, <2>1 DEF HandlerLeaves, tables, history, TypeOK
<1> QED BY <1>2, <1>3, <1>4, <1>5, <1>6, <1>7, <1>8 DEF JobNext

LEMMA TypeNext == TypeOK /\ [Next]_vars => TypeOK'
<1> SUFFICES ASSUME TypeOK, [Next]_vars PROVE TypeOK' OBVIOUS
<1>1. CASE UNCHANGED vars BY <1>1 DEF vars, tables, history, TypeOK
<1> QED BY <1>1, OperatorIsTyped, SwapIsTyped, HealthIsTyped, JobsAreTyped DEF Next

\* Rows, pointers, swaps, jobs, sweeps and checks have their types in every
\* reachable state; a sweep that writes has probed its whole batch.
THEOREM PoolTypeCorrect == Spec => []TypeOK
<1>1. Init => TypeOK BY TypeInit
<1>2. TypeOK /\ [Next]_vars => TypeOK' BY TypeNext
<1> QED BY <1>1, <1>2, PTL DEF Spec

-----------------------------------------------------------------------------
(* The links between accounts and proxies.                                 *)

\* The unique constraint: no two accounts point at one proxy.
PointersUnique ==
  \A a, b \in Accounts : a # b /\ account[a] = account[b] => account[a] = NoProxy

\* What the row of p must be for the link to be told the same on both sides.
Agrees(p, r) ==
  /\ r.state = "assigned" => \E a \in Accounts : r.owner = a /\ account[a] = p
  /\ r.state \notin {"assigned", "reserved"} => Points(p) = {}

Links == PointersUnique /\ ClaimHolds /\ LinkAgrees

\* One row that no swap holds is rewritten: the links hold if the new row agrees,
\* or an operator changed the link.
LEMMA RewriteKeepsLinks ==
  ASSUME TypeOK, Links, NEW p \in Proxies, NEW r \in Row, ~Locked(p),
         proxy' = [proxy EXCEPT ![p] = r], UNCHANGED <<account, swap>>,
         byHand \subseteq byHand', p \in byHand' \/ Agrees(p, r)
  PROVE  Links'
<1>1. PointersUnique' BY DEF Links, PointersUnique
<1>2. ClaimHolds'
  <2>1. \A q \in Proxies : q # p => proxy'[q] = proxy[q] BY DEF TypeOK
  <2>2. \A a \in Accounts : swap[a].new # p BY DEF Locked
  <2>3. \A a \in Accounts : swap[a].new \in Proxies \cup {NoProxy} BY DEF TypeOK
  <2> QED BY <2>1, <2>2, <2>3 DEF Links, ClaimHolds
<1>3. LinkAgrees'
  <2>1. SUFFICES ASSUME NEW q \in Proxies, q \notin byHand'
                 PROVE  /\ proxy'[q].state = "assigned" =>
                             \E a \in Accounts : proxy'[q].owner = a /\ account'[a] = q
                        /\ proxy'[q].state \notin {"assigned", "reserved"} => Points(q)' = {}
    BY DEF LinkAgrees
  <2>2. CASE q = p
    <3>1. Agrees(p, r) /\ proxy'[q] = r BY <2>1, <2>2 DEF TypeOK
    <3> QED BY <2>2, <3>1 DEF Agrees, Points
  <2>3. CASE q # p
    <3>1. proxy'[q] = proxy[q] /\ q \notin byHand BY <2>1, <2>3 DEF TypeOK
    <3> QED BY <3>1 DEF Links, LinkAgrees, Points
  <2> QED BY <2>2, <2>3
<1> QED BY <1>1, <1>2, <1>3 DEF Links

\* A rewrite that leaves the state and the owner alone agrees as before.
LEMMA SameLinkAgrees ==
  ASSUME LinkAgrees, NEW p \in Proxies, NEW r, r.state = proxy[p].state, r.owner = proxy[p].owner
  PROVE  p \in byHand \/ Agrees(p, r)
BY DEF LinkAgrees, Agrees

\* A claim takes a proxy nobody holds.
LEMMA ClaimKeepsLinks ==
  ASSUME TypeOK, Links, NEW a \in Accounts, NEW retire \in BOOLEAN, SwapClaims(a, retire),
         UNCHANGED <<tables, byHand>>
  PROVE  Links'
<1>1. /\ Choice \in Claimable
      /\ swap' = [swap EXCEPT ![a] = [new |-> Choice, retire |-> retire]]
  BY ClaimsAreTyped
<1>2. PICK c \in Claimable : c = Choice BY <1>1
<1>3. c \in Proxies /\ proxy[c].state = "available" /\ proxy[c].health # "down"
      /\ \A b \in Accounts : swap[b].new # c
  BY <1>2 DEF Claimable, Locked
<1>4. swap'[a].new = c /\ \A b \in Accounts \ {a} : swap'[b] = swap[b] BY <1>1, <1>2 DEF TypeOK
<1>5. ClaimHolds'
  <2> SUFFICES ASSUME NEW b \in Accounts, swap'[b].new # NoProxy
               PROVE  /\ proxy'[swap'[b].new].state = "available"
                      /\ proxy'[swap'[b].new].health # "down"
                      /\ \A d \in Accounts \ {b} : swap'[d].new # swap'[b].new
    BY DEF ClaimHolds
  <2>1. CASE b = a BY <2>1, <1>3, <1>4 DEF tables
  <2>2. CASE b # a BY <2>2, <1>3, <1>4 DEF tables, Links, ClaimHolds
  <2> QED BY <2>1, <2>2
<1> QED BY <1>5 DEF Links, PointersUnique, LinkAgrees, Points, tables

\* The commit of a swap moves the pointer, claims the new row and lets the old
\* one go, of which no other account can be the user.
LEMMA CommitKeepsLinks ==
  ASSUME TypeOK, Links, NEW a \in Accounts, SwapCommits(a)
  PROVE  Links'
<1> DEFINE new == swap[a].new
           old == account[a]
<1>1. /\ new \in Proxies /\ PointerFree(a, new)
      /\ proxy[new].state = "available" /\ proxy[new].health # "down"
      /\ \A b \in Accounts \ {a} : swap[b].new # new /\ swap[b].new # old
  BY DEF SwapCommits, TypeOK, Links, ClaimHolds
<1>2. account'[a] = new /\ \A b \in Accounts \ {a} : account'[b] = account[b] /\ account[b] # new
  BY <1>1 DEF SwapCommits, PointerFree, TypeOK
<1>3. PointersUnique' BY <1>2 DEF Links, PointersUnique
<1>4. \A p \in Proxies : p \notin {new, old} => proxy'[p] = proxy[p] BY DEF SwapCommits
<1>5. ClaimHolds'
  <2> SUFFICES ASSUME NEW b \in Accounts, swap'[b].new # NoProxy
               PROVE  /\ proxy'[swap'[b].new].state = "available"
                      /\ proxy'[swap'[b].new].health # "down"
                      /\ \A d \in Accounts \ {b} : swap'[d].new # swap'[b].new
    BY DEF ClaimHolds
  <2>1. swap'[a].new = NoProxy /\ \A d \in Accounts \ {a} : swap'[d] = swap[d]
    BY DEF SwapCommits, IdleSwap, TypeOK
  <2>2. b # a /\ swap'[b].new = swap[b].new BY <2>1
  <2>3. swap[b].new \in Proxies /\ swap[b].new \notin {new, old} BY <1>1, <2>2 DEF TypeOK
  <2>4. proxy'[swap[b].new] = proxy[swap[b].new] BY <1>4, <2>3
  <2> QED BY <2>1, <2>2, <2>4 DEF Links, ClaimHolds
<1>6. LinkAgrees'
  <2> SUFFICES ASSUME NEW p \in Proxies, p \notin byHand
               PROVE  /\ proxy'[p].state = "assigned" =>
                           \E b \in Accounts : proxy'[p].owner = b /\ account'[b] = p
                      /\ proxy'[p].state \notin {"assigned", "reserved"} => Points(p)' = {}
    BY DEF LinkAgrees, SwapCommits
  <2>0. proxy[p] \in Row BY DEF TypeOK
  <2>1. CASE p = new
    <3>1. proxy'[p] = ClaimRow(proxy[p], a) BY <2>1 DEF SwapCommits
    <3>2. proxy'[p].state = "assigned" /\ proxy'[p].owner = a BY <2>0, <3>1 DEF ClaimRow, Row
    <3> QED BY <1>2, <2>1, <3>2
  <2>2. CASE p # new /\ p = old
    <3>1. proxy'[p].state \in {"available", "retired"}
      BY <2>0, <2>2 DEF SwapCommits, RetireRow, ReleaseRow, Row
    <3>2. \A b \in Accounts : account'[b] # p
      <4> TAKE b \in Accounts
      <4>1. CASE b = a BY <1>2, <2>2, <4>1
      <4>2. CASE b # a
        <5>1. account'[b] = account[b] BY <1>2, <4>2
        <5>2. p # NoProxy BY PoolAssumption DEF PoolAssumption
        <5> QED BY <2>2, <4>2, <5>1, <5>2 DEF Links, PointersUnique
      <4> QED BY <4>1, <4>2
    <3>3. Points(p)' = {} BY <3>2 DEF Points
    <3> QED BY <3>1, <3>3
  <2>3. CASE p # new /\ p # old
    <3>1. proxy'[p] = proxy[p] BY <1>4, <2>3
    <3>2. \A b \in Accounts : account'[b] = p <=> account[b] = p BY <1>2, <2>3
    <3>3. Points(p)' = Points(p) BY <3>2 DEF Points
    <3> QED BY <3>1, <3>2, <3>3 DEF Links, LinkAgrees
  <2> QED BY <2>1, <2>2, <2>3
<1> QED BY <1>3, <1>5, <1>6 DEF Links

LEMMA LinksInit == Init => Links
<1> SUFFICES ASSUME Init PROVE Links OBVIOUS
<1>1. \A a, b \in Accounts : a # b /\ account[a] = account[b] => account[a] = NoProxy
  BY DEF Init
<1>2. LinkAgrees
  <2> SUFFICES ASSUME NEW p \in Proxies
               PROVE  /\ proxy[p].state = "assigned" =>
                           \E a \in Accounts : proxy[p].owner = a /\ account[a] = p
                      /\ proxy[p].state \notin {"assigned", "reserved"} => Points(p) = {}
    BY DEF LinkAgrees
  <2>1. CASE \E a \in Accounts : account[a] = p
    <3>1. PICK o \in Accounts : o = (CHOOSE a \in Accounts : account[a] = p) /\ account[o] = p
      BY <2>1
    <3>2. proxy[p] = [NewRow(TRUE) EXCEPT !.state = "assigned", !.owner = o]
      BY <2>1, <3>1 DEF Init
    <3>3. proxy[p].state = "assigned" /\ proxy[p].owner = o BY <3>2 DEF NewRow
    <3> QED BY <3>1, <3>3
  <2>2. CASE ~\E a \in Accounts : account[a] = p
    <3>1. proxy[p].state # "assigned" BY <2>2 DEF Init, NewRow
    <3>2. Points(p) = {} BY <2>2 DEF Points
    <3> QED BY <3>1, <3>2
  <2> QED BY <2>1, <2>2
<1>3. ClaimHolds BY DEF Init, IdleSwap, ClaimHolds
<1> QED BY <1>1, <1>2, <1>3 DEF Links, PointersUnique

\* A statement of the operator either leaves a row that agrees with the pointers
\* or is remembered in byHand.
LEMMA EditKeepsLinks ==
  ASSUME TypeOK, Links, NEW p \in Proxies, NEW r \in Row, NEW hands \in SUBSET Proxies,
         Edit(p, r, hands), p \in hands \/ p \in byHand \/ Agrees(p, r)
  PROVE  Links'
BY RewriteKeepsLinks DEF Edit

LEMMA OperatorKeepsLinks == TypeOK /\ Links /\ OperatorNext => Links'
<1> SUFFICES ASSUME TypeOK, Links, OperatorNext PROVE Links' OBVIOUS
<1>0. \A p \in Proxies : proxy[p] \in Row BY DEF TypeOK
<1>1. ASSUME NEW p \in Proxies, CreateProxy(p) PROVE Links'
  <2>1. NewRow(TRUE) \in Row /\ {} \in SUBSET Proxies BY DEF NewRow, Row
  <2>2. proxy[p].state = "absent" /\ Edit(p, NewRow(TRUE), {})
    BY <1>1 DEF CreateProxy, Registered
  <2>3. p \in byHand \/ Agrees(p, NewRow(TRUE))
    BY <2>2 DEF Links, LinkAgrees, Agrees, NewRow
  <2> QED BY <2>1, <2>2, <2>3, EditKeepsLinks
<1>2. ASSUME NEW p \in Proxies, Release(p) PROVE Links'
  <2>1. ReleaseRow(proxy[p]) \in Row BY <1>0 DEF ReleaseRow, Row
  <2>2. (IF Points(p) = {} THEN {} ELSE {p}) \in SUBSET Proxies OBVIOUS
  <2>3. ReleaseRow(proxy[p]).state # "assigned" BY <1>0 DEF ReleaseRow, Row
  <2>4. Points(p) = {} => Agrees(p, ReleaseRow(proxy[p])) BY <2>3 DEF Agrees
  <2> QED BY <1>2, <2>1, <2>2, <2>4, EditKeepsLinks DEF Release
<1>3. ASSUME NEW p \in Proxies, Retire(p) PROVE Links'
  <2>1. RetireRow(proxy[p]) \in Row BY <1>0 DEF RetireRow, Row
  <2>2. (IF Points(p) = {} THEN {} ELSE {p}) \in SUBSET Proxies OBVIOUS
  <2>3. RetireRow(proxy[p]).state # "assigned" BY <1>0 DEF RetireRow, Row
  <2>4. Points(p) = {} => Agrees(p, RetireRow(proxy[p])) BY <2>3 DEF Agrees
  <2> QED BY <1>3, <2>1, <2>2, <2>4, EditKeepsLinks DEF Retire
<1>4. ASSUME NEW p \in Proxies, CancelReservation(p) PROVE Links'
  <2>1. PICK r \in Row : r = [proxy[p] EXCEPT !.state = "available"] BY <1>0 DEF Row
  <2>2. (IF Points(p) = {} THEN {} ELSE {p}) \in SUBSET Proxies OBVIOUS
  <2>3. r.state # "assigned" BY <1>0, <2>1 DEF Row
  <2>4. Points(p) = {} => Agrees(p, r) BY <2>3 DEF Agrees
  <2> QED BY <1>4, <2>1, <2>2, <2>4, EditKeepsLinks DEF CancelReservation
<1>5. CASE ReserveForNewAccount
  <2>1. PICK c \in Proxies : c = Choice
    BY <1>5, ChoiceIsClaimable DEF ReserveForNewAccount, Claimable
  <2>2. PICK r \in Row : r = [proxy[c] EXCEPT !.state = "reserved"] BY <1>0, <2>1 DEF Row
  <2>3. r.state = "reserved" BY <1>0, <2>2 DEF Row
  <2>4. Agrees(c, r) BY <2>3 DEF Agrees
  <2>5. {} \in SUBSET Proxies /\ Edit(c, r, {}) BY <1>5, <2>1, <2>2 DEF ReserveForNewAccount
  <2> QED BY <2>4, <2>5, EditKeepsLinks
<1>6. CASE ReconcileAssignments
  <2>1. PICK batch \in SUBSET Diverging :
          /\ \A p \in batch : ~Locked(p)
          /\ proxy' = [p \in Proxies |->
                         IF p \in batch /\ proxy[p].state # "retired"
                         THEN ClaimRow(proxy[p], CHOOSE a \in Accounts : account[a] = p)
                         ELSE proxy[p]]
    BY <1>6 DEF ReconcileAssignments
  <2>2. UNCHANGED <<account, swap, byHand>> BY <1>6 DEF ReconcileAssignments, history
  <2>3. ClaimHolds'
    <3>1. \A a \in Accounts : swap[a].new \in Proxies \cup {NoProxy} BY DEF TypeOK
    <3>2. \A a \in Accounts : swap[a].new # NoProxy => proxy'[swap[a].new] = proxy[swap[a].new]
      BY <2>1, <3>1 DEF Locked
    <3> QED BY <2>2, <3>2 DEF Links, ClaimHolds
  <2>4. LinkAgrees'
    <3> SUFFICES ASSUME NEW p \in Proxies, p \notin byHand
                 PROVE  /\ proxy'[p].state = "assigned" =>
                             \E a \in Accounts : proxy'[p].owner = a /\ account'[a] = p
                        /\ proxy'[p].state \notin {"assigned", "reserved"} => Points(p)' = {}
      BY <2>2 DEF LinkAgrees
    <3>1. CASE p \in batch /\ proxy[p].state # "retired"
      <4>1. PICK o \in Accounts : o = (CHOOSE a \in Accounts : account[a] = p) /\ account[o] = p
        BY <3>1 DEF Diverging
      <4>2. proxy'[p] = ClaimRow(proxy[p], o) BY <2>1, <3>1, <4>1
      <4>3. proxy'[p].state = "assigned" /\ proxy'[p].owner = o BY <1>0, <4>2 DEF ClaimRow, Row
      <4> QED BY <2>2, <4>1, <4>3
    <3>2. CASE ~(p \in batch /\ proxy[p].state # "retired")
      <4>1. proxy'[p] = proxy[p] BY <2>1, <3>2
      <4> QED BY <2>2, <4>1 DEF Links, LinkAgrees, Points
    <3> QED BY <3>1, <3>2
  <2> QED BY <2>2, <2>3, <2>4 DEF Links, PointersUnique
<1>7. ASSUME NEW a \in Accounts, NEW p \in Proxies, CreateAccount(a, p) PROVE Links'
  <2>1. /\ account[a] = NoProxy /\ account'[a] = p
        /\ \A b \in Accounts \ {a} : account'[b] = account[b] /\ account[b] # p
    BY <1>7 DEF CreateAccount, InsertAccount, PointerFree, TypeOK
  <2>2. PointersUnique' BY <2>1 DEF Links, PointersUnique
  <2>3. ClaimHolds' BY <1>7 DEF CreateAccount, Links, ClaimHolds
  <2>4. LinkAgrees'
    <3> SUFFICES ASSUME NEW q \in Proxies, q \notin byHand'
                 PROVE  /\ proxy'[q].state = "assigned" =>
                             \E b \in Accounts : proxy'[q].owner = b /\ account'[b] = q
                        /\ proxy'[q].state \notin {"assigned", "reserved"} => Points(q)' = {}
      BY DEF LinkAgrees
    <3>1. proxy' = proxy /\ q \notin byHand BY <1>7 DEF CreateAccount
    <3>2. CASE q = p BY <1>7, <3>1, <3>2 DEF CreateAccount
    <3>3. CASE q # p
      <4>1. \A b \in Accounts : account'[b] = q <=> account[b] = q
        BY <2>1, <3>3, PoolAssumption DEF PoolAssumption
      <4>2. Points(q)' = Points(q) BY <4>1 DEF Points
      <4> QED BY <3>1, <4>1, <4>2 DEF Links, LinkAgrees
    <3> QED BY <3>2, <3>3
  <2> QED BY <2>2, <2>3, <2>4 DEF Links
<1>8. ASSUME NEW a \in Accounts, NEW p \in Proxies, AssociateProxy(a, p) PROVE Links'
  <2>1. /\ account[a] # NoProxy /\ account'[a] = p
        /\ \A b \in Accounts \ {a} : account'[b] = account[b] /\ account[b] # p
        /\ \A b \in Accounts : swap[b].new # p
    BY <1>8 DEF AssociateProxy, SetProxy, PointerFree, Locked, TypeOK
  <2>2. /\ proxy'[p] = ClaimRow(proxy[p], a)
        /\ \A q \in Proxies : q # p => proxy'[q] = proxy[q]
    BY <1>8 DEF AssociateProxy, SetProxy, TypeOK
  <2>3. PointersUnique' BY <2>1 DEF Links, PointersUnique
  <2>4. ClaimHolds'
    <3>1. \A b \in Accounts : swap[b].new \in Proxies \cup {NoProxy} BY DEF TypeOK
    <3>2. swap' = swap BY <1>8 DEF AssociateProxy
    <3> QED BY <2>1, <2>2, <3>1, <3>2 DEF Links, ClaimHolds
  <2>5. LinkAgrees'
    <3> SUFFICES ASSUME NEW q \in Proxies, q \notin byHand'
                 PROVE  /\ proxy'[q].state = "assigned" =>
                             \E b \in Accounts : proxy'[q].owner = b /\ account'[b] = q
                        /\ proxy'[q].state \notin {"assigned", "reserved"} => Points(q)' = {}
      BY DEF LinkAgrees
    <3>1. CASE q = p
      <4>1. proxy'[q].state = "assigned" /\ proxy'[q].owner = a
        BY <1>0, <2>2, <3>1 DEF ClaimRow, Row
      <4> QED BY <2>1, <3>1, <4>1
    <3>2. CASE q # p
      <4>1. q # account[a] /\ q \notin byHand BY <1>8, <3>2 DEF AssociateProxy
      <4>2. \A b \in Accounts : account'[b] = q <=> account[b] = q BY <2>1, <3>2, <4>1
      <4>3. Points(q)' = Points(q) BY <4>2 DEF Points
      <4>4. proxy'[q] = proxy[q] BY <2>2, <3>2
      <4> QED BY <4>1, <4>2, <4>3, <4>4 DEF Links, LinkAgrees
    <3> QED BY <3>1, <3>2
  <2> QED BY <2>3, <2>4, <2>5 DEF Links
<1>9. ASSUME NEW a \in Accounts, NEW p \in Proxies, ConfirmReservation(p, a) PROVE Links'
  <2>1. ClaimRow(proxy[p], a) \in Row BY <1>0 DEF ClaimRow, Row
  <2>2. (IF account[a] = p THEN {} ELSE {p}) \in SUBSET Proxies OBVIOUS
  <2>3. ClaimRow(proxy[p], a).state = "assigned" /\ ClaimRow(proxy[p], a).owner = a
    BY <1>0 DEF ClaimRow, Row
  <2>4. account[a] = p => Agrees(p, ClaimRow(proxy[p], a)) BY <2>3 DEF Agrees
  <2> QED BY <1>9, <2>1, <2>2, <2>4, EditKeepsLinks DEF ConfirmReservation
<1>10. ASSUME NEW a \in Accounts, NEW retire \in BOOLEAN, SwapRequested(a, retire) PROVE Links'
  BY <1>10, ClaimKeepsLinks DEF SwapRequested, tables, history
<1> QED BY <1>1, <1>2, <1>3, <1>4, <1>5, <1>6, <1>7, <1>8, <1>9, <1>10 DEF OperatorNext

\* A check records health and failures; the link is not its business.
LEMMA RecordKeepsLinks ==
  ASSUME TypeOK, Links, NEW p \in Proxies, NEW ok, NEW seen, NEW outage, NEW others,
         RecordCheck(p, ok, DecideHealth(ok, seen, outage), others)
  PROVE  Links'
<1>1. proxy[p] \in Row BY DEF TypeOK
<1>2. PICK h \in {"unknown", "healthy", "degraded", "down"} : h = DecideHealth(ok, seen, outage)
  BY DEF DecideHealth
<1>3. (IF ok THEN 0 ELSE proxy[p].failures + 1) \in Nat BY <1>1 DEF Row
<1>4. PICK r \in Row : r = CheckRow(proxy[p], ok, h) BY <1>1, <1>3 DEF CheckRow, Row
<1>5. r.state = proxy[p].state /\ r.owner = proxy[p].owner BY <1>1, <1>4 DEF CheckRow, Row
<1>6. p \in byHand \/ Agrees(p, r) BY <1>5, SameLinkAgrees DEF Links
<1>7. /\ ~Locked(p) /\ proxy' = [proxy EXCEPT ![p] = r]
      /\ UNCHANGED <<account, swap>> /\ byHand' = byHand
  BY <1>2, <1>4 DEF RecordCheck
<1> QED BY <1>6, <1>7, RewriteKeepsLinks

LEMMA LinksNext == TypeOK /\ Links /\ [Next]_vars => Links'
<1> SUFFICES ASSUME TypeOK, Links, [Next]_vars PROVE Links' OBVIOUS
<1>1. ASSUME UNCHANGED <<tables, swap, byHand>> PROVE Links'
  BY <1>1 DEF tables, Links, PointersUnique, ClaimHolds, LinkAgrees, Points
<1>2. ASSUME NEW a \in Accounts, SwapRollsBack(a) PROVE Links'
  <2>1. /\ swap'[a].new = NoProxy /\ \A b \in Accounts \ {a} : swap'[b] = swap[b]
        /\ UNCHANGED <<tables, byHand>>
    BY <1>2 DEF SwapRollsBack, IdleSwap, history, TypeOK
  <2> QED BY <2>1 DEF tables, Links, PointersUnique, ClaimHolds, LinkAgrees, Points
<1>3. ASSUME NEW p \in Proxies, SweepWrites(p) PROVE Links'
  BY <1>3, RecordKeepsLinks DEF SweepWrites
<1>4. CASE CheckEnds BY <1>4, RecordKeepsLinks DEF CheckEnds, TypeOK
<1>5. CASE HealthNext
  <2>1. \A batch : SweepBegins(batch) => UNCHANGED <<tables, swap, byHand>>
    BY DEF SweepBegins, history
  <2>2. \A p, ok : SweepProbes(p, ok) \/ CheckBegins(p, ok) => UNCHANGED <<tables, swap, byHand>>
    BY DEF SweepProbes, CheckBegins, history
  <2>3. SweepAborts => UNCHANGED <<tables, swap, byHand>> BY DEF SweepAborts, history
  <2> QED BY <1>1, <1>3, <1>4, <1>5, <2>1, <2>2, <2>3 DEF HealthNext
<1>6. ASSUME NEW j \in Jobs, HandlerStrikes(j) PROVE Links'
  <2>1. job[j].via \in Proxies BY <1>6 DEF HandlerStrikes, TypeOK
  <2>2. PICK p \in Proxies : p = job[j].via BY <2>1
  <2>3. proxy[p] \in Row BY DEF TypeOK
  <2>4. PICK h \in {"unknown", "healthy", "degraded", "down"} :
          h = IF proxy[p].health = "healthy" THEN "degraded" ELSE proxy[p].health
    BY <2>3 DEF Row
  <2>5. proxy[p].failures + 1 \in Nat BY <2>3 DEF Row
  <2>6. PICK r \in Row : r = StrikeRow(proxy[p]) BY <2>3, <2>4, <2>5 DEF StrikeRow, Row
  <2>7. r.state = proxy[p].state /\ r.owner = proxy[p].owner BY <2>3, <2>6 DEF StrikeRow, Row
  <2>8. p \in byHand \/ Agrees(p, r) BY <2>7, SameLinkAgrees DEF Links
  <2>9. /\ ~Locked(p) /\ proxy' = [proxy EXCEPT ![p] = r]
        /\ UNCHANGED <<account, swap>> /\ byHand' = byHand
    BY <1>6, <2>2, <2>6 DEF HandlerStrikes, history
  <2> QED BY <2>8, <2>9, RewriteKeepsLinks
<1>7. ASSUME NEW j \in Jobs, HandlerSwaps(j) PROVE Links'
  <2>1. job[j].of \in Accounts BY <1>7 DEF HandlerSwaps, TypeOK
  <2> QED BY <1>7, <2>1, ClaimKeepsLinks DEF HandlerSwaps, tables, history
<1>8. CASE JobNext
  <2>1. \A j, a : JobSends(j, a) \/ JobRefused(j, a) => UNCHANGED <<tables, swap, byHand>>
    BY DEF JobSends, JobRefused, JobStarts, history
  <2>2. \A j : JobEnds(j) \/ JobFails(j) \/ HandlerLeaves(j) => UNCHANGED <<tables, swap, byHand>>
    BY DEF JobEnds, JobFails, HandlerLeaves, history
  <2> QED BY <1>1, <1>6, <1>7, <1>8, <2>1, <2>2 DEF JobNext
<1>9. CASE UNCHANGED vars BY <1>1, <1>9 DEF vars, tables, history
<1> QED BY <1>2, <1>5, <1>8, <1>9, OperatorKeepsLinks, CommitKeepsLinks DEF Next

\* A claimed row is available, not down and claimed once until its swap commits
\* or rolls back, whatever the operator, the sweep and the other swaps do.
THEOREM ClaimsHold == Spec => []ClaimHolds
<1>1. Init => TypeOK /\ Links BY TypeInit, LinksInit
<1>2. TypeOK /\ Links /\ [Next]_vars => (TypeOK /\ Links)' BY TypeNext, LinksNext
<1>3. Links => ClaimHolds BY DEF Links
<1> QED BY <1>1, <1>2, <1>3, PTL DEF Spec

\* The row and the pointer agree on every proxy no operator touched.
THEOREM BothSidesAgree == Spec => []LinkAgrees
<1>1. Init => TypeOK /\ Links BY TypeInit, LinksInit
<1>2. TypeOK /\ Links /\ [Next]_vars => (TypeOK /\ Links)' BY TypeNext, LinksNext
<1>3. Links => LinkAgrees BY DEF Links
<1> QED BY <1>1, <1>2, <1>3, PTL DEF Spec

-----------------------------------------------------------------------------
(* Who sends through what.                                                 *)

\* A job sends through the proxy of its account, or the account was moved off it.
SendsEntitled ==
  \A j \in Jobs : job[j].at = "sending" =>
    account[job[j].of] = job[j].via \/ job[j].via \in handed

\* No job changes; the accounts that change hand over what they sent through.
LEMMA HandingKeepsEntitled ==
  ASSUME TypeOK, SendsEntitled, NEW a \in Accounts, UNCHANGED job,
         \A b \in Accounts \ {a} : account'[b] = account[b], handed \subseteq handed',
         account'[a] = account[a] \/ Handed(a, account[a]) \subseteq handed'
           \/ account[a] = NoProxy
  PROVE  SendsEntitled'
<1> SUFFICES ASSUME NEW j \in Jobs, job[j].at = "sending"
             PROVE  account'[job[j].of] = job[j].via \/ job[j].via \in handed'
  BY DEF SendsEntitled
<1>1. job[j].of \in Accounts /\ account[job[j].of] \in Proxies BY DEF TypeOK
<1>2. account[job[j].of] = job[j].via \/ job[j].via \in handed BY DEF SendsEntitled
<1>3. CASE job[j].of # a BY <1>1, <1>2, <1>3
<1>4. CASE job[j].of = a
  <2>1. account[a] # NoProxy BY <1>1, <1>4, PoolAssumption DEF PoolAssumption
  <2>2. account[a] = job[j].via => job[j].via \in Handed(a, account[a]) BY <1>4 DEF Handed
  <2> QED BY <1>2, <1>4, <2>1, <2>2
<1> QED BY <1>3, <1>4

LEMMA EntitledNext == TypeOK /\ SendsEntitled /\ [Next]_vars => SendsEntitled'
<1> SUFFICES ASSUME TypeOK, SendsEntitled, [Next]_vars PROVE SendsEntitled' OBVIOUS
<1>1. ASSUME UNCHANGED <<job, account, handed>> PROVE SendsEntitled' BY <1>1 DEF SendsEntitled
<1>2. ASSUME NEW a \in Accounts, NEW p \in Proxies, CreateAccount(a, p) PROVE SendsEntitled'
  <2>1. /\ account[a] = NoProxy /\ \A b \in Accounts \ {a} : account'[b] = account[b]
        /\ UNCHANGED <<job, handed>>
    BY <1>2 DEF CreateAccount, InsertAccount, TypeOK
  <2> QED BY <2>1, HandingKeepsEntitled
<1>3. ASSUME NEW a \in Accounts, NEW p \in Proxies, AssociateProxy(a, p) PROVE SendsEntitled'
  <2>1. /\ \A b \in Accounts \ {a} : account'[b] = account[b]
        /\ account'[a] = p /\ UNCHANGED job
        /\ handed' = IF account[a] = p THEN handed ELSE Handed(a, account[a])
    BY <1>3 DEF AssociateProxy, SetProxy, TypeOK
  <2>2. handed \subseteq Handed(a, account[a]) BY DEF Handed
  <2> QED BY <2>1, <2>2, HandingKeepsEntitled
<1>4. ASSUME NEW a \in Accounts, SwapCommits(a) PROVE SendsEntitled'
  <2>1. /\ \A b \in Accounts \ {a} : account'[b] = account[b]
        /\ account'[a] = swap[a].new /\ UNCHANGED job
        /\ handed' = IF account[a] = swap[a].new THEN handed ELSE Handed(a, account[a])
    BY <1>4 DEF SwapCommits, TypeOK
  <2>2. handed \subseteq Handed(a, account[a]) BY DEF Handed
  <2> QED BY <2>1, <2>2, HandingKeepsEntitled
<1>5. ASSUME NEW p, NEW r, NEW hands, Edit(p, r, hands) PROVE SendsEntitled'
  BY <1>1, <1>5 DEF Edit
<1>6. CASE OperatorNext
  <2>1. ReconcileAssignments => UNCHANGED <<job, account, handed>>
    BY DEF ReconcileAssignments, history
  <2>2. \A a, retire : SwapRequested(a, retire) => UNCHANGED <<job, account, handed>>
    BY DEF SwapRequested, tables, history
  <2>3. ASSUME NEW p \in Proxies, CreateProxy(p) \/ Release(p) \/ Retire(p) \/ CancelReservation(p)
        PROVE  SendsEntitled'
    BY <1>5, <2>3 DEF CreateProxy, Release, Retire, CancelReservation
  <2>4. ReserveForNewAccount => SendsEntitled' BY <1>5 DEF ReserveForNewAccount
  <2>5. \A a, p : ConfirmReservation(p, a) => SendsEntitled' BY <1>5 DEF ConfirmReservation
  <2> QED BY <1>1, <1>2, <1>3, <1>6, <2>1, <2>2, <2>3, <2>4, <2>5 DEF OperatorNext
<1>7. \A a : SwapRollsBack(a) => SendsEntitled' BY <1>1 DEF SwapRollsBack, tables, history
<1>8. CASE HealthNext
  <2>1. \A batch : SweepBegins(batch) => UNCHANGED <<job, account, handed>>
    BY DEF SweepBegins, tables, history
  <2>2. \A p, ok : SweepProbes(p, ok) \/ CheckBegins(p, ok) => UNCHANGED <<job, account, handed>>
    BY DEF SweepProbes, CheckBegins, tables, history
  <2>3. SweepAborts => UNCHANGED <<job, account, handed>> BY DEF SweepAborts, tables, history
  <2>4. \A p : SweepWrites(p) => UNCHANGED <<job, account, handed>> BY DEF SweepWrites, RecordCheck
  <2>5. CheckEnds => UNCHANGED <<job, account, handed>> BY DEF CheckEnds, RecordCheck
  <2> QED BY <1>1, <1>8, <2>1, <2>2, <2>3, <2>4, <2>5 DEF HealthNext
<1>9. CASE JobNext
  <2>1. ASSUME NEW j \in Jobs, NEW a \in Accounts, NEW at, JobStarts(j, a, at) PROVE SendsEntitled'
    <3>1. /\ \A k \in Jobs \ {j} : job'[k] = job[k]
          /\ job'[j].of = a /\ job'[j].via = account[a] /\ UNCHANGED <<account, handed>>
      BY <2>1 DEF JobStarts, tables, history, TypeOK
    <3> QED BY <3>1 DEF SendsEntitled
  <2>2. ASSUME NEW j \in Jobs,
               JobEnds(j) \/ JobFails(j) \/ HandlerStrikes(j) \/ HandlerSwaps(j) \/ HandlerLeaves(j)
        PROVE  SendsEntitled'
    <3>1. /\ \A k \in Jobs \ {j} : job'[k] = job[k]
          /\ job'[j].at # "sending" /\ UNCHANGED <<account, handed>>
      <4>1. CASE JobEnds(j) BY <4>1 DEF JobEnds, IdleJob, tables, history, TypeOK
      <4>2. CASE JobFails(j) BY <4>2 DEF JobFails, tables, history, TypeOK
      <4>3. CASE HandlerStrikes(j) BY <4>3 DEF HandlerStrikes, history, TypeOK
      <4>4. CASE HandlerSwaps(j) BY <4>4 DEF HandlerSwaps, IdleJob, tables, history, TypeOK
      <4>5. CASE HandlerLeaves(j) BY <4>5 DEF HandlerLeaves, IdleJob, tables, history, TypeOK
      <4> QED BY <2>2, <4>1, <4>2, <4>3, <4>4, <4>5
    <3> QED BY <3>1 DEF SendsEntitled
  <2> QED BY <1>9, <2>1, <2>2 DEF JobNext, JobSends, JobRefused
<1>10. CASE UNCHANGED vars BY <1>1, <1>10 DEF vars, tables, history
<1> QED BY <1>4, <1>6, <1>7, <1>8, <1>9, <1>10 DEF Next

\* Two accounts are on one proxy only in the wake of a swap or of PATCH
\* /accounts/:id/proxy in the middle of a job.
THEOREM SharingNeedsAHandover == Spec => []SharedOnlyWhenHanded
<1> DEFINE Inv == TypeOK /\ Links /\ SendsEntitled
<1>1. Init => Inv
  <2>1. Init => job = [j \in Jobs |-> IdleJob] BY DEF Init
  <2>2. Init => SendsEntitled BY <2>1 DEF IdleJob, SendsEntitled
  <2> QED BY <2>2, TypeInit, LinksInit
<1>2. Inv /\ [Next]_vars => Inv' BY TypeNext, LinksNext, EntitledNext
<1>3. Inv => SharedOnlyWhenHanded
  <2> SUFFICES ASSUME Inv, NEW i \in Jobs, NEW j \in Jobs, job[i].at = "sending",
                      job[j].at = "sending", job[i].via = job[j].via, job[i].via \notin handed
               PROVE  job[i].of = job[j].of
    BY DEF SharedOnlyWhenHanded
  <2>1. job[i].of \in Accounts /\ job[j].of \in Accounts /\ job[i].via \in Proxies BY DEF TypeOK
  <2>2. account[job[i].of] = job[i].via /\ account[job[j].of] = job[i].via BY DEF SendsEntitled
  <2>3. job[i].via # NoProxy BY <2>1, PoolAssumption DEF PoolAssumption
  <2> QED BY <2>1, <2>2, <2>3 DEF Links, PointersUnique
<1> QED BY <1>1, <1>2, <1>3, PTL DEF Spec

-----------------------------------------------------------------------------
(* Health.                                                                 *)

\* A step makes nothing of p worse: it condemns nobody, forgets no failure and
\* keeps the row.
Spares(p) ==
  /\ proxy'[p].health = "down" => proxy[p].health = "down" /\ proxy'[p].failures >= proxy[p].failures
  /\ p \in Registered => p \in Registered' /\ proxy'[p].failures >= proxy[p].failures

\* The steps that are not of the sweep or of the check: operators, swaps, jobs.
Elsewhere == OperatorNext \/ JobNext \/ \E a \in Accounts : SwapCommits(a) \/ SwapRollsBack(a)

\* A row whose health, failures and registration are kept is spared.
LEMMA SameHealthSpares ==
  ASSUME TypeOK, NEW p \in Proxies, proxy'[p].health = proxy[p].health,
         proxy'[p].failures = proxy[p].failures,
         proxy[p].state # "absent" => proxy'[p].state # "absent"
  PROVE  Spares(p)
<1>1. proxy[p].failures \in Nat BY DEF TypeOK, Row
<1> QED BY <1>1 DEF Spares, Registered

LEMMA EditSpares ==
  ASSUME TypeOK, NEW q \in Proxies, NEW r \in Row, NEW hands, Edit(q, r, hands),
         r.health = proxy[q].health /\ r.failures = proxy[q].failures /\ r.state # "absent"
  PROVE  \A p \in Proxies : Spares(p)
<1> TAKE p \in Proxies
<1>1. proxy'[p] = IF p = q THEN r ELSE proxy[p] BY DEF Edit, TypeOK
<1> QED BY <1>1, SameHealthSpares

LEMMA OperatorSpares == TypeOK /\ OperatorNext => \A p \in Proxies : Spares(p)
<1> SUFFICES ASSUME TypeOK, OperatorNext PROVE \A p \in Proxies : Spares(p) OBVIOUS
<1>0. \A p \in Proxies : proxy[p] \in Row BY DEF TypeOK
<1>1. ASSUME NEW q \in Proxies, CreateProxy(q), NEW p \in Proxies PROVE Spares(p)
  <2>1. q \notin Registered /\ proxy' = [proxy EXCEPT ![q] = NewRow(TRUE)]
    BY <1>1 DEF CreateProxy, Edit
  <2>2. CASE p = q
    <3>1. proxy'[p] = NewRow(TRUE) BY <2>1, <2>2 DEF TypeOK
    <3> QED BY <2>1, <2>2, <3>1 DEF Spares, NewRow
  <2>3. CASE p # q BY <2>1, <2>3, SameHealthSpares DEF TypeOK
  <2> QED BY <2>2, <2>3
<1>2. ASSUME NEW q \in Proxies, Release(q) PROVE \A p \in Proxies : Spares(p)
  <2>1. PICK r \in Row : r = ReleaseRow(proxy[q]) BY <1>0 DEF ReleaseRow, Row
  <2>2. r.health = proxy[q].health /\ r.failures = proxy[q].failures /\ r.state # "absent"
    BY <1>0, <2>1 DEF ReleaseRow, Row
  <2> QED BY <1>2, <2>1, <2>2, EditSpares DEF Release
<1>3. ASSUME NEW q \in Proxies, Retire(q) PROVE \A p \in Proxies : Spares(p)
  <2>1. PICK r \in Row : r = RetireRow(proxy[q]) BY <1>0 DEF RetireRow, Row
  <2>2. r.health = proxy[q].health /\ r.failures = proxy[q].failures /\ r.state # "absent"
    BY <1>0, <2>1 DEF RetireRow, Row
  <2> QED BY <1>3, <2>1, <2>2, EditSpares DEF Retire
<1>4. ASSUME NEW q \in Proxies, CancelReservation(q) PROVE \A p \in Proxies : Spares(p)
  <2>1. PICK r \in Row : r = [proxy[q] EXCEPT !.state = "available"] BY <1>0 DEF Row
  <2>2. r.health = proxy[q].health /\ r.failures = proxy[q].failures /\ r.state # "absent"
    BY <1>0, <2>1 DEF Row
  <2> QED BY <1>4, <2>1, <2>2, EditSpares DEF CancelReservation
<1>5. ASSUME ReserveForNewAccount PROVE \A p \in Proxies : Spares(p)
  <2>1. PICK c \in Proxies : c = Choice
    BY <1>5, ChoiceIsClaimable DEF ReserveForNewAccount, Claimable
  <2>2. PICK r \in Row : r = [proxy[c] EXCEPT !.state = "reserved"] BY <1>0, <2>1 DEF Row
  <2>3. r.health = proxy[c].health /\ r.failures = proxy[c].failures /\ r.state # "absent"
    BY <1>0, <2>2 DEF Row
  <2> QED BY <1>5, <2>1, <2>2, <2>3, EditSpares DEF ReserveForNewAccount
<1>6. ASSUME NEW q \in Proxies, NEW a \in Accounts, ConfirmReservation(q, a)
      PROVE  \A p \in Proxies : Spares(p)
  <2>1. PICK r \in Row : r = ClaimRow(proxy[q], a) BY <1>0 DEF ClaimRow, Row
  <2>2. r.health = proxy[q].health /\ r.failures = proxy[q].failures /\ r.state # "absent"
    BY <1>0, <2>1 DEF ClaimRow, Row
  <2> QED BY <1>6, <2>1, <2>2, EditSpares DEF ConfirmReservation
<1>7. ASSUME ReconcileAssignments, NEW p \in Proxies PROVE Spares(p)
  <2>1. \/ proxy'[p] = proxy[p]
        \/ proxy'[p] = ClaimRow(proxy[p], CHOOSE a \in Accounts : account[a] = p)
    BY <1>7 DEF ReconcileAssignments
  <2>2. /\ proxy'[p].health = proxy[p].health /\ proxy'[p].failures = proxy[p].failures
        /\ proxy[p].state # "absent" => proxy'[p].state # "absent"
    BY <1>0, <2>1 DEF ClaimRow, Row
  <2> QED BY <2>2, SameHealthSpares
<1>8. ASSUME NEW a \in Accounts, NEW q \in Proxies, AssociateProxy(a, q), NEW p \in Proxies
      PROVE  Spares(p)
  <2>1. proxy'[p] = proxy[p] \/ proxy'[p] = ClaimRow(proxy[p], a)
    BY <1>8 DEF AssociateProxy, SetProxy, TypeOK
  <2>2. /\ proxy'[p].health = proxy[p].health /\ proxy'[p].failures = proxy[p].failures
        /\ proxy[p].state # "absent" => proxy'[p].state # "absent"
    BY <1>0, <2>1 DEF ClaimRow, Row
  <2> QED BY <2>2, SameHealthSpares
<1>9. ASSUME UNCHANGED proxy, NEW p \in Proxies PROVE Spares(p) BY <1>9, SameHealthSpares
<1>10. \A a, p : CreateAccount(a, p) => UNCHANGED proxy BY DEF CreateAccount
<1>11. \A a, retire : SwapRequested(a, retire) => UNCHANGED proxy BY DEF SwapRequested, tables
<1> QED BY <1>1, <1>2, <1>3, <1>4, <1>5, <1>6, <1>7, <1>8, <1>9, <1>10, <1>11 DEF OperatorNext

LEMMA ElsewhereSpares == TypeOK /\ Elsewhere => \A p \in Proxies : Spares(p)
<1> SUFFICES ASSUME TypeOK, Elsewhere, NEW p \in Proxies PROVE Spares(p) OBVIOUS
<1>0. proxy[p] \in Row BY DEF TypeOK
<1>1. ASSUME NEW a \in Accounts, SwapCommits(a) PROVE Spares(p)
  <2>1. \/ proxy'[p] = proxy[p] \/ proxy'[p] = ClaimRow(proxy[p], a)
        \/ proxy'[p] = RetireRow(proxy[p]) \/ proxy'[p] = ReleaseRow(proxy[p])
    BY <1>1 DEF SwapCommits
  <2>2. /\ proxy'[p].health = proxy[p].health /\ proxy'[p].failures = proxy[p].failures
        /\ proxy[p].state # "absent" => proxy'[p].state # "absent"
    BY <1>0, <2>1 DEF ClaimRow, RetireRow, ReleaseRow, Row
  <2> QED BY <2>2, SameHealthSpares
<1>2. UNCHANGED proxy => Spares(p) BY SameHealthSpares
<1>3. \A a : SwapRollsBack(a) => UNCHANGED proxy BY DEF SwapRollsBack, tables
<1>4. ASSUME NEW j \in Jobs, HandlerStrikes(j) PROVE Spares(p)
  <2>1. job[j].via \in Proxies BY <1>4 DEF HandlerStrikes, TypeOK
  <2>2. proxy'[p] = IF p = job[j].via THEN StrikeRow(proxy[p]) ELSE proxy[p]
    BY <1>4, <2>1 DEF HandlerStrikes, TypeOK
  <2>3. CASE p = job[j].via
    <3>1. /\ proxy'[p].state = proxy[p].state /\ proxy'[p].failures = proxy[p].failures + 1
          /\ proxy'[p].health = "down" => proxy[p].health = "down"
      BY <1>0, <2>2, <2>3 DEF StrikeRow, Row
    <3>2. proxy[p].failures \in Nat BY <1>0 DEF Row
    <3> QED BY <3>1, <3>2 DEF Spares, Registered
  <2>4. CASE p # job[j].via BY <2>2, <2>4, SameHealthSpares
  <2> QED BY <2>3, <2>4
<1>5. CASE JobNext
  <2>1. \A j, a : JobSends(j, a) \/ JobRefused(j, a) => UNCHANGED proxy
    BY DEF JobSends, JobRefused, JobStarts, tables
  <2>2. \A j : JobEnds(j) \/ JobFails(j) \/ HandlerSwaps(j) \/ HandlerLeaves(j) => UNCHANGED proxy
    BY DEF JobEnds, JobFails, HandlerSwaps, HandlerLeaves, tables
  <2> QED BY <1>2, <1>4, <1>5, <2>1, <2>2 DEF JobNext
<1> QED BY <1>1, <1>2, <1>3, <1>5, OperatorSpares DEF Elsewhere

\* Nor do those steps touch the sweep, the check or what was found well.
LEMMA ElsewhereLeavesHealth == Elsewhere => UNCHANGED <<sweep, check, rescued>>
<1> SUFFICES ASSUME Elsewhere PROVE UNCHANGED <<sweep, check, rescued>> OBVIOUS
<1>1. OperatorNext => UNCHANGED <<sweep, check, rescued>>
  BY DEF OperatorNext, CreateProxy, Release, Retire, CancelReservation, ReserveForNewAccount,
         ConfirmReservation, Edit, ReconcileAssignments, CreateAccount, AssociateProxy,
         SwapRequested, history
<1>2. JobNext => UNCHANGED <<sweep, check, rescued>>
  BY DEF JobNext, JobSends, JobRefused, JobStarts, JobEnds, JobFails, HandlerStrikes,
         HandlerSwaps, HandlerLeaves, history
<1>3. \A a : SwapCommits(a) \/ SwapRollsBack(a) => UNCHANGED <<sweep, check, rescued>>
  BY DEF SwapCommits, SwapRollsBack, history
<1> QED BY <1>1, <1>2, <1>3 DEF Elsewhere

\* The counts that the sweep and the check have read still stand, but for the
\* proxies found well since.
Standing ==
  /\ \A p \in sweep.batch : p \in Registered /\ (p \in rescued \/ proxy[p].failures >= sweep.seen[p])
  /\ check.of \in Proxies => /\ check.of \in Registered
                             /\ check.of \in rescued \/ proxy[check.of].failures >= check.seen

\* A sweep that writes knows whether its batch looked like an outage.
Judged == sweep.at = "writing" => (sweep.outage <=> OutageIn(sweep.probed, sweep.well))

Health == Standing /\ Judged /\ DownNeedsStreak

\* Where nothing is read, probed or recorded, rows that are spared stay in order.
LEMMA SparingKeepsHealth ==
  ASSUME TypeOK, TypeOK', Health, \A p \in Proxies : Spares(p), UNCHANGED rescued,
         sweep' = sweep \/ sweep' = IdleSweep, UNCHANGED check
  PROVE  Health'
<1>0. \A p \in Proxies : proxy[p].failures \in Nat /\ proxy'[p].failures \in Nat
  BY DEF TypeOK, Row
<1>1. sweep.batch \subseteq Proxies /\ sweep.seen \in [Proxies -> Nat] /\ check.seen \in Nat
  BY DEF TypeOK
<1>2. DownNeedsStreak'
  <2> SUFFICES ASSUME NEW p \in Proxies, p \notin rescued, proxy'[p].health = "down"
               PROVE  proxy'[p].failures >= DownAfter
    BY DEF DownNeedsStreak
  <2>1. proxy[p].failures >= DownAfter /\ proxy'[p].failures >= proxy[p].failures
    BY DEF Spares, Health, DownNeedsStreak
  <2>2. DownAfter \in Nat BY PoolAssumption DEF PoolAssumption
  <2> QED BY <1>0, <2>1, <2>2
<1>3. Standing'
  <2>1. ASSUME NEW p \in sweep.batch
        PROVE  p \in Registered' /\ (p \in rescued \/ proxy'[p].failures >= sweep.seen[p])
    <3>1. p \in Proxies /\ p \in Registered /\ (p \in rescued \/ proxy[p].failures >= sweep.seen[p])
      BY <1>1, <2>1 DEF Health, Standing
    <3>2. p \in Registered' /\ proxy'[p].failures >= proxy[p].failures BY <3>1 DEF Spares
    <3>3. proxy[p].failures \in Nat /\ proxy'[p].failures \in Nat /\ sweep.seen[p] \in Nat
      BY <1>0, <1>1, <3>1
    <3> QED BY <3>1, <3>2, <3>3
  <2>2. ASSUME check.of \in Proxies
        PROVE  /\ check.of \in Registered'
               /\ check.of \in rescued \/ proxy'[check.of].failures >= check.seen
    <3>1. /\ check.of \in Registered
          /\ check.of \in rescued \/ proxy[check.of].failures >= check.seen
      BY <2>2 DEF Health, Standing
    <3>2. check.of \in Registered' /\ proxy'[check.of].failures >= proxy[check.of].failures
      BY <2>2, <3>1 DEF Spares
    <3>3. proxy[check.of].failures \in Nat /\ proxy'[check.of].failures \in Nat BY <1>0, <2>2
    <3> QED BY <1>1, <3>1, <3>2, <3>3
  <2>3. \A p \in sweep'.batch : p \in sweep.batch /\ sweep' = sweep BY DEF IdleSweep
  <2> QED BY <2>1, <2>2, <2>3 DEF Standing
<1>4. Judged' BY DEF Health, Judged, IdleSweep
<1> QED BY <1>2, <1>3, <1>4 DEF Health

\* An answer is recorded by somebody whose count still stands: who is condemned
\* has the failures for it, and a success is remembered if others are at it.
LEMMA RecordingKeepsStreak ==
  ASSUME TypeOK, TypeOK', DownNeedsStreak, NEW p \in Proxies, NEW ok \in BOOLEAN, NEW seen \in Nat,
         NEW outage, NEW others, RecordCheck(p, ok, DecideHealth(ok, seen, outage), others),
         p \in rescued \/ proxy[p].failures >= seen
  PROVE  /\ DownNeedsStreak' /\ Registered' = Registered /\ rescued \subseteq rescued'
         /\ \A q \in Proxies \ {p} : proxy'[q] = proxy[q]
         /\ ok /\ p \in others => p \in rescued'
         /\ ~ok => proxy'[p].failures = proxy[p].failures + 1
<1>1. proxy[p] \in Row /\ proxy[p].failures \in Nat BY DEF TypeOK, Row
<1>2. /\ \A q \in Proxies \ {p} : proxy'[q] = proxy[q]
      /\ proxy'[p] = CheckRow(proxy[p], ok, DecideHealth(ok, seen, outage))
      /\ rescued \subseteq rescued' /\ (ok /\ p \in others => p \in rescued')
  BY DEF RecordCheck, TypeOK
<1>3. /\ proxy'[p].state = proxy[p].state
      /\ proxy'[p].health = DecideHealth(ok, seen, outage)
      /\ ~ok => proxy'[p].failures = proxy[p].failures + 1
  BY <1>1, <1>2 DEF CheckRow, Row
<1>4. Registered' = Registered BY <1>2, <1>3 DEF Registered
<1>5. DownNeedsStreak'
  <2> SUFFICES ASSUME NEW q \in Proxies, q \notin rescued', proxy'[q].health = "down"
               PROVE  proxy'[q].failures >= DownAfter
    BY DEF DownNeedsStreak
  <2>1. CASE q # p BY <1>2, <2>1 DEF DownNeedsStreak
  <2>2. CASE q = p
    <3>1. ~ok /\ seen + 1 >= DownAfter BY <1>3, <2>2 DEF DecideHealth
    <3>2. proxy[p].failures >= seen BY <1>2, <2>2
    <3>3. DownAfter \in Nat BY PoolAssumption DEF PoolAssumption
    <3> QED BY <1>1, <1>3, <2>2, <3>1, <3>2, <3>3
  <2> QED BY <2>1, <2>2
<1> QED BY <1>2, <1>3, <1>4, <1>5

LEMMA HealthNextKeepsHealth == TypeOK /\ TypeOK' /\ Health /\ HealthNext => Health'
<1> SUFFICES ASSUME TypeOK, TypeOK', Health, HealthNext PROVE Health' OBVIOUS
<1>0. /\ \A p \in Proxies : proxy[p].failures \in Nat
      /\ sweep \in [at : {"idle", "probing", "writing"}, batch : SUBSET Proxies,
                    probed : SUBSET Proxies, well : SUBSET Proxies, outage : BOOLEAN,
                    seen : [Proxies -> Nat]]
      /\ check \in [of : Proxies \cup {NoProxy}, seen : Nat, well : BOOLEAN]
  BY DEF TypeOK, Row
<1>1. ASSUME NEW batch \in SUBSET Due, SweepBegins(batch) PROVE Health'
  <2>1. batch \subseteq Registered /\ batch \subseteq Proxies BY DEF Due, Registered
  <2>2. /\ sweep'.batch = batch /\ sweep'.at = "probing"
        /\ \A p \in batch : sweep'.seen[p] = proxy[p].failures
    BY <1>1, <2>1 DEF SweepBegins, IdleSweep
  <2>3. UNCHANGED <<proxy, check, rescued>> BY <1>1 DEF SweepBegins, tables, history
  <2>4. \A p \in batch : proxy[p].failures >= sweep'.seen[p] BY <1>0, <2>1, <2>2
  <2>5. Standing' BY <2>1, <2>2, <2>3, <2>4 DEF Health, Standing, Registered
  <2> QED BY <2>2, <2>3, <2>5 DEF Health, Judged, DownNeedsStreak
<1>2. ASSUME NEW p \in Proxies, NEW ok \in BOOLEAN, SweepProbes(p, ok) PROVE Health'
  <2> DEFINE probed == sweep.probed \cup {p}
             well   == IF ok THEN sweep.well \cup {p} ELSE sweep.well
             last   == sweep.batch = probed
             outage == last /\ OutageIn(probed, well)
  <2>1. sweep' = [sweep EXCEPT !.at = IF last THEN "writing" ELSE "probing",
                               !.probed = probed, !.well = well, !.outage = outage]
    BY <1>2 DEF SweepProbes
  <2> HIDE DEF probed, well, last, outage
  <2>2. /\ sweep'.at = "writing" => last
        /\ sweep'.batch = sweep.batch /\ sweep'.seen = sweep.seen
        /\ sweep'.probed = probed /\ sweep'.well = well /\ sweep'.outage = outage
    BY <1>0, <2>1
  <2>3. Judged' BY <2>2 DEF Judged, outage
  <2>4. UNCHANGED <<proxy, check, rescued>> BY <1>2 DEF SweepProbes, tables, history
  <2> QED BY <2>2, <2>3, <2>4 DEF Health, Standing, Registered, DownNeedsStreak
<1>3. ASSUME NEW p \in Proxies, NEW ok \in BOOLEAN, CheckBegins(p, ok) PROVE Health'
  <2>1. /\ p \in Registered /\ check'.of = p /\ check'.seen = proxy[p].failures
        /\ UNCHANGED <<proxy, sweep, rescued>>
    BY <1>3 DEF CheckBegins, tables, history
  <2>2. proxy[p].failures >= proxy[p].failures BY <1>0
  <2> QED BY <2>1, <2>2 DEF Health, Standing, Judged, Registered, DownNeedsStreak
<1>4. ASSUME NEW p \in Proxies, SweepWrites(p) PROVE Health'
  <2> DEFINE ok == p \in sweep.well
  <2>1. /\ p \in sweep.batch /\ sweep.seen[p] \in Nat /\ ok \in BOOLEAN
        /\ RecordCheck(p, ok, DecideHealth(ok, sweep.seen[p], sweep.outage), {check.of})
        /\ UNCHANGED check
    BY <1>0, <1>4 DEF SweepWrites, First
  <2>2. p \in rescued \/ proxy[p].failures >= sweep.seen[p] BY <2>1 DEF Health, Standing
  <2>3. DownNeedsStreak BY DEF Health
  <2> HIDE DEF ok
  <2>4. /\ DownNeedsStreak' /\ Registered' = Registered /\ rescued \subseteq rescued'
        /\ \A q \in Proxies \ {p} : proxy'[q] = proxy[q]
        /\ ok /\ p \in {check.of} => p \in rescued'
        /\ ~ok => proxy'[p].failures = proxy[p].failures + 1
    BY <2>1, <2>2, <2>3, RecordingKeepsStreak
  <2>5. /\ \A q \in sweep'.batch : q \in sweep.batch \ {p} /\ sweep'.seen = sweep.seen
        /\ sweep'.at = "writing" => sweep'.outage = sweep.outage /\ sweep'.probed = sweep.probed
                                    /\ sweep'.well = sweep.well /\ sweep.at = "writing"
    <3>1. CASE sweep' = IdleSweep BY <3>1 DEF IdleSweep
    <3>2. CASE sweep' = [sweep EXCEPT !.batch = sweep.batch \ {p}] BY <1>0, <3>2
    <3> QED BY <1>4, <3>1, <3>2 DEF SweepWrites
  <2>6. ASSUME NEW q \in sweep'.batch
        PROVE  q \in Registered' /\ (q \in rescued' \/ proxy'[q].failures >= sweep'.seen[q])
    <3>1. q \in sweep.batch /\ q \in Proxies \ {p} BY <1>0, <2>5
    <3> QED BY <2>4, <2>5, <3>1 DEF Health, Standing
  <2>7. ASSUME check.of \in Proxies
        PROVE  /\ check.of \in Registered'
               /\ check.of \in rescued' \/ proxy'[check.of].failures >= check.seen
    <3>1. /\ check.of \in Registered
          /\ check.of \in rescued \/ proxy[check.of].failures >= check.seen
      BY <2>7 DEF Health, Standing
    <3>2. CASE check.of # p BY <2>4, <2>7, <3>1, <3>2
    <3>3. CASE check.of = p /\ ok BY <2>4, <3>1, <3>3
    <3>4. CASE check.of = p /\ ~ok BY <1>0, <2>4, <3>1, <3>4
    <3> QED BY <3>2, <3>3, <3>4
  <2>8. Standing' BY <2>1, <2>6, <2>7 DEF Standing
  <2>9. Judged' BY <2>5 DEF Health, Judged
  <2> QED BY <2>4, <2>8, <2>9 DEF Health
<1>5. CASE SweepAborts
  <2>1. \A p \in Proxies : Spares(p) BY <1>5, SameHealthSpares DEF SweepAborts, tables
  <2> QED BY <1>5, <2>1, SparingKeepsHealth DEF SweepAborts, history
<1>6. CASE CheckEnds
  <2> DEFINE p == check.of
  <2>1. /\ p \in Proxies /\ check.seen \in Nat /\ check.well \in BOOLEAN
        /\ RecordCheck(p, check.well, DecideHealth(check.well, check.seen, FALSE), sweep.batch)
        /\ check' = IdleCheck /\ UNCHANGED sweep
    BY <1>0, <1>6 DEF CheckEnds, TypeOK
  <2>2. p \in rescued \/ proxy[p].failures >= check.seen BY <2>1 DEF Health, Standing
  <2>3. DownNeedsStreak BY DEF Health
  <2>4. /\ DownNeedsStreak' /\ Registered' = Registered /\ rescued \subseteq rescued'
        /\ \A q \in Proxies \ {p} : proxy'[q] = proxy[q]
        /\ check.well /\ p \in sweep.batch => p \in rescued'
        /\ ~check.well => proxy'[p].failures = proxy[p].failures + 1
    BY <2>1, <2>2, <2>3, RecordingKeepsStreak
  <2>5. ASSUME NEW q \in sweep.batch
        PROVE  q \in Registered' /\ (q \in rescued' \/ proxy'[q].failures >= sweep.seen[q])
    <3>1. q \in Proxies /\ q \in Registered /\ (q \in rescued \/ proxy[q].failures >= sweep.seen[q])
      BY <1>0, <2>5 DEF Health, Standing
    <3>2. CASE q # p BY <2>4, <3>1, <3>2
    <3>3. CASE q = p /\ check.well BY <2>4, <2>5, <3>1, <3>3
    <3>4. CASE q = p /\ ~check.well
      <4>1. sweep.seen[q] \in Nat /\ proxy[q].failures \in Nat BY <1>0, <3>1
      <4> QED BY <2>4, <3>1, <3>4, <4>1
    <3> QED BY <3>2, <3>3, <3>4
  <2>6. check'.of \notin Proxies BY <2>1, PoolAssumption DEF IdleCheck, PoolAssumption
  <2>7. Standing' BY <2>1, <2>5, <2>6 DEF Standing
  <2>8. Judged' BY <2>1 DEF Health, Judged
  <2> QED BY <2>4, <2>7, <2>8 DEF Health
<1> QED BY <1>1, <1>2, <1>3, <1>4, <1>5, <1>6 DEF HealthNext

LEMMA HealthInit == Init => Health
<1> SUFFICES ASSUME Init PROVE Health OBVIOUS
<1>1. sweep = IdleSweep /\ check = IdleCheck BY DEF Init
<1>2. \A p \in Proxies : proxy[p].health = "unknown" BY DEF Init, NewRow
<1>3. Standing BY <1>1, PoolAssumption DEF Standing, IdleSweep, IdleCheck, PoolAssumption
<1> QED BY <1>1, <1>2, <1>3 DEF Health, Judged, IdleSweep, DownNeedsStreak

LEMMA HealthKept == TypeOK /\ Health /\ [Next]_vars => Health'
<1> SUFFICES ASSUME TypeOK, Health, [Next]_vars PROVE Health' OBVIOUS
<1>1. TypeOK' BY TypeNext
<1>2. CASE Elsewhere BY <1>1, <1>2, ElsewhereSpares, ElsewhereLeavesHealth, SparingKeepsHealth
<1>3. CASE HealthNext BY <1>1, <1>3, HealthNextKeepsHealth
<1>4. CASE UNCHANGED vars
  <2>1. \A p \in Proxies : Spares(p) BY <1>4, SameHealthSpares DEF vars
  <2> QED BY <1>1, <1>4, <2>1, SparingKeepsHealth DEF vars, history
<1> QED BY <1>2, <1>3, <1>4 DEF Next, Elsewhere

\* Who is down has failed often enough in a row, whatever the order in which the
\* sweep, the checks and the failed jobs write, but for the proxies found well
\* while somebody held an older answer.
THEOREM DownIsDeserved == Spec => []DownNeedsStreak
<1>1. Init => TypeOK /\ Health BY TypeInit, HealthInit
<1>2. TypeOK /\ Health /\ [Next]_vars => (TypeOK /\ Health)' BY TypeNext, HealthKept
<1>3. Health => DownNeedsStreak BY DEF Health
<1> QED BY <1>1, <1>2, <1>3, PTL DEF Spec

\* What condemns p: its own check, or the sweep that writes it and whose batch
\* does not look like an outage.
Condemns(p) ==
  \/ check.of = p /\ check' = IdleCheck
  \/ /\ sweep.at = "writing" /\ p \in sweep.batch /\ p \notin sweep'.batch
     /\ ~OutageIn(sweep.probed, sweep.well)

\* A sweep in an outage, a failed job, an operator: none of them condemns a proxy.
THEOREM NobodyFallsToAnOutage == Spec => OutageCondemnsNobody
<1> DEFINE Inv == TypeOK /\ Health
<1>1. Init => Inv BY TypeInit, HealthInit
<1>2. Inv /\ [Next]_vars => Inv' BY TypeNext, HealthKept
<1>3. Inv /\ [Next]_vars =>
        [\A p \in Proxies : proxy[p].health # "down" /\ proxy'[p].health = "down" =>
           \/ check.of = p /\ check' = IdleCheck
           \/ /\ sweep.at = "writing" /\ p \in sweep.batch /\ p \notin sweep'.batch
              /\ ~OutageIn(sweep.probed, sweep.well)]_vars
  <2> SUFFICES ASSUME Inv, Next, NEW p \in Proxies,
                      proxy[p].health # "down", proxy'[p].health = "down"
               PROVE  Condemns(p)
    BY DEF Condemns
  <2>0. proxy[p] \in Row BY DEF TypeOK
  <2>1. CASE Elsewhere BY <2>1, ElsewhereSpares DEF Spares
  <2>2. ASSUME UNCHANGED proxy PROVE FALSE BY <2>2
  <2>3. ASSUME NEW q \in Proxies, SweepWrites(q) PROVE Condemns(p)
    <3>1. p = q
      BY <2>3 DEF SweepWrites, RecordCheck, TypeOK
    <3>2. proxy'[p].health = DecideHealth(p \in sweep.well, sweep.seen[p], sweep.outage)
      <4>1. proxy'[p] = CheckRow(proxy[p], p \in sweep.well,
                                 DecideHealth(p \in sweep.well, sweep.seen[p], sweep.outage))
        BY <2>3, <3>1 DEF SweepWrites, RecordCheck, TypeOK
      <4> QED BY <2>0, <4>1 DEF CheckRow, Row
    <3>3. ~sweep.outage BY <3>2 DEF DecideHealth
    <3>4. sweep.at = "writing" /\ p \in sweep.batch BY <2>3, <3>1 DEF SweepWrites, First
    <3>5. ~OutageIn(sweep.probed, sweep.well) BY <3>3, <3>4 DEF Health, Judged
    <3>6. p \notin sweep'.batch
      <4>1. CASE sweep' = IdleSweep BY <4>1 DEF IdleSweep
      <4>2. CASE sweep' = [sweep EXCEPT !.batch = sweep.batch \ {q}] BY <3>1, <4>2 DEF TypeOK
      <4> QED BY <2>3, <4>1, <4>2 DEF SweepWrites
    <3> QED BY <3>4, <3>5, <3>6 DEF Condemns
  <2>4. CASE CheckEnds
    <3>1. check.of = p BY <2>4 DEF CheckEnds, RecordCheck, TypeOK
    <3> QED BY <2>4, <3>1 DEF CheckEnds, Condemns
  <2>5. \A batch : SweepBegins(batch) => UNCHANGED proxy BY DEF SweepBegins, tables
  <2>6. \A q, ok : SweepProbes(q, ok) \/ CheckBegins(q, ok) => UNCHANGED proxy
    BY DEF SweepProbes, CheckBegins, tables
  <2>7. SweepAborts => UNCHANGED proxy BY DEF SweepAborts, tables
  <2> QED BY <2>1, <2>2, <2>3, <2>4, <2>5, <2>6, <2>7 DEF Next, HealthNext, Elsewhere
<1> QED BY <1>1, <1>2, <1>3, PTL DEF Spec, OutageCondemnsNobody

-----------------------------------------------------------------------------
(* Retirement.                                                             *)

\* An operator points an account at p.
Revives(p) == \E a \in Accounts : account'[a] = p /\ swap[a] = IdleSwap

\* A retired proxy stays retired whatever is done to the pool, but for PATCH
\* /accounts/:id/proxy.
THEOREM RetirementLasts == Spec => RetiredForGood
<1> DEFINE Inv == TypeOK /\ Links
<1>1. Init => Inv BY TypeInit, LinksInit
<1>2. Inv /\ [Next]_vars => Inv' BY TypeNext, LinksNext
<1>3. Inv /\ [Next]_vars =>
        [\A p \in Proxies : proxy[p].state = "retired" /\ proxy'[p].state # "retired" =>
           \E a \in Accounts : account'[a] = p /\ swap[a] = IdleSwap]_vars
  <2> SUFFICES ASSUME Inv, Next, NEW p \in Proxies,
                      proxy[p].state = "retired", proxy'[p].state # "retired"
               PROVE  Revives(p)
    BY DEF Revives
  <2>0. proxy[p] \in Row /\ p \in Registered BY DEF TypeOK, Registered
  <2>1. ASSUME NEW q \in Proxies, NEW r, NEW hands, Edit(q, r, hands) PROVE q = p /\ proxy'[p] = r
    BY <2>1 DEF Edit, TypeOK
  <2>2. ASSUME NEW q \in Proxies,
               CreateProxy(q) \/ Release(q) \/ Retire(q) \/ CancelReservation(q)
        PROVE  FALSE
    <3>1. ~CreateProxy(q) BY <2>0, <2>1 DEF CreateProxy
    <3>2. ~Release(q)
      <4>1. Release(q) => proxy'[p] = ReleaseRow(proxy[p]) BY <2>1 DEF Release
      <4> QED BY <4>1 DEF ReleaseRow
    <3>3. ~Retire(q)
      <4>1. Retire(q) => proxy'[p] = RetireRow(proxy[p]) BY <2>1 DEF Retire
      <4> QED BY <2>0, <4>1 DEF RetireRow, Row
    <3>4. ~CancelReservation(q) BY <2>1 DEF CancelReservation
    <3> QED BY <2>2, <3>1, <3>2, <3>3, <3>4
  <2>3. ~ReserveForNewAccount
    <3>1. ReserveForNewAccount => Choice \in Claimable BY ChoiceIsClaimable DEF ReserveForNewAccount
    <3>2. ReserveForNewAccount => Choice = p
      BY <2>1, <3>1 DEF ReserveForNewAccount, Claimable
    <3> QED BY <3>1, <3>2 DEF Claimable
  <2>4. \A a \in Accounts, q \in Proxies : ~ConfirmReservation(q, a)
    BY <2>1 DEF ConfirmReservation
  <2>5. ~ReconcileAssignments BY DEF ReconcileAssignments
  <2>6. ASSUME NEW a \in Accounts, NEW q \in Proxies, AssociateProxy(a, q) PROVE Revives(p)
    <3>1. q = p /\ account'[a] = q /\ swap[a] = IdleSwap
      BY <2>6 DEF AssociateProxy, SetProxy, TypeOK
    <3> QED BY <3>1 DEF Revives
  <2>7. \A a, q : ~CreateAccount(a, q) BY DEF CreateAccount
  <2>8. \A a, retire : ~SwapRequested(a, retire) BY DEF SwapRequested, tables
  <2>9. \A a \in Accounts : ~SwapCommits(a)
    <3> SUFFICES ASSUME NEW a \in Accounts, SwapCommits(a) PROVE FALSE OBVIOUS
    <3>1. p # swap[a].new BY DEF SwapCommits, Links, ClaimHolds
    <3>2. proxy'[p] \in {RetireRow(proxy[p]), ReleaseRow(proxy[p]), proxy[p]}
      BY <3>1 DEF SwapCommits
    <3> QED BY <2>0, <3>2 DEF RetireRow, ReleaseRow, Row
  <2>10. \A a : ~SwapRollsBack(a) BY DEF SwapRollsBack, tables
  <2>11. ASSUME NEW q \in Proxies, NEW ok, NEW h, NEW others, RecordCheck(q, ok, h, others)
         PROVE  FALSE
    <3>1. proxy'[p] = proxy[p] \/ proxy'[p] = CheckRow(proxy[p], ok, h)
      BY <2>11 DEF RecordCheck, TypeOK
    <3> QED BY <2>0, <3>1 DEF CheckRow, Row
  <2>12. ~HealthNext
    <3>1. \A batch : ~SweepBegins(batch) BY DEF SweepBegins, tables
    <3>2. \A q, ok : ~SweepProbes(q, ok) /\ ~CheckBegins(q, ok)
      BY DEF SweepProbes, CheckBegins, tables
    <3>3. \A q \in Proxies : ~SweepWrites(q) BY <2>11 DEF SweepWrites
    <3>4. ~SweepAborts BY DEF SweepAborts, tables
    <3>5. ~CheckEnds BY <2>11 DEF CheckEnds, TypeOK
    <3> QED BY <3>1, <3>2, <3>3, <3>4, <3>5 DEF HealthNext
  <2>13. ~JobNext
    <3>1. \A j, a : ~JobSends(j, a) /\ ~JobRefused(j, a)
      BY DEF JobSends, JobRefused, JobStarts, tables
    <3>2. \A j : ~JobEnds(j) /\ ~JobFails(j) /\ ~HandlerSwaps(j) /\ ~HandlerLeaves(j)
      BY DEF JobEnds, JobFails, HandlerSwaps, HandlerLeaves, tables
    <3>3. ASSUME NEW j \in Jobs, HandlerStrikes(j) PROVE FALSE
      <4>1. proxy'[p] = proxy[p] \/ proxy'[p] = StrikeRow(proxy[p])
        BY <3>3 DEF HandlerStrikes, TypeOK
      <4> QED BY <2>0, <4>1 DEF StrikeRow, Row
    <3> QED BY <3>1, <3>2, <3>3 DEF JobNext
  <2> QED BY <2>2, <2>3, <2>4, <2>5, <2>6, <2>7, <2>8, <2>9, <2>10, <2>12, <2>13
        DEF Next, OperatorNext
<1> QED BY <1>1, <1>2, <1>3, PTL DEF Spec, RetiredForGood

=============================================================================
