------------------------------ MODULE JobLedger ------------------------------
(***************************************************************************)
(* What the rows of jobs promise to those who read them and to the         *)
(* platform: an open job is taken by one worker at a time, each taking is  *)
(* an attempt and acts on the platform once at most, the outcome written   *)
(* is the one the platform gave, an outcome is final, and a job is given   *)
(* up when its attempts are used.  A worker that outlives its claim, or a  *)
(* statement that throws, weakens some of it: each guard says of what.     *)
(* There are no queues, deliveries, leases or locks here.  JobExecution    *)
(* implements it.                                                          *)
(***************************************************************************)
EXTENDS Integers

CONSTANTS Jobs, NoJob, Workers,
          MaxAttempts,  \* what the policy allows
          Allowance     \* how often a job is attempted at most

Standings == {"absent", "open", "taken", "succeeded", "failed", "dead_letter"}
Replies   == {"ok", "fatal", "transient"}

VARIABLES
  standing, \* of each job
  attempts, \* at each job
  acts,     \* on the platform, for each job
  grip,     \* of each worker: the job it has taken, the platform's reply
  overrun,  \* some worker outlived its claim
  thrown    \* some statement threw

vars == <<standing, attempts, acts, grip, overrun, thrown>>

Free == [job |-> NoJob, reply |-> "none"]

Init == /\ standing = [j \in Jobs |-> "absent"]
        /\ attempts = [j \in Jobs |-> 0]
        /\ acts = [j \in Jobs |-> 0]
        /\ grip = [w \in Workers |-> Free]
        /\ overrun = FALSE /\ thrown = FALSE

Create(j) == /\ standing[j] = "absent"
             /\ standing' = [standing EXCEPT ![j] = "open"]
             /\ UNCHANGED <<attempts, acts, grip, overrun, thrown>>

\* A job that is taken is taken again only from a worker that is gone.
Takeable(j) == \/ standing[j] = "open"
               \/ /\ standing[j] = "taken"
                  /\ overrun \/ \A w \in Workers : grip[w].job # j

Take(w, j) == /\ grip[w] = Free /\ Takeable(j)
              /\ attempts[j] < Allowance
              /\ standing' = [standing EXCEPT ![j] = "taken"]
              /\ attempts' = [attempts EXCEPT ![j] = @ + 1]
              /\ grip' = [grip EXCEPT ![w] = [job |-> j, reply |-> "none"]]
              /\ UNCHANGED <<acts, overrun, thrown>>

\* A worker that was overtaken takes the job for its own nevertheless.
TakeBack(w) == /\ overrun
               /\ grip[w].job # NoJob /\ grip[w].reply = "none"
               /\ standing' = [standing EXCEPT ![grip[w].job] = "taken"]
               /\ UNCHANGED <<attempts, acts, grip, overrun, thrown>>

\* Refused for good, nothing was done; refused for now, nobody knows.
Act(w, reply, done) ==
  /\ grip[w].job # NoJob /\ grip[w].reply = "none"
  /\ reply = "ok" => done = 1
  /\ reply = "fatal" => done = 0
  /\ acts' = [acts EXCEPT ![grip[w].job] = @ + done]
  /\ grip' = [grip EXCEPT ![w].reply = reply]
  /\ UNCHANGED <<standing, attempts, overrun, thrown>>

\* What a reply makes of a job.
Follows(reply, j, outcome) ==
  CASE reply = "ok"    -> outcome = "succeeded"
    [] reply = "fatal" -> outcome = "failed"
    [] OTHER -> \/ outcome = "open"
                \/ outcome = "dead_letter" /\ (thrown \/ attempts[j] >= MaxAttempts)

Conclude(w, outcome) ==
  LET j == grip[w].job IN
  /\ grip[w].reply # "none"
  /\ standing[j] = "taken" \/ overrun
  /\ Follows(grip[w].reply, j, outcome)
  /\ standing' = [standing EXCEPT ![j] = outcome]
  /\ grip' = [grip EXCEPT ![w] = Free]
  /\ UNCHANGED <<attempts, acts, overrun, thrown>>

\* A worker dies, or gives up at a statement that throws.
LetGo(w) == /\ grip' = [grip EXCEPT ![w] = Free]
            /\ thrown' = thrown \/ thrown' = TRUE
            /\ UNCHANGED <<standing, attempts, acts, overrun>>

Overrun == /\ overrun' = TRUE
           /\ UNCHANGED <<standing, attempts, acts, grip, thrown>>

Next ==
  \/ \E j \in Jobs : Create(j)
  \/ \E w \in Workers :
       \/ \E j \in Jobs : Take(w, j)
       \/ TakeBack(w)
       \/ \E reply \in Replies, done \in {0, 1} : Act(w, reply, done)
       \/ \E outcome \in Standings : Conclude(w, outcome)
       \/ LetGo(w)
  \/ Overrun

Spec == Init /\ [][Next]_vars
=============================================================================
