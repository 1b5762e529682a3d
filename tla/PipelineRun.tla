---------------------------- MODULE PipelineRun -----------------------------
(***************************************************************************)
(* What an orchestrated pipeline promises, whoever carries it out: steps   *)
(* run one at a time and in order, a step runs only when its condition     *)
(* holds of the step before it, what has an outcome keeps it, a failure    *)
(* closes the run and leaves every later step unrun, and a run is closed   *)
(* exactly when every step has an outcome.  There are no jobs, queues,     *)
(* processes or transactions here.  PipelineOrchestrator implements it.    *)
(***************************************************************************)
EXTENDS Integers

CONSTANTS Executions, Steps, Pipelines

Outcome == {"waiting", "live", "succeeded", "failed", "dead_letter", "skipped"}
Over    == {"succeeded", "failed", "dead_letter", "skipped"}
Bad     == {"failed", "dead_letter"}

VARIABLES
  verdict,  \* "none" before the run starts, then "open", "completed" or "failed"
  condition, \* the condition of each step of each run, fixed when it starts
  outcome   \* the outcome of each step of each run

vars == <<verdict, condition, outcome>>

Init == /\ verdict = [p \in Executions |-> "none"]
        /\ condition = [p \in Executions |-> [i \in Steps |-> "always"]]
        /\ outcome = [p \in Executions |-> [i \in Steps |-> "waiting"]]

Open(p) == /\ verdict[p] = "none"
           /\ verdict' = [verdict EXCEPT ![p] = "open"]
           /\ \E c \in Pipelines : condition' = [condition EXCEPT ![p] = c]
           /\ UNCHANGED outcome

\* Steps are taken strictly in order, at most one of them live.
InOrder(out) == \A h, i \in Steps : h < i /\ out[i] \in {"live"} \cup Over
                                      => out[h] \in Over

\* A failure leaves nothing after it to run, and nothing after it has run.
Stops(out) == \A h, i \in Steps : h < i /\ out[h] \in Bad => out[i] = "skipped"

Allowed(p, out, i) ==
  CASE condition[p][i] = "always" -> TRUE
    [] condition[p][i] = "on_previous_success" -> i = 0 \/ out[i - 1] = "succeeded"
    [] OTHER -> i > 0 /\ out[i - 1] \in Bad

\* How one step may move: an outcome is final, only a live step succeeds or
\* fails, only a waiting one is skipped or goes live, and only when allowed.
Moves(p, old, new) ==
  \A i \in Steps :
    /\ old[i] \in Over => new[i] = old[i]
    /\ old[i] = "live" => new[i] \in {"live", "succeeded"} \cup Bad
    /\ old[i] = "waiting" => new[i] \in {"waiting", "live", "skipped"}
    /\ old[i] = "waiting" /\ new[i] = "live" => Allowed(p, new, i)

\* One or more steps move at once: a transaction may settle a step, skip some
\* and release another.
Progress(p) ==
  /\ verdict[p] = "open"
  /\ outcome' \in [Executions -> [Steps -> Outcome]]
  /\ \A q \in Executions \ {p} : outcome'[q] = outcome[q]
  /\ Moves(p, outcome[p], outcome'[p])
  /\ InOrder(outcome'[p]) /\ Stops(outcome'[p])
  /\ verdict' = [verdict EXCEPT ![p] =
       IF \E i \in Steps : outcome'[p][i] \notin Over THEN "open"
       ELSE IF \E i \in Steps : outcome'[p][i] \in Bad THEN "failed" ELSE "completed"]
  /\ UNCHANGED condition

Next == \E p \in Executions : Open(p) \/ Progress(p)

Spec == Init /\ [][Next]_vars
=============================================================================
