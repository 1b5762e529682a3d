--------------------------- MODULE MCJobExecution ---------------------------
(***************************************************************************)
(* Job execution on small instances.                                       *)
(***************************************************************************)
EXTENDS JobExecution, TLC

\* Workers are interchangeable.
MCWorkers == Permutations(Workers)
=============================================================================
