------------------------------ MODULE Progress ------------------------------
(***************************************************************************)
(* The counters of job.Progress (pkg/job/progress.go): the work units of a *)
(* job that are known and those that are done.  Every method holds the     *)
(* mutex of the Progress, so each is one step.                             *)
(***************************************************************************)
EXTENDS Naturals

VARIABLES
  total,     \* Progress.total
  processed, \* Progress.processed
  defined    \* Progress.defined

progressVars == <<total, processed, defined>>

ProgressTypeOK ==
  /\ total \in Nat
  /\ processed \in Nat
  /\ defined \in BOOLEAN

ProgressInit ==
  /\ total = 0
  /\ processed = 0
  /\ defined = FALSE

AddTotal(n) ==
  /\ total' = total + n
  /\ UNCHANGED <<processed, defined>>

(* "If total is set already, then the number of processed work units will  *)
(* not exceed the total."                                                  *)
Increment ==
  /\ processed' = IF ~defined \/ total <= 0 \/ processed < total
                  THEN processed + 1 ELSE processed
  /\ UNCHANGED <<total, defined>>

(* The percentage shown is processed / total, capped at 1. *)
Full == defined /\ processed >= total
=============================================================================
