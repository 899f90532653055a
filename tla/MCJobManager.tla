---------------------------- MODULE MCJobManager ----------------------------
(* The module TLC checks; the Job*.cfg files choose the bounds and calls.  *)
EXTENDS JobManager
=============================================================================
