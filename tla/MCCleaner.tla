----------------------------- MODULE MCCleaner -----------------------------
(***************************************************************************)
(* The module TLC checks: scan and clean of the library; the read locks of *)
(* a file; and the DLNA service.  They share no state, so a behaviour is   *)
(* about one of them while the others stay as they begin.                  *)
(***************************************************************************)
EXTENDS Cleaner, ReadLocks, Dlna, TLC

CONSTANTS p1, p2, p3, a, b

\* One file, and a copy of it under another name.
TwoCopies == (p1 :> a) @@ (p2 :> a) @@ (p3 :> Nothing)

VARIABLE part \* the part that the behaviour is about

PartsInit ==
  part \in {"library", "locks", "dlna"} /\ CleanInit /\ LockInit /\ DlnaInit

PartsNext ==
  /\ UNCHANGED part
  /\ \/ part = "library" /\ CleanNext /\ UNCHANGED <<lockVars, dlnaVars>>
     \/ part = "locks" /\ LockNext /\ UNCHANGED <<allVars, dlnaVars>>
     \/ part = "dlna" /\ DlnaNext /\ UNCHANGED <<allVars, lockVars>>

\* What the properties of the other two parts say needs no fairness.
PartsSpec ==
  PartsInit /\ [][PartsNext]_<<part, allVars, lockVars, dlnaVars>> /\ Fairness
=============================================================================
