--------------------------- MODULE MCTransactions ---------------------------
(***************************************************************************)
(* The module TLC checks: transactions, and the deletion of objects with   *)
(* their files in such transactions.  A behaviour is about one of the two, *)
(* which have the calls and their fairness in common.                      *)
(***************************************************************************)
EXTENDS SafeDelete

CONSTANTS p1, p2, p3, a, b, c

MCProcs == {p1, p2, p3}

\* Two callers that share an object.
WorkShared == (p1 :> <<a, b>>) @@ (p2 :> <<a, c>>) @@ (p3 :> <<>>)

\* Each caller has a Deleter of its own, the first one with a TrashPath.
OwnDeleter == [p \in Procs |-> p]
TrashFirst == [d \in Deleters |-> d = p1]

VARIABLE part \* "txn" or "deletes"

PartsInit == part \in {"txn", "deletes"} /\ DelInit

\* The third caller has nothing to delete and does not call.
PartsNext ==
  \/ part = "txn" /\ Next /\ UNCHANGED <<part, delVars>>
  \/ part = "deletes" /\ DelNext /\ pc'[p3] = "idle" /\ UNCHANGED part

\* A fair step of one part may be enabled in the other one, but not for
\* good: a call that goes on comes to its end.
PartsSpec ==
  PartsInit /\ [][PartsNext]_<<part, vars>> /\ Fairness /\ DelFairness
=============================================================================
