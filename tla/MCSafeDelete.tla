---------------------------- MODULE MCSafeDelete ----------------------------
(* The module TLC checks; DeleteCommitLost.cfg chooses the fault.          *)
EXTENDS SafeDelete

CONSTANTS p1, a

\* One caller that deletes one object.
WorkOne == (p1 :> <<a>>)

OwnDeleter == [p \in Procs |-> p]
NoTrash == [d \in Deleters |-> FALSE]
=============================================================================
