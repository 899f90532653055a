----------------------------- MODULE WorkerPool -----------------------------
(***************************************************************************)
(* What a queue with a bounded number of workers promises: items are       *)
(* submitted while its door is open, at most Limit of them are worked on   *)
(* at a time, each is worked on once or dropped, and the pool ends only    *)
(* when its door is closed and nothing is left in it.                      *)
(***************************************************************************)
EXTENDS Naturals, FiniteSets

CONSTANTS Items, Limit

VARIABLES
  phase, \* of each item: "out", "in", "running" or "over"
  door   \* "open", "closed" or "ended"

Init ==
  /\ phase = [i \in Items |-> "out"]
  /\ door = "open"

Busy == {i \in Items : phase[i] = "running"}

Submit(i) ==
  /\ door = "open"
  /\ phase[i] = "out"
  /\ phase' = [phase EXCEPT ![i] = "in"]
  /\ UNCHANGED door

Start(i) ==
  /\ phase[i] = "in"
  /\ Cardinality(Busy) < Limit
  /\ phase' = [phase EXCEPT ![i] = "running"]
  /\ UNCHANGED door

Finish(i) ==
  /\ phase[i] = "running"
  /\ phase' = [phase EXCEPT ![i] = "over"]
  /\ UNCHANGED door

Drop(i) ==
  /\ phase[i] = "in"
  /\ phase' = [phase EXCEPT ![i] = "over"]
  /\ UNCHANGED door

Close ==
  /\ door = "open"
  /\ door' = "closed"
  /\ UNCHANGED phase

End ==
  /\ door = "closed"
  /\ \A i \in Items : phase[i] \in {"out", "over"}
  /\ door' = "ended"
  /\ UNCHANGED phase

Next ==
  \/ \E i \in Items : Submit(i) \/ Start(i) \/ Finish(i) \/ Drop(i)
  \/ Close \/ End

Spec == Init /\ [][Next]_<<phase, door>>
=============================================================================
