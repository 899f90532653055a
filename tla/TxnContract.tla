---------------------------- MODULE TxnContract ----------------------------
(***************************************************************************)
(* What WithTxn promises its callers: the work of a call is done as a      *)
(* whole or not at all, one call after the other; a call that returns an   *)
(* error has done nothing, and a call that returns nil has done its work,  *)
(* unless its commit may have failed: then the work is lost, at once or    *)
(* soon after the call has returned nil.                                   *)
(***************************************************************************)
CONSTANTS
  Procs,
  CommitMayFail \* whether a commit may fail

VARIABLES
  effect, \* of the work of each call: "none" yet, "applied" or "discarded"
  report  \* what the call returned: "none" yet, "ok" or "err"

TypeOK ==
  /\ effect \in [Procs -> {"none", "applied", "discarded"}]
  /\ report \in [Procs -> {"none", "ok", "err"}]

Init ==
  /\ effect = [p \in Procs |-> "none"]
  /\ report = [p \in Procs |-> "none"]

Settle(p) ==
  /\ effect[p] = "none" /\ report[p] = "none"
  /\ \E e \in {"applied", "discarded"} : effect' = [effect EXCEPT ![p] = e]
  /\ UNCHANGED report

(* A call that cannot begin, or that panics, settles and reports at once. *)
Refuse(p) ==
  /\ effect[p] = "none" /\ report[p] = "none"
  /\ effect' = [effect EXCEPT ![p] = "discarded"]
  /\ report' = [report EXCEPT ![p] = "err"]

Report(p) ==
  /\ report[p] = "none"
  /\ \/ /\ effect[p] = "applied" \/ CommitMayFail
        /\ report' = [report EXCEPT ![p] = "ok"]
     \/ /\ effect[p] = "discarded"
        /\ report' = [report EXCEPT ![p] = "err"]
  /\ UNCHANGED effect

(* The work of a call that has returned nil is lost. *)
Lose(p) ==
  /\ CommitMayFail
  /\ effect[p] = "none" /\ report[p] = "ok"
  /\ effect' = [effect EXCEPT ![p] = "discarded"]
  /\ UNCHANGED report

(* The caller calls again. *)
Renew(p) ==
  /\ effect[p] # "none" /\ report[p] # "none"
  /\ effect' = [effect EXCEPT ![p] = "none"]
  /\ report' = [report EXCEPT ![p] = "none"]

Next == \E p \in Procs : Settle(p) \/ Refuse(p) \/ Report(p) \/ Lose(p) \/ Renew(p)

Spec == Init /\ [][Next]_<<effect, report>>
=============================================================================
