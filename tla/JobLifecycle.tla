---------------------------- MODULE JobLifecycle ----------------------------
(***************************************************************************)
(* What the job manager promises for the jobs that are queued with Add:    *)
(* jobs are run one at a time, in the order they were added; a job that    *)
(* has not started can be dropped and then never runs; a started job ends  *)
(* once.  JobManager implements this specification.                        *)
(***************************************************************************)
EXTENDS Naturals

CONSTANT MaxJobs \* bound on the jobs that are ever added

VARIABLE phase \* the phase of each job

JobId == 1..MaxJobs

Init == phase = [j \in JobId |-> "unknown"]

Enter(j, p) == phase' = [phase EXCEPT ![j] = p]

(* Jobs are numbered in the order they are added. *)
Queue(j) ==
  /\ phase[j] = "unknown"
  /\ \A i \in 1..(j - 1) : phase[i] # "unknown"
  /\ Enter(j, "queued")

Run(j) ==
  /\ phase[j] = "queued"
  /\ \A i \in JobId : phase[i] # "running"
  /\ \A i \in 1..(j - 1) : phase[i] # "queued"
  /\ Enter(j, "running")

Drop(j) == phase[j] = "queued" /\ Enter(j, "over")

Finish(j) == phase[j] = "running" /\ Enter(j, "over")

Next == \E j \in JobId : Queue(j) \/ Run(j) \/ Drop(j) \/ Finish(j)

Spec == Init /\ [][Next]_phase
=============================================================================
