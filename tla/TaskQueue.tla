----------------------------- MODULE TaskQueue -----------------------------
(***************************************************************************)
(* job.TaskQueue (pkg/job/task.go): a channel of tasks and a goroutine,    *)
(* the executer, that starts each of them in a goroutine of its own, with  *)
(* at most Processes of these at a time.  When the context of the job is   *)
(* cancelled the executer drains the channel and starts nothing.           *)
(***************************************************************************)
EXTENDS Progress, SequencesExt

CONSTANTS
  Tasks,     \* the tasks that may be added, each at most once
  QueueSize, \* the capacity of TaskQueue.tasks
  Processes  \* the limit of the SizedWaitGroup

ASSUME QueueSizeAssumption == QueueSize \in Nat \ {0}
ASSUME ProcessesAssumption == Processes \in Nat \ {0}

VARIABLES
  tasks,     \* TaskQueue.tasks
  closed,    \* whether that channel is closed
  taskState, \* how far each task is
  executer,  \* where the executer is; at "done" TaskQueue.done is closed
  cancelled  \* whether the context of the job is cancelled

taskVars == <<tasks, closed, taskState, executer>>

TaskStates == {"new", "queued", "held", "running", "finished", "dropped", "panicked"}

TaskTypeOK ==
  /\ ProgressTypeOK
  /\ tasks \in Seq(Tasks)
  /\ closed \in BOOLEAN
  /\ taskState \in [Tasks -> TaskStates]
  /\ executer \in {"receiving", "holding", "waiting", "done"}
  /\ cancelled \in BOOLEAN

TaskInit ==
  /\ ProgressInit
  /\ tasks = <<>>
  /\ closed = FALSE
  /\ taskState = [t \in Tasks |-> "new"]
  /\ executer = "receiving"
  /\ cancelled = FALSE

Running == {t \in Tasks : taskState[t] = "running"}

-----------------------------------------------------------------------------

(* Add: blocks while the channel is full; panics when it is closed. *)
AddTask(t) ==
  /\ taskState[t] = "new"
  /\ \/ /\ ~closed
        /\ Len(tasks) < QueueSize
        /\ tasks' = Append(tasks, t)
        /\ taskState' = [taskState EXCEPT ![t] = "queued"]
     \/ /\ closed
        /\ taskState' = [taskState EXCEPT ![t] = "panicked"]
        /\ UNCHANGED tasks
  /\ UNCHANGED <<closed, executer>>

(* The first half of Close; the other half is to wait for "done". *)
CloseTasks ==
  /\ closed' = TRUE
  /\ UNCHANGED <<tasks, taskState, executer>>

ExecuterTakesStops == \* mutant: a cancelled executer returns without draining
  /\ executer = "receiving"
  /\ tasks # <<>>
  /\ LET t == Head(tasks)
     IN  /\ executer' = IF cancelled THEN "waiting" ELSE "holding"
         /\ taskState' = [taskState EXCEPT ![t] = IF cancelled THEN "dropped" ELSE "held"]
  /\ tasks' = Tail(tasks)
  /\ UNCHANGED closed

(* The next task of the channel: passed over if the job is cancelled. *)
ExecuterTakes ==
  /\ executer = "receiving"
  /\ tasks # <<>>
  /\ LET t == Head(tasks)
     IN  /\ executer' = IF cancelled THEN "receiving" ELSE "holding"
         /\ taskState' = [taskState EXCEPT ![t] = IF cancelled THEN "dropped" ELSE "held"]
  /\ tasks' = Tail(tasks)
  /\ UNCHANGED closed

(* wg.Add blocks until fewer than Processes tasks run. *)
ExecuterStarts ==
  /\ executer = "holding"
  /\ Cardinality(Running) < Processes
  /\ \E t \in Tasks :
       /\ taskState[t] = "held"
       /\ taskState' = [taskState EXCEPT ![t] = "running"]
  /\ executer' = "receiving"
  /\ UNCHANGED <<tasks, closed>>

(* The channel is closed and empty: the deferred wg.Wait ... *)
ExecuterEnds ==
  /\ executer = "receiving"
  /\ tasks = <<>>
  /\ closed
  /\ executer' = "waiting"
  /\ UNCHANGED <<tasks, closed, taskState>>

ExecuterLeavesEarly == \* mutant: done is closed before wg.Wait
  /\ executer = "waiting"
  /\ executer' = "done"
  /\ UNCHANGED <<tasks, closed, taskState>>

(* ... and then the deferred close(done). *)
ExecuterLeaves ==
  /\ executer = "waiting"
  /\ Running = {}
  /\ executer' = "done"
  /\ UNCHANGED <<tasks, closed, taskState>>

TaskEndsUncounted(t) == \* mutant: the task does not call Increment
  /\ taskState[t] = "running"
  /\ taskState' = [taskState EXCEPT ![t] = "finished"]
  /\ UNCHANGED <<tasks, closed, executer, progressVars>>

(* The function of a task ends, with progress.Increment as its last call. *)
TaskEnds(t) ==
  /\ taskState[t] = "running"
  /\ taskState' = [taskState EXCEPT ![t] = "finished"]
  /\ Increment
  /\ UNCHANGED <<tasks, closed, executer>>

ExecuterStep == ExecuterTakes \/ ExecuterStarts \/ ExecuterEnds \/ ExecuterLeaves

-----------------------------------------------------------------------------
(* What a TaskQueue promises its users *)

TaskPhase ==
  [t \in Tasks |->
     CASE taskState[t] = "new" -> "out"
       [] taskState[t] \in {"queued", "held"} -> "in"
       [] taskState[t] = "running" -> "running"
       [] OTHER -> "over"]

TaskDoor == IF executer = "done" THEN "ended" ELSE IF closed THEN "closed" ELSE "open"

TaskPool == INSTANCE WorkerPool
  WITH Items <- Tasks, Limit <- Processes, phase <- TaskPhase, door <- TaskDoor
=============================================================================
