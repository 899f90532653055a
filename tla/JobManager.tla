----------------------------- MODULE JobManager -----------------------------
(***************************************************************************)
(* The job manager of pkg/job: a queue of jobs executed one at a time by a *)
(* dispatcher goroutine, cancellation of single jobs and of all jobs, the  *)
(* graveyard of ended jobs, and the subscriptions that are told what       *)
(* happens to the jobs.                                                    *)
(*                                                                         *)
(* Processes: the client calls (Add, Start, CancelJob, CancelAll, Stop,    *)
(* Subscribe), the dispatcher goroutine, one executeJob goroutine for each *)
(* dispatched job, the throttle timers of the progress updater and the     *)
(* goroutine that ends a subscription.  Everything but Job.error runs      *)
(* under Manager.mutex, so an action is one critical section.  CancelAll   *)
(* is a loop of steps, because it walks a slice that its own body changes; *)
(* while it runs it holds the mutex.                                       *)
(*                                                                         *)
(* Jobs are named by their ID, which nextID hands out from 1 upwards.      *)
(***************************************************************************)
EXTENDS Naturals, SequencesExt

CONSTANTS
  MaxJobs,      \* bound on lastID: the jobs that are ever added
  MaxGraveyard, \* maxGraveyardSize
  MaxUpdates,   \* bound on the progress updates of one job
  Subs,         \* the subscriptions that may be made
  ChanCap,      \* capacity of each channel of a subscription
  Calls         \* the methods clients call besides Add and CancelJob

ASSUME MaxJobsAssumption == MaxJobs \in Nat
ASSUME MaxGraveyardAssumption == MaxGraveyard \in Nat \ {0}
ASSUME MaxUpdatesAssumption == MaxUpdates \in Nat
ASSUME ChanCapAssumption == ChanCap \in Nat \ {0}
ASSUME CallsAssumption == Calls \subseteq {"Start", "Stop", "CancelAll"}

VARIABLES
  lastID,    \* Manager.lastID
  queue,     \* Manager.queue, as IDs
  graveyard, \* Manager.graveyard, as IDs
  status,    \* Job.Status; "none" before the job is added
  exec,      \* where the job's executeJob goroutine is; "none" before dispatch
  ctxDone,   \* the jobs whose context is cancelled
  dpc, djob, \* the dispatcher: where it is, the job whose end it awaits
  stop,      \* how far Stop is; "closed" once Manager.stop is closed
  sweep,     \* the loop of CancelAll; it holds the mutex while sweep.next > 0
  progress,  \* Job.Progress, as the number of the last update; 0 at first
  published, \* the last update that reached notifyUpdate
  timers,    \* how many time.AfterFunc callbacks are outstanding for the job
  timerSet,  \* updater.updateTimer # nil
  subs,      \* the state of each subscription
  chan       \* the three channels of each subscription

queueVars == <<lastID, queue, graveyard>>
jobVars == <<status, exec, ctxDone>>
dispVars == <<dpc, djob>>
progVars == <<progress, published, timers, timerSet>>
vars == <<queueVars, jobVars, dispVars, stop, sweep, progVars, subs, chan>>

JobId == 1..MaxJobs
NoJob == 0
Status == {"READY", "RUNNING", "STOPPING", "FINISHED", "CANCELLED", "FAILED"}
ExecState == {"none", "executing", "errored", "panicked", "done"}
Kinds == {"new", "updated", "removed"}
Msg == [id : JobId, status : Status, progress : 0..MaxUpdates]
NoSweep == [next |-> 0, view |-> <<>>]

TypeOK ==
  /\ lastID \in 0..MaxJobs
  /\ queue \in Seq(JobId)
  /\ graveyard \in Seq(JobId) /\ Len(graveyard) <= MaxGraveyard
  /\ status \in [JobId -> Status \cup {"none"}]
  /\ exec \in [JobId -> ExecState]
  /\ ctxDone \subseteq JobId
  /\ dpc \in {"start", "waiting", "woken", "running", "exited"}
  /\ djob \in JobId \cup {NoJob}
  /\ stop \in {"no", "cancelling", "closing", "closed"}
  /\ sweep \in [next : Nat, view : Seq(JobId)]
  /\ progress \in [JobId -> 0..MaxUpdates]
  /\ published \in [JobId -> 0..MaxUpdates]
  /\ timers \in [JobId -> Nat]
  /\ timerSet \in [JobId -> BOOLEAN]
  /\ subs \in [Subs -> {"none", "open", "ended", "closed"}]
  /\ chan \in [Subs -> [Kinds -> Seq(Msg)]]

Init ==
  /\ lastID = 0
  /\ queue = <<>>
  /\ graveyard = <<>>
  /\ status = [j \in JobId |-> "none"]
  /\ exec = [j \in JobId |-> "none"]
  /\ ctxDone = {}
  /\ dpc = "start"
  /\ djob = NoJob
  /\ stop = "no"
  /\ sweep = NoSweep
  /\ progress = [j \in JobId |-> 0]
  /\ published = [j \in JobId |-> 0]
  /\ timers = [j \in JobId |-> 0]
  /\ timerSet = [j \in JobId |-> FALSE]
  /\ subs = [s \in Subs |-> "none"]
  /\ chan = [s \in Subs |-> [k \in Kinds |-> <<>>]]

-----------------------------------------------------------------------------
(* Helpers *)

Unlocked == sweep.next = 0

Queued(j) == \E i \in DOMAIN queue : queue[i] = j

(* getJob: the place of a job that is queued; IDs are unique. *)
IndexOf(j) == CHOOSE i \in DOMAIN queue : queue[i] = j

(* Sending to every subscription in the list; a full channel drops it. *)
Post(c, kind, j, st, p) ==
  [s \in Subs |->
     IF subs[s] \in {"open", "ended"} /\ Len(c[s][kind]) < ChanCap
     THEN [c[s] EXCEPT ![kind] = Append(@, [id |-> j, status |-> st, progress |-> p])]
     ELSE c[s]]

Bury(g, j) ==
  IF Len(g) < MaxGraveyard THEN Append(g, j) ELSE Tail(Append(g, j))

(* removeJob(j); RemovedNotice is what it sends, j having the status st. *)
RemoveJob(j) ==
  /\ queue' = IF Queued(j) THEN RemoveAt(queue, IndexOf(j)) ELSE queue
  /\ graveyard' = IF Queued(j) THEN Bury(graveyard, j) ELSE graveyard

RemovedNoticeUnchecked(j, st) == Post(chan, "removed", j, st, progress[j]) \* mutant

RemovedNotice(j, st) ==
  IF Queued(j) THEN Post(chan, "removed", j, st, progress[j]) ELSE chan

UpdateNoticeAlways(c, j, st, p) == Post(c, "updated", j, st, p) \* mutant

(* notifyJobUpdate for a job that has the status st. *)
UpdateNotice(c, j, st, p) ==
  IF st \in {"CANCELLED", "FINISHED"} THEN c ELSE Post(c, "updated", j, st, p)

(* dispatch(j): the new status and goroutine, and the notice of the start. *)
Dispatch(j, c) ==
  /\ status' = [status EXCEPT ![j] = "RUNNING"]
  /\ exec' = [exec EXCEPT ![j] = "executing"]
  /\ chan' = UpdateNotice(c, j, "RUNNING", progress[j])

(* What the dispatcher does with the mutex when it looks at the queue q:   *)
(* wait on notEmpty, or dispatch the first READY job and await its end.    *)
DispatcherLooks(q, c) ==
  \/ /\ \A i \in DOMAIN q : status[q[i]] # "READY"
     /\ dpc' = "waiting"
     /\ djob' = NoJob
     /\ chan' = c
     /\ UNCHANGED <<status, exec>>
  \/ \E i \in DOMAIN q :
       /\ status[q[i]] = "READY"
       /\ \A k \in 1..(i - 1) : status[q[k]] # "READY"
       /\ dpc' = "running"
       /\ djob' = q[i]
       /\ Dispatch(q[i], c)

(* The statuses Job.cancel may leave.  Job.error writes FAILED without the *)
(* mutex, so a cancel that read RUNNING before may overwrite it.           *)
AfterCancel(j) ==
  CASE status[j] = "READY" -> {"CANCELLED"}
    [] status[j] = "RUNNING" -> {"STOPPING"}
    [] status[j] = "FAILED" /\ exec[j] = "errored" /\ j \notin ctxDone ->
         {"FAILED", "STOPPING"}
    [] OTHER -> {status[j]}

CancelOneAtOnce(j) == \* mutant: a stopping job is removed at once
  \E st \in AfterCancel(j) :
    /\ status' = [status EXCEPT ![j] = st]
    /\ ctxDone' = IF exec[j] = "none" THEN ctxDone ELSE ctxDone \cup {j}
    /\ RemoveJob(j) /\ chan' = RemovedNotice(j, st)

(* One iteration of a cancelling loop: j.cancel(), and removeJob(j) if the *)
(* job is now CANCELLED.                                                   *)
CancelOne(j) ==
  \E st \in AfterCancel(j) :
    /\ status' = [status EXCEPT ![j] = st]
    /\ ctxDone' = IF exec[j] = "none" THEN ctxDone ELSE ctxDone \cup {j}
    /\ IF st = "CANCELLED"
       THEN RemoveJob(j) /\ chan' = RemovedNotice(j, st)
       ELSE UNCHANGED <<queue, graveyard, chan>>

-----------------------------------------------------------------------------
(* The methods of Manager that clients call *)

NewJob(j) ==
  /\ lastID < MaxJobs
  /\ j = lastID + 1
  /\ lastID' = j
  /\ queue' = Append(queue, j)

AddUnsignalled == \* mutant: the length is looked at before the append
  /\ Unlocked
  /\ \E j \in JobId :
       /\ NewJob(j)
       /\ status' = [status EXCEPT ![j] = "READY"]
       /\ chan' = Post(chan, "new", j, "READY", 0)
  /\ dpc' = IF Len(queue) = 1 /\ dpc = "waiting" THEN "woken" ELSE dpc
  /\ UNCHANGED <<graveyard, exec, ctxDone, djob, stop, sweep, progVars, subs>>

Add ==
  /\ Unlocked
  /\ \E j \in JobId :
       /\ NewJob(j)
       /\ status' = [status EXCEPT ![j] = "READY"]
       /\ chan' = Post(chan, "new", j, "READY", 0)
  /\ dpc' = IF Len(queue') = 1 /\ dpc = "waiting" THEN "woken" ELSE dpc
  /\ UNCHANGED <<graveyard, exec, ctxDone, djob, stop, sweep, progVars, subs>>

Start ==
  /\ "Start" \in Calls
  /\ Unlocked
  /\ \E j \in JobId : NewJob(j) /\ Dispatch(j, chan)
  /\ UNCHANGED <<graveyard, ctxDone, dispVars, stop, sweep, progVars, subs>>

CancelJob(j) ==
  /\ Unlocked
  /\ Queued(j)
  /\ CancelOne(j)
  /\ UNCHANGED <<lastID, exec, dispVars, stop, sweep, progVars, subs>>

CancelAllBegin ==
  /\ Unlocked
  /\ queue # <<>>
  /\ sweep' = [next |-> 1, view |-> queue]
  /\ UNCHANGED <<queueVars, jobVars, dispVars, progVars, subs, chan>>

CancelAll ==
  /\ "CancelAll" \in Calls
  /\ CancelAllBegin
  /\ UNCHANGED stop

(* The array behind the slice the loop walks, once removeJob has moved the *)
(* tail of the queue one place down in it.                                 *)
ShiftedView(j) ==
  LET L == Len(queue)
      k == IndexOf(j)
  IN  IF Queued(j)
      THEN [p \in DOMAIN sweep.view |->
              IF k <= p /\ p < L THEN sweep.view[p + 1] ELSE sweep.view[p]]
      ELSE sweep.view

(* One iteration of CancelAll; the last one releases the mutex. *)
CancelAllStep ==
  /\ ~Unlocked
  /\ LET j == sweep.view[sweep.next]
     IN  /\ CancelOne(j)
         /\ sweep' =
              IF sweep.next = Len(sweep.view) THEN NoSweep
              ELSE [next |-> sweep.next + 1,
                    view |-> IF status'[j] = "CANCELLED" THEN ShiftedView(j)
                             ELSE sweep.view]
  /\ stop' = IF sweep.next = Len(sweep.view) /\ stop = "cancelling"
             THEN "closing" ELSE stop
  /\ UNCHANGED <<lastID, exec, dispVars, progVars, subs>>

(* Stop is CancelAll and then, without the mutex, close(m.stop). *)
Stop ==
  /\ "Stop" \in Calls
  /\ stop = "no"
  /\ \/ CancelAllBegin /\ stop' = "cancelling"
     \/ /\ Unlocked
        /\ queue = <<>>
        /\ stop' = "closing"
        /\ UNCHANGED <<queueVars, jobVars, dispVars, sweep, progVars, subs, chan>>

CloseStop ==
  /\ stop = "closing"
  /\ stop' = "closed"
  /\ UNCHANGED <<queueVars, jobVars, dispVars, sweep, progVars, subs, chan>>

-----------------------------------------------------------------------------
(* The dispatcher goroutine *)

DispatcherStart ==
  /\ dpc = "start"
  /\ Unlocked
  /\ DispatcherLooks(queue, chan)
  /\ UNCHANGED <<queueVars, ctxDone, stop, sweep, progVars, subs>>

(* Wait has returned with the mutex; only here is m.stop looked at. *)
DispatcherWakes ==
  /\ dpc = "woken"
  /\ Unlocked
  /\ IF stop = "closed"
     THEN dpc' = "exited" /\ UNCHANGED <<djob, status, exec, chan>>
     ELSE DispatcherLooks(queue, chan)
  /\ UNCHANGED <<queueVars, ctxDone, stop, sweep, progVars, subs>>

DispatcherReapsEarly == \* mutant: does not wait for done
  /\ dpc = "running"
  /\ Unlocked
  /\ RemoveJob(djob)
  /\ DispatcherLooks(queue', RemovedNotice(djob, status[djob]))
  /\ UNCHANGED <<lastID, ctxDone, stop, sweep, progVars, subs>>

DispatcherReapsNot == \* mutant: the ended job is not removed
  /\ dpc = "running"
  /\ Unlocked
  /\ exec[djob] = "done"
  /\ DispatcherLooks(queue, chan)
  /\ UNCHANGED <<queueVars, ctxDone, stop, sweep, progVars, subs>>

(* <-done has returned: the job leaves the queue and the next one is       *)
(* looked for, in one critical section.                                    *)
DispatcherReaps ==
  /\ dpc = "running"
  /\ Unlocked
  /\ exec[djob] = "done"
  /\ RemoveJob(djob)
  /\ DispatcherLooks(queue', RemovedNotice(djob, status[djob]))
  /\ UNCHANGED <<lastID, ctxDone, stop, sweep, progVars, subs>>

-----------------------------------------------------------------------------
(* The executeJob goroutine of job j *)

(* Execute returned an error: Job.error, which does not take the mutex. *)
ExecError(j) ==
  /\ exec[j] = "executing"
  /\ exec' = [exec EXCEPT ![j] = "errored"]
  /\ status' = [status EXCEPT ![j] = "FAILED"]
  /\ UNCHANGED <<queueVars, ctxDone, dispVars, stop, sweep, progVars, subs, chan>>

(* Execute panicked: the deferred recover. *)
ExecPanic(j) ==
  /\ exec[j] = "executing"
  /\ Unlocked
  /\ exec' = [exec EXCEPT ![j] = "panicked"]
  /\ status' = [status EXCEPT ![j] = "FAILED"]
  /\ UNCHANGED <<queueVars, ctxDone, dispVars, stop, sweep, progVars, subs, chan>>

OnJobFinishBlind(j) == \* mutant: a job that has failed is taken for finished
  /\ exec[j] \in {"executing", "errored", "panicked"}
  /\ Unlocked
  /\ exec' = [exec EXCEPT ![j] = "done"]
  /\ status' = [status EXCEPT ![j] = IF @ = "STOPPING" THEN "CANCELLED" ELSE "FINISHED"]
  /\ UNCHANGED <<queueVars, ctxDone, dispVars, stop, sweep, progVars, subs, chan>>

(* onJobFinish, and close(done) after it. *)
OnJobFinish(j) ==
  /\ exec[j] \in {"executing", "errored", "panicked"}
  /\ Unlocked
  /\ exec' = [exec EXCEPT ![j] = "done"]
  /\ status' = [status EXCEPT ![j] =
                  CASE @ = "STOPPING" -> "CANCELLED"
                    [] @ = "FAILED" -> "FAILED"
                    [] OTHER -> "FINISHED"]
  /\ UNCHANGED <<queueVars, ctxDone, dispVars, stop, sweep, progVars, subs, chan>>

(* updateProgress.  The first update is never throttled, since lastUpdate  *)
(* is the zero time; a later one may or may not fall in the window.        *)
UpdateProgress(j) ==
  /\ exec[j] = "executing"
  /\ Unlocked
  /\ progress[j] < MaxUpdates
  /\ progress' = [progress EXCEPT ![j] = @ + 1]
  /\ \/ /\ published[j] > 0
        /\ timers' = IF timerSet[j] THEN timers ELSE [timers EXCEPT ![j] = @ + 1]
        /\ timerSet' = [timerSet EXCEPT ![j] = TRUE]
        /\ UNCHANGED <<published, chan>>
     \/ /\ chan' = UpdateNotice(chan, j, status[j], progress'[j])
        /\ published' = [published EXCEPT ![j] = progress'[j]]
        /\ timerSet' = [timerSet EXCEPT ![j] = FALSE]
        /\ UNCHANGED timers
  /\ UNCHANGED <<queueVars, jobVars, dispVars, stop, sweep, subs>>

TimerFiresStale(j) == \* mutant: updateTimer is not set to nil
  /\ timers[j] > 0
  /\ Unlocked
  /\ timers' = [timers EXCEPT ![j] = @ - 1]
  /\ chan' = UpdateNotice(chan, j, status[j], progress[j])
  /\ published' = [published EXCEPT ![j] = progress[j]]
  /\ UNCHANGED <<queueVars, jobVars, dispVars, stop, sweep, progress, timerSet, subs>>

(* A time.AfterFunc callback gets the mutex and calls notifyUpdate; it may *)
(* run long after the job has ended.                                       *)
TimerFires(j) ==
  /\ timers[j] > 0
  /\ Unlocked
  /\ timers' = [timers EXCEPT ![j] = @ - 1]
  /\ chan' = UpdateNotice(chan, j, status[j], progress[j])
  /\ published' = [published EXCEPT ![j] = progress[j]]
  /\ timerSet' = [timerSet EXCEPT ![j] = FALSE]
  /\ UNCHANGED <<queueVars, jobVars, dispVars, stop, sweep, progress, subs>>

-----------------------------------------------------------------------------
(* Subscriptions *)

Subscribe(s) ==
  /\ subs[s] = "none"
  /\ Unlocked
  /\ subs' = [subs EXCEPT ![s] = "open"]
  /\ UNCHANGED <<queueVars, jobVars, dispVars, stop, sweep, progVars, chan>>

(* The subscriber's context ends (a client disconnects). *)
ContextEnds(s) ==
  /\ subs[s] = "open"
  /\ subs' = [subs EXCEPT ![s] = "ended"]
  /\ UNCHANGED <<queueVars, jobVars, dispVars, stop, sweep, progVars, chan>>

(* The goroutine of Subscribe closes the channels and leaves the list. *)
Unsubscribe(s) ==
  /\ subs[s] = "ended"
  /\ Unlocked
  /\ subs' = [subs EXCEPT ![s] = "closed"]
  /\ UNCHANGED <<queueVars, jobVars, dispVars, stop, sweep, progVars, chan>>

(* The subscriber takes the next message of one of its channels. *)
Receive(s, kind) ==
  /\ chan[s][kind] # <<>>
  /\ chan' = [chan EXCEPT ![s][kind] = Tail(@)]
  /\ UNCHANGED <<queueVars, jobVars, dispVars, stop, sweep, progVars, subs>>

-----------------------------------------------------------------------------

ClientStep ==
  \/ Add \/ Start \/ CancelAll \/ Stop
  \/ \E j \in JobId : CancelJob(j)

DispatcherStep == DispatcherStart \/ DispatcherWakes \/ DispatcherReaps

ExecStep(j) == ExecError(j) \/ ExecPanic(j) \/ OnJobFinish(j)

SubscriptionStep ==
  \E s \in Subs : Subscribe(s) \/ ContextEnds(s) \/ Unsubscribe(s)

(* Everything but what the subscribers do with their channels. *)
ManagerNext ==
  \/ ClientStep
  \/ CancelAllStep
  \/ CloseStop
  \/ DispatcherStep
  \/ \E j \in JobId : ExecStep(j) \/ UpdateProgress(j) \/ TimerFires(j)
  \/ SubscriptionStep

Next ==
  \/ ManagerNext
  \/ \E s \in Subs, k \in Kinds : Receive(s, k)

Spec == Init /\ [][Next]_vars

(* Runnable goroutines run.  Whoever waits for the mutex gets it in the    *)
(* end (sync.Mutex hands over to a waiter that starves), although client   *)
(* calls take it again and again: hence strong fairness for the steps that *)
(* lock.  The body of a job is assumed to return.                          *)
Fairness ==
  /\ WF_vars(CancelAllStep)
  /\ WF_vars(CloseStop)
  /\ SF_vars(DispatcherStep)
  /\ \A j \in JobId : SF_vars(ExecStep(j)) /\ SF_vars(TimerFires(j))
  /\ \A s \in Subs : SF_vars(Unsubscribe(s))

FairSpec == Spec /\ Fairness

-----------------------------------------------------------------------------
(* Properties *)

Active(j) == exec[j] \in {"executing", "errored", "panicked"}

(* "Jobs are executed one at a time": with no Start, at most the job the   *)
(* dispatcher waits for is in its Execute.                                 *)
OneAtATime ==
  \A j \in JobId : Active(j) => dpc = "running" /\ djob = j

(* The dispatcher sleeps on notEmpty only while there is nothing to do, so *)
(* the single Broadcast of Add (when the queue grows to one job) is never  *)
(* missing: no job is READY while it sleeps.                               *)
WaitsOnlyWhenIdle ==
  dpc = "waiting" => \A j \in JobId : status[j] # "READY"

(* What is left in the queue is waiting for its turn or is being run, and  *)
(* only the job being run may have ended already.                          *)
QueueIsLive ==
  \A j \in JobId :
    Queued(j) => \/ status[j] = "READY"
                 \/ dpc = "running" /\ djob = j

(* The last progress of a job is published or a timer is there to publish  *)
(* it: throttling delays an update and never loses the last one.           *)
NoLostUpdate ==
  \A j \in JobId :
    /\ progress[j] # published[j] => timerSet[j]
    /\ timerSet[j] => timers[j] > 0

(* Once out of the queue a job never comes back, never runs and keeps its  *)
(* status: what the removed notification said stays true.                  *)
RemovedIsFinal ==
  [][\A j \in 1..lastID :
       ~Queued(j) => ~Queued(j)' /\ status'[j] = status[j] /\ exec'[j] = exec[j]]_vars

(* Jobs are started by the dispatcher in the order they were added.        *)
StartedInOrder ==
  [][\A j \in JobId :
       exec[j] = "none" /\ exec'[j] # "none"
         => \A i \in 1..(j - 1) : status[i] # "READY"]_vars

(* The message that a step appends to a channel, as a set. *)
Sent(s, kind) ==
  { chan'[s][kind][i] : i \in DOMAIN chan'[s][kind] \ DOMAIN chan[s][kind] }

(* Every subscriber with room in its channel is told once of each job that *)
(* leaves the queue, with a final status, and of no other removal.         *)
RemovedToldOnce ==
  [][\A s \in Subs :
       IF subs[s] \in {"open", "ended"} /\ Len(chan[s]["removed"]) < ChanCap
       THEN /\ { m.id : m \in Sent(s, "removed") } = { j \in JobId : Queued(j) /\ ~Queued(j)' }
            /\ \A m \in Sent(s, "removed") :
                 m.status \in {"FINISHED", "CANCELLED", "FAILED"} /\ m.status = status'[m.id]
       ELSE Sent(s, "removed") = {}]_vars

(* A job that was told removed as FINISHED or CANCELLED is not updated     *)
(* again, although its timers may fire later.                              *)
NoUpdateAfterRemoval ==
  [][\A s \in Subs : \A m \in Sent(s, "updated") :
       Queued(m.id)' \/ m.status = "FAILED"]_vars

(* The status a job ends with tells how its Execute went, whoever cancels  *)
(* it meanwhile: FINISHED if it returned nil and nobody had cancelled it,  *)
(* CANCELLED if it returned nil afterwards, FAILED if it panicked.  An     *)
(* error ends in FAILED, too, unless a cancel and Job.error, which writes  *)
(* without the mutex, come together: then it may be told as CANCELLED.     *)
EndsAsItWent ==
  [][\A j \in JobId :
       Active(j) /\ exec'[j] = "done" =>
         \/ exec[j] = "executing" /\ j \notin ctxDone /\ status'[j] = "FINISHED"
         \/ exec[j] = "executing" /\ j \in ctxDone /\ status'[j] = "CANCELLED"
         \/ exec[j] \in {"errored", "panicked"} /\ status'[j] = "FAILED"
         \/ exec[j] = "errored" /\ j \in ctxDone /\ status'[j] = "CANCELLED"]_vars

(* Every queued job leaves the queue in the end, run or cancelled. *)
EveryJobLeaves == \A j \in JobId : Queued(j) ~> ~Queued(j)

-----------------------------------------------------------------------------
(* The phase of a job in JobLifecycle *)
PhaseOf(j) ==
  CASE status[j] = "none" -> "unknown"
    [] Active(j) -> "running"
    [] status[j] = "READY" -> "queued"
    [] OTHER -> "over"

Phases == [j \in JobId |-> PhaseOf(j)]

Lifecycle == INSTANCE JobLifecycle WITH phase <- Phases

(* The manager implements the abstract lifecycle: its steps are steps of   *)
(* the jobs' phases, one job at a time and in order.                       *)
ImplementsLifecycle == Lifecycle!Spec

-----------------------------------------------------------------------------
(* Statements of the source and its comments that the code does not keep *)


(* "This is the same as calling CancelJob on all jobs in the queue."       *)
(* (CancelAll): at its end no job of the queue is still READY.             *)
CancelAllCancelsAll ==
  [][~Unlocked /\ Unlocked' => \A j \in JobId : status'[j] # "READY"]_vars
=============================================================================
