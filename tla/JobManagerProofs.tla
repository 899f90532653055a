-------------------------- MODULE JobManagerProofs --------------------------
(***************************************************************************)
(* Proofs about JobManager.  When clients do not call Start: jobs run one  *)
(* at a time, the dispatcher never sleeps on a READY job, and the manager  *)
(* implements JobLifecycle.  Whatever they call: types, and what clients   *)
(* and subscribers see - a removed job stays removed, its removal is told  *)
(* once, no update follows it, no last update is lost, and the status a    *)
(* job ends with tells how it went.                                        *)
(***************************************************************************)
EXTENDS JobManager, SequenceTheorems, TLAPS

-----------------------------------------------------------------------------
(* Lemmas about the operators *)

(* What removing one element of a sequence returns. *)
LEMMA RemoveAtProperties ==
  ASSUME NEW S, NEW q \in Seq(S), NEW i \in 1..Len(q)
  PROVE  /\ RemoveAt(q, i) \in Seq(S)
         /\ Len(RemoveAt(q, i)) = Len(q) - 1
         /\ \A p \in 1..(Len(q) - 1) :
              RemoveAt(q, i)[p] = IF p < i THEN q[p] ELSE q[p + 1]
<1> DEFINE a == SubSeq(q, 1, i - 1)
           b == SubSeq(q, i + 1, Len(q))
<1>1. a \in Seq(S) /\ Len(a) = i - 1 /\ \A p \in 1..(i - 1) : a[p] = q[p]
  BY SubSeqProperties
<1>2. /\ b \in Seq(S) /\ Len(b) = Len(q) - i
      /\ \A p \in 1..(Len(q) - i) : b[p] = q[i + p]
  BY SubSeqProperties
<1>3. RemoveAt(q, i) = a \o b
  BY DEF RemoveAt
<1> HIDE DEF a, b
<1>4. /\ a \o b \in Seq(S)
      /\ Len(a \o b) = Len(a) + Len(b)
      /\ \A p \in 1..(Len(a) + Len(b)) :
           (a \o b)[p] = IF p <= Len(a) THEN a[p] ELSE b[p - Len(a)]
  BY <1>1, <1>2, ConcatProperties
<1>5. ASSUME NEW p \in 1..(Len(q) - 1)
      PROVE  (a \o b)[p] = IF p < i THEN q[p] ELSE q[p + 1]
  <2>1. CASE p < i
    <3>1. p \in 1..(Len(a) + Len(b)) /\ p <= Len(a) /\ p \in 1..(i - 1)
      BY <1>1, <1>2, <2>1
    <3> QED BY <1>1, <1>4, <2>1, <3>1
  <2>2. CASE ~(p < i)
    <3>1. /\ p \in 1..(Len(a) + Len(b)) /\ ~(p <= Len(a))
          /\ p - Len(a) \in 1..(Len(q) - i) /\ i + (p - Len(a)) = p + 1
      BY <1>1, <1>2, <2>2
    <3> QED BY <1>2, <1>4, <2>2, <3>1
  <2> QED BY <2>1, <2>2
<1>6. Len(a \o b) = Len(q) - 1
  BY <1>1, <1>2, <1>4
<1> QED BY <1>3, <1>4, <1>5, <1>6

Channels == [Subs -> [Kinds -> Seq(Msg)]]

(* Posting keeps the channels well typed. *)
LEMMA PostType ==
  ASSUME NEW c \in Channels, NEW kind \in Kinds, NEW j \in JobId,
         NEW st \in Status, NEW p \in 0..MaxUpdates
  PROVE  Post(c, kind, j, st, p) \in Channels
<1> DEFINE m == [id |-> j, status |-> st, progress |-> p]
<1>1. m \in Msg
  BY DEF Msg
<1> HIDE DEF m
<1>2. ASSUME NEW s \in Subs
      PROVE  [c[s] EXCEPT ![kind] = Append(@, m)] \in [Kinds -> Seq(Msg)]
  BY <1>1 DEF Channels
<1> QED BY <1>2 DEF Post, Channels, m

LEMMA UpdateNoticeType ==
  ASSUME NEW c \in Channels, NEW j \in JobId,
         NEW st \in Status, NEW p \in 0..MaxUpdates
  PROVE  UpdateNotice(c, j, st, p) \in Channels
BY PostType DEF UpdateNotice, Kinds

(* The graveyard never holds more than MaxGraveyard jobs. *)
LEMMA BuryType ==
  ASSUME NEW g \in Seq(JobId), Len(g) <= MaxGraveyard, NEW j \in JobId
  PROVE  Bury(g, j) \in Seq(JobId) /\ Len(Bury(g, j)) <= MaxGraveyard
<1>1. Append(g, j) \in Seq(JobId) /\ Len(Append(g, j)) = Len(g) + 1
  OBVIOUS
<1>2. Tail(Append(g, j)) \in Seq(JobId) /\ Len(Tail(Append(g, j))) = Len(g)
  BY <1>1
<1> QED BY <1>1, <1>2, MaxGraveyardAssumption DEF Bury

-----------------------------------------------------------------------------
(* Type correctness *)

(* What typing needs besides TypeOK: the loop of CancelAll stays inside    *)
(* the slice it walks, and only jobs that were added run or have timers.   *)
SweepOK ==
  /\ sweep.next <= Len(sweep.view)
  /\ ~Unlocked => Len(queue) <= Len(sweep.view)

KnownJobs ==
  /\ \A j \in JobId : exec[j] # "none" \/ timers[j] > 0 => status[j] # "none"
  /\ dpc = "running" => djob # NoJob

TypeInv == TypeOK /\ SweepOK /\ KnownJobs

LEMMA TypeInit == Init => TypeInv
<1> SUFFICES ASSUME Init PROVE TypeInv
  OBVIOUS
<1> USE MaxJobsAssumption, MaxUpdatesAssumption, MaxGraveyardAssumption
<1>1. TypeOK
  BY DEF Init, TypeOK, NoSweep, Status, ExecState, Msg
<1>2. SweepOK /\ KnownJobs
  BY DEF Init, SweepOK, KnownJobs, NoSweep, Unlocked, NoJob
<1> QED BY <1>1, <1>2 DEF TypeInv

(* The queue and the graveyard once removeJob(j) is done. *)
LEMMA RemoveJobType ==
  ASSUME TypeInv, NEW j \in JobId, RemoveJob(j)
  PROVE  /\ queue' \in Seq(JobId) /\ Len(queue') <= Len(queue)
         /\ graveyard' \in Seq(JobId) /\ Len(graveyard') <= MaxGraveyard
<1>1. queue \in Seq(JobId) /\ graveyard \in Seq(JobId) /\ Len(graveyard) <= MaxGraveyard
  BY DEF TypeInv, TypeOK
<1>2. CASE Queued(j)
  <2>1. IndexOf(j) \in 1..Len(queue)
    BY <1>1, <1>2 DEF Queued, IndexOf
  <2> QED BY <1>1, <1>2, <2>1, RemoveAtProperties, BuryType DEF RemoveJob
<1>3. CASE ~Queued(j)
  BY <1>1, <1>3 DEF RemoveJob
<1> QED BY <1>2, <1>3

LEMMA RemovedNoticeType ==
  ASSUME TypeInv, NEW j \in JobId, NEW st \in Status
  PROVE  RemovedNotice(j, st) \in Channels
<1>1. chan \in Channels /\ progress[j] \in 0..MaxUpdates
  BY DEF TypeInv, TypeOK, Channels
<1> QED BY <1>1, PostType DEF RemovedNotice, Kinds

(* One iteration of a cancelling loop. *)
LEMMA CancelOneType ==
  ASSUME TypeInv, NEW j \in JobId, CancelOne(j)
  PROVE  /\ status' \in [JobId -> Status \cup {"none"}]
         /\ \A i \in JobId : status[i] # "none" => status'[i] # "none"
         /\ ctxDone' \subseteq JobId
         /\ queue' \in Seq(JobId) /\ Len(queue') <= Len(queue)
         /\ graveyard' \in Seq(JobId) /\ Len(graveyard') <= MaxGraveyard
         /\ chan' \in Channels
<1>1. PICK st \in AfterCancel(j) :
        /\ status' = [status EXCEPT ![j] = st]
        /\ ctxDone' = IF exec[j] = "none" THEN ctxDone ELSE ctxDone \cup {j}
        /\ IF st = "CANCELLED"
           THEN RemoveJob(j) /\ chan' = RemovedNotice(j, st)
           ELSE UNCHANGED <<queue, graveyard, chan>>
  BY DEF CancelOne
<1>2. st \in Status \cup {"none"} /\ (status[j] # "none" => st # "none")
  BY DEF AfterCancel, TypeInv, TypeOK, Status
<1>3. status' \in [JobId -> Status \cup {"none"}] /\ ctxDone' \subseteq JobId
  BY <1>1, <1>2 DEF TypeInv, TypeOK
<1>4. \A i \in JobId : status[i] # "none" => status'[i] # "none"
  BY <1>1, <1>2 DEF TypeInv, TypeOK
<1>5. CASE st = "CANCELLED"
  BY <1>1, <1>3, <1>4, <1>5, RemoveJobType, RemovedNoticeType DEF Status
<1>6. CASE st # "CANCELLED"
  BY <1>1, <1>3, <1>4, <1>6 DEF TypeInv, TypeOK, Channels
<1> QED BY <1>5, <1>6

(* The dispatcher looking at a queue. *)
LEMMA DispatcherLooksType ==
  ASSUME TypeInv, NEW q \in Seq(JobId), NEW c \in Channels, DispatcherLooks(q, c)
  PROVE  /\ status' \in [JobId -> Status \cup {"none"}]
         /\ \A i \in JobId : status[i] # "none" => status'[i] # "none"
         /\ exec' \in [JobId -> ExecState]
         /\ \A i \in JobId : exec'[i] # exec[i] => status'[i] # "none"
         /\ dpc' \in {"waiting", "running"}
         /\ djob' \in JobId \cup {NoJob}
         /\ dpc' = "running" => djob' # NoJob
         /\ chan' \in Channels
<1>1. CASE /\ dpc' = "waiting" /\ djob' = NoJob /\ chan' = c
           /\ UNCHANGED <<status, exec>>
  BY <1>1 DEF TypeInv, TypeOK
<1>2. CASE \E i \in DOMAIN q : dpc' = "running" /\ djob' = q[i] /\ Dispatch(q[i], c)
  <2>1. PICK i \in DOMAIN q : dpc' = "running" /\ djob' = q[i] /\ Dispatch(q[i], c)
    BY <1>2
  <2>2. q[i] \in JobId /\ q[i] # NoJob
    <3>1. q[i] \in JobId
      BY <2>1
    <3> QED BY <3>1, MaxJobsAssumption DEF JobId, NoJob
  <2>3. chan' \in Channels
    BY <2>1, <2>2, UpdateNoticeType DEF Dispatch, Status, TypeInv, TypeOK
  <2>4. /\ status' = [status EXCEPT ![q[i]] = "RUNNING"]
        /\ exec' = [exec EXCEPT ![q[i]] = "executing"]
    BY <2>1 DEF Dispatch
  <2>5. /\ status' \in [JobId -> Status \cup {"none"}]
        /\ exec' \in [JobId -> ExecState]
    BY <2>2, <2>4 DEF Status, ExecState, TypeInv, TypeOK
  <2>6. \A k \in JobId : /\ status[k] # "none" => status'[k] # "none"
                         /\ exec'[k] # exec[k] => status'[k] # "none"
    BY <2>2, <2>4 DEF TypeInv, TypeOK
  <2> QED BY <2>1, <2>2, <2>3, <2>5, <2>6
<1> QED BY <1>1, <1>2 DEF DispatcherLooks

LEMMA TypeStep == TypeInv /\ [Next]_vars => TypeInv'
<1> SUFFICES ASSUME TypeInv, [Next]_vars PROVE TypeInv'
  OBVIOUS
<1> USE DEF TypeInv
<1>t. /\ TypeOK /\ SweepOK /\ KnownJobs
      /\ chan \in Channels
  BY DEF TypeOK, Channels
<1>c. TypeOK' = (/\ lastID' \in 0..MaxJobs
                 /\ queue' \in Seq(JobId)
                 /\ graveyard' \in Seq(JobId) /\ Len(graveyard') <= MaxGraveyard
                 /\ status' \in [JobId -> Status \cup {"none"}]
                 /\ exec' \in [JobId -> ExecState]
                 /\ ctxDone' \subseteq JobId
                 /\ dpc' \in {"start", "waiting", "woken", "running", "exited"}
                 /\ djob' \in JobId \cup {NoJob}
                 /\ stop' \in {"no", "cancelling", "closing", "closed"}
                 /\ sweep' \in [next : Nat, view : Seq(JobId)]
                 /\ progress' \in [JobId -> 0..MaxUpdates]
                 /\ published' \in [JobId -> 0..MaxUpdates]
                 /\ timers' \in [JobId -> Nat]
                 /\ timerSet' \in [JobId -> BOOLEAN]
                 /\ subs' \in [Subs -> {"none", "open", "ended", "closed"}]
                 /\ chan' \in Channels)
  BY DEF TypeOK, Channels
<1> DEFINE KeptQueue == UNCHANGED queueVars
<1>1. CASE Add
  <2>1. PICK j \in JobId : /\ NewJob(j)
                           /\ status' = [status EXCEPT ![j] = "READY"]
                           /\ chan' = Post(chan, "new", j, "READY", 0)
    BY <1>1 DEF Add
  <2>2. chan' \in Channels
    BY <1>t, <2>1, PostType, MaxUpdatesAssumption DEF Kinds, Status
  <2>3. /\ lastID' \in 0..MaxJobs /\ queue' \in Seq(JobId)
        /\ status' \in [JobId -> Status \cup {"none"}]
    BY <1>t, <2>1 DEF NewJob, TypeOK, Status, JobId
  <2>4. /\ UNCHANGED <<graveyard, exec, ctxDone, djob, stop, sweep, progVars, subs>>
        /\ dpc' \in {dpc, "woken"} /\ Unlocked
    BY <1>1 DEF Add
  <2>5. TypeOK'
    BY <1>t, <1>c, <2>2, <2>3, <2>4 DEF TypeOK, progVars
  <2>6. SweepOK'
    BY <1>t, <2>4 DEF SweepOK, Unlocked
  <2>7. KnownJobs'
    BY <1>t, <2>1, <2>4 DEF KnownJobs, progVars, TypeOK
  <2> QED BY <2>5, <2>6, <2>7
<1>2. CASE Start
  <2>1. PICK j \in JobId : NewJob(j) /\ Dispatch(j, chan)
    BY <1>2 DEF Start
  <2>2. chan' \in Channels
    BY <1>t, <2>1, UpdateNoticeType DEF Dispatch, Status, TypeOK
  <2>3. /\ lastID' \in 0..MaxJobs /\ queue' \in Seq(JobId)
    BY <1>t, <2>1 DEF NewJob, TypeOK, JobId
  <2>4. /\ status' = [status EXCEPT ![j] = "RUNNING"]
        /\ exec' = [exec EXCEPT ![j] = "executing"]
    BY <2>1 DEF Dispatch
  <2>5. /\ UNCHANGED <<graveyard, ctxDone, dpc, djob, stop, sweep, progVars, subs>>
        /\ Unlocked
    BY <1>2 DEF Start, dispVars
  <2>6. TypeOK'
    BY <1>t, <1>c, <2>2, <2>3, <2>4, <2>5 DEF TypeOK, progVars, Status, ExecState
  <2>7. SweepOK'
    BY <1>t, <2>5 DEF SweepOK, Unlocked
  <2>8. KnownJobs'
    BY <1>t, <2>4, <2>5 DEF KnownJobs, progVars, TypeOK
  <2> QED BY <2>6, <2>7, <2>8
<1>3. CASE CancelAll
  <2>1. /\ sweep' = [next |-> 1, view |-> queue] /\ queue # <<>>
        /\ UNCHANGED <<queueVars, jobVars, dispVars, stop, progVars, subs, chan>>
    BY <1>3 DEF CancelAll, CancelAllBegin
  <2>q. queue \in Seq(JobId)
    BY <1>t DEF TypeOK
  <2>2. TypeOK'
    BY <1>t, <2>1 DEF TypeOK, queueVars, jobVars, dispVars, progVars
  <2>3. SweepOK'
    BY <1>t, <2>1, <2>q DEF SweepOK, Unlocked, queueVars, jobVars, dispVars, progVars
  <2>4. KnownJobs'
    BY <1>t, <2>1 DEF KnownJobs, queueVars, jobVars, dispVars, progVars
  <2> QED BY <2>2, <2>3, <2>4
<1>4. CASE Stop
  <2>1. /\ \/ sweep' = [next |-> 1, view |-> queue] /\ queue # <<>>
           \/ sweep' = sweep
        /\ stop' \in {"cancelling", "closing"}
        /\ UNCHANGED <<queueVars, jobVars, dispVars, progVars, subs, chan>>
    BY <1>4 DEF Stop, CancelAllBegin
  <2>t. sweep' \in [next : Nat, view : Seq(JobId)]
    BY <1>t, <2>1 DEF TypeOK
  <2>2. TypeOK'
    BY <1>t, <2>1, <2>t DEF TypeOK, queueVars, jobVars, dispVars, progVars
  <2>3. SweepOK'
    BY <1>t, <2>1 DEF TypeOK, SweepOK, Unlocked, queueVars, jobVars, dispVars, progVars
  <2>4. KnownJobs'
    BY <1>t, <2>1 DEF KnownJobs, queueVars, jobVars, dispVars, progVars
  <2> QED BY <2>2, <2>3, <2>4
<1>5. ASSUME NEW j \in JobId, CancelJob(j) PROVE TypeInv'
  <2>1. CancelOne(j) /\ Unlocked
        /\ UNCHANGED <<lastID, exec, dpc, djob, stop, sweep, progVars, subs>>
    BY <1>5 DEF CancelJob, dispVars
  <2>2. TypeOK'
    BY <1>t, <1>c, <2>1, CancelOneType DEF TypeOK, progVars
  <2>3. SweepOK' /\ KnownJobs'
    BY <1>t, <2>1, CancelOneType DEF SweepOK, KnownJobs, Unlocked, progVars
  <2> QED BY <2>2, <2>3
<1>6. CASE CancelAllStep
  <2> DEFINE j == sweep.view[sweep.next]
  <2>1. /\ CancelOne(j)
        /\ sweep' = IF sweep.next = Len(sweep.view) THEN NoSweep
                    ELSE [next |-> sweep.next + 1,
                          view |-> IF status'[j] = "CANCELLED" THEN ShiftedView(j)
                                   ELSE sweep.view]
        /\ stop' \in {stop, "closing"} /\ ~Unlocked
        /\ UNCHANGED <<lastID, exec, dpc, djob, progVars, subs>>
    BY <1>6 DEF CancelAllStep, dispVars
  <2>2. sweep.next \in 1..Len(sweep.view) /\ sweep.view \in Seq(JobId) /\ j \in JobId
    <3>1. sweep.next \in Nat /\ sweep.view \in Seq(JobId) /\ sweep.next # 0
      BY <1>t, <2>1 DEF TypeOK, Unlocked
    <3>2. sweep.next <= Len(sweep.view)
      BY <1>t DEF SweepOK
    <3> QED BY <3>1, <3>2
  <2>3. ShiftedView(j) \in Seq(JobId) /\ Len(ShiftedView(j)) = Len(sweep.view)
    <3>1. CASE Queued(j)
      <4> DEFINE F(p) == IF IndexOf(j) <= p /\ p < Len(queue)
                         THEN sweep.view[p + 1] ELSE sweep.view[p]
      <4>1. ShiftedView(j) = [p \in 1..Len(sweep.view) |-> F(p)]
        BY <2>2, <3>1 DEF ShiftedView
      <4>2. Len(queue) \in Nat /\ Len(queue) <= Len(sweep.view)
        BY <1>t, <2>1 DEF SweepOK, TypeOK
      <4>3. ASSUME NEW p \in 1..Len(sweep.view) PROVE F(p) \in JobId
        <5>1. CASE IndexOf(j) <= p /\ p < Len(queue)
          <6>1. p + 1 \in 1..Len(sweep.view)
            BY <2>2, <4>2, <5>1
          <6> QED BY <2>2, <5>1, <6>1
        <5>2. CASE ~(IndexOf(j) <= p /\ p < Len(queue))
          BY <2>2, <5>2
        <5> QED BY <5>1, <5>2
      <4> HIDE DEF F
      <4>4. [p \in 1..Len(sweep.view) |-> F(p)] \in Seq(JobId)
        BY <2>2, <4>3, IsASeq
      <4>5. Len([p \in 1..Len(sweep.view) |-> F(p)]) = Len(sweep.view)
        BY <2>2, <4>4
      <4> QED BY <4>1, <4>4, <4>5
    <3>2. CASE ~Queued(j)
      BY <2>2, <3>2 DEF ShiftedView
    <3> QED BY <3>1, <3>2
  <2>4. sweep' \in [next : Nat, view : Seq(JobId)]
    BY <2>1, <2>2, <2>3 DEF NoSweep
  <2>5. SweepOK'
    <3>1. Len(queue') \in Nat /\ Len(queue) \in Nat /\ Len(queue') <= Len(queue)
      <4>1. queue' \in Seq(JobId) /\ Len(queue') <= Len(queue)
        BY <1>t, <2>1, <2>2, CancelOneType
      <4>2. queue \in Seq(JobId)
        BY <1>t DEF TypeOK
      <4> QED BY <4>1, <4>2
    <3>2. CASE sweep.next = Len(sweep.view)
      <4>1. sweep'.next = 0 /\ Len(sweep'.view) = 0
        BY <2>1, <3>2 DEF NoSweep
      <4> QED BY <4>1 DEF SweepOK, Unlocked
    <3>3. CASE sweep.next # Len(sweep.view)
      <4>1. sweep'.next = sweep.next + 1 /\ Len(sweep'.view) = Len(sweep.view)
        BY <2>1, <2>2, <2>3, <3>3
      <4>2. Len(queue) <= Len(sweep.view)
        BY <1>t, <2>1 DEF SweepOK
      <4>3. Len(queue') <= Len(sweep.view) /\ sweep.next + 1 <= Len(sweep.view)
        BY <2>2, <3>1, <3>3, <4>2
      <4> QED BY <4>1, <4>3 DEF SweepOK, Unlocked
    <3> QED BY <3>2, <3>3
  <2>6. TypeOK'
    BY <1>t, <1>c, <2>1, <2>2, <2>4, CancelOneType DEF TypeOK, progVars
  <2>7. KnownJobs'
    BY <1>t, <2>1, <2>2, CancelOneType DEF KnownJobs, progVars
  <2> QED BY <2>5, <2>6, <2>7
<1>7. CASE CloseStop
  BY <1>t, <1>7 DEF CloseStop, TypeOK, SweepOK, KnownJobs, Unlocked,
     queueVars, jobVars, dispVars, progVars
<1>8. ASSUME NEW q \in Seq(JobId), NEW c \in Channels, DispatcherLooks(q, c),
             Unlocked, queue' \in Seq(JobId),
             graveyard' \in Seq(JobId), Len(graveyard') <= MaxGraveyard,
             UNCHANGED <<lastID, ctxDone, stop, sweep, progVars, subs>>
      PROVE  TypeInv'
  <2>1. TypeOK'
    BY <1>t, <1>c, <1>8, DispatcherLooksType DEF TypeOK, progVars
  <2>2. SweepOK' /\ KnownJobs'
    BY <1>t, <1>8, DispatcherLooksType DEF SweepOK, KnownJobs, Unlocked, progVars, TypeOK
  <2> QED BY <2>1, <2>2
<1>9. CASE DispatcherStart
  BY <1>t, <1>8, <1>9 DEF DispatcherStart, TypeOK, queueVars
<1>10. CASE DispatcherWakes
  <2>1. CASE stop = "closed"
    BY <1>t, <1>10, <2>1 DEF DispatcherWakes, TypeOK, SweepOK, KnownJobs, Unlocked, queueVars, progVars
  <2>2. CASE stop # "closed"
    BY <1>t, <1>8, <1>10, <2>2 DEF DispatcherWakes, TypeOK, queueVars
  <2> QED BY <2>1, <2>2
<1>11. CASE DispatcherReaps
  <2>1. djob \in JobId /\ status[djob] \in Status
    BY <1>t, <1>11 DEF DispatcherReaps, KnownJobs, TypeOK
  <2>2. RemovedNotice(djob, status[djob]) \in Channels
    BY <2>1, RemovedNoticeType
  <2>3. /\ queue' \in Seq(JobId)
        /\ graveyard' \in Seq(JobId) /\ Len(graveyard') <= MaxGraveyard
    BY <1>11, <2>1, RemoveJobType DEF DispatcherReaps
  <2> QED BY <1>8, <1>11, <2>2, <2>3 DEF DispatcherReaps
<1>12. ASSUME NEW j \in JobId, ExecStep(j) PROVE TypeInv'
  <2>1. PICK e \in ExecState \ {"none"}, st \in Status :
          /\ exec[j] # "none"
          /\ exec' = [exec EXCEPT ![j] = e]
          /\ status' = [status EXCEPT ![j] = st]
          /\ UNCHANGED <<queueVars, ctxDone, dispVars, stop, sweep, progVars, subs, chan>>
    BY <1>12 DEF ExecStep, ExecError, ExecPanic, OnJobFinish, ExecState, Status, TypeOK
  <2>2. TypeOK'
    BY <1>t, <2>1 DEF TypeOK, queueVars, dispVars, progVars
  <2>3. SweepOK' /\ KnownJobs'
    BY <1>t, <2>1 DEF SweepOK, KnownJobs, Unlocked, queueVars, dispVars, progVars, TypeOK, Status
  <2> QED BY <2>2, <2>3
<1>13. ASSUME NEW j \in JobId, UpdateProgress(j) PROVE TypeInv'
  <2>1. /\ exec[j] = "executing" /\ progress[j] < MaxUpdates
        /\ progress' = [progress EXCEPT ![j] = @ + 1]
        /\ timers' \in {timers, [timers EXCEPT ![j] = @ + 1]}
        /\ timerSet' \in {[timerSet EXCEPT ![j] = TRUE], [timerSet EXCEPT ![j] = FALSE]}
        /\ published' \in {published, [published EXCEPT ![j] = progress'[j]]}
        /\ chan' \in {chan, UpdateNotice(chan, j, status[j], progress'[j])}
        /\ UNCHANGED <<queueVars, jobVars, dispVars, stop, sweep, subs>>
    BY <1>13 DEF UpdateProgress
  <2>2. progress' \in [JobId -> 0..MaxUpdates] /\ progress'[j] \in 0..MaxUpdates
    BY <1>t, <2>1, MaxUpdatesAssumption DEF TypeOK
  <2>3. /\ timers' \in [JobId -> Nat] /\ timerSet' \in [JobId -> BOOLEAN]
        /\ published' \in [JobId -> 0..MaxUpdates]
    <3>1. [timers EXCEPT ![j] = @ + 1] \in [JobId -> Nat]
      BY <1>t DEF TypeOK
    <3>2. [published EXCEPT ![j] = progress'[j]] \in [JobId -> 0..MaxUpdates]
      BY <1>t, <2>2 DEF TypeOK
    <3>3. /\ [timerSet EXCEPT ![j] = TRUE] \in [JobId -> BOOLEAN]
          /\ [timerSet EXCEPT ![j] = FALSE] \in [JobId -> BOOLEAN]
      BY <1>t DEF TypeOK
    <3> QED BY <1>t, <2>1, <3>1, <3>2, <3>3 DEF TypeOK
  <2>4. status[j] \in Status
    BY <1>t, <2>1 DEF TypeOK, KnownJobs
  <2>5. chan' \in Channels
    BY <1>t, <2>1, <2>2, <2>4, UpdateNoticeType
  <2>6. TypeOK'
    BY <1>t, <1>c, <2>1, <2>2, <2>3, <2>5 DEF TypeOK, queueVars, jobVars, dispVars
  <2>7. SweepOK'
    BY <1>t, <2>1 DEF SweepOK, Unlocked, queueVars
  <2>8. KnownJobs'
    BY <1>t, <2>1 DEF KnownJobs, jobVars, dispVars, TypeOK
  <2> QED BY <2>6, <2>7, <2>8
<1>14. ASSUME NEW j \in JobId, TimerFires(j) PROVE TypeInv'
  <2>1. status[j] \in Status /\ progress[j] \in 0..MaxUpdates
    BY <1>t, <1>14 DEF TypeOK, KnownJobs, TimerFires
  <2>2. chan' \in Channels
    BY <1>t, <1>14, <2>1, UpdateNoticeType DEF TimerFires
  <2>3. /\ timers' = [timers EXCEPT ![j] = @ - 1] /\ timers[j] > 0
        /\ published' = [published EXCEPT ![j] = progress[j]]
        /\ timerSet' = [timerSet EXCEPT ![j] = FALSE]
        /\ UNCHANGED <<queueVars, jobVars, dispVars, stop, sweep, progress, subs>>
    BY <1>14 DEF TimerFires
  <2>4. TypeOK'
    <3>1. timers' \in [JobId -> Nat] /\ timerSet' \in [JobId -> BOOLEAN]
      BY <1>t, <2>3 DEF TypeOK
    <3>2. published' \in [JobId -> 0..MaxUpdates]
      BY <1>t, <2>1, <2>3 DEF TypeOK
    <3> QED BY <1>t, <1>c, <2>2, <2>3, <3>1, <3>2
            DEF TypeOK, queueVars, jobVars, dispVars
  <2>5. SweepOK' /\ KnownJobs'
    BY <1>t, <2>3 DEF SweepOK, KnownJobs, Unlocked, queueVars, jobVars, dispVars, TypeOK
  <2> QED BY <2>4, <2>5
<1>15. ASSUME NEW s \in Subs, Subscribe(s) \/ ContextEnds(s) \/ Unsubscribe(s) PROVE TypeInv'
  <2>1. /\ subs' \in [Subs -> {"none", "open", "ended", "closed"}]
        /\ UNCHANGED <<queueVars, jobVars, dispVars, stop, sweep, progVars, chan>>
    BY <1>t, <1>15 DEF Subscribe, ContextEnds, Unsubscribe, TypeOK
  <2> QED BY <1>t, <2>1 DEF TypeOK, SweepOK, KnownJobs, Unlocked,
             queueVars, jobVars, dispVars, progVars
<1>16. ASSUME NEW s \in Subs, NEW kind \in Kinds, Receive(s, kind) PROVE TypeInv'
  <2>1. /\ chan[s][kind] \in Seq(Msg) /\ chan[s][kind] # <<>>
        /\ chan' = [chan EXCEPT ![s][kind] = Tail(@)]
        /\ UNCHANGED <<queueVars, jobVars, dispVars, stop, sweep, progVars, subs>>
    BY <1>t, <1>16 DEF Receive, Channels
  <2>2. chan' \in Channels
    BY <1>t, <2>1 DEF Channels
  <2> QED BY <1>t, <1>c, <2>1, <2>2 DEF TypeOK, SweepOK, KnownJobs, Unlocked,
             queueVars, jobVars, dispVars, progVars
<1>17. CASE UNCHANGED vars
  BY <1>t, <1>17 DEF vars, TypeOK, SweepOK, KnownJobs, Unlocked,
     queueVars, jobVars, dispVars, progVars
<1> QED BY <1>1, <1>2, <1>3, <1>4, <1>5, <1>6, <1>7, <1>9, <1>10, <1>11, <1>12,
           <1>13, <1>14, <1>15, <1>16, <1>17
        DEF Next, ManagerNext, ClientStep, DispatcherStep, SubscriptionStep

(* Every variable keeps its type, whatever clients call. *)
THEOREM TypeCorrect == Spec => []TypeOK
<1>1. TypeInv => TypeOK
  BY DEF TypeInv
<1> QED BY <1>1, TypeInit, TypeStep, PTL DEF Spec

-----------------------------------------------------------------------------
(* Without Start: one job at a time, and no lost wakeup *)

(* The queue holds jobs in the order of their IDs. *)
QueueOrdered ==
  /\ \A a, b \in DOMAIN queue : a < b => queue[a] < queue[b]
  /\ \A a \in DOMAIN queue : queue[a] <= lastID

(* What the status and the goroutine of a job say of each other. *)
StatusMatches ==
  \A j \in JobId :
    /\ status[j] = "none" <=> j > lastID
    /\ status[j] = "READY" => Queued(j)
    /\ exec[j] = "none" => status[j] \in {"none", "READY", "CANCELLED"}
    /\ exec[j] # "none" => status[j] \notin {"none", "READY"}

(* The inductive invariant: while the dispatcher sleeps the queue is       *)
(* empty, so that the next Add makes its length 1 and signals.             *)
JobInv ==
  /\ TypeInv
  /\ QueueOrdered
  /\ StatusMatches
  /\ QueueIsLive
  /\ OneAtATime
  /\ dpc = "waiting" => queue = <<>>

LEMMA JobInvInit == Init => JobInv
<1> SUFFICES ASSUME Init PROVE JobInv
  OBVIOUS
<1>1. TypeInv
  BY TypeInit
<1>2. QueueOrdered /\ StatusMatches /\ QueueIsLive /\ OneAtATime
  BY MaxJobsAssumption
     DEF Init, QueueOrdered, StatusMatches, QueueIsLive, OneAtATime, Queued, Active, JobId
<1> QED BY <1>1, <1>2 DEF JobInv, Init

(* Appending a new job keeps the order and makes that job queued. *)
LEMMA AppendQueue ==
  ASSUME QueueOrdered, queue \in Seq(JobId), lastID \in 0..MaxJobs,
         NEW j \in JobId, j = lastID + 1, lastID' = j, queue' = Append(queue, j)
  PROVE  QueueOrdered' /\ \A x \in JobId : Queued(x)' <=> Queued(x) \/ x = j
<1>1. /\ Len(queue') = Len(queue) + 1
      /\ \A a \in 1..Len(queue) : queue'[a] = queue[a]
      /\ queue'[Len(queue) + 1] = j
  OBVIOUS
<1>2. \A x \in JobId : Queued(x)' <=> Queued(x) \/ x = j
  BY <1>1 DEF Queued
<1>3. \A a \in 1..Len(queue) : queue[a] <= lastID /\ queue[a] \in Nat
  <2>1. \A a \in 1..Len(queue) : queue[a] \in JobId
    OBVIOUS
  <2>2. DOMAIN queue = 1..Len(queue)
    OBVIOUS
  <2>3. \A a \in DOMAIN queue : queue[a] <= lastID
    BY DEF QueueOrdered
  <2>4. \A x \in JobId : x \in Nat
    BY MaxJobsAssumption DEF JobId
  <2> QED BY <2>1, <2>2, <2>3, <2>4
<1>4. \A a \in 1..Len(queue) + 1 : a \in 1..Len(queue) \/ a = Len(queue) + 1
  <2> DEFINE k == Len(queue)
  <2>1. k \in Nat
    OBVIOUS
  <2> HIDE DEF k
  <2>2. \A a \in 1..k + 1 : a \in 1..k \/ a = k + 1
    BY <2>1
  <2> QED BY <2>2 DEF k
<1>5. DOMAIN queue' = 1..Len(queue) + 1 /\ DOMAIN queue = 1..Len(queue) /\ Len(queue) \in Nat
  BY <1>1
<1>6. \A a \in DOMAIN queue' : queue'[a] <= lastID'
  BY <1>1, <1>3, <1>4, <1>5
<1>7. ASSUME NEW a \in DOMAIN queue', NEW b \in DOMAIN queue', a < b
      PROVE  queue'[a] < queue'[b]
  <2>1. a \in 1..Len(queue)
    BY <1>5, <1>7
  <2>2. CASE b \in 1..Len(queue)
    BY <1>1, <1>5, <1>7, <2>1, <2>2 DEF QueueOrdered
  <2>3. CASE b = Len(queue) + 1
    BY <1>1, <1>3, <2>1, <2>3
  <2> QED BY <1>4, <1>5, <2>2, <2>3
<1> QED BY <1>2, <1>6, <1>7 DEF QueueOrdered

(* removeJob(j) takes j out of the queue, if it is there, and nothing else. *)
LEMMA RemoveJobQueue ==
  ASSUME TypeInv, QueueOrdered, NEW j \in JobId, RemoveJob(j)
  PROVE  /\ \A x \in JobId : Queued(x)' <=> Queued(x) /\ x # j
         /\ \A a, b \in DOMAIN queue' : a < b => queue'[a] < queue'[b]
         /\ \A a \in DOMAIN queue' : queue'[a] <= lastID
<1>1. queue \in Seq(JobId) /\ lastID \in Nat
  BY DEF TypeInv, TypeOK
<1>2. CASE ~Queued(j)
  BY <1>2 DEF RemoveJob, Queued, QueueOrdered
<1>3. CASE Queued(j)
  <2> DEFINE n == Len(queue)
             k == IndexOf(j)
  <2>1. k \in 1..n /\ queue[k] = j
    BY <1>1, <1>3 DEF Queued, IndexOf
  <2>2. queue' = RemoveAt(queue, k)
    BY <1>3 DEF RemoveJob
  <2>3. /\ queue' \in Seq(JobId) /\ Len(queue') = n - 1
        /\ \A p \in 1..(n - 1) : queue'[p] = IF p < k THEN queue[p] ELSE queue[p + 1]
    BY <1>1, <2>1, <2>2, RemoveAtProperties
  <2>4. n \in Nat /\ DOMAIN queue = 1..n /\ DOMAIN queue' = 1..(n - 1)
    BY <1>1, <2>3
  <2> HIDE DEF k, n
  <2>5. \A a, b \in 1..n : a < b => queue[a] < queue[b]
    BY <2>4 DEF QueueOrdered
  <2>6. ASSUME NEW a \in 1..(n - 1), NEW b \in 1..(n - 1), a < b
        PROVE  queue'[a] < queue'[b]
    <3> DEFINE a1 == IF a < k THEN a ELSE a + 1
               b1 == IF b < k THEN b ELSE b + 1
    <3>1. a1 \in 1..n /\ b1 \in 1..n /\ a1 < b1
      BY <2>1, <2>4, <2>6
    <3>2. queue'[a] = queue[a1] /\ queue'[b] = queue[b1]
      BY <2>3
    <3> HIDE DEF a1, b1
    <3> QED BY <2>5, <3>1, <3>2
  <2>7. \A a \in 1..(n - 1) : queue'[a] <= lastID
    <3>1. ASSUME NEW a \in 1..(n - 1) PROVE queue'[a] <= lastID
      <4>1. queue'[a] = queue[a] \/ queue'[a] = queue[a + 1]
        BY <2>3
      <4>2. a \in DOMAIN queue /\ a + 1 \in DOMAIN queue
        BY <2>4
      <4> QED BY <4>1, <4>2 DEF QueueOrdered
    <3> QED BY <3>1
  <2>8. ASSUME NEW x \in JobId, Queued(x)' PROVE Queued(x) /\ x # j
    <3>1. PICK p \in 1..(n - 1) : queue'[p] = x
      BY <2>4, <2>8 DEF Queued
    <3> DEFINE p1 == IF p < k THEN p ELSE p + 1
    <3>2. p1 \in 1..n /\ p1 # k /\ queue[p1] = x
      BY <2>1, <2>3, <2>4, <3>1
    <3> HIDE DEF p1
    <3>3. queue[p1] \in Nat /\ queue[k] \in Nat
      BY <1>1, <2>1, <2>4, <3>2 DEF JobId
    <3>4. queue[p1] # queue[k]
      BY <2>1, <2>4, <2>5, <3>2, <3>3
    <3> QED BY <2>1, <2>4, <3>2, <3>4 DEF Queued
  <2>9. ASSUME NEW x \in JobId, Queued(x), x # j PROVE Queued(x)'
    <3>1. PICK p \in 1..n : queue[p] = x
      BY <2>4, <2>9 DEF Queued
    <3> DEFINE p1 == IF p < k THEN p ELSE p - 1
    <3>2. p # k
      BY <2>1, <2>9, <3>1
    <3>3. p1 \in 1..(n - 1) /\ (IF p1 < k THEN p1 ELSE p1 + 1) = p
      BY <2>1, <2>4, <3>2
    <3> HIDE DEF p1
    <3>4. queue'[p1] = x
      BY <2>3, <3>1, <3>3
    <3> QED BY <2>4, <3>3, <3>4 DEF Queued
  <2> QED BY <2>4, <2>6, <2>7, <2>8, <2>9
<1> QED BY <1>2, <1>3

LEMMA CancelOneKeeps ==
  ASSUME JobInv, NEW j \in JobId, CancelOne(j), UNCHANGED <<lastID, exec, dpc, djob>>
  PROVE  /\ QueueOrdered' /\ StatusMatches' /\ QueueIsLive' /\ OneAtATime'
         /\ dpc' = "waiting" => queue' = <<>>
<1> USE DEF JobInv
<1>t. /\ status \in [JobId -> Status \cup {"none"}]
      /\ TypeInv /\ QueueOrdered
  BY DEF TypeInv, TypeOK
<1>1. PICK st \in AfterCancel(j) :
        /\ status' = [status EXCEPT ![j] = st]
        /\ IF st = "CANCELLED" THEN RemoveJob(j) ELSE UNCHANGED queue
  BY DEF CancelOne
<1>2. /\ st # "READY"
      /\ st = "none" <=> status[j] = "none"
      /\ status[j] = "READY" => st = "CANCELLED"
      /\ exec[j] = "none" => st \in {"none", "CANCELLED"}
  BY DEF AfterCancel, StatusMatches
<1>3. \A x \in JobId : status'[x] = IF x = j THEN st ELSE status[x]
  BY <1>t, <1>1
<1>4. /\ \A x \in JobId : Queued(x)' => Queued(x) /\ (st = "CANCELLED" => x # j)
      /\ \A x \in JobId : Queued(x) /\ x # j => Queued(x)'
      /\ \A a, b \in DOMAIN queue' : a < b => queue'[a] < queue'[b]
      /\ \A a \in DOMAIN queue' : queue'[a] <= lastID
  <2>1. CASE st = "CANCELLED"
    BY <1>t, <1>1, <2>1, RemoveJobQueue
  <2>2. CASE st # "CANCELLED"
    BY <1>1, <2>2 DEF Queued, QueueOrdered
  <2> QED BY <2>1, <2>2
<1>5. QueueOrdered'
  BY <1>4 DEF QueueOrdered
<1>6. StatusMatches'
  BY <1>2, <1>3, <1>4 DEF StatusMatches
<1>7. QueueIsLive'
  BY <1>2, <1>3, <1>4 DEF QueueIsLive
<1>8. OneAtATime'
  BY DEF OneAtATime, Active
<1>9. dpc' = "waiting" => queue' = <<>>
  BY <1>1 DEF RemoveJob, Queued
<1> QED BY <1>5, <1>6, <1>7, <1>8, <1>9

(* The dispatcher looks at a queue of which every job is READY. *)
LEMMA DispatcherLooksKeeps ==
  ASSUME JobInv, NEW c, DispatcherLooks(queue', c), UNCHANGED lastID,
         queue' \in Seq(JobId),
         \A a, b \in DOMAIN queue' : a < b => queue'[a] < queue'[b],
         \A a \in DOMAIN queue' : queue'[a] <= lastID,
         \A x \in JobId : Queued(x)' <=> status[x] = "READY",
         \A x \in JobId : ~Active(x)
  PROVE  /\ QueueOrdered' /\ StatusMatches' /\ QueueIsLive' /\ OneAtATime'
         /\ dpc' = "waiting" => queue' = <<>>
<1> USE DEF JobInv
<1>t. /\ status \in [JobId -> Status \cup {"none"}]
      /\ exec \in [JobId -> ExecState]
  BY DEF TypeInv, TypeOK
<1>1. QueueOrdered'
  BY DEF QueueOrdered
<1>2. CASE /\ \A i \in DOMAIN queue' : status[queue'[i]] # "READY"
           /\ dpc' = "waiting" /\ UNCHANGED <<status, exec>>
  <2>1. ASSUME NEW i \in DOMAIN queue' PROVE FALSE
    <3>1. queue'[i] \in JobId
      OBVIOUS
    <3> QED BY <1>2, <3>1 DEF Queued
  <2>2. queue' = <<>>
    BY <2>1
  <2>3. \A x \in JobId : ~Queued(x)'
    BY <2>1 DEF Queued
  <2> QED BY <1>1, <1>2, <2>2, <2>3 DEF StatusMatches, QueueIsLive, OneAtATime, Active
<1>3. CASE \E i \in DOMAIN queue' :
             /\ status[queue'[i]] = "READY"
             /\ dpc' = "running" /\ djob' = queue'[i] /\ Dispatch(queue'[i], c)
  <2>1. PICK i \in DOMAIN queue' :
             /\ status[queue'[i]] = "READY"
             /\ dpc' = "running" /\ djob' = queue'[i] /\ Dispatch(queue'[i], c)
    BY <1>3
  <2> DEFINE j == queue'[i]
  <2>2. /\ j \in JobId
        /\ status' = [status EXCEPT ![j] = "RUNNING"]
        /\ exec' = [exec EXCEPT ![j] = "executing"]
    BY <2>1 DEF Dispatch
  <2> HIDE DEF j
  <2>3. \A x \in JobId : /\ status'[x] = IF x = j THEN "RUNNING" ELSE status[x]
                         /\ exec'[x] = IF x = j THEN "executing" ELSE exec[x]
    BY <1>t, <2>2
  <2>4. dpc' = "running" /\ djob' = j /\ status[j] = "READY"
    BY <2>1 DEF j
  <2>5. StatusMatches'
    BY <2>2, <2>3, <2>4 DEF StatusMatches
  <2>6. QueueIsLive'
    BY <2>3, <2>4 DEF QueueIsLive
  <2>7. OneAtATime'
    BY <2>3, <2>4 DEF OneAtATime, Active
  <2> QED BY <1>1, <2>4, <2>5, <2>6, <2>7
<1> QED BY <1>2, <1>3 DEF DispatcherLooks

(* The dispatcher's three steps look at such a queue. *)
LEMMA DispatcherStepLooks ==
  ASSUME JobInv, DispatcherStep, ~(dpc = "woken" /\ stop = "closed")
  PROVE  \E c : /\ DispatcherLooks(queue', c)
                /\ UNCHANGED lastID
                /\ \A a, b \in DOMAIN queue' : a < b => queue'[a] < queue'[b]
                /\ \A a \in DOMAIN queue' : queue'[a] <= lastID
                /\ \A x \in JobId : Queued(x)' <=> status[x] = "READY"
                /\ \A x \in JobId : ~Active(x)
<1> USE DEF JobInv
<1>1. CASE DispatcherStart \/ DispatcherWakes
  <2>1. /\ DispatcherLooks(queue, chan)
        /\ UNCHANGED queueVars
        /\ dpc # "running"
    BY <1>1 DEF DispatcherStart, DispatcherWakes
  <2>2. queue' = queue /\ lastID' = lastID
    BY <2>1 DEF queueVars
  <2>3. \A x \in JobId : Queued(x)' <=> status[x] = "READY"
    BY <2>1, <2>2 DEF QueueIsLive, StatusMatches, Queued
  <2>4. DispatcherLooks(queue', chan)
    BY <2>1, <2>2
  <2> QED BY <2>1, <2>2, <2>3, <2>4 DEF QueueOrdered, OneAtATime
<1>2. CASE DispatcherReaps
  <2>1. /\ dpc = "running" /\ exec[djob] = "done"
        /\ RemoveJob(djob)
        /\ DispatcherLooks(queue', RemovedNotice(djob, status[djob]))
        /\ UNCHANGED lastID
    BY <1>2 DEF DispatcherReaps
  <2>2. djob \in JobId
    BY <2>1 DEF TypeInv, TypeOK, KnownJobs
  <2>3. /\ \A x \in JobId : Queued(x)' <=> Queued(x) /\ x # djob
        /\ \A a, b \in DOMAIN queue' : a < b => queue'[a] < queue'[b]
        /\ \A a \in DOMAIN queue' : queue'[a] <= lastID
    BY <2>1, <2>2, RemoveJobQueue
  <2>4. \A x \in JobId : Queued(x)' <=> status[x] = "READY"
    BY <2>1, <2>2, <2>3 DEF QueueIsLive, StatusMatches
  <2>5. \A x \in JobId : ~Active(x)
    BY <2>1, <2>2 DEF OneAtATime, Active
  <2> QED BY <2>1, <2>3, <2>4, <2>5
<1> QED BY <1>1, <1>2 DEF DispatcherStep

LEMMA JobInvStep ==
  ASSUME "Start" \notin Calls, JobInv, [Next]_vars
  PROVE  JobInv'
<1> USE DEF JobInv
<1>t. TypeInv'
  BY TypeStep
<1>q. /\ queue \in Seq(JobId) /\ queue' \in Seq(JobId)
      /\ status \in [JobId -> Status \cup {"none"}]
      /\ exec \in [JobId -> ExecState]
      /\ lastID \in 0..MaxJobs
  BY <1>t DEF TypeInv, TypeOK
<1> DEFINE Kept == /\ QueueOrdered' /\ StatusMatches' /\ QueueIsLive' /\ OneAtATime'
                   /\ dpc' = "waiting" => queue' = <<>>
<1>1. CASE Add
  <2>1. PICK j \in JobId : NewJob(j) /\ status' = [status EXCEPT ![j] = "READY"]
    BY <1>1 DEF Add
  <2>2. /\ exec' = exec /\ djob' = djob
        /\ dpc' = IF Len(queue') = 1 /\ dpc = "waiting" THEN "woken" ELSE dpc
    BY <1>1 DEF Add
  <2>3. /\ j = lastID + 1 /\ lastID' = j /\ queue' = Append(queue, j)
    BY <2>1 DEF NewJob
  <2>4. Len(queue') = Len(queue) + 1
    BY <1>q, <2>3
  <2>5. QueueOrdered' /\ \A x \in JobId : Queued(x)' <=> Queued(x) \/ x = j
    BY <1>q, <2>3, AppendQueue
  <2>6. \A x \in JobId : status'[x] = IF x = j THEN "READY" ELSE status[x]
    BY <1>q, <2>1
  <2>7. QueueOrdered'
    BY <2>5
  <2>8. StatusMatches'
    BY <1>q, <2>2, <2>3, <2>5, <2>6 DEF StatusMatches, JobId
  <2>9. QueueIsLive'
    BY <2>2, <2>5, <2>6 DEF QueueIsLive
  <2>10. OneAtATime'
    BY <2>2 DEF OneAtATime, Active
  <2>11. dpc' = "waiting" => queue' = <<>>
    BY <1>q, <2>2, <2>4
  <2> QED BY <1>t, <2>7, <2>8, <2>9, <2>10, <2>11
<1>2. CASE Start
  BY <1>2 DEF Start
<1>3. ASSUME UNCHANGED <<lastID, queue, status, exec, dpc, djob>> PROVE Kept
  BY <1>3 DEF QueueOrdered, StatusMatches, QueueIsLive, OneAtATime, Queued, Active
<1>4. CASE CancelAll \/ Stop \/ CloseStop
  BY <1>t, <1>3, <1>4 DEF CancelAll, Stop, CancelAllBegin, CloseStop,
     queueVars, jobVars, dispVars
<1>5. ASSUME NEW j \in JobId, CancelJob(j) PROVE JobInv'
  BY <1>t, <1>5, CancelOneKeeps DEF CancelJob, dispVars
<1>6. CASE CancelAllStep
  <2> DEFINE j == sweep.view[sweep.next]
  <2>1. CancelOne(j) /\ UNCHANGED <<lastID, exec, dpc, djob>>
    BY <1>6 DEF CancelAllStep, dispVars
  <2>2. j \in JobId
    BY <1>6 DEF CancelAllStep, TypeInv, TypeOK, SweepOK, Unlocked
  <2> HIDE DEF j
  <2> QED BY <1>t, <2>1, <2>2, CancelOneKeeps
<1>7. CASE DispatcherStep
  <2>1. CASE dpc = "woken" /\ stop = "closed"
    <3>1. UNCHANGED <<lastID, queue, status, exec, djob>> /\ dpc' = "exited"
      BY <1>7, <2>1 DEF DispatcherStep, DispatcherStart, DispatcherWakes, DispatcherReaps, queueVars
    <3> QED BY <1>t, <2>1, <3>1
            DEF QueueOrdered, StatusMatches, QueueIsLive, OneAtATime, Queued, Active
  <2>2. CASE ~(dpc = "woken" /\ stop = "closed")
    BY <1>t, <1>q, <1>7, <2>2, DispatcherStepLooks, DispatcherLooksKeeps
  <2> QED BY <2>1, <2>2
<1>8. ASSUME NEW j \in JobId, ExecStep(j) PROVE JobInv'
  <2>1. PICK e \in ExecState \ {"none"}, st \in Status \ {"READY"} :
          /\ Active(j)
          /\ exec' = [exec EXCEPT ![j] = e]
          /\ status' = [status EXCEPT ![j] = st]
    BY <1>8, <1>q DEF ExecStep, ExecError, ExecPanic, OnJobFinish, ExecState, Status,
                     Active, StatusMatches
  <2>2. UNCHANGED <<lastID, queue, dpc, djob>>
    BY <1>8 DEF ExecStep, ExecError, ExecPanic, OnJobFinish, queueVars, dispVars
  <2>3. \A x \in JobId : /\ status'[x] = IF x = j THEN st ELSE status[x]
                         /\ exec'[x] = IF x = j THEN e ELSE exec[x]
    BY <1>q, <2>1
  <2>4. dpc = "running" /\ djob = j
    BY <2>1 DEF OneAtATime
  <2>5. exec[j] # "none" /\ status[j] \notin {"none", "READY"}
    BY <2>1 DEF Active, StatusMatches
  <2>6. QueueOrdered' /\ OneAtATime'
    BY <2>2, <2>3, <2>4 DEF QueueOrdered, OneAtATime, Active
  <2>7. StatusMatches' /\ QueueIsLive'
    BY <2>2, <2>3, <2>4, <2>5 DEF StatusMatches, QueueIsLive, Queued, Status
  <2> QED BY <1>t, <2>2, <2>4, <2>6, <2>7
<1>9. ASSUME NEW j \in JobId, UpdateProgress(j) \/ TimerFires(j) PROVE JobInv'
  BY <1>t, <1>3, <1>9 DEF UpdateProgress, TimerFires, queueVars, jobVars, dispVars
<1>10. CASE SubscriptionStep \/ \E s \in Subs, k \in Kinds : Receive(s, k)
  BY <1>t, <1>3, <1>10 DEF SubscriptionStep, Subscribe, ContextEnds, Unsubscribe, Receive,
     queueVars, jobVars, dispVars
<1>11. CASE UNCHANGED vars
  BY <1>t, <1>3, <1>11 DEF vars, queueVars, jobVars, dispVars
<1> QED BY <1>1, <1>2, <1>4, <1>5, <1>6, <1>7, <1>8, <1>9, <1>10, <1>11
        DEF Next, ManagerNext, ClientStep

LEMMA JobInvariant ==
  ASSUME "Start" \notin Calls
  PROVE  Spec => []JobInv
<1>1. JobInv /\ [Next]_vars => JobInv'
  BY JobInvStep
<1> QED BY <1>1, JobInvInit, PTL DEF Spec

(* Unless clients call Start, jobs run one at a time, however many there   *)
(* are and however they are cancelled.                                     *)
THEOREM JobsRunOneAtATime ==
  ASSUME "Start" \notin Calls
  PROVE  Spec => []OneAtATime
<1>1. JobInv => OneAtATime
  BY DEF JobInv
<1> QED BY <1>1, JobInvariant, PTL

(* Unless clients call Start, the dispatcher never sleeps on a READY job:  *)
(* the one Broadcast of Add is enough.                                     *)
THEOREM NoLostWakeup ==
  ASSUME "Start" \notin Calls
  PROVE  Spec => []WaitsOnlyWhenIdle
<1>1. JobInv => WaitsOnlyWhenIdle
  BY DEF JobInv, StatusMatches, Queued, WaitsOnlyWhenIdle
<1> QED BY <1>1, JobInvariant, PTL

(* Unless clients call Start, jobs are started in the order of their IDs. *)
THEOREM JobsStartInOrder ==
  ASSUME "Start" \notin Calls
  PROVE  Spec => StartedInOrder
<1>1. ASSUME JobInv, [Next]_vars
      PROVE  [\A j \in JobId : exec[j] = "none" /\ exec'[j] # "none"
                => \A i \in 1..(j - 1) : status[i] # "READY"]_vars
  <2> SUFFICES ASSUME NEW j \in JobId, exec[j] = "none", exec'[j] # "none",
                      NEW i \in 1..(j - 1)
               PROVE  status[i] # "READY"
    OBVIOUS
  <2>t. /\ exec \in [JobId -> ExecState] /\ i \in JobId /\ i < j /\ j \in Nat /\ JobInv'
    <3>1. JobInv'
      BY <1>1, JobInvStep
    <3>2. i \in JobId /\ i < j /\ j \in Nat
      BY MaxJobsAssumption DEF JobId
    <3> QED BY <1>1, <3>1, <3>2 DEF JobInv, TypeInv, TypeOK
  <2>1. DispatcherStep
    <3>1. ASSUME NEW k \in JobId, ExecStep(k) PROVE exec'[j] = exec[j]
      <4>1. exec[k] # "none" /\ \E e \in ExecState : exec' = [exec EXCEPT ![k] = e]
        BY <3>1 DEF ExecStep, ExecError, ExecPanic, OnJobFinish, ExecState
      <4> QED BY <2>t, <4>1
    <3>2. ASSUME ~DispatcherStep, \A k \in JobId : ~ExecStep(k) PROVE UNCHANGED exec
      BY <1>1, <3>2 DEF Next, ManagerNext, ClientStep, SubscriptionStep, Add, Start,
         CancelAll, CancelAllBegin, Stop, CancelJob, CancelAllStep, CloseStop,
         UpdateProgress, TimerFires, Subscribe, ContextEnds, Unsubscribe, Receive,
         vars, jobVars
    <3> QED BY <3>1, <3>2
  <2>2. ~(dpc = "woken" /\ stop = "closed")
    BY <2>1 DEF DispatcherStep, DispatcherStart, DispatcherWakes, DispatcherReaps
  <2>3. PICK c : /\ DispatcherLooks(queue', c)
                 /\ \A a, b \in DOMAIN queue' : a < b => queue'[a] < queue'[b]
                 /\ \A x \in JobId : Queued(x)' <=> status[x] = "READY"
                 /\ \A x \in JobId : ~Active(x)
    BY <1>1, <2>1, <2>2, DispatcherStepLooks
  <2>4. PICK n \in DOMAIN queue' :
          /\ \A k \in 1..(n - 1) : status[queue'[k]] # "READY"
          /\ exec' = [exec EXCEPT ![queue'[n]] = "executing"]
    BY <2>3 DEF DispatcherLooks, Dispatch
  <2>5. queue' \in Seq(JobId) /\ queue'[n] = j
    BY <2>t, <2>4 DEF JobInv, TypeInv, TypeOK
  <2>6. ASSUME status[i] = "READY" PROVE FALSE
    <3>1. PICK k \in DOMAIN queue' : queue'[k] = i
      BY <2>t, <2>3, <2>6 DEF Queued
    <3>2. k \in 1..Len(queue') /\ n \in 1..Len(queue') /\ Len(queue') \in Nat
      BY <2>4, <2>5, <3>1
    <3>3. i \in Nat
      BY <2>t DEF JobId
    <3>4. ~(n < k) /\ n # k
      BY <2>3, <2>5, <2>t, <3>1, <3>2, <3>3
    <3>5. k \in 1..(n - 1)
      BY <3>2, <3>4
    <3> QED BY <2>4, <2>6, <3>1, <3>5
  <2> QED BY <2>6
<1> QED BY <1>1, JobInvariant, PTL DEF Spec, StartedInOrder

-----------------------------------------------------------------------------
(* The manager implements JobLifecycle *)

(* Phases change only with the status and the goroutine of the job. *)
LEMMA PhaseChange ==
  ASSUME NEW j \in JobId, NEW p, PhaseOf(j)' = p,
         \A x \in JobId : x # j => PhaseOf(x)' = PhaseOf(x)
  PROVE  Phases' = [Phases EXCEPT ![j] = p]
BY DEF Phases

LEMMA PhaseSame ==
  ASSUME \A x \in JobId : PhaseOf(x)' = PhaseOf(x)
  PROVE  Phases' = Phases
BY DEF Phases

LEMMA LifecycleInit == Init => Lifecycle!Init
<1> SUFFICES ASSUME Init PROVE Lifecycle!Init
  OBVIOUS
<1>1. ASSUME NEW j \in JobId PROVE PhaseOf(j) = "unknown"
  <2>1. status[j] = "none" /\ exec[j] = "none"
    BY DEF Init
  <2> QED BY <2>1 DEF PhaseOf, Active
<1> QED BY <1>1 DEF Lifecycle!Init, Phases, JobId, Lifecycle!JobId

(* Cancelling drops a job that has not started, or changes no phase. *)
LEMMA CancelOneImplements ==
  ASSUME JobInv, NEW j \in JobId, CancelOne(j), UNCHANGED exec
  PROVE  Lifecycle!Drop(j) \/ UNCHANGED Phases
<1>1. PICK st \in AfterCancel(j) : status' = [status EXCEPT ![j] = st]
  BY DEF CancelOne
<1>2. /\ st # "READY"
      /\ st = "none" <=> status[j] = "none"
      /\ status[j] = "READY" => st = "CANCELLED" /\ exec[j] = "none"
  BY DEF AfterCancel, JobInv, StatusMatches
<1>3. \A x \in JobId : status'[x] = IF x = j THEN st ELSE status[x]
  BY <1>1 DEF JobInv, TypeInv, TypeOK
<1>4. \A x \in JobId : x # j => PhaseOf(x)' = PhaseOf(x)
  BY <1>3 DEF PhaseOf, Active
<1>5. CASE status[j] = "READY"
  <2>1. PhaseOf(j) = "queued" /\ PhaseOf(j)' = "over"
    BY <1>2, <1>3, <1>5 DEF PhaseOf, Active
  <2> QED BY <1>4, <2>1, PhaseChange DEF Lifecycle!Drop, Lifecycle!Enter, Phases
<1>6. CASE status[j] # "READY"
  <2>1. PhaseOf(j)' = PhaseOf(j)
    BY <1>2, <1>3, <1>6 DEF PhaseOf, Active
  <2> QED BY <1>4, <2>1, PhaseSame
<1> QED BY <1>5, <1>6

LEMMA StepImplements ==
  ASSUME "Start" \notin Calls, JobInv, [Next]_vars
  PROVE  [Lifecycle!Next]_Phases
<1> USE DEF JobInv
<1>t. /\ status \in [JobId -> Status \cup {"none"}]
      /\ exec \in [JobId -> ExecState] /\ lastID \in Nat
  BY DEF TypeInv, TypeOK
<1>n. Lifecycle!JobId = JobId
  BY DEF Lifecycle!JobId, JobId
<1>s. ASSUME UNCHANGED <<status, exec>> PROVE UNCHANGED Phases
  BY <1>s, PhaseSame DEF PhaseOf, Active
<1>1. CASE Add
  <2>1. PICK j \in JobId : j = lastID + 1 /\ status' = [status EXCEPT ![j] = "READY"]
    BY <1>1 DEF Add, NewJob
  <2>2. exec' = exec
    BY <1>1 DEF Add
  <2>3. status[j] = "none" /\ exec[j] = "none"
    BY <1>t, <2>1 DEF StatusMatches, JobId
  <2>4. \A x \in JobId : status'[x] = IF x = j THEN "READY" ELSE status[x]
    BY <1>t, <2>1
  <2>5. PhaseOf(j) = "unknown" /\ PhaseOf(j)' = "queued"
    BY <2>2, <2>3, <2>4 DEF PhaseOf, Active
  <2>6. \A x \in JobId : x # j => PhaseOf(x)' = PhaseOf(x)
    BY <2>2, <2>4 DEF PhaseOf, Active
  <2>7. ASSUME NEW i \in 1..(j - 1) PROVE Phases[i] # "unknown"
    <3>1. i \in JobId /\ ~(i > lastID)
      BY <1>t, <2>1, MaxJobsAssumption DEF JobId
    <3>2. status[i] # "none"
      BY <3>1 DEF StatusMatches
    <3> QED BY <3>1, <3>2 DEF Phases, PhaseOf
  <2>8. Lifecycle!Queue(j)
    BY <2>5, <2>6, <2>7, PhaseChange DEF Lifecycle!Queue, Lifecycle!Enter, Phases
  <2> QED BY <1>n, <2>8 DEF Lifecycle!Next
<1>2. CASE Start
  BY <1>2 DEF Start
<1>3. CASE CancelAll \/ Stop \/ CloseStop
  BY <1>3, <1>s DEF CancelAll, Stop, CancelAllBegin, CloseStop, jobVars
<1>4. ASSUME NEW j \in JobId, CancelJob(j) PROVE [Lifecycle!Next]_Phases
  BY <1>4, <1>n, CancelOneImplements DEF CancelJob, Lifecycle!Next
<1>5. CASE CancelAllStep
  <2> DEFINE j == sweep.view[sweep.next]
  <2>1. CancelOne(j) /\ UNCHANGED exec
    BY <1>5 DEF CancelAllStep
  <2>2. j \in JobId
    BY <1>5 DEF CancelAllStep, TypeInv, TypeOK, SweepOK, Unlocked
  <2> HIDE DEF j
  <2> QED BY <1>n, <2>1, <2>2, CancelOneImplements DEF Lifecycle!Next
<1>6. CASE DispatcherStep
  <2>1. CASE dpc = "woken" /\ stop = "closed"
    BY <1>6, <1>s, <2>1 DEF DispatcherStep, DispatcherStart, DispatcherWakes, DispatcherReaps
  <2>2. CASE ~(dpc = "woken" /\ stop = "closed")
    <3>1. PICK c : /\ DispatcherLooks(queue', c)
                   /\ \A a, b \in DOMAIN queue' : a < b => queue'[a] < queue'[b]
                   /\ \A x \in JobId : Queued(x)' <=> status[x] = "READY"
                   /\ \A x \in JobId : ~Active(x)
      BY <1>6, <2>2, DispatcherStepLooks
    <3>2. CASE UNCHANGED <<status, exec>>
      BY <1>s, <3>2
    <3>3. CASE ~UNCHANGED <<status, exec>>
      <4>1. PICK n \in DOMAIN queue' :
              /\ status[queue'[n]] = "READY"
              /\ \A k \in 1..(n - 1) : status[queue'[k]] # "READY"
              /\ Dispatch(queue'[n], c)
        BY <3>1, <3>3 DEF DispatcherLooks
      <4>2. queue' \in Seq(JobId)
        BY JobInvStep DEF TypeInv, TypeOK
      <4>3. PICK j \in JobId : j = queue'[n]
        BY <4>1, <4>2
      <4>4. \A x \in JobId : /\ status'[x] = IF x = j THEN "RUNNING" ELSE status[x]
                             /\ exec'[x] = IF x = j THEN "executing" ELSE exec[x]
        BY <1>t, <4>1, <4>3 DEF Dispatch
      <4>5. PhaseOf(j) = "queued" /\ PhaseOf(j)' = "running"
        BY <3>1, <4>1, <4>3, <4>4 DEF PhaseOf, Active
      <4>6. \A x \in JobId : x # j => PhaseOf(x)' = PhaseOf(x)
        BY <4>4 DEF PhaseOf, Active
      <4>7. \A x \in JobId : Phases[x] # "running"
        BY <3>1 DEF Phases, PhaseOf
      <4>8. ASSUME NEW i \in 1..(j - 1), Phases[i] = "queued" PROVE FALSE
        <5>1. i \in JobId /\ i \in Nat /\ j \in Nat /\ i < j
          BY MaxJobsAssumption DEF JobId
        <5>2. status[i] = "READY"
          BY <4>8, <5>1 DEF Phases, PhaseOf
        <5>3. PICK k \in DOMAIN queue' : queue'[k] = i
          BY <3>1, <5>1, <5>2 DEF Queued
        <5>4. k \in 1..Len(queue') /\ n \in 1..Len(queue') /\ Len(queue') \in Nat
          BY <4>1, <4>2, <5>3
        <5>5. ~(n < k) /\ n # k
          BY <3>1, <4>3, <5>1, <5>3, <5>4
        <5>6. k \in 1..(n - 1)
          BY <5>4, <5>5
        <5> QED BY <4>1, <5>2, <5>3, <5>6
      <4>9. Lifecycle!Run(j)
        BY <1>n, <4>5, <4>6, <4>7, <4>8, PhaseChange
           DEF Lifecycle!Run, Lifecycle!Enter, Phases
      <4> QED BY <1>n, <4>9 DEF Lifecycle!Next
    <3> QED BY <3>2, <3>3
  <2> QED BY <2>1, <2>2
<1>7. ASSUME NEW j \in JobId, ExecStep(j) PROVE [Lifecycle!Next]_Phases
  <2>1. PICK e \in ExecState \ {"none"}, st \in Status \ {"READY"} :
          /\ Active(j)
          /\ exec' = [exec EXCEPT ![j] = e]
          /\ status' = [status EXCEPT ![j] = st]
    BY <1>7, <1>t DEF ExecStep, ExecError, ExecPanic, OnJobFinish, ExecState, Status,
                     Active, StatusMatches
  <2>2. \A x \in JobId : /\ status'[x] = IF x = j THEN st ELSE status[x]
                         /\ exec'[x] = IF x = j THEN e ELSE exec[x]
    BY <1>t, <2>1
  <2>3. PhaseOf(j) = "running" /\ PhaseOf(j)' \in {"running", "over"}
    BY <2>1, <2>2 DEF PhaseOf, Active, StatusMatches, Status
  <2>4. \A x \in JobId : x # j => PhaseOf(x)' = PhaseOf(x)
    BY <2>2 DEF PhaseOf, Active
  <2>5. CASE PhaseOf(j)' = "running"
    BY <2>3, <2>4, <2>5, PhaseSame
  <2>6. CASE PhaseOf(j)' = "over"
    <3>1. Lifecycle!Finish(j)
      BY <2>3, <2>4, <2>6, PhaseChange DEF Lifecycle!Finish, Lifecycle!Enter, Phases
    <3> QED BY <1>n, <3>1 DEF Lifecycle!Next
  <2> QED BY <2>3, <2>5, <2>6
<1>8. ASSUME NEW j \in JobId, UpdateProgress(j) \/ TimerFires(j)
      PROVE  [Lifecycle!Next]_Phases
  BY <1>8, <1>s DEF UpdateProgress, TimerFires, jobVars
<1>9. CASE SubscriptionStep \/ \E s \in Subs, k \in Kinds : Receive(s, k)
  BY <1>9, <1>s DEF SubscriptionStep, Subscribe, ContextEnds, Unsubscribe, Receive, jobVars
<1>10. CASE UNCHANGED vars
  BY <1>10, <1>s DEF vars, jobVars
<1> QED BY <1>1, <1>2, <1>3, <1>4, <1>5, <1>6, <1>7, <1>8, <1>9, <1>10
        DEF Next, ManagerNext, ClientStep

(* Unless clients call Start, the manager implements the abstract          *)
(* lifecycle of jobs, for any number of jobs.                              *)
THEOREM ManagerImplementsLifecycle ==
  ASSUME "Start" \notin Calls
  PROVE  Spec => ImplementsLifecycle
<1>1. ASSUME JobInv, [Next]_vars PROVE [Lifecycle!Next]_Phases
  BY <1>1, StepImplements
<1> QED BY <1>1, JobInvariant, LifecycleInit, PTL
        DEF Spec, ImplementsLifecycle, Lifecycle!Spec

-----------------------------------------------------------------------------
(* With every set of calls, Start among them *)

Ended == {"FINISHED", "CANCELLED", "FAILED"}

(* What the status, the goroutine and the ID of a job say of each other.   *)
RecordsAgree ==
  \A j \in JobId :
    /\ status[j] = "none" <=> j > lastID
    /\ exec[j] = "none" => status[j] \in {"none", "READY", "CANCELLED"}
    /\ exec[j] = "executing" => status[j] \in {"RUNNING", "STOPPING"}
    /\ exec[j] = "errored" => status[j] \in {"FAILED", "STOPPING"}
    /\ exec[j] = "panicked" => status[j] = "FAILED"
    /\ exec[j] = "done" => status[j] \in Ended

(* A job that is not in the queue was never added, or is over and has no   *)
(* goroutine.                                                              *)
OutIsOver ==
  \A j \in JobId :
    ~Queued(j) => exec[j] \in {"none", "done"} /\ status[j] \in Ended \cup {"none"}

(* The inductive invariant that does not need Start to be left alone. *)
RecordInv == TypeInv /\ QueueOrdered /\ RecordsAgree /\ OutIsOver

LEMMA RecordInvInit == Init => RecordInv
<1> SUFFICES ASSUME Init PROVE RecordInv
  OBVIOUS
<1>1. TypeInv
  BY TypeInit
<1>2. QueueOrdered /\ RecordsAgree /\ OutIsOver
  BY MaxJobsAssumption DEF Init, QueueOrdered, RecordsAgree, OutIsOver, Queued, JobId
<1> QED BY <1>1, <1>2 DEF RecordInv

(* A cancelled job was READY, or had been cancelled before. *)
LEMMA AfterCancelEnded ==
  ASSUME RecordInv, NEW j \in JobId, NEW st \in AfterCancel(j)
  PROVE  /\ st = "CANCELLED" => exec[j] \in {"none", "done"}
         /\ st # "CANCELLED" => status[j] # "READY" /\ st # "READY"
         /\ status[j] \in Ended \cup {"none"} /\ exec[j] \in {"none", "done"} => st = status[j]
         /\ st = "none" <=> status[j] = "none"
         /\ exec[j] = "executing" => st \in {"RUNNING", "STOPPING"}
         /\ exec[j] = "errored" => st \in {"FAILED", "STOPPING"}
         /\ exec[j] = "panicked" => st = "FAILED"
         /\ exec[j] = "done" => st \in Ended
         /\ exec[j] = "none" => st \in {"none", "CANCELLED"}
<1>1. exec[j] \in ExecState
  BY DEF RecordInv, TypeInv, TypeOK
<1> QED BY <1>1 DEF AfterCancel, RecordInv, RecordsAgree, Ended, ExecState

(* What one iteration of a cancelling loop does to the queue: nothing, or  *)
(* it takes out the job, which is then over.                               *)
LEMMA CancelOneQueue ==
  ASSUME RecordInv, NEW j \in JobId, CancelOne(j), UNCHANGED exec
  PROVE  \E st \in AfterCancel(j) :
           /\ \A x \in JobId : status'[x] = IF x = j THEN st ELSE status[x]
           /\ \A x \in JobId : Queued(x)' <=> Queued(x) /\ ~(x = j /\ st = "CANCELLED")
           /\ \A a, b \in DOMAIN queue' : a < b => queue'[a] < queue'[b]
           /\ \A a \in DOMAIN queue' : queue'[a] <= lastID
           /\ st = "CANCELLED" => chan' = RemovedNotice(j, st)
           /\ st # "CANCELLED" => chan' = chan
<1> USE DEF RecordInv
<1>t. status \in [JobId -> Status \cup {"none"}]
  BY DEF TypeInv, TypeOK
<1>1. PICK st \in AfterCancel(j) :
        /\ status' = [status EXCEPT ![j] = st]
        /\ IF st = "CANCELLED"
           THEN RemoveJob(j) /\ chan' = RemovedNotice(j, st)
           ELSE UNCHANGED <<queue, graveyard, chan>>
  BY DEF CancelOne
<1>2. \A x \in JobId : status'[x] = IF x = j THEN st ELSE status[x]
  BY <1>t, <1>1
<1>3. CASE st = "CANCELLED"
  BY <1>1, <1>2, <1>3, RemoveJobQueue
<1>4. CASE st # "CANCELLED"
  BY <1>1, <1>2, <1>4 DEF Queued, QueueOrdered
<1> QED BY <1>3, <1>4

(* The dispatcher looks at a queue of which the jobs taken out are over.   *)
LEMMA DispatcherLooksRecords ==
  ASSUME RecordInv, NEW c, DispatcherLooks(queue', c), UNCHANGED lastID,
         queue' \in Seq(JobId),
         \A a, b \in DOMAIN queue' : a < b => queue'[a] < queue'[b],
         \A a \in DOMAIN queue' : queue'[a] <= lastID,
         \A x \in JobId : ~Queued(x)' /\ Queued(x) => exec[x] = "done"
  PROVE  /\ QueueOrdered' /\ RecordsAgree' /\ OutIsOver'
         /\ \A x \in JobId : ~Queued(x)' => exec'[x] = exec[x] /\ status'[x] = status[x]
<1> USE DEF RecordInv
<1>t. /\ status \in [JobId -> Status \cup {"none"}]
      /\ exec \in [JobId -> ExecState]
  BY DEF TypeInv, TypeOK
<1>1. QueueOrdered'
  BY DEF QueueOrdered
<1>2. CASE UNCHANGED <<status, exec>>
  BY <1>1, <1>2 DEF RecordsAgree, OutIsOver
<1>3. CASE \E i \in DOMAIN queue' : status[queue'[i]] = "READY" /\ Dispatch(queue'[i], c)
  <2>1. PICK i \in DOMAIN queue' : status[queue'[i]] = "READY" /\ Dispatch(queue'[i], c)
    BY <1>3
  <2>2. PICK j \in JobId : j = queue'[i]
    BY <2>1
  <2>3. /\ status' = [status EXCEPT ![j] = "RUNNING"]
        /\ exec' = [exec EXCEPT ![j] = "executing"]
    BY <2>1, <2>2 DEF Dispatch
  <2>4. \A x \in JobId : /\ status'[x] = IF x = j THEN "RUNNING" ELSE status[x]
                         /\ exec'[x] = IF x = j THEN "executing" ELSE exec[x]
    BY <1>t, <2>3
  <2>5. Queued(j)' /\ status[j] = "READY"
    BY <2>1, <2>2 DEF Queued
  <2>6. RecordsAgree'
    BY <2>4, <2>5 DEF RecordsAgree
  <2>7. OutIsOver'
    BY <2>4, <2>5 DEF RecordsAgree, OutIsOver
  <2> QED BY <1>1, <2>4, <2>5, <2>6, <2>7
<1> QED BY <1>2, <1>3 DEF DispatcherLooks

(* The dispatcher's steps look at such a queue, or end the dispatcher. *)
LEMMA DispatcherStepRecords ==
  ASSUME RecordInv, DispatcherStep
  PROVE  \/ UNCHANGED <<lastID, queue, status, exec, chan>>
         \/ /\ UNCHANGED lastID
            /\ queue' = queue
            /\ DispatcherLooks(queue', chan)
         \/ /\ UNCHANGED lastID
            /\ djob \in JobId /\ exec[djob] = "done"
            /\ RemoveJob(djob)
            /\ DispatcherLooks(queue', RemovedNotice(djob, status[djob]))
<1>1. CASE DispatcherStart \/ DispatcherWakes
  BY <1>1 DEF DispatcherStart, DispatcherWakes, queueVars
<1>2. CASE DispatcherReaps
  <2>1. djob \in JobId
    BY <1>2 DEF DispatcherReaps, RecordInv, TypeInv, TypeOK, KnownJobs
  <2> QED BY <1>2, <2>1 DEF DispatcherReaps
<1> QED BY <1>1, <1>2 DEF DispatcherStep

(* What the steps of an executeJob goroutine do. *)
LEMMA ExecStepRecords ==
  ASSUME RecordInv, NEW j \in JobId, ExecStep(j)
  PROVE  /\ UNCHANGED <<lastID, queue, chan>>
         /\ exec[j] \notin {"none", "done"}
         /\ \A x \in JobId : x # j => status'[x] = status[x] /\ exec'[x] = exec[x]
         /\ \/ exec'[j] = "errored" /\ status'[j] = "FAILED"
            \/ exec'[j] = "panicked" /\ status'[j] = "FAILED"
            \/ exec'[j] = "done" /\ status'[j] \in Ended
<1>t. /\ status \in [JobId -> Status \cup {"none"}]
      /\ exec \in [JobId -> ExecState]
  BY DEF RecordInv, TypeInv, TypeOK
<1>1. CASE ExecError(j)
  BY <1>t, <1>1 DEF ExecError, queueVars
<1>2. CASE ExecPanic(j)
  BY <1>t, <1>2 DEF ExecPanic, queueVars
<1>3. CASE OnJobFinish(j)
  BY <1>t, <1>3 DEF OnJobFinish, queueVars, Ended
<1> QED BY <1>1, <1>2, <1>3 DEF ExecStep

(* Every step keeps the invariant, and what is out of the queue stays out. *)
LEMMA RecordInvStep ==
  ASSUME RecordInv, [Next]_vars
  PROVE  /\ RecordInv'
         /\ \A x \in JobId :
              ~Queued(x) /\ x <= lastID
                => ~Queued(x)' /\ status'[x] = status[x] /\ exec'[x] = exec[x]
<1> USE DEF RecordInv
<1>t. TypeInv'
  BY TypeStep
<1>q. /\ queue \in Seq(JobId) /\ queue' \in Seq(JobId)
      /\ status \in [JobId -> Status \cup {"none"}]
      /\ exec \in [JobId -> ExecState]
      /\ lastID \in 0..MaxJobs
  BY <1>t DEF TypeInv, TypeOK
<1> DEFINE Kept == /\ QueueOrdered' /\ RecordsAgree' /\ OutIsOver'
                   /\ \A x \in JobId :
                        ~Queued(x) /\ x <= lastID
                          => ~Queued(x)' /\ status'[x] = status[x] /\ exec'[x] = exec[x]
<1>k. SUFFICES Kept
  BY <1>t
<1>1. ASSUME NEW j \in JobId, NewJob(j), NEW st \in Status, NEW e \in ExecState,
             st \in {"READY", "RUNNING"}, e = IF st = "READY" THEN "none" ELSE "executing",
             status' = [status EXCEPT ![j] = st],
             \A x \in JobId : exec'[x] = IF x = j THEN e ELSE exec[x]
      PROVE  Kept
  <2>1. /\ j = lastID + 1 /\ lastID' = j /\ queue' = Append(queue, j)
    BY <1>1 DEF NewJob
  <2>2. \A x \in JobId : status'[x] = IF x = j THEN st ELSE status[x]
    BY <1>q, <1>1
  <2>3. QueueOrdered' /\ \A x \in JobId : Queued(x)' <=> Queued(x) \/ x = j
    BY <1>q, <2>1, AppendQueue
  <2>4. RecordsAgree'
    BY <1>q, <1>1, <2>1, <2>2 DEF RecordsAgree, JobId
  <2>5. OutIsOver'
    BY <1>1, <2>2, <2>3 DEF OutIsOver
  <2>6. ASSUME NEW x \in JobId, ~Queued(x), x <= lastID
        PROVE  ~Queued(x)' /\ status'[x] = status[x] /\ exec'[x] = exec[x]
    <3>1. x # j
      BY <1>q, <2>1, <2>6 DEF JobId
    <3> QED BY <1>1, <2>2, <2>3, <2>6, <3>1
  <2> QED BY <2>3, <2>4, <2>5, <2>6
<1>2. CASE Add
  <2>1. PICK j \in JobId : NewJob(j) /\ status' = [status EXCEPT ![j] = "READY"]
    BY <1>2 DEF Add
  <2>2. \A x \in JobId : exec'[x] = IF x = j THEN "none" ELSE exec[x]
    <3>1. exec' = exec /\ exec[j] = "none"
      <4>1. status[j] = "none" /\ exec' = exec
        BY <1>2, <1>q, <2>1 DEF Add, NewJob, RecordsAgree, JobId
      <4> QED BY <4>1 DEF TypeInv, KnownJobs
    <3> QED BY <3>1
  <2>3. "READY" \in Status /\ "none" \in ExecState
    BY DEF Status, ExecState
  <2> HIDE DEF Kept
  <2> QED BY <1>1, <2>1, <2>2, <2>3
<1>3. CASE Start
  <2>1. PICK j \in JobId : NewJob(j) /\ Dispatch(j, chan)
    BY <1>3 DEF Start
  <2>2. \A x \in JobId : exec'[x] = IF x = j THEN "executing" ELSE exec[x]
    BY <1>q, <2>1 DEF Dispatch
  <2>3. "RUNNING" \in Status /\ "executing" \in ExecState
    BY DEF Status, ExecState
  <2> HIDE DEF Kept
  <2> QED BY <1>1, <2>1, <2>2, <2>3 DEF Dispatch
<1>4. ASSUME UNCHANGED <<lastID, queue, status, exec>> PROVE Kept
  BY <1>4 DEF QueueOrdered, RecordsAgree, OutIsOver, Queued
<1>5. ASSUME NEW j \in JobId, CancelOne(j), UNCHANGED <<lastID, exec>> PROVE Kept
  <2>1. PICK st \in AfterCancel(j) :
           /\ \A x \in JobId : status'[x] = IF x = j THEN st ELSE status[x]
           /\ \A x \in JobId : Queued(x)' <=> Queued(x) /\ ~(x = j /\ st = "CANCELLED")
           /\ \A a, b \in DOMAIN queue' : a < b => queue'[a] < queue'[b]
           /\ \A a \in DOMAIN queue' : queue'[a] <= lastID
    BY <1>5, CancelOneQueue
  <2>2. QueueOrdered'
    BY <1>5, <2>1 DEF QueueOrdered
  <2>3. RecordsAgree'
    BY <1>5, <2>1, AfterCancelEnded DEF RecordsAgree
  <2>4. OutIsOver'
    BY <1>5, <2>1, AfterCancelEnded DEF OutIsOver, Ended
  <2>5. ASSUME NEW x \in JobId, ~Queued(x)
        PROVE  ~Queued(x)' /\ status'[x] = status[x] /\ exec'[x] = exec[x]
    BY <1>5, <2>1, <2>5, AfterCancelEnded DEF OutIsOver
  <2> QED BY <2>2, <2>3, <2>4, <2>5
<1>6. CASE CancelAllStep
  <2> DEFINE j == sweep.view[sweep.next]
  <2>1. CancelOne(j) /\ UNCHANGED <<lastID, exec>>
    BY <1>6 DEF CancelAllStep
  <2>2. j \in JobId
    BY <1>6 DEF CancelAllStep, TypeInv, TypeOK, SweepOK, Unlocked
  <2> HIDE DEF j
  <2> QED BY <1>5, <2>1, <2>2
<1>7. ASSUME NEW j \in JobId, CancelJob(j) PROVE Kept
  BY <1>5, <1>7 DEF CancelJob
<1>8. CASE DispatcherStep
  <2>1. CASE UNCHANGED <<lastID, queue, status, exec, chan>>
    BY <1>4, <2>1
  <2>2. CASE UNCHANGED lastID /\ queue' = queue /\ DispatcherLooks(queue', chan)
    <3>1. /\ \A a, b \in DOMAIN queue' : a < b => queue'[a] < queue'[b]
          /\ \A a \in DOMAIN queue' : queue'[a] <= lastID
          /\ \A x \in JobId : Queued(x)' <=> Queued(x)
      BY <2>2 DEF QueueOrdered, Queued
    <3> QED BY <1>q, <2>2, <3>1, DispatcherLooksRecords
  <2>3. CASE /\ UNCHANGED lastID /\ djob \in JobId /\ exec[djob] = "done"
             /\ RemoveJob(djob)
             /\ DispatcherLooks(queue', RemovedNotice(djob, status[djob]))
    <3>1. /\ \A x \in JobId : Queued(x)' <=> Queued(x) /\ x # djob
          /\ \A a, b \in DOMAIN queue' : a < b => queue'[a] < queue'[b]
          /\ \A a \in DOMAIN queue' : queue'[a] <= lastID
      BY <2>3, RemoveJobQueue
    <3> QED BY <1>q, <2>3, <3>1, DispatcherLooksRecords
  <2> QED BY <1>8, <2>1, <2>2, <2>3, DispatcherStepRecords
<1>9. ASSUME NEW j \in JobId, ExecStep(j) PROVE Kept
  <2>1. /\ UNCHANGED <<lastID, queue>>
        /\ exec[j] \notin {"none", "done"}
        /\ \A x \in JobId : x # j => status'[x] = status[x] /\ exec'[x] = exec[x]
        /\ \/ exec'[j] = "errored" /\ status'[j] = "FAILED"
           \/ exec'[j] = "panicked" /\ status'[j] = "FAILED"
           \/ exec'[j] = "done" /\ status'[j] \in Ended
    BY <1>9, ExecStepRecords
  <2>2. Queued(j)
    BY <2>1 DEF OutIsOver
  <2>3. \A x \in JobId : Queued(x)' <=> Queued(x)
    BY <2>1 DEF Queued
  <2>4. QueueOrdered' /\ OutIsOver'
    BY <2>1, <2>2, <2>3 DEF QueueOrdered, OutIsOver
  <2>5. ~(j > lastID)
    BY <2>1 DEF RecordsAgree, TypeInv, KnownJobs
  <2>6. RecordsAgree'
    BY <2>1, <2>5 DEF RecordsAgree, Ended
  <2> QED BY <2>1, <2>2, <2>3, <2>4, <2>6
<1>10. ASSUME NEW j \in JobId, UpdateProgress(j) \/ TimerFires(j) PROVE Kept
  BY <1>4, <1>10 DEF UpdateProgress, TimerFires, queueVars, jobVars
<1>11. CASE \/ CancelAll \/ Stop \/ CloseStop \/ SubscriptionStep
            \/ \E s \in Subs, k \in Kinds : Receive(s, k)
            \/ UNCHANGED vars
  BY <1>4, <1>11 DEF CancelAll, Stop, CancelAllBegin, CloseStop, SubscriptionStep,
     Subscribe, ContextEnds, Unsubscribe, Receive, vars, queueVars, jobVars
<1> QED BY <1>2, <1>3, <1>6, <1>7, <1>8, <1>9, <1>10, <1>11
        DEF Next, ManagerNext, ClientStep

LEMMA RecordInvariant == Spec => []RecordInv
<1>1. RecordInv /\ [Next]_vars => RecordInv'
  BY RecordInvStep
<1> QED BY <1>1, RecordInvInit, PTL DEF Spec

(* Whatever clients call, a job that has left the queue never comes back,  *)
(* never runs and keeps its status: what removeJob told the subscribers    *)
(* stays true.                                                             *)
THEOREM RemovedStaysRemoved == Spec => RemovedIsFinal
<1>1. ASSUME RecordInv, [Next]_vars
      PROVE  [\A j \in 1..lastID :
                ~Queued(j) => ~Queued(j)' /\ status'[j] = status[j] /\ exec'[j] = exec[j]]_vars
  <2>1. \A j \in 1..lastID : j \in JobId /\ j <= lastID
    BY <1>1, MaxJobsAssumption DEF RecordInv, TypeInv, TypeOK, JobId
  <2> QED BY <1>1, <2>1, RecordInvStep
<1> QED BY <1>1, RecordInvariant, PTL DEF Spec, RemovedIsFinal

-----------------------------------------------------------------------------
(* What the subscribers are told *)

HasRoom(s, kind) == subs[s] \in {"open", "ended"} /\ Len(chan[s][kind]) < ChanCap

(* A step that appends nothing to a channel sends nothing on it. *)
LEMMA SentNothing ==
  ASSUME NEW s, NEW kind, chan'[s][kind] = chan[s][kind]
  PROVE  Sent(s, kind) = {}
BY DEF Sent

(* What Post sends is the message, to the subscribers that have room.      *)
LEMMA PostSent ==
  ASSUME TypeInv, NEW kind \in Kinds, NEW j, NEW st, NEW p, NEW s \in Subs,
         chan'[s][kind] = Post(chan, kind, j, st, p)[s][kind]
  PROVE  Sent(s, kind) = IF HasRoom(s, kind)
                         THEN {[id |-> j, status |-> st, progress |-> p]} ELSE {}
<1> DEFINE m == [id |-> j, status |-> st, progress |-> p]
           old == chan[s][kind]
           new == chan'[s][kind]
<1>t. chan[s] \in [Kinds -> Seq(Msg)]
  BY DEF TypeInv, TypeOK
<1>1. old \in Seq(Msg)
  BY <1>t
<1>2. CASE HasRoom(s, kind)
  <2>1. new = Append(old, m)
    BY <1>t, <1>2 DEF Post, HasRoom
  <2>2. old \in Seq(Msg \cup {m}) /\ m \in Msg \cup {m}
    <3>1. \A i \in DOMAIN old : old[i] \in Msg \cup {m}
      BY <1>1
    <3>2. old = [i \in 1..Len(old) |-> old[i]] /\ Len(old) \in Nat /\ DOMAIN old = 1..Len(old)
      BY <1>1
    <3> QED BY <3>1, <3>2, IsASeq
  <2> HIDE DEF m, old, new
  <2>3. /\ DOMAIN new = 1..(Len(old) + 1) /\ DOMAIN old = 1..Len(old)
        /\ Len(old) \in Nat /\ new[Len(old) + 1] = m
    BY <2>1, <2>2, AppendProperties
  <2>4. DOMAIN new \ DOMAIN old = {Len(old) + 1}
    BY <2>3
  <2>5. Sent(s, kind) = { new[i] : i \in DOMAIN new \ DOMAIN old }
    BY DEF Sent, new, old
  <2>6. Sent(s, kind) = {m}
    BY <2>3, <2>4, <2>5
  <2> QED BY <1>2, <2>6 DEF m
<1>3. CASE ~HasRoom(s, kind)
  <2>1. new = old
    BY <1>t, <1>3 DEF Post, HasRoom
  <2> QED BY <1>3, <2>1, SentNothing
<1> QED BY <1>2, <1>3

(* A notice on one channel leaves the other channels alone. *)
LEMMA PostElsewhere ==
  ASSUME NEW c \in Channels, NEW kind \in Kinds, NEW other \in Kinds, other # kind,
         NEW j, NEW st, NEW p, NEW s \in Subs
  PROVE  Post(c, kind, j, st, p)[s][other] = c[s][other]
<1>1. c[s] \in [Kinds -> Seq(Msg)]
  BY DEF Channels
<1> QED BY <1>1 DEF Post

(* The updates go on a channel of their own, and so do the removals. *)
LEMMA UpdateNoticeElsewhere ==
  ASSUME NEW c \in Channels, NEW j, NEW st, NEW p, NEW s \in Subs
  PROVE  UpdateNotice(c, j, st, p)[s]["removed"] = c[s]["removed"]
BY PostElsewhere DEF UpdateNotice, Kinds

LEMMA RemovedNoticeElsewhere ==
  ASSUME TypeInv, NEW j, NEW st, NEW s \in Subs
  PROVE  RemovedNotice(j, st)[s]["updated"] = chan[s]["updated"]
<1>1. chan \in Channels
  BY DEF TypeInv, TypeOK, Channels
<1> QED BY <1>1, PostElsewhere DEF RemovedNotice, Kinds

(* A subscriber that takes a message is sent none. *)
LEMMA ReceiveSends ==
  ASSUME TypeInv, NEW r \in Subs, NEW k \in Kinds, Receive(r, k), NEW s \in Subs,
         NEW kind \in Kinds
  PROVE  Sent(s, kind) = {}
<1>1. /\ chan[r] \in [Kinds -> Seq(Msg)] /\ chan \in Channels
      /\ chan[r][k] # <<>> /\ chan' = [chan EXCEPT ![r][k] = Tail(@)]
  BY DEF Receive, TypeInv, TypeOK, Channels
<1>2. CASE s = r /\ kind = k
  <2>1. chan'[s][kind] = Tail(chan[s][kind]) /\ chan[s][kind] \in Seq(Msg)
    BY <1>1, <1>2 DEF Channels
  <2>2. DOMAIN chan'[s][kind] \subseteq DOMAIN chan[s][kind]
    BY <1>1, <1>2, <2>1
  <2> QED BY <2>2 DEF Sent
<1>3. CASE ~(s = r /\ kind = k)
  <2>1. chan'[s][kind] = chan[s][kind]
    BY <1>1, <1>3 DEF Channels
  <2> QED BY <2>1, SentNothing
<1> QED BY <1>2, <1>3

(* A step takes nothing out of the queue and tells no removal, or it takes *)
(* out one job that is over and tells removed exactly that.                *)
LEMMA RemovalStep ==
  ASSUME RecordInv, [Next]_vars
  PROVE  \/ /\ \A x \in JobId : Queued(x) => Queued(x)'
            /\ \A s \in Subs : Sent(s, "removed") = {}
         \/ \E j \in JobId, st \in Ended :
              /\ \A x \in JobId : Queued(x)' <=> Queued(x) /\ x # j
              /\ status'[j] = st
              /\ \A s \in Subs : chan'[s]["removed"] = RemovedNotice(j, st)[s]["removed"]
<1> USE DEF RecordInv
<1>t. /\ chan \in Channels /\ queue \in Seq(JobId)
      /\ status \in [JobId -> Status \cup {"none"}]
      /\ exec \in [JobId -> ExecState] /\ lastID \in 0..MaxJobs
      /\ TypeInv /\ TypeInv' /\ queue' \in Seq(JobId)
  BY TypeStep DEF TypeInv, TypeOK, Channels
<1> DEFINE Quiet == /\ \A x \in JobId : Queued(x) => Queued(x)'
                    /\ \A s \in Subs : Sent(s, "removed") = {}
           Goal == \/ Quiet
                   \/ \E j \in JobId, st \in Ended :
                        /\ \A x \in JobId : Queued(x)' <=> Queued(x) /\ x # j
                        /\ status'[j] = st
                        /\ \A s \in Subs : chan'[s]["removed"] = RemovedNotice(j, st)[s]["removed"]
<1>k. SUFFICES Goal
  OBVIOUS
<1>1. ASSUME \A x \in JobId : Queued(x) => Queued(x)',
             \A s \in Subs : chan'[s]["removed"] = chan[s]["removed"]
      PROVE  Quiet
  BY <1>1, SentNothing
<1>2. ASSUME queue' = queue, NEW j, NEW st, NEW p, chan' = UpdateNotice(chan, j, st, p)
      PROVE  Quiet
  BY <1>1, <1>2, <1>t, UpdateNoticeElsewhere DEF Queued
<1>3. ASSUME NEW j \in JobId, NewJob(j),
             \/ chan' = Post(chan, "new", j, "READY", 0)
             \/ chan' = UpdateNotice(chan, j, "RUNNING", progress[j])
      PROVE  Quiet
  <2>1. \A s \in Subs : chan'[s]["removed"] = chan[s]["removed"]
    BY <1>t, <1>3, PostElsewhere, UpdateNoticeElsewhere DEF Kinds
  <2>2. \A x \in JobId : Queued(x) => Queued(x)'
    BY <1>t, <1>3, AppendQueue DEF NewJob
  <2> QED BY <1>1, <2>1, <2>2
<1>4. ASSUME NEW j \in JobId, CancelOne(j), UNCHANGED <<lastID, exec>> PROVE Goal
  <2>1. PICK st \in AfterCancel(j) :
           /\ \A x \in JobId : status'[x] = IF x = j THEN st ELSE status[x]
           /\ \A x \in JobId : Queued(x)' <=> Queued(x) /\ ~(x = j /\ st = "CANCELLED")
           /\ st = "CANCELLED" => chan' = RemovedNotice(j, st)
           /\ st # "CANCELLED" => chan' = chan
    BY <1>4, CancelOneQueue
  <2>2. CASE st = "CANCELLED"
    BY <2>1, <2>2 DEF Ended
  <2>3. CASE st # "CANCELLED"
    BY <1>1, <2>1, <2>3
  <2> QED BY <2>2, <2>3
<1>5. CASE DispatcherStep
  <2>1. CASE UNCHANGED <<lastID, queue, status, exec, chan>>
    BY <1>1, <2>1 DEF Queued
  <2>2. CASE queue' = queue /\ DispatcherLooks(queue', chan)
    BY <1>1, <1>2, <2>2 DEF DispatcherLooks, Dispatch, Queued
  <2>3. CASE /\ UNCHANGED lastID /\ djob \in JobId /\ exec[djob] = "done"
             /\ RemoveJob(djob)
             /\ DispatcherLooks(queue', RemovedNotice(djob, status[djob]))
    <3> DEFINE c == RemovedNotice(djob, status[djob])
    <3>1. \A x \in JobId : Queued(x)' <=> Queued(x) /\ x # djob
      BY <2>3, RemoveJobQueue
    <3>2. status[djob] \in Ended
      BY <2>3 DEF RecordsAgree
    <3>3. c \in Channels
      BY <1>t, <2>3, <3>2, RemovedNoticeType DEF Ended, Status
    <3>4. status'[djob] = status[djob]
      <4>1. \/ status' = status
            \/ \E i \in DOMAIN queue' : /\ status[queue'[i]] = "READY"
                                        /\ status' = [status EXCEPT ![queue'[i]] = "RUNNING"]
        BY <2>3 DEF DispatcherLooks, Dispatch
      <4>2. status[djob] # "READY"
        BY <3>2 DEF Ended
      <4> QED BY <1>t, <2>3, <4>1, <4>2
    <3>5. \A s \in Subs : chan'[s]["removed"] = c[s]["removed"]
      <4>1. \/ chan' = c
            \/ \E j, p : chan' = UpdateNotice(c, j, "RUNNING", p)
        BY <2>3 DEF DispatcherLooks, Dispatch
      <4> QED BY <3>3, <4>1, UpdateNoticeElsewhere
    <3> QED BY <2>3, <3>1, <3>2, <3>4, <3>5
  <2> QED BY <1>5, <2>1, <2>2, <2>3, DispatcherStepRecords
<1>6. CASE Add
  BY <1>3, <1>6 DEF Add
<1>7. CASE Start
  BY <1>3, <1>7 DEF Start, Dispatch
<1>8. CASE CancelAllStep
  <2> DEFINE j == sweep.view[sweep.next]
  <2>1. CancelOne(j) /\ UNCHANGED <<lastID, exec>>
    BY <1>8 DEF CancelAllStep
  <2>2. j \in JobId
    BY <1>8 DEF CancelAllStep, TypeInv, TypeOK, SweepOK, Unlocked
  <2> HIDE DEF j
  <2> QED BY <1>4, <2>1, <2>2
<1>9. ASSUME NEW j \in JobId, CancelJob(j) PROVE Goal
  BY <1>4, <1>9 DEF CancelJob
<1>10. ASSUME NEW j \in JobId, ExecStep(j) PROVE Goal
  BY <1>1, <1>10, ExecStepRecords DEF Queued
<1>11. ASSUME NEW j \in JobId, UpdateProgress(j) \/ TimerFires(j) PROVE Goal
  BY <1>1, <1>2, <1>11 DEF UpdateProgress, TimerFires, queueVars, Queued
<1>12. CASE CancelAll \/ Stop \/ CloseStop \/ SubscriptionStep \/ UNCHANGED vars
  BY <1>1, <1>12 DEF CancelAll, Stop, CancelAllBegin, CloseStop, SubscriptionStep,
     Subscribe, ContextEnds, Unsubscribe, vars, queueVars, Queued
<1>13. ASSUME NEW r \in Subs, NEW k \in Kinds, Receive(r, k) PROVE Goal
  BY <1>t, <1>13, ReceiveSends DEF Receive, queueVars, Queued, Kinds
<1> QED BY <1>5, <1>6, <1>7, <1>8, <1>9, <1>10, <1>11, <1>12, <1>13
        DEF Next, ManagerNext, ClientStep

(* Whatever clients call, a subscriber with room in its channel is told of *)
(* each job that leaves the queue, once and with the status it keeps, and  *)
(* of no other removal; one without room is told nothing.                  *)
THEOREM SubscribersToldOfRemovals == Spec => RemovedToldOnce
<1>1. ASSUME RecordInv, [Next]_vars, NEW s \in Subs
      PROVE  IF subs[s] \in {"open", "ended"} /\ Len(chan[s]["removed"]) < ChanCap
             THEN /\ { m.id : m \in Sent(s, "removed") } = { j \in JobId : Queued(j) /\ ~Queued(j)' }
                  /\ \A m \in Sent(s, "removed") :
                       m.status \in {"FINISHED", "CANCELLED", "FAILED"} /\ m.status = status'[m.id]
             ELSE Sent(s, "removed") = {}
  <2>t. TypeInv
    BY <1>1 DEF RecordInv
  <2> DEFINE Out == { x \in JobId : Queued(x) /\ ~Queued(x)' }
             Told == IF HasRoom(s, "removed")
                     THEN /\ { m.id : m \in Sent(s, "removed") } = Out
                          /\ \A m \in Sent(s, "removed") : m.status \in Ended /\ m.status = status'[m.id]
                     ELSE Sent(s, "removed") = {}
  <2>1. ASSUME \A x \in JobId : Queued(x) => Queued(x)', Sent(s, "removed") = {}
        PROVE  Told
    BY <2>1
  <2>2. ASSUME NEW j \in JobId, NEW st \in Ended,
               \A x \in JobId : Queued(x)' <=> Queued(x) /\ x # j,
               status'[j] = st,
               chan'[s]["removed"] = RemovedNotice(j, st)[s]["removed"]
        PROVE  Told
    <3>1. CASE ~Queued(j)
      <4>1. Sent(s, "removed") = {}
        BY <2>2, <3>1, SentNothing DEF RemovedNotice
      <4>2. \A x \in JobId : Queued(x) => Queued(x)'
        BY <2>2, <3>1
      <4> HIDE DEF Told
      <4> QED BY <2>1, <4>1, <4>2
    <3>2. CASE Queued(j)
      <4>1. Sent(s, "removed") = IF HasRoom(s, "removed")
                                 THEN {[id |-> j, status |-> st, progress |-> progress[j]]} ELSE {}
        BY <2>t, <2>2, <3>2, PostSent DEF RemovedNotice, Kinds
      <4>2. Out = {j}
        BY <2>2, <3>2
      <4>3. CASE HasRoom(s, "removed")
        <5> DEFINE m == [id |-> j, status |-> st, progress |-> progress[j]]
        <5>1. Sent(s, "removed") = {m} /\ m.id = j /\ m.status = st
          BY <4>1, <4>3
        <5> HIDE DEF m
        <5>2. { x.id : x \in Sent(s, "removed") } = {j}
          BY <5>1
        <5> HIDE DEF Out
        <5> QED BY <2>2, <4>2, <4>3, <5>1, <5>2
      <4>4. CASE ~HasRoom(s, "removed")
        BY <4>1, <4>4
      <4> QED BY <4>3, <4>4
    <3> QED BY <3>1, <3>2
  <2>3. Told
    <3> HIDE DEF Told
    <3> QED BY <1>1, <2>1, <2>2, RemovalStep
  <2> QED BY <2>3 DEF HasRoom, Ended
<1>2. ASSUME RecordInv, [Next]_vars
      PROVE  [\A s \in Subs :
                IF subs[s] \in {"open", "ended"} /\ Len(chan[s]["removed"]) < ChanCap
                THEN /\ { m.id : m \in Sent(s, "removed") } = { j \in JobId : Queued(j) /\ ~Queued(j)' }
                     /\ \A m \in Sent(s, "removed") :
                          m.status \in {"FINISHED", "CANCELLED", "FAILED"} /\ m.status = status'[m.id]
                ELSE Sent(s, "removed") = {}]_vars
  BY <1>1, <1>2
<1> QED BY <1>2, RecordInvariant, PTL DEF Spec, RemovedToldOnce

(* A notifyJobUpdate is about a job still in the queue, or about a failed  *)
(* one, or it is suppressed.                                               *)
LEMMA UpdateStep ==
  ASSUME RecordInv, [Next]_vars
  PROVE  \/ \A s \in Subs : Sent(s, "updated") = {}
         \/ \E j \in JobId, st \in Status, p \in 0..MaxUpdates :
              /\ Queued(j)' \/ st = "FAILED"
              /\ \A s \in Subs : chan'[s]["updated"] = Post(chan, "updated", j, st, p)[s]["updated"]
<1> USE DEF RecordInv
<1>t. /\ chan \in Channels /\ queue \in Seq(JobId)
      /\ status \in [JobId -> Status \cup {"none"}]
      /\ lastID \in 0..MaxJobs /\ progress \in [JobId -> 0..MaxUpdates]
      /\ TypeInv /\ TypeInv' /\ queue' \in Seq(JobId)
      /\ progress' \in [JobId -> 0..MaxUpdates]
  BY TypeStep DEF TypeInv, TypeOK, Channels
<1> DEFINE Goal == \/ \A s \in Subs : Sent(s, "updated") = {}
                   \/ \E j \in JobId, st \in Status, p \in 0..MaxUpdates :
                        /\ Queued(j)' \/ st = "FAILED"
                        /\ \A s \in Subs :
                             chan'[s]["updated"] = Post(chan, "updated", j, st, p)[s]["updated"]
<1>k. SUFFICES Goal
  OBVIOUS
<1>1. ASSUME \A s \in Subs : chan'[s]["updated"] = chan[s]["updated"] PROVE Goal
  BY <1>1, SentNothing
<1>2. ASSUME NEW j \in JobId, NEW st \in Status, NEW p \in 0..MaxUpdates,
             Queued(j)' \/ st \in Ended,
             chan' = UpdateNotice(chan, j, st, p)
      PROVE  Goal
  <2>1. CASE st \in {"CANCELLED", "FINISHED"}
    BY <1>1, <1>2, <2>1 DEF UpdateNotice
  <2>2. CASE st \notin {"CANCELLED", "FINISHED"}
    BY <1>2, <2>2 DEF UpdateNotice, Ended
  <2> QED BY <2>1, <2>2
<1>3. CASE Add
  <2>1. \A s \in Subs : chan'[s]["updated"] = chan[s]["updated"]
    BY <1>3, <1>t, PostElsewhere DEF Add, Kinds
  <2> HIDE DEF Goal
  <2> QED BY <1>1, <2>1
<1>4. CASE Start
  <2>1. PICK j \in JobId : NewJob(j) /\ Dispatch(j, chan)
    BY <1>4 DEF Start
  <2>2. Queued(j)'
    BY <1>t, <2>1, AppendQueue DEF NewJob
  <2> QED BY <1>2, <1>t, <2>1, <2>2 DEF Dispatch, Status
<1>5. ASSUME NEW j \in JobId, CancelOne(j), UNCHANGED exec PROVE Goal
  <2>1. PICK st : chan' = RemovedNotice(j, st) \/ chan' = chan
    BY <1>5 DEF CancelOne
  <2>2. \A s \in Subs : chan'[s]["updated"] = chan[s]["updated"]
    BY <1>t, <2>1, RemovedNoticeElsewhere
  <2> HIDE DEF Goal
  <2> QED BY <1>1, <2>2
<1>6. CASE DispatcherStep
  <2>1. ASSUME NEW c, \A s \in Subs : c[s]["updated"] = chan[s]["updated"], c \in Channels,
               DispatcherLooks(queue', c)
        PROVE  Goal
    <3>1. CASE chan' = c
      BY <1>1, <2>1, <3>1
    <3>2. CASE \E i \in DOMAIN queue' : chan' = UpdateNotice(c, queue'[i], "RUNNING", progress[queue'[i]])
      <4>1. PICK i \in DOMAIN queue' :
                   chan' = UpdateNotice(c, queue'[i], "RUNNING", progress[queue'[i]])
        BY <3>2
      <4>2. PICK j \in JobId : j = queue'[i]
        BY <1>t, <4>1
      <4>3. Queued(j)' /\ progress[j] \in 0..MaxUpdates /\ "RUNNING" \in Status
        BY <1>t, <4>1, <4>2 DEF Queued, Status
      <4>4. chan' = Post(c, "updated", j, "RUNNING", progress[j])
        BY <4>1, <4>2 DEF UpdateNotice
      <4>5. ASSUME NEW s \in Subs
            PROVE  chan'[s]["updated"] = Post(chan, "updated", j, "RUNNING", progress[j])[s]["updated"]
        <5>1. c[s] \in [Kinds -> Seq(Msg)] /\ chan[s] \in [Kinds -> Seq(Msg)]
              /\ "updated" \in Kinds /\ c[s]["updated"] = chan[s]["updated"]
          BY <1>t, <2>1 DEF Channels, Kinds
        <5> QED BY <4>4, <5>1 DEF Post
      <4> QED BY <4>3, <4>5
    <3>3. chan' = c \/ \E i \in DOMAIN queue' : chan' = UpdateNotice(c, queue'[i], "RUNNING", progress[queue'[i]])
      BY <2>1 DEF DispatcherLooks, Dispatch
    <3> HIDE DEF Goal
    <3> QED BY <3>1, <3>2, <3>3
  <2>2. CASE UNCHANGED <<lastID, queue, status, exec, chan>>
    BY <1>1, <2>2
  <2>3. CASE queue' = queue /\ DispatcherLooks(queue', chan)
    BY <1>t, <2>1, <2>3
  <2>4. CASE /\ djob \in JobId /\ exec[djob] = "done"
             /\ DispatcherLooks(queue', RemovedNotice(djob, status[djob]))
    <3>1. status[djob] \in Status
      BY <2>4 DEF RecordsAgree, Ended, Status
    <3> DEFINE c == RemovedNotice(djob, status[djob])
    <3>2. c \in Channels /\ \A s \in Subs : c[s]["updated"] = chan[s]["updated"]
      BY <1>t, <2>4, <3>1, RemovedNoticeType, RemovedNoticeElsewhere
    <3>3. DispatcherLooks(queue', c)
      BY <2>4
    <3> HIDE DEF c, Goal
    <3> QED BY <2>1, <3>2, <3>3
  <2> QED BY <1>6, <2>2, <2>3, <2>4, DispatcherStepRecords
<1>7. CASE CancelAllStep
  <2> DEFINE j == sweep.view[sweep.next]
  <2>1. CancelOne(j) /\ UNCHANGED exec
    BY <1>7 DEF CancelAllStep
  <2>2. j \in JobId
    BY <1>7 DEF CancelAllStep, TypeInv, TypeOK, SweepOK, Unlocked
  <2> HIDE DEF j
  <2> QED BY <1>5, <2>1, <2>2
<1>8. ASSUME NEW j \in JobId, CancelJob(j) PROVE Goal
  BY <1>5, <1>8 DEF CancelJob
<1>9. ASSUME NEW j \in JobId, ExecStep(j) PROVE Goal
  BY <1>1, <1>9, ExecStepRecords
<1>10. ASSUME NEW j \in JobId, UpdateProgress(j) PROVE Goal
  <2>1. /\ exec[j] = "executing" /\ queue' = queue
        /\ chan' = chan \/ chan' = UpdateNotice(chan, j, status[j], progress'[j])
    BY <1>10 DEF UpdateProgress, queueVars
  <2>2. Queued(j)' /\ status[j] \in Status /\ progress'[j] \in 0..MaxUpdates
    BY <1>t, <2>1 DEF OutIsOver, Queued, RecordsAgree, Status
  <2> QED BY <1>1, <1>2, <2>1, <2>2
<1>11. ASSUME NEW j \in JobId, TimerFires(j) PROVE Goal
  <2>1. /\ timers[j] > 0 /\ queue' = queue
        /\ chan' = UpdateNotice(chan, j, status[j], progress[j])
    BY <1>11 DEF TimerFires, queueVars
  <2>2. status[j] # "none"
    BY <2>1 DEF TypeInv, KnownJobs
  <2>3. /\ Queued(j)' \/ status[j] \in Ended
        /\ status[j] \in Status /\ progress[j] \in 0..MaxUpdates
    BY <1>t, <2>1, <2>2 DEF OutIsOver, Queued
  <2> QED BY <1>2, <2>1, <2>3
<1>12. CASE CancelAll \/ Stop \/ CloseStop \/ SubscriptionStep \/ UNCHANGED vars
  BY <1>1, <1>12 DEF CancelAll, Stop, CancelAllBegin, CloseStop, SubscriptionStep,
     Subscribe, ContextEnds, Unsubscribe, vars
<1>13. ASSUME NEW r \in Subs, NEW k \in Kinds, Receive(r, k) PROVE Goal
  BY <1>t, <1>13, ReceiveSends DEF Kinds
<1> QED BY <1>3, <1>4, <1>6, <1>7, <1>8, <1>9, <1>10, <1>11, <1>12, <1>13
        DEF Next, ManagerNext, ClientStep

(* Whatever clients call and however late the throttle timers of a job     *)
(* fire, a job told removed as finished or cancelled is not updated again. *)
THEOREM NoUpdateOnceRemoved == Spec => NoUpdateAfterRemoval
<1>1. ASSUME RecordInv, [Next]_vars, NEW s \in Subs, NEW m \in Sent(s, "updated")
      PROVE  Queued(m.id)' \/ m.status = "FAILED"
  <2>1. PICK j \in JobId, st \in Status, p \in 0..MaxUpdates :
          /\ Queued(j)' \/ st = "FAILED"
          /\ chan'[s]["updated"] = Post(chan, "updated", j, st, p)[s]["updated"]
    BY <1>1, UpdateStep
  <2>2. m = [id |-> j, status |-> st, progress |-> p]
    BY <1>1, <2>1, PostSent DEF RecordInv, Kinds
  <2> QED BY <2>1, <2>2
<1>2. ASSUME RecordInv, [Next]_vars
      PROVE  [\A s \in Subs : \A m \in Sent(s, "updated") :
                Queued(m.id)' \/ m.status = "FAILED"]_vars
  BY <1>1, <1>2
<1> QED BY <1>2, RecordInvariant, PTL DEF Spec, NoUpdateAfterRemoval

-----------------------------------------------------------------------------
(* Throttling, and what Stop achieves *)

(* However updates are throttled, the last progress of a job is published  *)
(* or a timer that publishes it is outstanding.                            *)
THEOREM UpdatesAreNotLost == Spec => []NoLostUpdate
<1>1. Init => NoLostUpdate
  BY DEF Init, NoLostUpdate
<1>2. ASSUME TypeInv, NoLostUpdate, [Next]_vars PROVE NoLostUpdate'
  <2>t. /\ progress \in [JobId -> 0..MaxUpdates] /\ published \in [JobId -> 0..MaxUpdates]
        /\ timers \in [JobId -> Nat] /\ timerSet \in [JobId -> BOOLEAN]
    BY <1>2 DEF TypeInv, TypeOK
  <2>1. CASE UNCHANGED progVars
    BY <1>2, <2>1 DEF NoLostUpdate, progVars
  <2>2. ASSUME NEW j \in JobId, UpdateProgress(j) PROVE NoLostUpdate'
    <3>1. progress' = [progress EXCEPT ![j] = @ + 1]
      BY <2>2 DEF UpdateProgress
    <3>2. CASE /\ timers' = IF timerSet[j] THEN timers ELSE [timers EXCEPT ![j] = @ + 1]
               /\ timerSet' = [timerSet EXCEPT ![j] = TRUE]
               /\ UNCHANGED published
      BY <1>2, <2>t, <3>1, <3>2 DEF NoLostUpdate
    <3>3. CASE /\ published' = [published EXCEPT ![j] = progress'[j]]
               /\ timerSet' = [timerSet EXCEPT ![j] = FALSE]
               /\ UNCHANGED timers
      BY <1>2, <2>t, <3>1, <3>3 DEF NoLostUpdate
    <3> QED BY <2>2, <3>2, <3>3 DEF UpdateProgress
  <2>3. ASSUME NEW j \in JobId, TimerFires(j) PROVE NoLostUpdate'
    BY <1>2, <2>t, <2>3 DEF TimerFires, NoLostUpdate
  <2>4. ASSUME \A j \in JobId : ~UpdateProgress(j) /\ ~TimerFires(j)
        PROVE  UNCHANGED progVars
    BY <1>2, <2>4 DEF Next, ManagerNext, ClientStep, Add, Start, CancelAll, CancelAllBegin,
       Stop, CancelJob, CancelAllStep, CloseStop, DispatcherStep, DispatcherStart,
       DispatcherWakes, DispatcherReaps, ExecStep, ExecError, ExecPanic, OnJobFinish,
       SubscriptionStep, Subscribe, ContextEnds, Unsubscribe, Receive, vars
  <2> QED BY <2>1, <2>2, <2>3, <2>4
<1>3. Spec => []TypeInv
  BY TypeInit, TypeStep, PTL DEF Spec
<1> QED BY <1>1, <1>2, <1>3, PTL DEF Spec

-----------------------------------------------------------------------------
(* How jobs end *)

(* A job is STOPPING only once its context is cancelled, and while it is   *)
(* executing always then.                                                  *)
CancelMatches ==
  \A j \in JobId :
    /\ exec[j] = "none" => j \notin ctxDone
    /\ exec[j] = "executing" /\ j \in ctxDone => status[j] = "STOPPING"
    /\ status[j] = "STOPPING" => j \in ctxDone

LEMMA CancelMatchesInit == Init => CancelMatches
BY DEF Init, CancelMatches

(* One iteration of a cancelling loop.                                     *)
LEMMA CancelOneMatches ==
  ASSUME RecordInv, CancelMatches, NEW j \in JobId, CancelOne(j), UNCHANGED exec
  PROVE  CancelMatches'
<1>t. status \in [JobId -> Status \cup {"none"}]
  BY DEF RecordInv, TypeInv, TypeOK
<1>1. PICK st \in AfterCancel(j) :
        /\ status' = [status EXCEPT ![j] = st]
        /\ ctxDone' = IF exec[j] = "none" THEN ctxDone ELSE ctxDone \cup {j}
  BY DEF CancelOne
<1>2. /\ exec[j] = "executing" => st = "STOPPING"
      /\ exec[j] = "none" => st # "STOPPING"
  BY DEF AfterCancel, RecordInv, RecordsAgree
<1>3. \A x \in JobId : status'[x] = IF x = j THEN st ELSE status[x]
  BY <1>t, <1>1
<1> QED BY <1>1, <1>2, <1>3 DEF CancelMatches

LEMMA CancelMatchesStep == RecordInv /\ CancelMatches /\ [Next]_vars => CancelMatches'
<1> SUFFICES ASSUME RecordInv, CancelMatches, [Next]_vars PROVE CancelMatches'
  OBVIOUS
<1>t. /\ status \in [JobId -> Status \cup {"none"}]
      /\ exec \in [JobId -> ExecState]
  BY DEF RecordInv, TypeInv, TypeOK
<1>1. CASE Add
  <2>1. PICK j \in JobId :
          NewJob(j) /\ status' = [status EXCEPT ![j] = "READY"] /\ UNCHANGED <<exec, ctxDone>>
    BY <1>1 DEF Add
  <2>2. \A x \in JobId : status'[x] = IF x = j THEN "READY" ELSE status[x]
    BY <1>t, <2>1
  <2>3. exec[j] # "executing"
    <3>1. status[j] = "none"
      BY <2>1 DEF NewJob, RecordInv, RecordsAgree, TypeInv, TypeOK, JobId
    <3> QED BY <3>1 DEF RecordInv, TypeInv, KnownJobs
  <2> QED BY <2>1, <2>2, <2>3 DEF CancelMatches
<1>2. ASSUME NEW j \in JobId, NEW c, Dispatch(j, c), UNCHANGED ctxDone, exec[j] = "none"
      PROVE  CancelMatches'
  <2>1. \A x \in JobId : /\ status'[x] = IF x = j THEN "RUNNING" ELSE status[x]
                         /\ exec'[x] = IF x = j THEN "executing" ELSE exec[x]
    BY <1>2, <1>t DEF Dispatch
  <2> QED BY <1>2, <2>1 DEF CancelMatches
<1>3. CASE Start
  <2>1. PICK j \in JobId : NewJob(j) /\ Dispatch(j, chan) /\ UNCHANGED ctxDone
    BY <1>3 DEF Start
  <2>2. exec[j] = "none"
    BY <2>1 DEF NewJob, RecordInv, RecordsAgree, TypeInv, TypeOK, KnownJobs, JobId
  <2> QED BY <1>2, <2>1, <2>2
<1>4. CASE DispatcherStep
  <2>1. CASE UNCHANGED <<status, exec>>
    BY <1>4, <2>1 DEF DispatcherStep, DispatcherStart, DispatcherWakes, DispatcherReaps, CancelMatches
  <2>2. CASE ~UNCHANGED <<status, exec>>
    <3>1. PICK q \in Seq(JobId), c \in {chan, RemovedNotice(djob, status[djob])} : DispatcherLooks(q, c)
      <4>1. queue \in Seq(JobId) /\ queue' \in Seq(JobId)
        BY TypeStep DEF RecordInv, TypeInv, TypeOK
      <4> QED BY <1>4, <2>2, <4>1 DEF DispatcherStep, DispatcherStart, DispatcherWakes, DispatcherReaps
    <3>2. PICK i \in DOMAIN q : status[q[i]] = "READY" /\ Dispatch(q[i], c)
      BY <2>2, <3>1 DEF DispatcherLooks
    <3>3. q[i] \in JobId /\ exec[q[i]] = "none"
      <4>1. q[i] \in JobId
        BY <3>1, <3>2
      <4> QED BY <1>t, <3>2, <4>1 DEF RecordInv, RecordsAgree, ExecState, Ended
    <3>4. UNCHANGED ctxDone
      BY <1>4 DEF DispatcherStep, DispatcherStart, DispatcherWakes, DispatcherReaps
    <3> QED BY <1>2, <3>2, <3>3, <3>4
  <2> QED BY <2>1, <2>2
<1>5. ASSUME NEW j \in JobId, CancelJob(j) PROVE CancelMatches'
  BY <1>5, CancelOneMatches DEF CancelJob
<1>6. CASE CancelAllStep
  <2> DEFINE j == sweep.view[sweep.next]
  <2>1. CancelOne(j) /\ UNCHANGED exec
    BY <1>6 DEF CancelAllStep
  <2>2. j \in JobId
    BY <1>6 DEF CancelAllStep, RecordInv, TypeInv, TypeOK, SweepOK, Unlocked
  <2> HIDE DEF j
  <2> QED BY <2>1, <2>2, CancelOneMatches
<1>7. ASSUME NEW j \in JobId, ExecStep(j) PROVE CancelMatches'
  <2>1. /\ exec[j] \notin {"none", "done"}
        /\ \A x \in JobId : x # j => status'[x] = status[x] /\ exec'[x] = exec[x]
        /\ \/ exec'[j] = "errored" /\ status'[j] = "FAILED"
           \/ exec'[j] = "panicked" /\ status'[j] = "FAILED"
           \/ exec'[j] = "done" /\ status'[j] \in Ended
    BY <1>7, ExecStepRecords
  <2>2. UNCHANGED ctxDone
    BY <1>7 DEF ExecStep, ExecError, ExecPanic, OnJobFinish
  <2> QED BY <2>1, <2>2 DEF CancelMatches, Ended
<1>8. ASSUME UNCHANGED jobVars PROVE CancelMatches'
  BY <1>8 DEF jobVars, CancelMatches
<1>9. ASSUME NEW j \in JobId, UpdateProgress(j) \/ TimerFires(j) PROVE CancelMatches'
  BY <1>8, <1>9 DEF UpdateProgress, TimerFires
<1>10. CASE \/ CancelAll \/ Stop \/ CloseStop \/ SubscriptionStep
            \/ \E s \in Subs, k \in Kinds : Receive(s, k)
            \/ UNCHANGED vars
  BY <1>8, <1>10 DEF CancelAll, Stop, CancelAllBegin, CloseStop, SubscriptionStep,
     Subscribe, ContextEnds, Unsubscribe, Receive, vars
<1> QED BY <1>1, <1>3, <1>4, <1>5, <1>6, <1>7, <1>9, <1>10 DEF Next, ManagerNext, ClientStep

(* Whatever clients call, the status a job ends with tells how it went;    *)
(* only an error that meets a cancel may be told as CANCELLED.             *)
THEOREM JobsEndAsTheyWent == Spec => EndsAsItWent
<1>1. ASSUME RecordInv, CancelMatches, [Next]_vars
      PROVE  [\A j \in JobId :
                Active(j) /\ exec'[j] = "done" =>
                  \/ exec[j] = "executing" /\ j \notin ctxDone /\ status'[j] = "FINISHED"
                  \/ exec[j] = "executing" /\ j \in ctxDone /\ status'[j] = "CANCELLED"
                  \/ exec[j] \in {"errored", "panicked"} /\ status'[j] = "FAILED"
                  \/ exec[j] = "errored" /\ j \in ctxDone /\ status'[j] = "CANCELLED"]_vars
  <2> SUFFICES ASSUME NEW j \in JobId, Active(j), exec'[j] = "done"
               PROVE  \/ exec[j] = "executing" /\ j \notin ctxDone /\ status'[j] = "FINISHED"
                      \/ exec[j] = "executing" /\ j \in ctxDone /\ status'[j] = "CANCELLED"
                      \/ exec[j] \in {"errored", "panicked"} /\ status'[j] = "FAILED"
                      \/ exec[j] = "errored" /\ j \in ctxDone /\ status'[j] = "CANCELLED"
    OBVIOUS
  <2>t. status \in [JobId -> Status \cup {"none"}] /\ exec \in [JobId -> ExecState]
    BY <1>1 DEF RecordInv, TypeInv, TypeOK
  <2>1. exec[j] # exec'[j]
    BY DEF Active
  <2>2. CASE OnJobFinish(j)
    <3>1. status'[j] = CASE status[j] = "STOPPING" -> "CANCELLED"
                         [] status[j] = "FAILED" -> "FAILED"
                         [] OTHER -> "FINISHED"
      BY <2>t, <2>2 DEF OnJobFinish
    <3> QED BY <1>1, <3>1 DEF Active, RecordInv, RecordsAgree, CancelMatches
  <2>3. CASE ~OnJobFinish(j)
    <3>1. ASSUME NEW i \in JobId, ExecStep(i) PROVE FALSE
      BY <2>t, <2>1, <2>3, <3>1 DEF ExecStep, ExecError, ExecPanic, OnJobFinish
    <3>2. ASSUME NEW i, NEW c, Dispatch(i, c) PROVE FALSE
      BY <2>t, <2>1, <3>2 DEF Dispatch
    <3>3. ~Start /\ ~DispatcherStep
      BY <2>1, <3>2 DEF Start, DispatcherStep, DispatcherStart, DispatcherWakes, DispatcherReaps,
         DispatcherLooks
    <3> QED BY <1>1, <2>1, <3>1, <3>3 DEF Next, ManagerNext, ClientStep, Add, CancelAll,
       CancelAllBegin, Stop, CancelJob, CancelAllStep, CloseStop, UpdateProgress, TimerFires,
       SubscriptionStep, Subscribe, ContextEnds, Unsubscribe, Receive, vars, jobVars
  <2> QED BY <2>2, <2>3
<1>2. Spec => [](RecordInv /\ CancelMatches)
  <2>1. RecordInv /\ CancelMatches /\ [Next]_vars => CancelMatches'
    BY CancelMatchesStep
  <2> QED BY <2>1, RecordInvariant, CancelMatchesInit, PTL DEF Spec
<1> QED BY <1>1, <1>2, PTL DEF EndsAsItWent, Spec
=============================================================================
