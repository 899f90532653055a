---------------------------- MODULE StreamProofs ----------------------------
(***************************************************************************)
(* Proofs about StreamManager, for any number of requests, segments and    *)
(* processes and any failures but a lingering ffmpeg: one ffmpeg at a time *)
(* runs in the directory of the stream, only whole segments are served,    *)
(* and Shutdown leaves no file behind.                                     *)
(***************************************************************************)
EXTENDS StreamManager, SequenceTheorems, TLAPS

(* A killed process has been collected by the next round of the monitor.   *)
NoLinger == \A F \in FaultCases : "linger" \notin F

(* Who holds the mutex, and which processes there may be.                  *)
RunInv ==
  /\ "linger" \notin faults
  /\ holder = "monitor" <=> mon.at \in {"looking", "sending"}
  /\ mon.at = "sending" => mon.i <= Len(waiting) /\ mon.msg # "none"
  /\ tp # Nobody => Alive(tp) /\ known
  /\ \A p, q \in Procs : Alive(p) /\ Alive(q) => p = q
  /\ holder = "monitor" => known /\ \A p \in Procs : Alive(p) => p = tp
  /\ \A p \in Procs : proc[p].at = "running" => p = tp \/ proc[p].killed # "no"
  /\ \A p \in Procs : proc[p].at = "running" => proc[p].exit = "none"
  /\ \A p \in Procs : proc[p].at = "exited" => proc[p].exit # "none"
  /\ down = "done" => ~known /\ holder # "monitor"

FinalsWhole == \A s \in Segs : final[s] \in {"none", "whole"}

(* A file that is not whole is the last one, and that of a process that    *)
(* has not succeeded.                                                      *)
UnfinishedLast ==
  \A s \in Segs : temp[s] \notin {"none", "whole"} =>
    /\ s + 1 \in Segs => temp[s + 1] = "none"
    /\ \E p \in Procs :
         \/ temp[s] = p /\ proc[p].at = "running"
         \/ temp[s] = "cut" /\ proc[p].at = "exited" /\ proc[p].exit = "failed"

(* The temporary files are those of the process, from tp.segment to the    *)
(* one it writes, and none is left when it has been seen to.               *)
TempsProduced ==
  /\ (\A p \in Procs : ~Alive(p)) => \A s \in Segs : temp[s] = "none"
  /\ \A p \in Procs : Alive(p) => \A s \in Segs : temp[s] # "none" => s \in Produced(p)
  /\ \A p \in Procs : proc[p].at = "running" =>
       \A s \in Segs : proc[p].pos < s => temp[s] = "none"
  /\ tp # Nobody /\ proc[tp].at = "running" =>
       /\ proc[tp].seg <= proc[tp].pos + 1
       /\ \A s \in Segs : proc[tp].seg <= s /\ s <= proc[tp].pos => temp[s] # "none"

NothingLeft == down = "done" => temp = NoFiles /\ final = NoFiles

FileInv == FinalsWhole /\ UnfinishedLast /\ TempsProduced /\ NothingLeft

StreamInv == TypeOK /\ RunInv /\ FileInv

-----------------------------------------------------------------------------
(* Type correctness *)

LEMMA RemoveAtType ==
  ASSUME NEW S, NEW q \in Seq(S), NEW i \in 1..Len(q)
  PROVE  RemoveAt(q, i) \in Seq(S)
<1>1. SubSeq(q, 1, i - 1) \in Seq(S) /\ SubSeq(q, i + 1, Len(q)) \in Seq(S)
  BY SubSeqProperties
<1> QED BY <1>1, ConcatProperties DEF RemoveAt

(* The updates of a process, a request and the monitor keep their types.   *)
LEMMA ProcessUpdates ==
  ASSUME NEW x \in ProcessType, NEW s \in Segs, NEW n \in -1..LastSeg,
         NEW k \in {"no", "ctx", "stop"}, NEW e \in {"ok", "failed"}, NEW b \in BOOLEAN,
         NEW at \in {"free", "running", "exited", "telling"},
         NEW r \in Requests \cup {Nobody}
  PROVE  /\ [x EXCEPT !.killed = k] \in ProcessType
         /\ [x EXCEPT !.seg = s] \in ProcessType
         /\ [x EXCEPT !.pos = n] \in ProcessType
         /\ [x EXCEPT !.at = at, !.exit = e, !.err = b, !.pos = n, !.killed = k] \in ProcessType
         /\ [x EXCEPT !.at = at, !.asker = r] \in ProcessType
         /\ [x EXCEPT !.at = at, !.seg = s, !.pos = n, !.asker = r] \in ProcessType
<1> USE DEF ProcessType
<1>1. [x EXCEPT !.killed = k] \in ProcessType
  OBVIOUS
<1>2. [x EXCEPT !.seg = s] \in ProcessType
  OBVIOUS
<1>3. [x EXCEPT !.pos = n] \in ProcessType
  OBVIOUS
<1>4. [x EXCEPT !.at = at, !.exit = e, !.err = b, !.pos = n, !.killed = k] \in ProcessType
  OBVIOUS
<1>5. [x EXCEPT !.at = at, !.asker = r] \in ProcessType
  OBVIOUS
<1>6. [x EXCEPT !.at = at, !.seg = s, !.pos = n, !.asker = r] \in ProcessType
  OBVIOUS
<1> QED BY <1>1, <1>2, <1>3, <1>4, <1>5, <1>6

LEMMA FreeType == Free \in ProcessType
BY SegmentsAssumption DEF ProcessType, Free, Segs

LEMMA RequestUpdates ==
  ASSUME NEW x \in RequestType, NEW s \in Segs,
         NEW at \in {"locking", "waiting", "serving", "leaving", "ended"}
  PROVE  /\ [x EXCEPT !.at = at] \in RequestType
         /\ [x EXCEPT !.at = at, !.idx = s] \in RequestType
         /\ [x EXCEPT !.at = at, !.late = FALSE] \in RequestType
         /\ [x EXCEPT !.late = TRUE] \in RequestType
BY DEF RequestType

LEMMA NoRequestType == NoRequest \in RequestType
BY SegmentsAssumption DEF RequestType, NoRequest, Segs

LEMMA MonitorUpdates ==
  ASSUME NEW x \in MonitorType, NEW b \in BOOLEAN, NEW k \in BOOLEAN,
         NEW m \in {"none", "nil", "err"}, NEW n \in Nat \ {0},
         NEW at \in {"asleep", "looking", "sending", "gone"}
  PROVE  /\ [x EXCEPT !.at = at] \in MonitorType
         /\ [x EXCEPT !.at = at, !.msg = m, !.keep = k] \in MonitorType
         /\ [x EXCEPT !.i = n, !.started = b] \in MonitorType
         /\ [x EXCEPT !.at = at, !.msg = m, !.keep = k, !.i = n, !.started = b] \in MonitorType
<1> USE DEF MonitorType
<1>1. [x EXCEPT !.at = at] \in MonitorType
  OBVIOUS
<1>2. [x EXCEPT !.at = at, !.msg = m, !.keep = k] \in MonitorType
  OBVIOUS
<1>3. [x EXCEPT !.i = n, !.started = b] \in MonitorType
  OBVIOUS
<1>4. [x EXCEPT !.at = at, !.msg = m, !.keep = k, !.i = n, !.started = b] \in MonitorType
  OBVIOUS
<1> QED BY <1>1, <1>2, <1>3, <1>4

LEMMA AsleepType == Asleep \in MonitorType
BY DEF MonitorType, Asleep

LEMMA TypeInit == Init => TypeOK
<1> SUFFICES ASSUME Init PROVE TypeOK
  OBVIOUS
<1>1. temp \in [Segs -> FileStates] /\ final \in [Segs -> FileStates]
  BY DEF Init, NoFiles, FileStates
<1>2. req \in [Requests -> RequestType] /\ proc \in [Procs -> ProcessType] /\ mon \in MonitorType
  BY FreeType, NoRequestType, AsleepType DEF Init
<1>3. last \in Segs /\ waiting \in Seq(Requests) /\ faults \subseteq AllFaults
  BY SegmentsAssumption, FaultsAssumption DEF Init, Segs
<1>4. known \in BOOLEAN /\ idle \in BOOLEAN
  BY Zenon DEF Init
<1>5. answer \in [Requests -> {"empty", "nil", "err", "canceled"}]
  BY DEF Init
<1> QED BY <1>1, <1>2, <1>3, <1>4, <1>5 DEF Init, TypeOK

LEMMA CheckSegmentsType ==
  ASSUME TypeOK, NEW p \in Procs, CheckSegments(p)
  PROVE  temp' \in [Segs -> FileStates] /\ final' \in [Segs -> FileStates]
BY DEF TypeOK, CheckSegments, FileStates

LEMMA ReachedType ==
  ASSUME TypeOK, NEW p \in Procs
  PROVE  Reached(p) \in Segs
<1> DEFINE Latest == {s \in Produced(p) : s + 1 \notin Produced(p)}
<1>1. CASE Latest = {}
  <2>1. Reached(p) = proc[p].seg
    BY <1>1 DEF Reached
  <2> QED BY <2>1 DEF TypeOK, ProcessType
<1>2. CASE Latest # {}
  <2>1. Reached(p) \in Latest
    BY <1>2 DEF Reached
  <2> QED BY <2>1 DEF Produced
<1> QED BY <1>1, <1>2

LEMMA StoppedType ==
  ASSUME TypeOK
  PROVE  Stopped \in [Procs -> ProcessType]
<1>1. ASSUME NEW p \in Procs
      PROVE  proc[p] \in ProcessType /\ [proc[p] EXCEPT !.killed = "stop"] \in ProcessType
  <2>1. proc[p] \in ProcessType
    BY DEF TypeOK
  <2> QED BY <2>1 DEF ProcessType
<1> QED BY <1>1 DEF Stopped

LEMMA ProcessStepType ==
  ASSUME TypeOK, NEW p \in Procs, Process(p)
  PROVE  TypeOK'
<1> USE DEF TypeOK, streamVars, fileVars, Happens
<1>1. CASE Write(p)
  <2>1. proc[p] \in ProcessType /\ proc[p].pos \in -1..LastSeg
    BY DEF ProcessType
  <2>2. proc[p].pos + 1 \in Segs /\ proc[p].pos + 1 \in -1..LastSeg
    BY <1>1, <2>1, SegmentsAssumption DEF Write, Segs
  <2>3. temp' \in [Segs -> FileStates] /\ final' \in [Segs -> FileStates]
    BY <1>1, <2>2 DEF Write, Rewritten, FileStates
  <2>4. [proc[p] EXCEPT !.pos = @ + 1] \in ProcessType
    BY <2>1, <2>2 DEF ProcessType
  <2>5. proc' \in [Procs -> ProcessType]
    BY <1>1, <2>4 DEF Write
  <2> QED BY <1>1, <2>3, <2>5 DEF Write
<1>2. ASSUME NEW exit \in {"ok", "failed"}, NEW err \in BOOLEAN, Ends(p, exit, err),
             faults' \subseteq AllFaults
      PROVE  TypeOK'
  <2>1. temp' \in [Segs -> FileStates] /\ final' \in [Segs -> FileStates]
    BY <1>2 DEF Ends, Rewritten, FileStates
  <2>2. 0 \in -1..LastSeg /\ 0 \in Segs
    BY SegmentsAssumption DEF Segs
  <2> DEFINE x == [proc[p] EXCEPT !.at = "exited", !.exit = exit, !.err = err, !.pos = 0,
                                  !.killed = "no"]
  <2>3. x \in ProcessType
    <3>1. proc[p] \in ProcessType
      OBVIOUS
    <3> QED BY <2>2, <3>1 DEF ProcessType
  <2>4. proc' = [proc EXCEPT ![p] = x]
    BY <1>2, Zenon DEF Ends
  <2> HIDE DEF x
  <2>5. proc' \in [Procs -> ProcessType]
    BY <2>3, <2>4
  <2> QED BY <1>2, <2>1, <2>5 DEF Ends
<1>3. CASE Succeed(p)
  BY <1>2, <1>3 DEF Succeed
<1>4. CASE Fail(p)
  BY <1>2, <1>4 DEF Fail
<1>5. CASE Die(p)
  BY <1>2, <1>5 DEF Die
<1>6. CASE Clean(p)
  <2>1. temp' \in [Segs -> FileStates] /\ final' \in [Segs -> FileStates]
    BY <1>6, CheckSegmentsType DEF Clean
  <2>2. 0 \in -1..LastSeg /\ 0 \in Segs
    BY SegmentsAssumption DEF Segs
  <2>3. proc[p].asker \in Requests \cup {Nobody}
    BY DEF ProcessType
  <2>4. [Free EXCEPT !.at = "telling", !.asker = proc[p].asker] \in ProcessType
    BY <2>3, FreeType DEF ProcessType
  <2>5. proc' \in [Procs -> ProcessType]
    BY <1>6, <2>4, FreeType DEF Clean
  <2> QED BY <1>6, <2>1, <2>5 DEF Clean
<1>7. CASE Tell(p)
  <2>1. proc' \in [Procs -> ProcessType]
    BY <1>7, FreeType DEF Tell
  <2>2. answer' \in [Requests -> {"empty", "nil", "err", "canceled"}]
    BY <1>7 DEF Tell
  <2> QED BY <1>7, <2>1, <2>2 DEF Tell
<1> QED BY <1>1, <1>3, <1>4, <1>5, <1>6, <1>7 DEF Process

LEMMA MonitorStepType ==
  ASSUME TypeOK, RunInv, Monitor
  PROVE  TypeOK'
<1>1. ASSUME NEW r, Looking(r)
      PROVE  r \in Requests /\ mon.i \in 1..Len(waiting)
  BY <1>1 DEF Looking, TypeOK, MonitorType
<1>2. 0 \in -1..LastSeg /\ 0 \in Segs
  BY SegmentsAssumption DEF Segs
<1>3. mon \in MonitorType /\ mon.i \in Nat \ {0} /\ mon.i + 1 \in Nat \ {0}
      /\ mon.started \in BOOLEAN /\ mon.keep \in BOOLEAN
  BY DEF TypeOK, MonitorType
<1>4. CASE Wake
  <2>1. temp' \in [Segs -> FileStates] /\ final' \in [Segs -> FileStates]
    BY <1>4, CheckSegmentsType DEF Wake, TypeOK, fileVars
  <2>2. [Asleep EXCEPT !.at = "looking"] \in MonitorType
    BY AsleepType, MonitorUpdates, <1>3
  <2>3. proc' \in [Procs -> ProcessType]
    <3>1. CASE tp = Nobody
      BY <1>4, <3>1 DEF Wake, TypeOK
    <3>2. CASE tp # Nobody
      <4>1. tp \in Procs /\ Reached(tp) \in Segs
        BY <3>2, ReachedType DEF TypeOK
      <4>2. [proc[tp] EXCEPT !.seg = Reached(tp)] \in ProcessType
        <5>1. proc[tp] \in ProcessType
          BY <4>1 DEF TypeOK
        <5> QED BY <4>1, <5>1 DEF ProcessType
      <4> QED BY <1>4, <3>2, <4>1, <4>2 DEF Wake, TypeOK
    <3> QED BY <3>1, <3>2
  <2> QED BY <1>4, <2>1, <2>2, <2>3 DEF Wake, TypeOK, streamVars
<1>5. CASE Send
  <2>1. mon.i \in 1..Len(waiting) /\ waiting[mon.i] \in Requests
    BY <1>3, <1>5 DEF Send, TypeOK, RunInv
  <2>2. waiting' \in Seq(Requests)
    BY <1>5, <2>1, RemoveAtType DEF Send, TypeOK
  <2>3. mon' \in MonitorType
    <3>1. CASE mon.keep
      BY <1>3, <1>5, <3>1, MonitorUpdates DEF Send
    <3>2. CASE ~mon.keep
      BY <1>3, <1>5, <3>2, MonitorUpdates DEF Send
    <3> QED BY <3>1, <3>2
  <2>4. mon.msg \in {"nil", "err"}
    BY <1>3, <1>5 DEF Send, RunInv, MonitorType
  <2>5. answer' \in [Requests -> {"empty", "nil", "err", "canceled"}]
    BY <1>5, <2>1, <2>4 DEF Send, TypeOK
  <2> QED BY <1>5, <2>2, <2>3, <2>5 DEF Send, TypeOK, fileVars
<1>6. Asleep \in MonitorType /\ [Asleep EXCEPT !.at = "gone"] \in MonitorType
  BY <1>3, AsleepType, MonitorUpdates
<1>7. CASE Expire
  <2>1. temp' \in [Segs -> FileStates] /\ final' \in [Segs -> FileStates]
    BY <1>7 DEF Expire, NoFiles, FileStates
  <2> QED BY <1>6, <1>7, <2>1, StoppedType DEF Expire, Finished, TypeOK
<1>8. CASE FinishRound
  BY <1>6, <1>8, StoppedType DEF FinishRound, Finished, TypeOK, streamVars, fileVars
<1>9. ASSUME NEW r \in Requests, Drop(r)
      PROVE  TypeOK'
  <2>1. waiting' \in Seq(Requests)
    BY <1>1, <1>9, RemoveAtType DEF Drop, TypeOK
  <2> QED BY <1>9, <2>1 DEF Drop, TypeOK, fileVars
<1>10. ASSUME NEW m \in {"nil", "err"}, NEW k \in BOOLEAN, Sending(m, k)
       PROVE  mon' \in MonitorType
  BY <1>3, <1>10, MonitorUpdates DEF Sending
<1>11. ASSUME NEW b \in BOOLEAN, Handled(b)
       PROVE  mon' \in MonitorType
  BY <1>3, <1>11, MonitorUpdates DEF Handled
<1>12. ASSUME NEW r \in Requests, Answer(r) \/ TimeOut(r) \/ StartFails(r)
       PROVE  TypeOK'
  <2>1. mon' \in MonitorType
    BY <1>10, <1>12 DEF Answer, TimeOut, StartFails
  <2> QED BY <1>12, <2>1 DEF Answer, TimeOut, StartFails, TypeOK, streamVars, fileVars, Happens
<1>13. ASSUME NEW r \in Requests, StartTranscode(r)
       PROVE  TypeOK'
  <2> DEFINE p == CHOOSE q \in {x \in Procs : proc[x].at = "free"} : TRUE
  <2>1. p \in Procs
    BY <1>13 DEF StartTranscode
  <2>2. req[r].idx \in Segs /\ req[r].idx - 1 \in -1..LastSeg
    BY SegmentsAssumption DEF TypeOK, RequestType, Segs
  <2>3. [Free EXCEPT !.at = "running", !.seg = req[r].idx, !.pos = req[r].idx - 1, !.asker = r]
          \in ProcessType
    BY <2>2, FreeType, ProcessUpdates
  <2>4. tp' \in Procs \cup {Nobody} /\ proc' \in [Procs -> ProcessType]
    BY <1>13, <2>1, <2>3 DEF StartTranscode, TypeOK
  <2>5. mon' \in MonitorType
    BY <1>11, <1>13 DEF StartTranscode
  <2>6. UNCHANGED <<faults, req, answer, waiting, known, last, idle, temp, final, holder, down>>
    BY <1>13 DEF StartTranscode, fileVars
  <2> QED BY <2>4, <2>5, <2>6 DEF TypeOK
<1>14. ASSUME NEW r \in Requests, Seek(r) \/ Pass(r)
       PROVE  TypeOK'
  <2>1. mon' \in MonitorType
    BY <1>3, <1>11, <1>14 DEF Seek, Pass
  <2> QED BY <1>14, <2>1, StoppedType DEF Seek, Pass, TypeOK, streamVars, fileVars
<1> QED BY <1>4, <1>5, <1>7, <1>8, <1>9, <1>12, <1>13, <1>14 DEF Monitor

LEMMA RequestStepType ==
  ASSUME TypeOK, NEW r \in Requests, Request(r)
  PROVE  TypeOK'
<1> USE DEF TypeOK, streamVars, fileVars
<1>1. 0 \in Segs /\ req[r] \in RequestType
  BY SegmentsAssumption DEF Segs
<1>2. ASSUME NEW at \in {"locking", "waiting", "serving", "leaving", "ended"}
      PROVE  /\ Over(r, at) => req' \in [Requests -> RequestType]
             /\ Become(r, at) => req' \in [Requests -> RequestType]
  BY <1>1, NoRequestType, RequestUpdates DEF Over, Become
<1>3. CASE Arrive(r)
  BY <1>2, <1>3 DEF Arrive, Happens
<1>4. CASE Enter(r)
  <2>1. waiting' \in Seq(Requests)
    BY <1>4, AppendProperties DEF Enter
  <2>2. \A s \in Segs : [req[r] EXCEPT !.at = "waiting", !.idx = s] \in RequestType
    BY <1>1, RequestUpdates
  <2>3. req' \in [Requests -> RequestType] /\ last' \in Segs
    BY <1>4, <2>2 DEF Enter
  <2> QED BY <1>4, <2>1, <2>3 DEF Enter
<1>5. CASE EnterLate(r)
  BY <1>2, <1>5 DEF EnterLate
<1>6. CASE Receive(r)
  <2>1. [req[r] EXCEPT !.at = "serving", !.late = FALSE] \in RequestType
    BY <1>1, RequestUpdates
  <2>2. req' \in [Requests -> RequestType]
    BY <1>2, <1>6, <2>1 DEF Receive
  <2> QED BY <1>6, <2>2 DEF Receive
<1>7. CASE Serve(r)
  BY <1>2, <1>7 DEF Serve
<1>8. CASE Leave(r)
  BY <1>2, <1>8 DEF Leave
<1>9. CASE Done(r)
  BY <1>2, <1>9 DEF Done
<1>10. CASE WaitTooLong(r)
  <2>1. [req[r] EXCEPT !.late = TRUE] \in RequestType
    BY <1>1, RequestUpdates
  <2>2. req' \in [Requests -> RequestType]
    BY <1>10, <2>1 DEF WaitTooLong
  <2> QED BY <1>10, <2>2 DEF WaitTooLong
<1> QED BY <1>3, <1>4, <1>5, <1>6, <1>7, <1>8, <1>9, <1>10 DEF Request

LEMMA TypeStep == TypeOK /\ RunInv /\ [Next]_vars => TypeOK'
<1> SUFFICES ASSUME TypeOK, RunInv, [Next]_vars
             PROVE  TypeOK'
  OBVIOUS
<1>1. \A p \in Procs : \A k \in {"no", "ctx", "stop"} : [proc[p] EXCEPT !.killed = k] \in ProcessType
  <2>1. ASSUME NEW p \in Procs, NEW k \in {"no", "ctx", "stop"}
        PROVE  [proc[p] EXCEPT !.killed = k] \in ProcessType
    <3>1. proc[p] \in ProcessType
      BY DEF TypeOK
    <3> QED BY <3>1 DEF ProcessType
  <2> QED BY <2>1
<1>2. CASE BecomeIdle
  <2>1. UNCHANGED <<faults, req, answer, waiting, known, last, tp, proc, temp, final, mon, holder, down>>
    BY <1>2 DEF BecomeIdle, fileVars
  <2>2. idle' \in BOOLEAN
    BY <1>2, Zenon DEF BecomeIdle
  <2> QED BY <2>1, <2>2 DEF TypeOK
<1>3. CASE CancelReadLocks
  <2>1. proc' \in [Procs -> ProcessType]
    BY <1>1, <1>3 DEF CancelReadLocks, TypeOK
  <2> QED BY <1>3, <2>1 DEF CancelReadLocks, TypeOK, streamVars, fileVars, Happens
<1>4. CASE Shutdown
  <2>1. proc' \in [Procs -> ProcessType]
    BY <1>1, <1>4 DEF Shutdown, TypeOK
  <2> QED BY <1>4, <2>1 DEF Shutdown, TypeOK, streamVars, fileVars
<1>5. CASE StopAndRemoveAll
  <2>1. temp' \in [Segs -> FileStates] /\ final' \in [Segs -> FileStates]
    BY <1>5 DEF StopAndRemoveAll, NoFiles, FileStates
  <2>2. answer' \in [Requests -> {"empty", "nil", "err", "canceled"}]
    BY <1>5 DEF StopAndRemoveAll, TypeOK
  <2>3. waiting' \in Seq(Requests) /\ tp' \in Procs \cup {Nobody} /\ down' = "done"
    BY <1>5 DEF StopAndRemoveAll
  <2>4. known' \in BOOLEAN
    BY <1>5, Zenon DEF StopAndRemoveAll
  <2>5. proc' \in [Procs -> ProcessType]
    BY <1>5, StoppedType DEF StopAndRemoveAll
  <2>6. UNCHANGED <<faults, req, last, idle, mon, holder>>
    BY <1>5 DEF StopAndRemoveAll
  <2> QED BY <2>1, <2>2, <2>3, <2>4, <2>5, <2>6 DEF TypeOK
<1>6. CASE UNCHANGED vars
  BY <1>6 DEF vars, TypeOK, streamVars, fileVars
<1> QED BY <1>2, <1>3, <1>4, <1>5, <1>6, ProcessStepType, MonitorStepType, RequestStepType DEF Next

-----------------------------------------------------------------------------
(* The processes and the mutex *)

(* No process starts, ends or is told anything but to end.                 *)
OnlyKilled ==
  \A q \in Procs :
    /\ proc'[q].at = proc[q].at /\ proc'[q].exit = proc[q].exit
    /\ proc'[q].seg = proc[q].seg /\ proc'[q].pos = proc[q].pos
    /\ proc[q].killed # "no" => proc'[q].killed # "no"

LEMMA StoppedOnlyKills ==
  ASSUME TypeOK, proc' = Stopped
  PROVE  /\ OnlyKilled
         /\ \A q \in Procs : q = tp /\ proc[q].at = "running" => proc'[q].killed # "no"
<1>1. ASSUME NEW q \in Procs
      PROVE  proc'[q] = IF q = tp /\ proc[q].at = "running"
                        THEN [proc[q] EXCEPT !.killed = "stop"] ELSE proc[q]
  BY DEF Stopped
<1>2. \A q \in Procs : proc[q] \in ProcessType
  BY DEF TypeOK
<1> QED BY <1>1, <1>2 DEF OnlyKilled, ProcessType

LEMMA CancelOnlyKills ==
  ASSUME TypeOK, CancelReadLocks \/ Shutdown
  PROVE  OnlyKilled
<1>1. ASSUME NEW q \in Procs
      PROVE  proc'[q] = IF proc[q].at = "running" /\ proc[q].killed = "no"
                        THEN [proc[q] EXCEPT !.killed = "ctx"] ELSE proc[q]
  BY DEF CancelReadLocks, Shutdown
<1>2. \A q \in Procs : proc[q] \in ProcessType
  BY DEF TypeOK
<1> QED BY <1>1, <1>2 DEF OnlyKilled, ProcessType

(* What a step of a process does to the processes.                         *)
LEMMA WriteUpdate ==
  ASSUME TypeOK, NEW p \in Procs, Write(p)
  PROVE  /\ \A q \in Procs :
              /\ proc'[q].at = proc[q].at /\ proc'[q].exit = proc[q].exit
              /\ proc'[q].seg = proc[q].seg /\ proc'[q].killed = proc[q].killed
              /\ q # p => proc'[q].pos = proc[q].pos
         /\ proc'[p].pos = proc[p].pos + 1
<1>1. \A q \in Procs : proc[q] \in ProcessType
  BY DEF TypeOK
<1>2. proc' = [proc EXCEPT ![p] = [proc[p] EXCEPT !.pos = proc[p].pos + 1]]
  BY DEF Write
<1>3. \A q \in Procs :
        proc'[q] = IF q = p THEN [proc[p] EXCEPT !.pos = proc[p].pos + 1] ELSE proc[q]
  BY <1>2 DEF TypeOK
<1> QED BY <1>1, <1>3 DEF ProcessType

LEMMA EndsUpdate ==
  ASSUME TypeOK, NEW p \in Procs, NEW exit \in {"ok", "failed"}, NEW err \in BOOLEAN,
         Ends(p, exit, err)
  PROVE  /\ \A q \in Procs : q # p => proc'[q] = proc[q]
         /\ proc'[p].at = "exited" /\ proc'[p].exit = exit /\ proc'[p].seg = proc[p].seg
<1> DEFINE x == [proc[p] EXCEPT !.at = "exited", !.exit = exit, !.err = err, !.pos = 0,
                                !.killed = "no"]
<1>1. proc[p] \in ProcessType
  BY DEF TypeOK
<1>2. x.at = "exited" /\ x.exit = exit /\ x.seg = proc[p].seg
  BY <1>1 DEF ProcessType
<1>3. proc' = [proc EXCEPT ![p] = x]
  BY Zenon DEF Ends
<1> HIDE DEF x
<1> QED BY <1>2, <1>3 DEF TypeOK

LEMMA CleanUpdate ==
  ASSUME TypeOK, NEW p \in Procs, Clean(p)
  PROVE  /\ \A q \in Procs : q # p => proc'[q] = proc[q]
         /\ proc'[p].at \in {"free", "telling"}
<1>1. CASE proc[p].err
  <2>1. proc' = [proc EXCEPT ![p] = [Free EXCEPT !.at = "telling", !.asker = proc[p].asker]]
    BY <1>1 DEF Clean
  <2> QED BY <2>1 DEF TypeOK, Free
<1>2. CASE ~proc[p].err
  <2>1. proc' = [proc EXCEPT ![p] = Free]
    BY <1>2 DEF Clean
  <2> QED BY <2>1 DEF TypeOK, Free
<1> QED BY <1>1, <1>2

LEMMA TellUpdate ==
  ASSUME TypeOK, NEW p \in Procs, Tell(p)
  PROVE  /\ \A q \in Procs : q # p => proc'[q] = proc[q]
         /\ proc'[p].at = "free" /\ proc[p].at = "telling"
BY DEF Tell, TypeOK, Free

(* ffmpeg starts when tp is nil, and then nobody else runs.                *)
LEMMA StartUpdate ==
  ASSUME TypeOK, NEW r \in Requests, StartTranscode(r)
  PROVE  /\ tp' \in Procs
         /\ \A q \in Procs : q # tp' => proc'[q] = proc[q]
         /\ proc'[tp'].at = "running" /\ proc'[tp'].exit = "none"
         /\ proc'[tp'].seg = req[r].idx /\ proc'[tp'].pos = req[r].idx - 1
<1> DEFINE p == CHOOSE q \in {x \in Procs : proc[x].at = "free"} : TRUE
           x == [Free EXCEPT !.at = "running", !.seg = req[r].idx, !.pos = req[r].idx - 1,
                             !.asker = r]
<1>1. p \in Procs
  BY DEF StartTranscode
<1>2. tp' = p /\ proc' = [proc EXCEPT ![p] = x]
  BY DEF StartTranscode
<1>3. x.at = "running" /\ x.exit = "none" /\ x.seg = req[r].idx /\ x.pos = req[r].idx - 1
  BY DEF Free
<1> HIDE DEF x, p
<1> QED BY <1>1, <1>2, <1>3 DEF TypeOK

(* Wake changes at most tp.segment.                                        *)
LEMMA WakeUpdate ==
  ASSUME TypeOK, Wake
  PROVE  \A q \in Procs :
           /\ proc'[q].at = proc[q].at /\ proc'[q].exit = proc[q].exit
           /\ proc'[q].pos = proc[q].pos /\ proc'[q].killed = proc[q].killed
           /\ proc'[q].seg = IF q = tp THEN Reached(tp) ELSE proc[q].seg
<1>1. \A q \in Procs : proc[q] \in ProcessType
  BY DEF TypeOK
<1>2. CASE tp = Nobody
  BY <1>2, NobodyAssumption DEF Wake
<1>3. CASE tp # Nobody
  <2>1. tp \in Procs /\ proc' = [proc EXCEPT ![tp] = [proc[tp] EXCEPT !.seg = Reached(tp)]]
    BY <1>3 DEF Wake, TypeOK
  <2>2. \A q \in Procs :
          proc'[q] = IF q = tp THEN [proc[tp] EXCEPT !.seg = Reached(tp)] ELSE proc[q]
    BY <2>1 DEF TypeOK
  <2> QED BY <1>1, <2>2 DEF ProcessType
<1> QED BY <1>2, <1>3

LEMMA RunInit == Init /\ NoLinger => RunInv
<1> SUFFICES ASSUME Init, NoLinger PROVE RunInv
  OBVIOUS
<1>1. \A p \in Procs : proc[p].at = "free"
  BY DEF Init, Free
<1> QED BY <1>1 DEF Init, RunInv, NoLinger, Alive, Asleep

(* Steps that leave the processes to themselves, or kill some of them.     *)
LEMMA RunOnlyKilled ==
  ASSUME TypeOK, RunInv, OnlyKilled,
         faults' \subseteq faults, holder' = holder, mon' = mon, tp' = tp, known' = known,
         waiting' = waiting \/ mon.at # "sending",
         down' = down \/ down' = "cancelling"
  PROVE  RunInv'
<1>1. \A p \in Procs : Alive(p)' <=> Alive(p)
  BY DEF OnlyKilled, Alive
<1>2. tp # Nobody => tp \in Procs
  BY DEF TypeOK
<1> QED BY <1>1, <1>2 DEF RunInv, OnlyKilled

LEMMA RunProcessStep ==
  ASSUME TypeOK, RunInv, NEW p \in Procs, Process(p)
  PROVE  RunInv'
<1> USE DEF Alive
<1>1. tp # Nobody => tp \in Procs
  BY DEF TypeOK
<1>2. CASE Write(p)
  <2>1. UNCHANGED <<faults, tp, known, waiting, mon, holder, down>>
    BY <1>2 DEF Write, streamVars
  <2> QED BY <1>1, <1>2, <2>1, WriteUpdate DEF RunInv
<1>3. ASSUME NEW exit \in {"ok", "failed"}, NEW err \in BOOLEAN, Ends(p, exit, err),
             faults' \subseteq faults, proc[p].at = "running"
      PROVE  RunInv'
  <2>1. UNCHANGED <<tp, known, waiting, mon, holder, down>>
    BY <1>3 DEF Ends, streamVars
  <2>2. /\ \A q \in Procs : q # p => proc'[q] = proc[q]
        /\ proc'[p].at = "exited" /\ proc'[p].exit = exit
    BY <1>3, EndsUpdate
  <2> QED BY <1>1, <1>3, <2>1, <2>2 DEF RunInv
<1>4. CASE Succeed(p)
  BY <1>3, <1>4 DEF Succeed, Happens
<1>5. CASE Fail(p)
  BY <1>3, <1>5 DEF Fail, Happens
<1>6. CASE Die(p)
  BY <1>3, <1>6 DEF Die, Happens
<1>7. CASE Clean(p)
  <2>1. UNCHANGED <<faults, known, waiting, mon, holder, down>> /\ holder = "none"
        /\ tp' = IF tp = p THEN Nobody ELSE tp
    BY <1>7 DEF Clean
  <2>2. /\ \A q \in Procs : q # p => proc'[q] = proc[q]
        /\ proc'[p].at \in {"free", "telling"}
    BY <1>7, CleanUpdate
  <2> QED BY <1>1, <2>1, <2>2 DEF RunInv
<1>8. CASE Tell(p)
  <2>1. UNCHANGED <<faults, tp, known, waiting, mon, holder, down>>
    BY <1>8 DEF Tell, streamVars
  <2>2. /\ \A q \in Procs : q # p => proc'[q] = proc[q]
        /\ proc'[p].at = "free" /\ proc[p].at = "telling"
    BY <1>8, TellUpdate
  <2> QED BY <1>1, <2>1, <2>2 DEF RunInv
<1> QED BY <1>2, <1>4, <1>5, <1>6, <1>7, <1>8 DEF Process

LEMMA RunMonitorStep ==
  ASSUME TypeOK, RunInv, Monitor
  PROVE  RunInv'
<1>1. tp # Nobody => tp \in Procs
  BY DEF TypeOK
<1>2. mon \in MonitorType
  BY DEF TypeOK
<1>3. CASE Wake
  <2>1. /\ UNCHANGED <<faults, tp, known, down>>
        /\ holder = "none" /\ holder' = "monitor" /\ mon'.at = "looking" /\ known
        /\ \A p \in Procs : Alive(p) => p = tp
    BY <1>3 DEF Wake, streamVars, Asleep, RunInv
  <2>2. \A p \in Procs : /\ proc'[p].at = proc[p].at /\ proc'[p].exit = proc[p].exit
                         /\ proc'[p].killed = proc[p].killed
    BY <1>3, WakeUpdate
  <2> QED BY <1>1, <2>1, <2>2 DEF RunInv, Alive
<1>4. CASE Send
  <2>1. /\ UNCHANGED <<faults, tp, known, proc, holder, down>>
        /\ mon'.at = "looking" /\ mon.at = "sending"
    BY <1>2, <1>4 DEF Send, MonitorType
  <2> QED BY <2>1 DEF RunInv, Alive
<1>5. CASE Expire
  <2>1. /\ UNCHANGED <<faults, down>> /\ OnlyKilled
        /\ tp' = Nobody /\ ~known' /\ holder' = "none"
        /\ mon'.at \in {"asleep", "gone"}
        /\ \A p \in Procs : p = tp /\ proc[p].at = "running" => proc'[p].killed # "no"
    BY <1>5, StoppedOnlyKills DEF Expire, Finished, Asleep
  <2> QED BY <2>1 DEF RunInv, Alive, OnlyKilled
<1>6. CASE FinishRound
  <2>1. /\ UNCHANGED <<faults, down, tp, known>> /\ OnlyKilled
        /\ holder' = "none"
        /\ mon'.at \in {"asleep", "gone"}
    BY <1>6, StoppedOnlyKills DEF FinishRound, Finished, Asleep, OnlyKilled, streamVars
  <2> QED BY <1>1, <2>1 DEF RunInv, Alive, OnlyKilled
<1>7. ASSUME NEW r \in Requests, Drop(r)
      PROVE  RunInv'
  <2>1. UNCHANGED <<faults, tp, known, proc, mon, holder, down>> /\ mon.at = "looking"
    BY <1>7 DEF Drop, Looking, fileVars
  <2> QED BY <2>1 DEF RunInv, Alive
<1>8. ASSUME NEW r \in Requests, Answer(r) \/ TimeOut(r) \/ StartFails(r)
      PROVE  RunInv'
  <2>1. UNCHANGED <<tp, known, waiting, proc, holder, down>> /\ faults' \subseteq faults
    BY <1>8 DEF Answer, TimeOut, StartFails, Happens, streamVars
  <2>2. mon.at = "looking" /\ mon.i <= Len(waiting)
    BY <1>8 DEF Answer, TimeOut, StartFails, Unanswered, Missing, Looking
  <2>3. mon'.at = "sending" /\ mon'.i = mon.i /\ mon'.msg # "none"
    BY <1>2, <1>8 DEF Answer, TimeOut, StartFails, Sending, MonitorType
  <2> QED BY <2>1, <2>2, <2>3 DEF RunInv, Alive
<1>9. ASSUME NEW r \in Requests, NEW b \in BOOLEAN, Looking(r), Handled(b)
      PROVE  mon.at = "looking" /\ mon'.at = "looking"
  BY <1>2, <1>9 DEF Looking, Handled, MonitorType
<1>10. ASSUME NEW r \in Requests, StartTranscode(r)
       PROVE  RunInv'
  <2>1. UNCHANGED <<faults, known, holder, down>> /\ tp = Nobody
    BY <1>10 DEF StartTranscode
  <2>2. mon.at = "looking" /\ mon'.at = "looking"
    BY <1>9, <1>10 DEF StartTranscode, Missing, Unanswered
  <2>3. \A q \in Procs : ~Alive(q)
    BY <2>1, <2>2, NobodyAssumption DEF RunInv
  <2>4. /\ tp' \in Procs
        /\ \A q \in Procs : q # tp' => proc'[q] = proc[q]
        /\ proc'[tp'].at = "running" /\ proc'[tp'].exit = "none"
    BY <1>10, StartUpdate
  <2>5. known /\ down # "done"
    BY <1>10, <2>2 DEF RunInv, StartTranscode
  <2> QED BY <2>1, <2>2, <2>3, <2>4, <2>5 DEF RunInv, Alive
<1>11. ASSUME NEW r \in Requests, Seek(r) \/ Pass(r)
       PROVE  RunInv'
  <2>1. UNCHANGED <<faults, tp, known, holder, down>> /\ OnlyKilled
    BY <1>11, StoppedOnlyKills DEF Seek, Pass, streamVars, OnlyKilled
  <2>2. mon.started \in BOOLEAN
    BY <1>2 DEF MonitorType
  <2>3. mon.at = "looking" /\ mon'.at = "looking"
    BY <1>9, <1>11, <2>2 DEF Seek, Pass, Missing, Unanswered
  <2> QED BY <1>1, <2>1, <2>3 DEF RunInv, Alive, OnlyKilled
<1> QED BY <1>3, <1>4, <1>5, <1>6, <1>7, <1>8, <1>10, <1>11 DEF Monitor

LEMMA RunRequestStep ==
  ASSUME TypeOK, RunInv, NEW r \in Requests, Request(r)
  PROVE  RunInv'
<1>1. CASE Enter(r)
  <2>1. /\ UNCHANGED <<faults, tp, proc, mon, holder, down>> /\ known' = TRUE
        /\ holder = "none" /\ down # "done"
    BY <1>1 DEF Enter
  <2> QED BY <2>1 DEF RunInv, Alive
<1>2. CASE EnterLate(r)
  <2>1. /\ UNCHANGED <<faults, tp, known, proc, mon, down>>
        /\ holder = "none" /\ holder' = "lost"
    BY <1>2 DEF EnterLate, streamVars
  <2> QED BY <2>1 DEF RunInv, Alive
<1>3. CASE ~Enter(r) /\ ~EnterLate(r)
  <2>1. UNCHANGED <<tp, known, waiting, proc, mon, holder, down>> /\ faults' \subseteq faults
    BY <1>3 DEF Request, Arrive, Receive, Serve, Leave, Done, WaitTooLong, streamVars, Happens
  <2> QED BY <2>1 DEF RunInv, Alive
<1> QED BY <1>1, <1>2, <1>3

LEMMA RunStep == TypeOK /\ RunInv /\ [Next]_vars => RunInv'
<1> SUFFICES ASSUME TypeOK, RunInv, [Next]_vars
             PROVE  RunInv'
  OBVIOUS
<1>1. CASE BecomeIdle \/ UNCHANGED vars
  BY <1>1, RunOnlyKilled DEF BecomeIdle, vars, streamVars, OnlyKilled
<1>2. CASE CancelReadLocks
  BY <1>2, CancelOnlyKills, RunOnlyKilled DEF CancelReadLocks, streamVars, Happens
<1>3. CASE Shutdown
  BY <1>3, CancelOnlyKills, RunOnlyKilled DEF Shutdown, streamVars
<1>4. CASE StopAndRemoveAll
  <2>1. /\ UNCHANGED <<faults, mon, holder>> /\ OnlyKilled
        /\ holder = "none" /\ tp' = Nobody /\ ~known'
        /\ \A p \in Procs : p = tp /\ proc[p].at = "running" => proc'[p].killed # "no"
    BY <1>4, StoppedOnlyKills DEF StopAndRemoveAll
  <2> QED BY <2>1 DEF RunInv, Alive, OnlyKilled
<1> QED BY <1>1, <1>2, <1>3, <1>4, RunProcessStep, RunMonitorStep, RunRequestStep DEF Next

-----------------------------------------------------------------------------
(* The files *)

LEMMA FileInit == Init => FileInv
<1> SUFFICES ASSUME Init PROVE FileInv
  OBVIOUS
<1>1. \A p \in Procs : proc[p].at = "free"
  BY DEF Init, Free
<1>2. tp = Nobody /\ down = "no"
  BY DEF Init
<1>3. \A s \in Segs : temp[s] = "none" /\ final[s] = "none"
  BY DEF Init, NoFiles
<1> QED BY <1>1, <1>2, <1>3
        DEF FileInv, FinalsWhole, UnfinishedLast, TempsProduced, NothingLeft, Alive

LEMMA FilesKept ==
  ASSUME TypeOK, RunInv, FileInv, OnlyKilled, tp' \in {tp, Nobody}, temp' = temp, final' = final,
         down' = "done" => down = "done"
  PROVE  FileInv'
<1>1. /\ \A p \in Procs : Alive(p)' <=> Alive(p)
      /\ \A p \in Procs : Produced(p)' = Produced(p)
  BY DEF OnlyKilled, Alive, Produced
<1>2. tp # Nobody => tp \in Procs
  BY DEF TypeOK
<1>3. FinalsWhole' /\ NothingLeft'
  BY DEF FileInv, FinalsWhole, NothingLeft, NoFiles
<1>4. UnfinishedLast'
  BY DEF FileInv, UnfinishedLast, OnlyKilled
<1>5. TempsProduced'
  BY <1>1, <1>2 DEF FileInv, TempsProduced, OnlyKilled
<1> QED BY <1>3, <1>4, <1>5 DEF FileInv

LEMMA FilesGone ==
  ASSUME TypeOK, OnlyKilled, tp' = Nobody, temp' = NoFiles, final' = NoFiles
  PROVE  FileInv'
<1>1. \A s \in Segs : temp'[s] = "none" /\ final'[s] = "none"
  BY DEF NoFiles
<1> QED BY <1>1 DEF FileInv, FinalsWhole, UnfinishedLast, TempsProduced, NothingLeft, NoFiles

(* Under a final name nothing is being written.                            *)
LEMMA FinalsNotWritten ==
  ASSUME TypeOK, FinalsWhole, NEW p \in Procs, NEW how
  PROVE  Rewritten(final, p, how) = final
<1>1. \A s \in Segs : final[s] # p
  BY FileStatesAssumption DEF FinalsWhole
<1> QED BY <1>1 DEF Rewritten, TypeOK

(* An unfinished temporary file is that of the process that is alive.      *)
LEMMA UnfinishedOfAlive ==
  ASSUME TypeOK, RunInv, FileInv, NEW p \in Procs, Alive(p),
         NEW s \in Segs, temp[s] \notin {"none", "whole"}
  PROVE  \/ temp[s] = p /\ proc[p].at = "running"
         \/ temp[s] = "cut" /\ proc[p].at = "exited" /\ proc[p].exit = "failed"
<1>1. PICK q \in Procs :
        \/ temp[s] = q /\ proc[q].at = "running"
        \/ temp[s] = "cut" /\ proc[q].at = "exited" /\ proc[q].exit = "failed"
  BY DEF FileInv, UnfinishedLast
<1>2. q = p
  BY <1>1 DEF RunInv, Alive
<1> QED BY <1>1, <1>2

(* A process that is neither killed nor forgotten is tp.                   *)
LEMMA WriterIsTp ==
  ASSUME TypeOK, RunInv, NEW p \in Procs, proc[p].at = "running", proc[p].killed = "no"
  PROVE  p = tp /\ tp # Nobody /\ down # "done"
<1>1. p = tp /\ p # Nobody
  BY NobodyAssumption DEF RunInv
<1> QED BY <1>1 DEF RunInv

LEMMA FilesWrite ==
  ASSUME TypeOK, RunInv, FileInv, NEW p \in Procs, Write(p)
  PROVE  FileInv'
<1>1. proc[p].at = "running" /\ proc[p].killed = "no" /\ Alive(p)
  BY DEF Write, Alive
<1>2. p = tp /\ tp # Nobody /\ down # "done" /\ tp' = tp /\ down' = down
  BY <1>1, WriterIsTp DEF Write, streamVars
<1>3. /\ proc[p].pos \in -1..LastSeg /\ proc[p].pos < LastSeg
      /\ proc[p].seg \in Segs /\ proc[p].pos + 1 \in Segs
  <2>1. proc[p] \in ProcessType
    BY DEF TypeOK
  <2> QED BY <2>1, SegmentsAssumption DEF Write, ProcessType, Segs
<1>4. final' = final
  BY FinalsNotWritten DEF Write, FileInv
<1>5. \A s \in Segs :
        temp'[s] = IF s = proc[p].pos + 1 THEN p ELSE IF temp[s] = p THEN "whole" ELSE temp[s]
  BY <1>3 DEF Write, Rewritten
<1>6. /\ \A q \in Procs : /\ proc'[q].at = proc[q].at /\ proc'[q].exit = proc[q].exit
                           /\ proc'[q].seg = proc[q].seg
      /\ proc'[p].pos = proc[p].pos + 1
      /\ \A q \in Procs : proc'[q].at = "running" => q = p
  BY <1>1, WriteUpdate DEF RunInv, Alive
<1>7. \A q \in Procs : Alive(q)' => q = p
  BY <1>1, <1>6 DEF RunInv, Alive
<1>8. FinalsWhole' /\ NothingLeft'
  BY <1>2, <1>4 DEF FileInv, FinalsWhole, NothingLeft
<1>9. p # "none" /\ p # "whole"
  BY FileStatesAssumption
<1>10. UnfinishedLast'
  <2> SUFFICES ASSUME NEW s \in Segs, temp'[s] \notin {"none", "whole"}
               PROVE  /\ s + 1 \in Segs => temp'[s + 1] = "none"
                      /\ temp'[s] = p /\ proc'[p].at = "running"
    BY DEF UnfinishedLast
  <2>1. s = proc[p].pos + 1
    BY <1>1, <1>5, UnfinishedOfAlive
  <2>2. s + 1 \in Segs => temp[s + 1] = "none"
    BY <1>1, <1>3, <2>1 DEF FileInv, TempsProduced, Segs
  <2> QED BY <1>1, <1>3, <1>5, <1>6, <1>9, <2>1, <2>2 DEF Segs
<1>11. \A s \in Segs : temp'[s] # "none" <=> s = proc[p].pos + 1 \/ temp[s] # "none"
  BY <1>5, <1>9
<1>12. /\ proc[p].seg <= proc[p].pos + 1
       /\ \A s \in Segs : proc[p].seg <= s /\ s <= proc[p].pos => temp[s] # "none"
       /\ \A s \in Segs : proc[p].pos < s => temp[s] = "none"
       /\ \A s \in Segs : temp[s] # "none" => s \in Produced(p)
  BY <1>1, <1>2 DEF FileInv, TempsProduced
<1>13. \A s \in Segs : temp'[s] # "none" => s \in Produced(p)'
  <2> SUFFICES ASSUME NEW s \in Segs, temp'[s] # "none"
               PROVE  s \in Produced(p)'
    OBVIOUS
  <2>1. CASE s = proc[p].pos + 1
    BY <1>3, <1>6, <1>11, <1>12, <2>1 DEF Produced, Segs
  <2>2. CASE temp[s] # "none"
    BY <1>6, <1>11, <1>12, <2>2 DEF Produced
  <2> QED BY <1>11, <2>1, <2>2
<1>14. TempsProduced'
  <2>1. Alive(p)'
    BY <1>1, <1>6 DEF Alive
  <2>2. \A s \in Segs : proc'[p].pos < s => temp'[s] = "none"
    BY <1>3, <1>6, <1>11, <1>12 DEF Segs
  <2>3. /\ proc'[p].seg <= proc'[p].pos + 1
        /\ \A s \in Segs : proc'[p].seg <= s /\ s <= proc'[p].pos => temp'[s] # "none"
    BY <1>3, <1>6, <1>11, <1>12 DEF Segs
  <2> QED BY <1>2, <1>6, <1>7, <1>13, <2>1, <2>2, <2>3 DEF TempsProduced
<1> QED BY <1>8, <1>10, <1>14 DEF FileInv

LEMMA FilesEnd ==
  ASSUME TypeOK, RunInv, FileInv, NEW p \in Procs, proc[p].at = "running",
         NEW exit \in {"ok", "failed"}, NEW err \in BOOLEAN, Ends(p, exit, err)
  PROVE  FileInv'
<1>1. Alive(p) /\ \A q \in Procs : Alive(q) => q = p
  BY DEF RunInv, Alive
<1>2. /\ \A q \in Procs : q # p => proc'[q] = proc[q]
      /\ proc'[p].at = "exited" /\ proc'[p].exit = exit /\ proc'[p].seg = proc[p].seg
  BY EndsUpdate
<1>3. /\ Alive(p)' /\ \A q \in Procs : Alive(q)' => q = p
      /\ \A q \in Procs : proc'[q].at # "running"
  BY <1>1, <1>2 DEF Alive
<1>4. tp' = tp /\ down' = down /\ (tp # Nobody => tp \in Procs)
  BY DEF Ends, streamVars, TypeOK
<1>5. final' = final
  BY FinalsNotWritten DEF Ends, FileInv
<1>6. \A s \in Segs :
        temp'[s] = IF temp[s] = p THEN IF exit = "ok" THEN "whole" ELSE "cut" ELSE temp[s]
  BY DEF Ends, Rewritten
<1>7. p # "none"
  BY FileStatesAssumption
<1>8. \A s \in Segs : temp'[s] = "none" <=> temp[s] = "none"
  BY <1>6, <1>7
<1>9. Produced(p)' = Produced(p)
  BY <1>2, <1>8 DEF Produced
<1>10. UnfinishedLast'
  <2> SUFFICES ASSUME NEW s \in Segs, temp'[s] \notin {"none", "whole"}
               PROVE  /\ s + 1 \in Segs => temp'[s + 1] = "none"
                      /\ temp'[s] = "cut" /\ exit = "failed"
    BY <1>2 DEF UnfinishedLast
  <2>1. temp[s] \notin {"none", "whole"}
    BY <1>6, <1>7, FileStatesAssumption
  <2>2. temp[s] = p
    BY <1>1, <2>1, UnfinishedOfAlive
  <2>3. s + 1 \in Segs => temp[s + 1] = "none"
    BY <2>1 DEF FileInv, UnfinishedLast
  <2> QED BY <1>6, <1>8, <2>2, <2>3
<1>11. TempsProduced'
  BY <1>1, <1>3, <1>4, <1>8, <1>9 DEF FileInv, TempsProduced
<1>12. NothingLeft'
  <2> SUFFICES ASSUME down = "done" PROVE temp' = NoFiles
    BY <1>4, <1>5 DEF NothingLeft, FileInv
  <2>1. \A s \in Segs : temp[s] = "none"
    BY DEF FileInv, NothingLeft, NoFiles
  <2> QED BY <1>7, <2>1 DEF Ends, Rewritten, NoFiles
<1>13. FinalsWhole'
  BY <1>5 DEF FileInv, FinalsWhole
<1> QED BY <1>10, <1>11, <1>12, <1>13 DEF FileInv

(* What checkSegments gives a final name is whole.                         *)
LEMMA RenamedWhole ==
  ASSUME TypeOK, RunInv, FileInv, NEW p \in Procs, Alive(p), CheckSegments(p)
  PROVE  FinalsWhole'
<1> SUFFICES ASSUME NEW s \in Segs, final[s] = "none", s \in Produced(p),
                    s + 1 \in Produced(p) \/ proc[p].exit = "ok"
             PROVE  temp[s] = "whole"
  BY DEF CheckSegments, FileInv, FinalsWhole
<1>1. temp[s] # "none" /\ (s + 1 \in Produced(p) => s + 1 \in Segs /\ temp[s + 1] # "none")
  <2>1. \A k \in Produced(p) : k \in Segs /\ proc[p].seg <= k /\ temp[k] # "none"
    BY DEF Produced, Segs
  <2> QED BY <2>1
<1>2. CASE temp[s] \notin {"none", "whole"}
  <2>1. proc[p].exit = "ok"
    BY <1>1, <1>2 DEF FileInv, UnfinishedLast
  <2> QED BY <1>2, <2>1, UnfinishedOfAlive DEF RunInv
<1> QED BY <1>1, <1>2

LEMMA FilesClean ==
  ASSUME TypeOK, RunInv, FileInv, NEW p \in Procs, Clean(p)
  PROVE  FileInv'
<1>1. /\ proc[p].at = "exited" /\ proc[p].exit # "none" /\ Alive(p)
      /\ \A q \in Procs : Alive(q) => q = p
      /\ CheckSegments(p)
  BY DEF Clean, RunInv, Alive
<1>2. \A s \in Segs : temp'[s] = "none"
  BY <1>1 DEF CheckSegments, FileInv, TempsProduced
<1>3. FinalsWhole'
  BY <1>1, RenamedWhole
<1>4. \A q \in Procs : ~Alive(q)'
  BY <1>1, CleanUpdate DEF Alive
<1>5. tp' # Nobody => tp' \in Procs
  BY DEF TypeOK, Clean
<1>6. UnfinishedLast' /\ TempsProduced'
  BY <1>2, <1>4, <1>5 DEF UnfinishedLast, TempsProduced, Alive
<1>7. NothingLeft'
  <2> SUFFICES ASSUME down = "done" PROVE temp' = NoFiles /\ final' = NoFiles
    BY DEF NothingLeft, Clean
  <2>1. \A s \in Segs : temp[s] = "none" /\ final[s] = "none"
    BY DEF FileInv, NothingLeft, NoFiles
  <2> QED BY <1>1, <2>1 DEF CheckSegments, NoFiles
<1> QED BY <1>3, <1>6, <1>7 DEF FileInv

LEMMA FilesWake ==
  ASSUME TypeOK, RunInv, FileInv, Wake
  PROVE  FileInv'
<1>1. UNCHANGED <<tp, down>> /\ known /\ down # "done"
  BY DEF Wake, streamVars, RunInv
<1>2. CASE tp = Nobody
  <2>1. temp' = temp /\ final' = final /\ proc' = proc
    BY <1>2 DEF Wake, fileVars
  <2> QED BY <1>1, <2>1, FilesKept DEF OnlyKilled
<1>3. CASE tp # Nobody
  <2>1. tp \in Procs /\ Alive(tp) /\ CheckSegments(tp) /\ \A q \in Procs : Alive(q) => q = tp
    BY <1>3 DEF Wake, TypeOK, RunInv
  <2>2. \A q \in Procs :
          /\ proc'[q].at = proc[q].at /\ proc'[q].exit = proc[q].exit
          /\ proc'[q].pos = proc[q].pos
          /\ proc'[q].seg = IF q = tp THEN Reached(tp) ELSE proc[q].seg
    BY WakeUpdate
  <2>3. FinalsWhole'
    BY <2>1, RenamedWhole
  <2>4. NothingLeft'
    BY <1>1 DEF NothingLeft
  <2>5. \A s \in Segs : temp'[s] = IF s \in Produced(tp) /\ (s + 1 \in Produced(tp)
                                                            \/ proc[tp].exit # "none")
                                   THEN "none" ELSE temp[s]
    BY <2>1 DEF CheckSegments
  <2>6. UnfinishedLast'
    BY <2>2, <2>5 DEF FileInv, UnfinishedLast
  <2>7. \A s \in Segs : temp[s] # "none" => s \in Produced(tp)
    BY <2>1 DEF FileInv, TempsProduced
  <2>8. CASE proc[tp].at = "exited"
    <3>1. \A s \in Segs : temp'[s] = "none"
      BY <2>1, <2>5, <2>7, <2>8 DEF RunInv
    <3>2. \A q \in Procs : proc'[q].at # "running"
      BY <2>1, <2>2, <2>8 DEF Alive
    <3>3. TempsProduced'
      BY <1>1, <2>1, <3>1, <3>2 DEF TempsProduced
    <3> QED BY <2>3, <2>4, <2>6, <3>3 DEF FileInv
  <2>9. CASE proc[tp].at = "running"
    <3> DEFINE seg == proc[tp].seg
               pos == proc[tp].pos
    <3>1. seg \in Segs /\ pos \in -1..LastSeg /\ proc[tp].exit = "none"
      <4>1. proc[tp] \in ProcessType
        BY <2>1 DEF TypeOK
      <4> QED BY <2>1, <2>9, <4>1 DEF ProcessType, RunInv
    <3>2. /\ seg <= pos + 1
          /\ \A s \in Segs : seg <= s /\ s <= pos => temp[s] # "none"
          /\ \A s \in Segs : pos < s => temp[s] = "none"
      BY <1>3, <2>1, <2>9 DEF FileInv, TempsProduced
    <3>3. Produced(tp) = {s \in Segs : seg <= s /\ s <= pos}
      <4>1. \A s \in Segs : s \in Produced(tp) <=> seg <= s /\ s <= pos
        BY <3>1, <3>2 DEF Produced, Segs
      <4> QED BY <4>1 DEF Produced
    <3>4. \A s \in Segs : temp'[s] # "none" <=> seg <= s /\ s = pos
      <4>1. \A s \in Segs : s + 1 \in Produced(tp) <=> seg <= s + 1 /\ s + 1 <= pos
        BY <3>1, <3>3, SegmentsAssumption DEF Segs
      <4> QED BY <2>5, <2>7, <3>1, <3>2, <3>3, <4>1 DEF Segs
    <3>5. Reached(tp) = IF seg <= pos THEN pos ELSE seg
      <4> DEFINE Latest == {s \in Produced(tp) : s + 1 \notin Produced(tp)}
      <4>1. ASSUME seg <= pos
            PROVE  \A s : s \in Latest <=> s = pos
        BY <3>1, <3>3, <4>1, SegmentsAssumption DEF Segs
      <4>2. ASSUME ~(seg <= pos)
            PROVE  Latest = {}
        BY <3>1, <3>3, <4>2 DEF Segs
      <4> QED BY <4>1, <4>2 DEF Reached
    <3>6. Produced(tp)' = {s \in Segs : s = pos /\ temp'[s] # "none"}
      <4>1. proc'[tp].seg = IF seg <= pos THEN pos ELSE seg
        BY <2>1, <2>2, <3>5
      <4>2. Produced(tp)' = {s \in Segs : proc'[tp].seg <= s /\ \A k \in Segs :
                               proc'[tp].seg <= k /\ k <= s => temp'[k] # "none"}
        BY <1>1 DEF Produced
      <4> QED BY <3>1, <3>4, <4>1, <4>2 DEF Segs
    <3>7. TempsProduced'
      <4>1. Alive(tp)' /\ \A q \in Procs : Alive(q)' => q = tp
        BY <1>1, <2>1, <2>2 DEF Alive
      <4>2. \A s \in Segs : temp'[s] # "none" => s \in Produced(tp)'
        BY <3>4, <3>6
      <4>3. \A s \in Segs : proc'[tp].pos < s => temp'[s] = "none"
        BY <2>1, <2>2, <3>1, <3>4 DEF Segs
      <4>4. /\ proc'[tp].seg <= proc'[tp].pos + 1
            /\ \A s \in Segs : proc'[tp].seg <= s /\ s <= proc'[tp].pos => temp'[s] # "none"
        BY <2>1, <2>2, <3>1, <3>2, <3>4, <3>5 DEF Segs
      <4> QED BY <1>1, <2>1, <4>1, <4>2, <4>3, <4>4 DEF TempsProduced, Alive
    <3> QED BY <2>3, <2>4, <2>6, <3>7 DEF FileInv
  <2> QED BY <2>1, <2>8, <2>9 DEF Alive
<1> QED BY <1>2, <1>3

LEMMA FilesStart ==
  ASSUME TypeOK, RunInv, FileInv, NEW r \in Requests, StartTranscode(r)
  PROVE  FileInv'
<1>1. UNCHANGED <<temp, final, down>> /\ tp = Nobody
  BY DEF StartTranscode, fileVars
<1>2. \A q \in Procs : ~Alive(q)
  BY <1>1, NobodyAssumption DEF StartTranscode, Missing, Unanswered, Looking, RunInv
<1>3. \A s \in Segs : temp[s] = "none"
  BY <1>2 DEF FileInv, TempsProduced
<1>4. /\ tp' \in Procs
      /\ \A q \in Procs : q # tp' => proc'[q] = proc[q]
      /\ proc'[tp'].seg = req[r].idx /\ proc'[tp'].pos = req[r].idx - 1
  BY StartUpdate
<1>5. req[r].idx \in Segs
  BY DEF TypeOK, RequestType
<1>6. FinalsWhole' /\ NothingLeft'
  BY <1>1 DEF FileInv, FinalsWhole, NothingLeft, NoFiles
<1>7. UnfinishedLast'
  BY <1>1, <1>3 DEF UnfinishedLast
<1>8. TempsProduced'
  BY <1>1, <1>3, <1>4, <1>5 DEF TempsProduced, Segs
<1> QED BY <1>6, <1>7, <1>8 DEF FileInv

LEMMA FileStep == TypeOK /\ RunInv /\ FileInv /\ [Next]_vars => FileInv'
<1> SUFFICES ASSUME TypeOK, RunInv, FileInv, [Next]_vars
             PROVE  FileInv'
  OBVIOUS
<1>1. CASE BecomeIdle \/ UNCHANGED vars
  BY <1>1, FilesKept DEF BecomeIdle, vars, streamVars, fileVars, OnlyKilled
<1>2. CASE CancelReadLocks
  BY <1>2, CancelOnlyKills, FilesKept DEF CancelReadLocks, streamVars, fileVars
<1>3. CASE Shutdown
  BY <1>3, CancelOnlyKills, FilesKept DEF Shutdown, streamVars, fileVars
<1>4. CASE StopAndRemoveAll
  BY <1>4, StoppedOnlyKills, FilesGone DEF StopAndRemoveAll
<1>5. ASSUME NEW p \in Procs, Process(p)
      PROVE  FileInv'
  <2>1. CASE Succeed(p) \/ Fail(p) \/ Die(p)
    BY <2>1, FilesEnd DEF Succeed, Fail, Die
  <2>2. CASE Tell(p)
    <3>1. UNCHANGED <<tp, temp, final, down>>
      BY <2>2 DEF Tell, streamVars, fileVars
    <3>2. /\ \A q \in Procs : q # p => proc'[q] = proc[q]
          /\ proc'[p].at = "free" /\ proc[p].at = "telling"
      BY <2>2, TellUpdate
    <3>3. \A q \in Procs : Alive(q)' => Alive(q) /\ q # p
      BY <3>2 DEF Alive
    <3>4. FinalsWhole' /\ NothingLeft'
      BY <3>1 DEF FileInv, FinalsWhole, NothingLeft, NoFiles
    <3>5. UnfinishedLast'
      BY <3>1, <3>2 DEF FileInv, UnfinishedLast
    <3>6. \A q \in Procs : q # p => Produced(q)' = Produced(q)
      BY <3>1, <3>2 DEF Produced
    <3>7. (\A q \in Procs : ~Alive(q)') => (\A q \in Procs : ~Alive(q))
      BY <3>2 DEF Alive
    <3>8. tp # Nobody => tp \in Procs
      BY DEF TypeOK
    <3>9. TempsProduced'
      BY <3>1, <3>2, <3>3, <3>6, <3>7, <3>8 DEF FileInv, TempsProduced
    <3> QED BY <3>4, <3>5, <3>9 DEF FileInv
  <2> QED BY <1>5, <2>1, <2>2, FilesWrite, FilesClean DEF Process
<1>6. ASSUME Monitor
      PROVE  FileInv'
  <2>1. CASE Expire
    BY <2>1, StoppedOnlyKills, FilesGone DEF Expire
  <2>2. CASE FinishRound
    <3>1. UNCHANGED <<tp, temp, final, down>> /\ OnlyKilled
      BY <2>2, StoppedOnlyKills DEF FinishRound, Finished, OnlyKilled, streamVars, fileVars
    <3> QED BY <3>1, FilesKept
  <2>3. CASE Send
    BY <2>3, FilesKept DEF Send, OnlyKilled, fileVars
  <2>4. ASSUME NEW r \in Requests,
               Drop(r) \/ Answer(r) \/ TimeOut(r) \/ StartFails(r) \/ Seek(r) \/ Pass(r)
        PROVE  FileInv'
    <3>1. UNCHANGED <<tp, temp, final, down>> /\ OnlyKilled
      BY <2>4, StoppedOnlyKills DEF Drop, Answer, TimeOut, StartFails, Seek, Pass, OnlyKilled,
                                    streamVars, fileVars
    <3> QED BY <3>1, FilesKept
  <2> QED BY <1>6, <2>1, <2>2, <2>3, <2>4, FilesWake, FilesStart DEF Monitor
<1>7. ASSUME NEW r \in Requests, Request(r)
      PROVE  FileInv'
  <2>1. UNCHANGED <<tp, temp, final, down, proc>>
    BY <1>7 DEF Request, Arrive, Enter, EnterLate, Receive, Serve, Leave, Done, WaitTooLong,
                streamVars, fileVars
  <2> QED BY <2>1, FilesKept DEF OnlyKilled
<1> QED BY <1>1, <1>2, <1>3, <1>4, <1>5, <1>6, <1>7 DEF Next

-----------------------------------------------------------------------------
(* Theorems *)

THEOREM Invariance == NoLinger /\ Spec => []StreamInv
<1>1. NoLinger /\ Init => StreamInv
  BY TypeInit, RunInit, FileInit DEF StreamInv
<1>2. StreamInv /\ [Next]_vars => StreamInv'
  BY TypeStep, RunStep, FileStep DEF StreamInv
<1> QED BY <1>1, <1>2, PTL DEF Spec

(* Every variable keeps its type.                                          *)
THEOREM StreamTypeCorrect == NoLinger /\ Spec => []TypeOK
<1>1. StreamInv => TypeOK
  BY DEF StreamInv
<1> QED BY <1>1, Invariance, PTL

(* Two processes never run in the directory of the stream, however         *)
(* requests seek, give up, fail and come again.                            *)
THEOREM OneTranscodeAtATime == NoLinger /\ Spec => []OneTranscode
<1>1. StreamInv => OneTranscode
  BY DEF StreamInv, RunInv, OneTranscode, Alive
<1> QED BY <1>1, Invariance, PTL

(* No client is sent a segment that is not whole.                          *)
THEOREM OnlyWholeServed == NoLinger /\ Spec => []ServedWhole
<1>1. StreamInv => ServedWhole
  BY DEF StreamInv, TypeOK, RequestType, FileInv, FinalsWhole, ServedWhole
<1> QED BY <1>1, Invariance, PTL

(* Once Shutdown is done no file is left, none comes back, and whatever    *)
(* still runs has been killed.                                             *)
THEOREM ShutdownLeavesNothing == NoLinger /\ Spec => []ShutdownCleans
<1>1. StreamInv => ShutdownCleans
  BY NobodyAssumption
     DEF StreamInv, RunInv, FileInv, NothingLeft, ShutdownCleans, Alive
<1> QED BY <1>1, Invariance, PTL
=============================================================================
