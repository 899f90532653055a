---------------------------- MODULE StreamManager ----------------------------
(***************************************************************************)
(* Live transcoding (pkg/ffmpeg/stream_segmented.go), for one stream: a    *)
(* video at one resolution, in a cache directory of its own.  Requests     *)
(* wait for segments, a monitor goroutine answers them and starts and      *)
(* stops ffmpeg, and a goroutine for each ffmpeg sees to its end.          *)
(*                                                                         *)
(* ffmpeg writes a segment under a temporary name; checkSegments renames   *)
(* it once the next one exists.  Time is left out: a wait may be too long  *)
(* and a stream may be idle at any moment.                                 *)
(***************************************************************************)
EXTENDS Integers, SequencesExt

CONSTANTS
  Requests,   \* the requests for segments
  Procs,      \* the ffmpeg processes that may exist at a time
  Nobody,     \* no process (a nil stream.tp), no request
  LastSeg,    \* lastSegment of the video
  Gap,        \* maxSegmentGap
  Buffer,     \* maxSegmentBuffer
  FaultCases  \* the sets of faults, one of which a behaviour is exposed to

AllFaults ==
  {"leave",    \* a client gives up
   "ffmpeg",   \* ffmpeg fails, or writes to stderr
   "start",    \* the directory cannot be made or ffmpeg not be started
   "race",     \* tp.cancelled is not seen by the goroutine of the process
   "delete",   \* the read locks of the video are cancelled
   "shutdown", \* the manager is shut down
   "late",     \* a request is made after that
   "linger"}   \* a forgotten ffmpeg outlives a round of the monitor

ASSUME SegmentsAssumption == LastSeg \in Nat /\ Gap \in Nat /\ Buffer \in Nat
ASSUME NobodyAssumption == Nobody \notin Procs
ASSUME FileStatesAssumption == Procs \cap {"none", "whole", "cut"} = {}
ASSUME FaultsAssumption == FaultCases \subseteq SUBSET AllFaults

VARIABLES
  faults,   \* the faults of this behaviour
  req,      \* the requests
  answer,   \* waitingSegment.available, a channel for one answer
  waiting,  \* runningStream.waitingSegments
  known,    \* whether the stream is in runningStreams
  last,     \* runningStream.lastSegment
  idle,     \* whether lastAccessed is longer ago than maxIdleTime
  tp,       \* runningStream.tp
  proc,     \* the processes, each with its transcodeProcess and goroutine
  temp,     \* the segment files under their temporary names
  final,    \* those under their final names
  mon,      \* where the monitor goroutine is
  holder,   \* who holds streamsMutex from one step to the next
  down      \* how far Shutdown is

streamVars == <<waiting, known, last, idle, tp>>
fileVars == <<temp, final>>
vars == <<faults, req, answer, streamVars, proc, fileVars, mon, holder, down>>

Segs == 0..LastSeg

(* A file is absent, whole, cut off, or being written by a process.        *)
FileStates == {"none", "whole", "cut"} \cup Procs

Free == [at |-> "free", seg |-> 0, pos |-> 0, killed |-> "no",
         exit |-> "none", err |-> FALSE, asker |-> Nobody]

NoRequest == [at |-> "ended", idx |-> 0, late |-> FALSE]

Asleep == [at |-> "asleep", i |-> 1, started |-> FALSE, msg |-> "none", keep |-> FALSE]

RequestType == [at : {"locking", "waiting", "serving", "leaving", "ended"},
                idx : Segs, late : BOOLEAN]

ProcessType ==
  [at : {"free", "running", "exited", "telling"}, seg : Segs, pos : -1..LastSeg,
   killed : {"no", "ctx", "stop"}, exit : {"none", "ok", "failed"}, err : BOOLEAN,
   asker : Requests \cup {Nobody}]

MonitorType ==
  [at : {"asleep", "looking", "sending", "gone"}, i : Nat \ {0},
   started : BOOLEAN, msg : {"none", "nil", "err"}, keep : BOOLEAN]

TypeOK ==
  /\ faults \subseteq AllFaults
  /\ req \in [Requests -> RequestType]
  /\ answer \in [Requests -> {"empty", "nil", "err", "canceled"}]
  /\ waiting \in Seq(Requests)
  /\ known \in BOOLEAN /\ idle \in BOOLEAN
  /\ last \in Segs
  /\ tp \in Procs \cup {Nobody}
  /\ proc \in [Procs -> ProcessType]
  /\ temp \in [Segs -> FileStates]
  /\ final \in [Segs -> FileStates]
  /\ mon \in MonitorType
  /\ holder \in {"none", "monitor", "lost"}
  /\ down \in {"no", "cancelling", "done"}

(* A failure happens once, and no other after it; clients may leave again  *)
(* and again.                                                              *)
Happens(f) == f \in faults /\ faults' = {}

NoFiles == [s \in Segs |-> "none"]

Init ==
  /\ faults \in FaultCases
  /\ req = [r \in Requests |-> NoRequest]
  /\ answer = [r \in Requests |-> "empty"]
  /\ waiting = <<>> /\ known = FALSE /\ last = 0 /\ idle = FALSE /\ tp = Nobody
  /\ proc = [p \in Procs |-> Free]
  /\ temp = NoFiles /\ final = NoFiles
  /\ mon = Asleep /\ holder = "none" /\ down = "no"

-----------------------------------------------------------------------------
(* ffmpeg and the files *)

Alive(p) == proc[p].at \in {"running", "exited"}

(* The temporary files of p from tp.segment on, up to the first gap.       *)
Produced(p) ==
  {s \in Segs : /\ proc[p].seg <= s
                /\ \A k \in Segs : proc[p].seg <= k /\ k <= s => temp[k] # "none"}

CheckSegmentsAny(p) == \* mutant: how ffmpeg exited does not matter
  LET Followed(s) == s + 1 \in Produced(p)
      Settled(s) == s \in Produced(p) /\ (Followed(s) \/ proc[p].exit # "none")
  IN /\ temp' = [s \in Segs |-> IF Settled(s) THEN "none" ELSE temp[s]]
     /\ final' = [s \in Segs |-> IF Settled(s) /\ final[s] = "none" THEN temp[s] ELSE final[s]]

(* A temporary file is complete once the next one exists; the last one is  *)
(* when ffmpeg has succeeded, and deleted when it has failed.  A segment   *)
(* that is there already is not replaced.                                  *)
CheckSegments(p) ==
  LET Followed(s) == s + 1 \in Produced(p)
      Settled(s) == s \in Produced(p) /\ (Followed(s) \/ proc[p].exit # "none")
      Complete(s) == s \in Produced(p) /\ (Followed(s) \/ proc[p].exit = "ok")
  IN /\ temp' = [s \in Segs |-> IF Settled(s) THEN "none" ELSE temp[s]]
     /\ final' = [s \in Segs |-> IF Complete(s) /\ final[s] = "none" THEN temp[s] ELSE final[s]]

(* tp.segment when checkSegments returns.                                  *)
Reached(p) ==
  LET Latest == {s \in Produced(p) : s + 1 \notin Produced(p)}
  IN IF Latest = {} THEN proc[p].seg ELSE CHOOSE s \in Latest : TRUE

Rewritten(f, p, how) == [s \in Segs |-> IF f[s] = p THEN how ELSE f[s]]

(* ffmpeg finishes a segment and opens the next one.                       *)
Write(p) ==
  /\ proc[p].at = "running" /\ proc[p].killed = "no"
  /\ proc[p].pos < LastSeg
  /\ temp' = [Rewritten(temp, p, "whole") EXCEPT ![proc[p].pos + 1] = p]
  /\ final' = Rewritten(final, p, "whole")
  /\ proc' = [proc EXCEPT ![p].pos = @ + 1]
  /\ UNCHANGED <<faults, req, answer, streamVars, mon, holder, down>>

Ends(p, exit, err) ==
  /\ temp' = Rewritten(temp, p, IF exit = "ok" THEN "whole" ELSE "cut")
  /\ final' = Rewritten(final, p, IF exit = "ok" THEN "whole" ELSE "cut")
  /\ proc' = [proc EXCEPT ![p] = [@ EXCEPT !.at = "exited", !.exit = exit, !.err = err,
                                   !.pos = 0, !.killed = "no"]] \* of no use any more
  /\ UNCHANGED <<req, answer, streamVars, mon, holder, down>>

(* cmd.Wait returns; whatever ffmpeg wrote to stderr is an error, unless   *)
(* the process was cancelled.                                              *)
Succeed(p) ==
  /\ proc[p].at = "running" /\ proc[p].killed = "no"
  /\ proc[p].pos = LastSeg
  /\ \/ Ends(p, "ok", FALSE) /\ UNCHANGED faults
     \/ Happens("ffmpeg") /\ Ends(p, "ok", TRUE)

Fail(p) ==
  /\ proc[p].at = "running" /\ proc[p].killed = "no"
  /\ Happens("ffmpeg")
  /\ Ends(p, "failed", TRUE)

(* A cancelled context kills the process.  stopTranscode sets tp.cancelled *)
(* after that, and the goroutine reads it without the mutex.               *)
Die(p) ==
  /\ proc[p].at = "running" /\ proc[p].killed # "no"
  /\ \/ proc[p].killed = "ctx" /\ Ends(p, "failed", TRUE) /\ UNCHANGED faults
     \/ proc[p].killed = "stop" /\ Ends(p, "failed", FALSE) /\ UNCHANGED faults
     \/ proc[p].killed = "stop" /\ Happens("race") /\ Ends(p, "failed", TRUE)

(* The goroutine of the process locks the mutex.                           *)
Clean(p) ==
  /\ proc[p].at = "exited"
  /\ holder = "none"
  /\ CheckSegments(p)
  /\ tp' = IF tp = p THEN Nobody ELSE tp
  /\ proc' = [proc EXCEPT ![p] =
       IF proc[p].err THEN [Free EXCEPT !.at = "telling", !.asker = proc[p].asker] ELSE Free]
  /\ UNCHANGED <<faults, req, answer, waiting, known, last, idle, mon, holder, down>>

(* "done <- err", after the mutex is given back.  When the channel is full *)
(* and nobody will receive from it the goroutine is left there for good.   *)
Tell(p) ==
  LET r == proc[p].asker IN
  /\ proc[p].at = "telling"
  /\ \/ /\ answer[r] = "empty"
        /\ answer' = [answer EXCEPT ![r] = "err"]
     \/ /\ answer[r] # "empty" /\ req[r].at # "waiting"
        /\ UNCHANGED answer
  /\ proc' = [proc EXCEPT ![p] = Free]
  /\ UNCHANGED <<faults, req, streamVars, fileVars, mon, holder, down>>

(* ReadLockManager.Cancel, of a deletion.                                  *)
CancelReadLocks ==
  /\ Happens("delete")
  /\ \E p \in Procs : proc[p].at = "running" /\ proc[p].killed = "no"
  /\ proc' = [p \in Procs |->
       IF proc[p].at = "running" /\ proc[p].killed = "no"
       THEN [proc[p] EXCEPT !.killed = "ctx"] ELSE proc[p]]
  /\ UNCHANGED <<req, answer, streamVars, fileVars, mon, holder, down>>

-----------------------------------------------------------------------------
(* The monitor: monitorStreams, under the mutex from Wake to Finish *)

(* A request that comes to the mutex when it is free has it at once: one   *)
(* that comes with the monitor stands for one that comes right after it.   *)
(* A forgotten process is gone by the next round, unless it lingers.       *)
Wake ==
  /\ mon.at = "asleep"
  /\ holder = "none" /\ known
  /\ \A r \in Requests : req[r].at # "locking"
  /\ "linger" \in faults \/ \A p \in Procs : Alive(p) => p = tp
  /\ holder' = "monitor"
  /\ mon' = [Asleep EXCEPT !.at = "looking"]
  /\ IF tp = Nobody THEN UNCHANGED <<fileVars, proc>>
     ELSE /\ CheckSegments(tp)
          /\ proc' = [proc EXCEPT ![tp].seg = Reached(tp)]
  /\ UNCHANGED <<faults, req, answer, streamVars, down>>

Looking(r) ==
  /\ mon.at = "looking" /\ mon.i <= Len(waiting)
  /\ r = waiting[mon.i]

Sending(msg, keep) == mon' = [mon EXCEPT !.at = "sending", !.msg = msg, !.keep = keep]

Handled(started) == mon' = [mon EXCEPT !.i = @ + 1, !.started = started]

Stopped == \* stopTranscode
  [p \in Procs |-> IF p = tp /\ proc[p].at = "running"
                   THEN [proc[p] EXCEPT !.killed = "stop"] ELSE proc[p]]

Available(r) == final[req[r].idx] # "none"

Drop(r) ==
  /\ Looking(r)
  /\ req[r].at = "ended"
  /\ waiting' = RemoveAt(waiting, mon.i)
  /\ UNCHANGED <<faults, req, answer, known, last, idle, tp, proc, fileVars, mon, holder, down>>

Answer(r) ==
  /\ Looking(r)
  /\ req[r].at # "ended"
  /\ Available(r)
  /\ Sending("nil", FALSE)
  /\ UNCHANGED <<faults, req, answer, streamVars, proc, fileVars, holder, down>>

Unanswered(r) == Looking(r) /\ req[r].at # "ended" /\ ~Available(r)

TimeOutUntold(r) == \* mutant: the request is dropped without an answer
  /\ Unanswered(r) /\ req[r].late
  /\ waiting' = RemoveAt(waiting, mon.i)
  /\ UNCHANGED <<faults, req, answer, known, last, idle, tp, proc, fileVars, mon, holder, down>>

TimeOut(r) ==
  /\ Unanswered(r) /\ req[r].late
  /\ Sending("err", FALSE)
  /\ UNCHANGED <<faults, req, answer, streamVars, proc, fileVars, holder, down>>

(* Neither there nor too late.                                             *)
Missing(r) == Unanswered(r) /\ ~req[r].late

(* startTranscode; its error is sent under the mutex too.                  *)
StartFails(r) ==
  /\ Missing(r) /\ ~mon.started /\ tp = Nobody
  /\ Happens("start") \/ (down # "no" /\ UNCHANGED faults)
  /\ Sending("err", TRUE)
  /\ UNCHANGED <<req, answer, streamVars, proc, fileVars, holder, down>>

StartTranscode(r) ==
  LET FreeProcs == {p \in Procs : proc[p].at = "free"}
      p == CHOOSE q \in FreeProcs : TRUE IN
  /\ Missing(r) /\ ~mon.started /\ tp = Nobody
  /\ down = "no"
  /\ FreeProcs # {}
  /\ tp' = p
  /\ proc' = [proc EXCEPT ![p] = [Free EXCEPT !.at = "running", !.seg = req[r].idx,
                                    !.pos = req[r].idx - 1, !.asker = r]]
  /\ Handled(TRUE)
  /\ UNCHANGED <<faults, req, answer, waiting, known, last, idle, fileVars, holder, down>>

Far(r) == req[r].idx < proc[tp].seg \/ proc[tp].seg + Gap < req[r].idx

SeekAtOnce(r) == \* mutant: the next process is started before the last has ended
  LET FreeProcs == {p \in Procs : proc[p].at = "free"}
      p == CHOOSE q \in FreeProcs : TRUE IN
  /\ Missing(r) /\ ~mon.started /\ tp # Nobody
  /\ Far(r)
  /\ FreeProcs # {}
  /\ tp' = p
  /\ proc' = [Stopped EXCEPT ![p] = [Free EXCEPT !.at = "running", !.seg = req[r].idx,
                                       !.pos = req[r].idx - 1, !.asker = r]]
  /\ Handled(TRUE)
  /\ UNCHANGED <<faults, req, answer, waiting, known, last, idle, fileVars, holder, down>>

(* ensureTranscode, of a segment ffmpeg will not come to soon.             *)
Seek(r) ==
  /\ Missing(r) /\ ~mon.started /\ tp # Nobody
  /\ Far(r)
  /\ proc' = Stopped
  /\ Handled(TRUE)
  /\ UNCHANGED <<faults, req, answer, streamVars, fileVars, holder, down>>

Pass(r) ==
  /\ Missing(r)
  /\ mon.started \/ (tp # Nobody /\ ~Far(r))
  /\ Handled(mon.started)
  /\ UNCHANGED <<faults, req, answer, streamVars, proc, fileVars, holder, down>>

(* The send waits for room in the channel, with the mutex held.            *)
Send ==
  /\ mon.at = "sending"
  /\ LET r == waiting[mon.i] IN
       /\ answer[r] = "empty"
       /\ answer' = [answer EXCEPT ![r] = mon.msg]
  /\ waiting' = IF mon.keep THEN waiting ELSE RemoveAt(waiting, mon.i)
  /\ mon' = [mon EXCEPT !.at = "looking", !.msg = "none", !.keep = FALSE,
               !.i = IF mon.keep THEN @ + 1 ELSE @,
               !.started = @ \/ mon.keep]
  /\ UNCHANGED <<faults, req, known, last, idle, tp, proc, fileVars, holder, down>>

BufferFull ==
  \A s \in last..(last + Buffer - 1) : s \in Segs /\ final[s] # "none"

(* The loop of the monitor ends when it finds its context cancelled.       *)
Finished ==
  /\ mon.at = "looking" /\ mon.i > Len(waiting)
  /\ mon' = IF down = "no" THEN Asleep ELSE [Asleep EXCEPT !.at = "gone"]
  /\ holder' = "none"
  /\ UNCHANGED <<faults, req, answer, down>>

Expired == waiting = <<>> /\ idle

ExpireOnly == \* mutant: the stream is forgotten, and ffmpeg goes on
  /\ Finished
  /\ ~mon.started /\ Expired
  /\ temp' = NoFiles /\ final' = NoFiles
  /\ known' = FALSE /\ tp' = Nobody
  /\ UNCHANGED <<waiting, last, idle, proc>>

(* checkTranscode *)
Expire ==
  /\ Finished
  /\ ~mon.started /\ Expired
  /\ proc' = Stopped
  /\ temp' = NoFiles /\ final' = NoFiles
  /\ known' = FALSE /\ tp' = Nobody
  /\ UNCHANGED <<waiting, last, idle>>

FinishRound ==
  /\ Finished
  /\ mon.started \/ ~Expired
  /\ proc' = IF ~mon.started /\ tp # Nobody /\ BufferFull THEN Stopped ELSE proc
  /\ UNCHANGED <<streamVars, fileVars>>

-----------------------------------------------------------------------------
(* The requests: ServeSegment and serveWaitingSegment *)

Become(r, at) == req' = [req EXCEPT ![r].at = at]

(* Its segment and its age are of no use any more.                         *)
Over(r, at) == req' = [req EXCEPT ![r] = [NoRequest EXCEPT !.at = at]]

(* A new request, once nothing refers to the last one any more.            *)
Arrive(r) ==
  /\ req[r].at = "ended"
  /\ r \notin ToSet(waiting)
  /\ \A p \in Procs : proc[p].asker # r
  /\ (down = "no" /\ UNCHANGED faults) \/ (down # "no" /\ Happens("late"))
  /\ Become(r, "locking")
  /\ answer' = [answer EXCEPT ![r] = "empty"]
  /\ UNCHANGED <<streamVars, proc, fileVars, mon, holder, down>>

Enter(r) ==
  /\ req[r].at = "locking"
  /\ holder = "none" /\ down # "done"
  /\ \E s \in Segs :
       /\ req' = [req EXCEPT ![r].at = "waiting", ![r].idx = s]
       /\ last' = s
  /\ known' = TRUE
  /\ idle' = FALSE
  /\ waiting' = Append(waiting, r)
  /\ UNCHANGED <<faults, answer, tp, proc, fileVars, mon, holder, down>>

(* The map is nil: the handler panics, and the mutex is never given back.  *)
EnterLate(r) ==
  /\ req[r].at = "locking"
  /\ holder = "none" /\ down = "done"
  /\ Over(r, "ended")
  /\ holder' = "lost"
  /\ UNCHANGED <<faults, answer, streamVars, proc, fileVars, mon, down>>

Receive(r) ==
  /\ req[r].at = "waiting"
  /\ answer[r] # "empty"
  /\ IF answer[r] = "nil"
     THEN req' = [req EXCEPT ![r].at = "serving", ![r].late = FALSE]
     ELSE Over(r, "leaving")
  /\ answer' = [answer EXCEPT ![r] = "empty"]
  /\ UNCHANGED <<faults, streamVars, proc, fileVars, mon, holder, down>>

Serve(r) ==
  /\ req[r].at = "serving"
  /\ Over(r, "ended")
  /\ UNCHANGED <<faults, answer, streamVars, proc, fileVars, mon, holder, down>>

(* The context of the request ends; an answer may be in the channel.       *)
Leave(r) ==
  /\ "leave" \in faults
  /\ req[r].at = "waiting"
  /\ Over(r, "leaving")
  /\ UNCHANGED <<faults, answer, streamVars, proc, fileVars, mon, holder, down>>

Done(r) ==
  /\ req[r].at = "leaving"
  /\ Over(r, "ended")
  /\ UNCHANGED <<faults, answer, streamVars, proc, fileVars, mon, holder, down>>

(* maxSegmentWait and maxIdleTime pass.                                    *)
WaitTooLong(r) ==
  /\ req[r].at = "waiting" /\ ~req[r].late
  /\ req' = [req EXCEPT ![r].late = TRUE]
  /\ UNCHANGED <<faults, answer, streamVars, proc, fileVars, mon, holder, down>>

BecomeIdle ==
  /\ known /\ ~idle
  /\ idle' = TRUE
  /\ UNCHANGED <<faults, req, answer, waiting, known, last, tp, proc, fileVars, mon, holder, down>>

-----------------------------------------------------------------------------
(* The end of the manager *)

(* Shutdown cancels the context first, which kills every process.          *)
Shutdown ==
  /\ "shutdown" \in faults
  /\ down = "no"
  /\ \A r \in Requests : req[r].at # "locking" \* it would be late
  /\ down' = "cancelling"
  /\ proc' = [p \in Procs |->
       IF proc[p].at = "running" /\ proc[p].killed = "no"
       THEN [proc[p] EXCEPT !.killed = "ctx"] ELSE proc[p]]
  /\ UNCHANGED <<faults, req, answer, streamVars, fileVars, mon, holder>>

StopKeepsFiles == \* mutant: the files are left to the goroutines
  /\ down = "cancelling"
  /\ holder = "none"
  /\ down' = "done"
  /\ answer' = [r \in Requests |->
       IF r \in ToSet(waiting) /\ answer[r] = "empty" THEN "canceled" ELSE answer[r]]
  /\ proc' = Stopped
  /\ waiting' = <<>> /\ known' = FALSE /\ tp' = Nobody
  /\ UNCHANGED <<faults, req, last, idle, fileVars, mon, holder>>

StopAndRemoveAll ==
  /\ down = "cancelling"
  /\ holder = "none"
  /\ down' = "done"
  /\ answer' = [r \in Requests |->
       IF r \in ToSet(waiting) /\ answer[r] = "empty" THEN "canceled" ELSE answer[r]]
  /\ proc' = Stopped
  /\ temp' = NoFiles /\ final' = NoFiles
  /\ waiting' = <<>> /\ known' = FALSE /\ tp' = Nobody
  /\ UNCHANGED <<faults, req, last, idle, mon, holder>>

-----------------------------------------------------------------------------

Process(p) == Write(p) \/ Succeed(p) \/ Fail(p) \/ Die(p) \/ Clean(p) \/ Tell(p)

Monitor ==
  \/ Wake \/ Send \/ Expire \/ FinishRound
  \/ \E r \in Requests :
       Drop(r) \/ Answer(r) \/ TimeOut(r) \/ StartFails(r) \/ Seek(r) \/ Pass(r)
  \/ \E r \in Requests : StartTranscode(r)

Request(r) ==
  \/ Arrive(r) \/ Enter(r) \/ EnterLate(r) \/ Receive(r) \/ Serve(r)
  \/ Leave(r) \/ Done(r) \/ WaitTooLong(r)

Next ==
  \/ \E p \in Procs : Process(p)
  \/ Monitor
  \/ \E r \in Requests : Request(r)
  \/ BecomeIdle \/ CancelReadLocks \/ Shutdown \/ StopAndRemoveAll

Spec == Init /\ [][Next]_vars

(* The monitor and the handlers run on, and time passes.  A killed process *)
(* ends, but ffmpeg need not make progress.  The goroutine of a process    *)
(* competes with the monitor for the mutex, which is fair in Go, hence     *)
(* strong fairness.                                                        *)
Fairness ==
  /\ WF_vars(Monitor)
  /\ WF_vars(BecomeIdle)
  /\ WF_vars(StopAndRemoveAll)
  /\ SF_vars(\E p \in Procs : Die(p) \/ Clean(p) \/ Tell(p))
  /\ \A r \in Requests :
       WF_vars(Enter(r) \/ EnterLate(r) \/ WaitTooLong(r) \/ Receive(r) \/ Serve(r) \/ Done(r))

FairSpec == Spec /\ Fairness

-----------------------------------------------------------------------------
(* Properties *)

(* "checkSegments renames temp segments that have been completely          *)
(* generated": no client is sent a segment that ffmpeg is still writing or *)
(* was stopped in the middle of.                                           *)
ServedWhole ==
  \A r \in Requests :
    req[r].at = "serving" => final[req[r].idx] \in {"none", "whole"}

(* A transcode is restarted "only after the old process exits": never do   *)
(* two processes run in the directory of the stream.                       *)
OneTranscode ==
  \A p, q \in Procs : proc[p].at = "running" /\ proc[q].at = "running" => p = q

(* Every request ends, with a segment, an error or no answer: it gets the  *)
(* mutex, for the monitor (which "runs every monitorInterval") is not      *)
(* blocked for good by a send, and no waiting segment is forgotten.        *)
EveryRequestEnds == \A r \in Requests : []<>(req[r].at = "ended")

(* When the clients have gone, ffmpeg does not go on for nobody.           *)
TranscodeStops ==
  <>[](\A r \in Requests : req[r].at = "ended")
    => <>[](\A p \in Procs : proc[p].at # "running")

(* Shutdown kills "any running transcoding processes", and no file of the  *)
(* cache is left behind, whatever the goroutines of the processes still do.*)
ShutdownCleans ==
  down = "done" =>
    /\ temp = NoFiles /\ final = NoFiles
    /\ \A p \in Procs : proc[p].at = "running" => proc[p].killed # "no"
=============================================================================
