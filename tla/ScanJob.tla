------------------------------ MODULE ScanJob ------------------------------
(***************************************************************************)
(* The scan job of internal/manager/task_scan.go: a walker goroutine finds *)
(* the entries of the library and queues the files; the job goroutine      *)
(* takes them from the queue and starts a worker for each; a worker stores *)
(* its file and adds follow-up tasks (covers, phashes, previews) to the    *)
(* TaskQueue of the job.  Execute returns when all of them have ended.     *)
(*                                                                         *)
(* What a worker does in the database is one step, the commit; the files   *)
(* in a zip file are scanned inside of the step of the zip file.           *)
(***************************************************************************)
EXTENDS TaskQueue

CONSTANTS
  Files,         \* the files that are accepted for scanning
  Folders,       \* the directories
  Captions,      \* caption files, which only matter with their video
  Tree,          \* what SymWalk visits, in order
  FollowUps,     \* the tasks the scan of a file adds when the file is new
  VideoOf,       \* the video file a caption belongs to
  FileQueueSize  \* scanQueueSize

Entries == Files \cup Folders \cup Captions

ASSUME TreeAssumption ==
  /\ Tree \in Seq(Entries)
  /\ \A i, j \in DOMAIN Tree : Tree[i] = Tree[j] => i = j
ASSUME KindsAssumption ==
  Files \cap Folders = {} /\ Files \cap Captions = {} /\ Folders \cap Captions = {}
ASSUME FollowUpsAssumption ==
  /\ FollowUps \in [Files -> SUBSET Tasks]
  /\ \A f, g \in Files : FollowUps[f] \cap FollowUps[g] # {} => f = g
ASSUME VideoOfAssumption == VideoOf \in [Captions -> Files]
ASSUME FileQueueSizeAssumption == FileQueueSize \in Nat \ {0}

VARIABLES
  walk,      \* the entries SymWalk has yet to visit
  walker,    \* where the walker goroutine is
  fileQueue, \* ScanJob.fileQueue
  fileClosed, \* whether that channel is closed
  count,     \* ScanJob.count
  fileState, \* how far each file is
  toAdd,     \* the follow-ups its worker has yet to add
  stored,    \* the files the scan has put into the database
  unmatched, \* ScanJob.unmatchedCaptionFiles
  linked,    \* the captions recorded with their video
  execute    \* where the job goroutine (ScanJob.Execute) is

walkVars == <<walk, walker, count>>
fileVars == <<fileQueue, fileClosed, fileState, toAdd, stored>>
captionVars == <<unmatched, linked>>
vars == <<progressVars, taskVars, cancelled, walkVars, fileVars, captionVars, execute>>

FileStates == {"unseen", "queued", "held", "scanning", "following", "handled", "dropped"}

TypeOK ==
  /\ TaskTypeOK
  /\ walk \in Seq(Entries)
  /\ walker \in {"walking", "sending", "recording", "totalling", "done"}
  /\ fileQueue \in Seq(Files)
  /\ fileClosed \in BOOLEAN
  /\ count \in Nat
  /\ fileState \in [Files -> FileStates]
  /\ toAdd \in [Files -> SUBSET Tasks]
  /\ stored \subseteq Files
  /\ unmatched \subseteq Captions
  /\ linked \subseteq Captions
  /\ execute \in {"receiving", "holding", "waiting", "joining", "closing", "returned"}

Init ==
  /\ TaskInit
  /\ walk = Tree
  /\ walker = "walking"
  /\ fileQueue = <<>>
  /\ fileClosed = FALSE
  /\ count = 0
  /\ fileState = [f \in Files |-> "unseen"]
  /\ toAdd = [f \in Files |-> {}]
  /\ stored = {}
  /\ unmatched = {}
  /\ linked = {}
  /\ execute = "receiving"

Scanning == {f \in Files : fileState[f] \in {"scanning", "following"}}

-----------------------------------------------------------------------------
(* The walker goroutine: queueFiles *)

(* The callback of SymWalk looks at the context before each entry. *)
Visits(kind) ==
  /\ walker = "walking"
  /\ walk # <<>>
  /\ Head(walk) \in kind
  /\ ~cancelled

(* An entry that the filters reject or that cannot be read. *)
WalkSkips ==
  /\ Visits(Files \cup Folders)
  /\ walk' = Tail(walk)
  /\ UNCHANGED <<progressVars, taskVars, cancelled, walker, count, fileVars, captionVars, execute>>

(* A directory is handled at once, and counts as progress. *)
WalkFolder ==
  /\ Visits(Folders)
  /\ Increment
  /\ walk' = Tail(walk)
  /\ UNCHANGED <<taskVars, cancelled, walker, count, fileVars, captionVars, execute>>

WalkFile ==
  /\ Visits(Files)
  /\ walker' = "sending"
  /\ UNCHANGED <<progressVars, taskVars, cancelled, walk, count, fileVars, captionVars, execute>>

(* "j.fileQueue <- ff" blocks while the queue is full, cancelled or not. *)
WalkSends ==
  /\ walker = "sending"
  /\ Len(fileQueue) < FileQueueSize
  /\ fileQueue' = Append(fileQueue, Head(walk))
  /\ fileState' = [fileState EXCEPT ![Head(walk)] = "queued"]
  /\ count' = count + 1
  /\ walk' = Tail(walk)
  /\ walker' = "walking"
  /\ UNCHANGED <<progressVars, taskVars, cancelled, fileClosed, toAdd, stored, captionVars, execute>>

(* AssociateCaptions looks for the video of a caption in the database. *)
WalkCaption ==
  /\ Visits(Captions)
  /\ LET c == Head(walk)
     IN  IF VideoOf[c] \in stored
         THEN linked' = linked \cup {c} /\ walk' = Tail(walk) /\ UNCHANGED walker
         ELSE walker' = "recording" /\ UNCHANGED <<linked, walk>>
  /\ UNCHANGED <<progressVars, taskVars, cancelled, count, fileVars, unmatched, execute>>

(* A caption without a video is kept for the workers. *)
WalkRecords ==
  /\ walker = "recording"
  /\ unmatched' = unmatched \cup {Head(walk)}
  /\ walk' = Tail(walk)
  /\ walker' = "walking"
  /\ UNCHANGED <<progressVars, taskVars, cancelled, count, fileVars, linked, execute>>

(* The walk is over: at its end, when the job is cancelled, on an error of *)
(* the file system or a panic.  The deferred function closes the queue ... *)
WalkEnds ==
  /\ walker = "walking"
  /\ fileClosed' = TRUE
  /\ walker' = "totalling"
  /\ UNCHANGED <<progressVars, taskVars, cancelled, walk, count, fileQueue, fileState, toAdd,
                 stored, captionVars, execute>>

(* ... and then adds to the total what was queued, and makes it definite. *)
WalkTotals ==
  /\ walker = "totalling"
  /\ total' = total + count
  /\ defined' = TRUE
  /\ walker' = "done"
  /\ UNCHANGED <<processed, taskVars, cancelled, walk, count, fileVars, captionVars, execute>>

WalkerStep ==
  \/ WalkSkips \/ WalkFolder \/ WalkFile \/ WalkSends
  \/ WalkCaption \/ WalkRecords \/ WalkEnds \/ WalkTotals

-----------------------------------------------------------------------------
(* The job goroutine: processQueue, then Close of the TaskQueue *)

TakesFileStops == \* mutant: a cancelled job stops receiving
  /\ execute = "receiving"
  /\ fileQueue # <<>>
  /\ LET f == Head(fileQueue)
     IN  /\ execute' = IF cancelled THEN "waiting" ELSE "holding"
         /\ fileState' = [fileState EXCEPT ![f] = IF cancelled THEN "dropped" ELSE "held"]
  /\ fileQueue' = Tail(fileQueue)
  /\ UNCHANGED <<progressVars, taskVars, cancelled, walkVars, fileClosed, toAdd, stored, captionVars>>

(* Once cancelled it goes on receiving, so that the walker never blocks. *)
TakesFile ==
  /\ execute = "receiving"
  /\ fileQueue # <<>>
  /\ LET f == Head(fileQueue)
     IN  /\ execute' = IF cancelled THEN "receiving" ELSE "holding"
         /\ fileState' = [fileState EXCEPT ![f] = IF cancelled THEN "dropped" ELSE "held"]
  /\ fileQueue' = Tail(fileQueue)
  /\ UNCHANGED <<progressVars, taskVars, cancelled, walkVars, fileClosed, toAdd, stored, captionVars>>

(* wg.Add, with the same limit as the TaskQueue, and the worker's start. *)
StartsWorker ==
  /\ execute = "holding"
  /\ Cardinality(Scanning) < Processes
  /\ \E f \in Files :
       /\ fileState[f] = "held"
       /\ fileState' = [fileState EXCEPT ![f] = "scanning"]
  /\ execute' = "receiving"
  /\ UNCHANGED <<progressVars, taskVars, cancelled, walkVars, fileQueue, fileClosed, toAdd,
                 stored, captionVars>>

QueueEnds ==
  /\ execute = "receiving"
  /\ fileQueue = <<>>
  /\ fileClosed
  /\ execute' = "waiting"
  /\ UNCHANGED <<progressVars, taskVars, cancelled, walkVars, fileVars, captionVars>>

(* The wg.Wait of processQueue. *)
WorkersEnd ==
  /\ execute = "waiting"
  /\ Scanning = {}
  /\ execute' = "joining"
  /\ UNCHANGED <<progressVars, taskVars, cancelled, walkVars, fileVars, captionVars>>

(* The wg.Wait of runJob for the walker, and taskQueue.Close(). *)
ClosesTasks ==
  /\ execute = "joining"
  /\ walker = "done"
  /\ CloseTasks
  /\ execute' = "closing"
  /\ UNCHANGED <<progressVars, cancelled, walkVars, fileVars, captionVars>>

Returns ==
  /\ execute = "closing"
  /\ executer = "done"
  /\ execute' = "returned"
  /\ UNCHANGED <<progressVars, taskVars, cancelled, walkVars, fileVars, captionVars>>

JobStep ==
  \/ TakesFile \/ StartsWorker \/ QueueEnds \/ WorkersEnd \/ ClosesTasks \/ Returns

-----------------------------------------------------------------------------
(* The worker of a file: handleFile *)

(* The file fails, or it is known and unchanged: no handler runs. *)
WorkerPasses(f) ==
  /\ fileState[f] = "scanning"
  /\ fileState' = [fileState EXCEPT ![f] = "handled"]
  /\ Increment
  /\ UNCHANGED <<taskVars, cancelled, walkVars, fileQueue, fileClosed, toAdd, stored,
                 captionVars, execute>>

(* A new file is committed; the hook of the commit adds the follow-ups. *)
WorkerStores(f) ==
  /\ fileState[f] = "scanning"
  /\ fileState' = [fileState EXCEPT ![f] = "following"]
  /\ toAdd' = [toAdd EXCEPT ![f] = FollowUps[f]]
  /\ stored' = stored \cup {f}
  /\ UNCHANGED <<progressVars, taskVars, cancelled, walkVars, fileQueue, fileClosed,
                 captionVars, execute>>

(* progress.AddTotal(1) and taskQueue.Add, which may block. *)
WorkerAdds(f) ==
  /\ fileState[f] = "following"
  /\ \E t \in toAdd[f] :
       /\ AddTask(t)
       /\ toAdd' = [toAdd EXCEPT ![f] = @ \ {t}]
  /\ AddTotal(1)
  /\ UNCHANGED <<cancelled, walkVars, fileQueue, fileClosed, fileState, stored, captionVars, execute>>

WorkerEndsClearing(f) == \* mutant: the whole list of captions is cleared
  /\ fileState[f] = "following"
  /\ toAdd[f] = {}
  /\ fileState' = [fileState EXCEPT ![f] = "handled"]
  /\ linked' = linked \cup {c \in unmatched : VideoOf[c] = f}
  /\ unmatched' = {}
  /\ Increment
  /\ UNCHANGED <<taskVars, cancelled, walkVars, fileQueue, fileClosed, toAdd, stored, execute>>

(* A new video takes its captions from the unmatched ones. *)
WorkerEnds(f) ==
  /\ fileState[f] = "following"
  /\ toAdd[f] = {}
  /\ fileState' = [fileState EXCEPT ![f] = "handled"]
  /\ LET found == {c \in unmatched : VideoOf[c] = f}
     IN  /\ linked' = linked \cup found
         /\ unmatched' = unmatched \ found
  /\ Increment
  /\ UNCHANGED <<taskVars, cancelled, walkVars, fileQueue, fileClosed, toAdd, stored, execute>>

WorkerStep(f) == WorkerPasses(f) \/ WorkerStores(f) \/ WorkerAdds(f) \/ WorkerEnds(f)

-----------------------------------------------------------------------------

(* The goroutines of the TaskQueue. *)
ExecuterRuns ==
  /\ ExecuterStep
  /\ UNCHANGED <<progressVars, cancelled, walkVars, fileVars, captionVars, execute>>

TaskRuns(t) ==
  /\ TaskEnds(t)
  /\ UNCHANGED <<cancelled, walkVars, fileVars, captionVars, execute>>

Cancel ==
  /\ ~cancelled
  /\ execute # "returned"
  /\ cancelled' = TRUE
  /\ UNCHANGED <<progressVars, taskVars, walkVars, fileVars, captionVars, execute>>

Next ==
  \/ WalkerStep
  \/ JobStep
  \/ \E f \in Files : WorkerStep(f)
  \/ ExecuterRuns
  \/ \E t \in Tasks : TaskRuns(t)
  \/ Cancel

Spec == Init /\ [][Next]_vars

(* Each goroutine runs on, and what it calls returns. *)
Fairness ==
  /\ WF_vars(WalkerStep)
  /\ WF_vars(JobStep)
  /\ \A f \in Files : WF_vars(WorkerStep(f))
  /\ WF_vars(ExecuterRuns)
  /\ \A t \in Tasks : WF_vars(TaskRuns(t))

FairSpec == Spec /\ Fairness

-----------------------------------------------------------------------------
(* Properties *)

FilePhase ==
  [f \in Files |->
     CASE fileState[f] = "unseen" -> "out"
       [] fileState[f] \in {"queued", "held"} -> "in"
       [] fileState[f] \in {"scanning", "following"} -> "running"
       [] OTHER -> "over"]

FileDoor ==
  IF execute \in {"joining", "closing", "returned"} THEN "ended"
  ELSE IF fileClosed THEN "closed" ELSE "open"

FilePool == INSTANCE WorkerPool
  WITH Items <- Files, Limit <- Processes, phase <- FilePhase, door <- FileDoor

(* The file queue is a worker pool: every file is worked on once, by one   *)
(* of at most Processes workers, and processQueue does not return while    *)
(* one is queued or worked on, cancelled or not.                           *)
FilesAreAPool == FilePool!Spec

(* So is the TaskQueue, under this use of it: no task is added once Close  *)
(* was called (the send would panic), and Close waits for all of them.     *)
TasksAreAPool == TaskPool!Spec

(* A queue holds exactly the items marked queued, and each of them once. *)
Holds(queue, state, items) ==
  /\ \A x \in items :
       state[x] = "queued" <=> \E i \in DOMAIN queue : queue[i] = x
  /\ \A i, j \in DOMAIN queue : queue[i] = queue[j] => i = j

(* At most the item that its reader waits to start is held. *)
OneHeld(state, items, holding) ==
  \A x, y \in items :
    state[x] = "held" => holding /\ (state[y] = "held" => x = y)

(* How the goroutines agree on the file queue: only files not yet walked   *)
(* are sent, and the reader leaves when the walker has closed the queue    *)
(* and it is empty.                                                        *)
FileInv ==
  /\ Holds(fileQueue, fileState, Files)
  /\ OneHeld(fileState, Files, execute = "holding")
  /\ \A i \in DOMAIN walk : walk[i] \in Files => fileState[walk[i]] = "unseen"
  /\ \A i, j \in DOMAIN walk : walk[i] = walk[j] => i = j
  /\ walker = "sending" => walk # <<>> /\ Head(walk) \in Files
  /\ walker = "recording" => walk # <<>> /\ Head(walk) \in Captions
  /\ fileClosed <=> walker \in {"totalling", "done"}
  /\ execute \in {"waiting", "joining", "closing", "returned"} =>
       fileClosed /\ fileQueue = <<>>
  /\ execute \in {"joining", "closing", "returned"} => Scanning = {}

(* The same for the tasks: the TaskQueue is closed when no worker is left. *)
TaskInv ==
  /\ Holds(tasks, taskState, Tasks)
  /\ OneHeld(taskState, Tasks, executer = "holding")
  /\ closed <=> execute \in {"closing", "returned"}
  /\ executer \in {"waiting", "done"} => closed /\ tasks = <<>>
  /\ executer = "done" => Running = {}

(* What is not over yet is with some goroutine: follow-ups that were not   *)
(* added are still with the worker of their file.                          *)
WorkInv ==
  /\ ~cancelled => /\ \A f \in Files : fileState[f] # "dropped"
                   /\ \A t \in Tasks : taskState[t] # "dropped"
  /\ \A t \in Tasks : taskState[t] # "panicked"
  /\ \A f \in Files : toAdd[f] # {} => fileState[f] = "following"
  /\ \A f \in stored :
       /\ fileState[f] \in {"following", "handled"}
       /\ \A t \in FollowUps[f] : taskState[t] = "new" => t \in toAdd[f]
  /\ execute = "returned" => executer = "done"

(* The inductive invariant: the queues, the states of the items and the    *)
(* places of the goroutines agree.                                         *)
ScanInv == TypeOK /\ FileInv /\ TaskInv /\ WorkInv

(* A scan that returns without having been cancelled has handled every     *)
(* file the walker queued and run every task the workers added.            *)
NothingMissed ==
  execute = "returned" /\ ~cancelled =>
    /\ \A f \in Files : fileState[f] \in {"unseen", "handled"}
    /\ \A t \in Tasks :
         \/ taskState[t] = "finished"
         \/ \A f \in stored : t \notin FollowUps[f]

(* ... and its progress shows 100%, although directories count as done     *)
(* work but not as work, and Increment stops at the total.                 *)
EndsFull == execute = "returned" /\ ~cancelled /\ total > 0 => Full

(* A caption the walker has seen is recorded with its video or waits for   *)
(* it: the walker and the workers change the list at the same time.        *)
NoCaptionDropped ==
  \A c \in Captions :
    c \in Range(Tree) /\ c \notin Range(walk) => c \in linked \/ c \in unmatched

(* Execute returns, cancelled or not, with both queues at their limit.     *)
ScanReturns == <>(execute = "returned")

(* "if this is a new video file, match it with any unmatched caption       *)
(* files" (handleFile): no caption of a new video stays unmatched.         *)
CaptionsMatched ==
  execute = "returned" /\ ~cancelled => \A c \in unmatched : VideoOf[c] \notin stored
=============================================================================
