# TLA+ specifications of Stash

Stash is an organiser for a library of videos and images: a Go server with a
GraphQL API, an SQLite database, a queue of background jobs (scan, clean,
generate, ...), and a web client. This directory models the parts of the server
whose correctness rests on the order of steps: the job manager, transactions,
the deletion of objects together with their files, the scan job, how the
scanner and the clean job keep the database in step with the disk, live
transcoding, the hierarchies of tags and groups, the read locks of files, and
the DLNA service. The modules are checked with TLC on small instances, and the
results that matter most are proved with TLAPS for every value of the constants.

All source lines below are relative to `src/`. `PROJECT.json` gives the lines
every definition stands for.

## 1. Inventory

### How the parts interact

    GraphQL resolvers --Add/Cancel--> job.Manager --runs--> jobs (scan, clean, generate, ...)
          |                                |                   |
          |                                +--channels--> job subscriptions
          |                                                    |
          +------------ txn.WithTxn ---------------------------+--> SQLite (one writer)
          |                                                    |
          +------------ file.Deleter (mark, then remove or restore) --> file system
          |                                                    |
          +--segments--> ffmpeg.StreamManager --> ffmpeg ------+ (cache directory)

A client's request runs in its own goroutine, under a context that ends when
the client disconnects. A mutation either works at once, inside one
transaction, or adds a job. One dispatcher goroutine runs the jobs one after
another; a job runs under a context of its own, which `CancelJob` cancels.
Everything that writes goes through the one write connection of the database,
and what belongs outside of a transaction (removing files, adding follow-up
tasks, plugin hooks) is registered as a hook that runs after it.

### Components with state

**Job manager** (`pkg/job/manager.go`, `job.go`, `subscribe.go`). State: the
queue, the graveyard of the last ten ended jobs, each job's status, context and
progress, the list of subscriptions with three buffered channels each. All under
one mutex with a condition variable, except `Job.error`, which takes none.
Operations: Add, Start, CancelJob, CancelAll, Stop, Subscribe, and the
dispatcher, one executing goroutine per job, the throttle timers of the progress
updates. Hard: the condition variable is signalled in one place only; a slice is
walked while it is changed; a job may be removed from two sides; timers outlive
jobs. Correct if: one job at a time, in order; no lost wakeup; every queued job
leaves the queue; what a subscriber is told is true and final.

**Transactions** (`pkg/txn/transaction.go`, `hooks.go`, `pkg/sqlite/transaction.go`,
`database.go`). State: the transaction of each call, whether its context has
ended, the hooks. Operations: WithTxn, begin, commit, rollback, hooks on either
outcome. Hard: `database/sql` rolls a transaction back on its own when its
context ends; panics; a commit that fails; waiting for the only connection.
Correct if: an error means that nothing was written, nil means that all was; the
connection is given back on every path; every call returns.

**File deletion** (`pkg/file/delete.go`, the destroy resolvers in
`internal/api`, the clean hooks in `internal/manager/task_clean.go`). State: the
rows, the place of each file, the lists of the Deleter. Operations: mark a file
(rename it to `.delete`, or move it to the trash), and after the transaction
remove or restore what was marked. Hard: two stores without a common commit, a
crash at any step, the failed commit, two requests for one object. Correct if:
no file is removed while its row stays; on an error every file is back.

**Scan job** (`internal/manager/task_scan.go`, `pkg/job/task.go`, `progress.go`).
State: the file queue (a channel), a bounded group of workers, the TaskQueue for
follow-up tasks (another channel and group), progress counters, the list of
captions without video. Operations: walk, queue, scan a file, add a task, run a
task, close, cancel. Hard: two bounded channels in a row, four kinds of
goroutines that end in any order, cancellation that must drain and not stop.
Correct if: nothing queued is missed; Execute returns, cancelled or not; nobody
sends into a closed channel; no caption is dropped.

**Scanner** (`pkg/file/scan.go`, `folder_rename_detect.go`, the handlers in
`pkg/scene/scan.go` and beside it). State: the rows of
files and folders, a cache of folder IDs. Operations: new, renamed, changed and
unchanged files and folders. Hard: parallel workers look at the database and the
disk outside of the transaction they write in. Correct if: after a scan each file
on the disk has one row with its fingerprint, and a moved file keeps its row.

**Clean job** (`pkg/file/clean.go`). Decides in one read transaction what to
delete, deletes in many later ones. Correct if: only rows whose file is gone are
deleted, in an order the foreign keys allow.

**Mover** (`pkg/file/move.go`). Renames files inside a transaction and renames
them back in its rollback hook.

**Live transcoding** (`pkg/ffmpeg/stream_segmented.go`, `stream.go`). State: the
running streams, each with its waiting requests, its ffmpeg process and the
segment files in its cache directory. Operations: a request for a segment, the
rounds of the monitor (answer, time out, start, seek, stop, expire), the
goroutine that waits for ffmpeg, Shutdown. Hard: the monitor sends into channels
of one place with the mutex held, a process is told to end long before it has,
clients leave at any moment. Correct if: nobody is served part of a segment; one
ffmpeg writes into a directory; every request ends; ffmpeg does not run for
nobody; Shutdown leaves nothing.

**Read locks** (`pkg/fsutil/lock_manager.go`). State: per file a slice of lock
contexts, some with an ffmpeg process. Operations: ReadLock, the goroutine that
removes a lock whose context has ended, AttachCommand, and Cancel, by which a
deletion cancels all readers. Hard: Cancel walks over the slice after it gave
back the mutex, while removals move elements down in the same array and appends
fill it. Correct if: the list holds the locks that are held, each once; Cancel
reaches all of them (it does not).

**DLNA service** (`internal/dlna/service.go`, `activity.go`, the start and end of
the server in `dms.go`). State: whether it runs, a timer to start and one to
stop, the server, the play sessions of clients. Operations: Start and Stop, each
with a duration for the opposite; a request for a video; the monitor that saves
sessions without requests. Hard: timers whose calls come late, a Stop that takes
over the sessions while the monitor saves some and old connections add more, a
server that is closed before it has begun. Correct if: each session is saved
once; Stop returns; a duration ends.

**Tags** (`pkg/tag`, `pkg/sqlite/tag.go`, the tag resolvers). State: names, aliases
and relations between parents and children, in three tables. Operations: create,
update, update in bulk, destroy, merge. Hard: uniqueness across two tables and a
cycle over any number of rows, checked before the writes; a bulk update checks
each tag against what it has written for the ones before. Correct if: a name or
alias leads to one tag; the hierarchy has no cycle.

**Groups** (`pkg/group`, `pkg/sqlite/group_relationships.go`, the group resolvers).
State: which groups contain which, with an order index. Operations: create,
update, update in bulk, destroy, and add, remove and reorder sub-groups. Hard:
the same as for tags, and positions that have gaps, are shifted one call at a
time and are found by number. Correct if: no group contains itself; sub-groups
are where they were put.

**Blob store** (`pkg/sqlite/blob.go`, `blob/fs.go`). Covers and other blobs, in
the database or in files shared by checksum, with one Deleter for all callers.

**Small concurrent parts**: scan subscriptions (`internal/manager/subscribe.go`),
single-use downloads (`downloads.go`).

### The rest

Generate and the other jobs are loops over what the scan job's queue and the
transactions already provide. Scrapers, plugins, ffmpeg wrappers, HTTP, import
and export are input and output or sequential conversion. The configuration is a
map behind one lock. Schema migrations run alone. The web client is out of
scope. `PROJECT.json` lists each with its reason.

## 2. Plan

In the order of importance to the user's data and to the server's availability:

| # | modules | abstract specification | state |
|---|---------|------------------------|-------|
| 1 | JobManager, JobManagerProofs | JobLifecycle | done |
| 2 | Txn, TxnProofs | TxnContract | done |
| 3 | SafeDelete (over Txn), SafeDeleteProofs | invariant between rows and files | done |
| 4 | Progress, TaskQueue, ScanJob (over both), ScanJobProofs | WorkerPool, twice | done |
| 5 | Scanner, Cleaner (over it), CleanerProofs | the library settles on what the disk holds | done for files and scenes |
| 6 | StreamManager, StreamProofs | every request ends, and gets whole segments | done for one stream |
| 7 | Hierarchy, Tags and Groups (over it), CatalogProofs | names are unique, hierarchies have no cycle | done |
| 8 | ReadLocks, PartsProofs | the list of a file holds what is held | done |
| 9 | Dlna, PartsProofs | each session is saved once | done without the protocol |
| 10 | Mover and blob store, over Txn and SafeDelete | files follow rows | planned |
| 11 | small channels: scan subscriptions, downloads | | planned |

Every safety property that a run checks is proved. Later on the Scanner: folders
and their renames with the cache of folder IDs, and zip files, with their theorems.

## 3. The modules

Each component has a module with its state and actions, an `MC` module with the
small sets TLC uses, one `.cfg` per question and a `Proofs` module. Definitions
marked `\* mutant` are altered versions of the action after them: replacing the
action by its mutant makes a property fail, which shows that the property
depends on that piece of code.

### JobManager (implements JobLifecycle)

| TLA+ | code |
|------|------|
| `queue`, `graveyard`, `lastID`, `status` | the fields of `Manager` and `Job`; a job is its ID |
| `exec` | where `executeJob` is: executing, errored (between `j.error` and the deferred calls), panicked, done |
| `dpc`, `djob` | the dispatcher: in `notEmpty.Wait`, woken, waiting for `done` |
| `sweep` | the loop of `CancelAll`: the slice it ranges over, and its index; the mutex is held |
| `timers`, `timerSet`, `progress`, `published` | `updater`: outstanding `time.AfterFunc`s, `updateTimer`, the progress set and the last one sent |
| `subs`, `chan` | subscriptions and their channels; `Post` is the non-blocking send |

An action is one critical section of `Manager.mutex`. `DispatcherReaps` covers
the removal of the ended job and the search for the next, which the code does
without giving the mutex back. `ShiftedView` is what `append(q[:i], q[i+1:]...)`
does to an array someone is ranging over. `ExecError` needs no mutex, because
`Job.error` takes none; `AfterCancel` therefore allows the write of a concurrent
`cancel` to win over FAILED.

### Txn (implements TxnContract)

`pc` is the place in `withTxn`, `tx` the `sql.Tx`, `ctxDone` the ended
contexts. `FnReturns` fixes the result: `withTxn` has an unnamed result, so the
error of `Commit`, assigned to `err` in the deferred function, never reaches the
caller. `ContextRollsBack` is the goroutine of `database/sql` that waits for the
context. `Faults` selects what may go wrong. `TxnContract` says what a caller can
rely on: its work is done as a whole or not at all, an error means not at all,
and nil means done, unless a commit may fail (`CommitMayFail`, here: contexts end
or SQLite fails); then nil may come before the work is lost. `Txn` implements it
with every fault, by `effect` and `report` as functions of `tx`, `pc` and `result`.

### SafeDelete (extends Txn)

Adds rows, files and Deleters. `Mark` is `renameForDelete` with its
bookkeeping. `EndsWell` and `EndsBadly` are what a resolver does after `WithTxn`
and what the clean job has as hooks. `RemoveOne` and `RestoreOne` are one round
of the loops in `Commit` and `Rollback`. `Crash` ends every running call. Each
caller has the Deleter `DeleterOf` gives it, and `TrashPath` says which Deleters have
a trash. Callers may share objects. FilesFollowRows does not say that files and rows
agree when all is over, for the code does not keep that: it says in which cases they
differ. `CommitLost` is a caller that was told nil though its commit failed;
`Stranded` a generated file that a Deleter with a trash has marked; and a file may
be back without its row when a second caller of the same object, which found the
row too, failed. `MCTransactions` puts the calls of Txn alone and the deletions over
them into one instance.

### Progress, TaskQueue, ScanJob

`Progress` has the three counters; each method is one step. `TaskQueue` is the
channel `tasks`, the executer goroutine and the tasks it starts. `ScanJob`
composes both with the walker (`queueFiles`), the receiver (`processQueue`) and
the workers (`handleFile`). `WorkerPool` is what a queue with bounded workers
promises; the file queue and the task queue are both shown to implement it, by
`INSTANCE ... WITH`.

### Scanner, Cleaner

| TLA+ | code |
|------|------|
| `disk`, `library` | the file at each path; the paths that the scan and the clean filter accept |
| `rows` | the table `files` with its fingerprints: path, modification time, fingerprint |
| `scenes` | `scenes` joined with `scenes_files`: the files of a scene, and its primary one |
| `job`, `pending` | which of the two jobs runs (the job manager runs one at a time); what the walk has yet to visit |
| `work` | the worker of each path: how far `ScanFile` has come, the modification time it was given, the fingerprint it calculated, the row it found |
| `toAssess`, `toDelete` | the rows the read transaction of the clean job fixed; `deleteSet` |

An action is what `ScanFile` does between two points where others may come in:
the queries (`LookUp`), reading the file (`Reads`), the search for a missing file
with the same fingerprint (`Matches`), and the transaction with the handler
(`Creates`, `Renames`, `Updates`, `HandlesAgain`). `Handle` is
`scene.ScanHandler.Handle`. `DeleteFile` is one transaction of the clean job with
`handleRelatedScenes` (`LosesFile`). What users do to the disk, to the library
paths and to scenes, what fails and what is cancelled comes from `Disturb`, which
counts; `calm` tells whether the present job has been left alone so far.

### StreamManager

| TLA+ | code |
|------|------|
| `req`, `answer` | the goroutine of each `ServeSegment`; `waitingSegment.available`, a channel of one place |
| `waiting`, `known`, `last`, `idle`, `tp` | the fields of the one `runningStream`, and whether it is in `runningStreams` |
| `proc` | each `transcodeProcess` with its ffmpeg and the goroutine that waits for it |
| `temp`, `final` | the segment files, under ffmpeg's name and under the one that is served: none, whole, cut, or still written by a process |
| `mon`, `holder` | the monitor's place in the loop over waiting segments; who holds `streamsMutex` |
| `down` | how far `Shutdown` is |
| `faults` | what may go wrong in this behaviour |

The monitor holds the mutex from `Wake` to `Finished`; its steps are the
iterations of `monitorStreams` over the waiting segments (`Drop`, `Answer`,
`TimeOut`, `StartTranscode`, `Seek`, `Pass`) and then `checkTranscode` (`Expire`,
`FinishRound`). `Sending` to `Send` is the send into the channel, which may block.
`Die`, `Clean` and `Tell` are the goroutine of a process: `cmd.Wait`, its work
under the mutex, and the error it sends to the request it was started for.

### Hierarchy, Tags, Groups

`Hierarchy` is what the recursive queries compute, by closed sets instead of
recursion, so that it can be proved about. `Tags` has one variable for the three
tables and one for the bulk update under way, with the database to which a
rollback returns. `Groups` has `order[c][s]`, the order index of a sub-group, 0
for no row, and `call` for what works through a list: a bulk update or a
reordering, one `UpdateNext` or `ReorderNext` for each element, then
`CallReturns` or, with everything undone, `CallFails`. A mutation is one
transaction on the only write connection, so that nothing else happens in
between (Txn), and one that fails without a list is no step at all. In `MCCatalog` a
behaviour is about tags, about groups or about deletions (SafeDelete): they share no
table and no mutation.

### ReadLocks

| TLA+ | code |
|------|------|
| `array`, `len` | `readLocks[fn]`: the array behind the slice, and the length |
| `lock` | the context of each lock: new, held, ended, removed from the list |
| `attached` | the locks with a `cmd` |
| `walk` | each call of `Cancel`: the length of the slice it read, its index, and, once the list has moved to a larger array, the array it walks over (`own`) |

`WaitAndUnlock` is `append(locks[:i], locks[i+1:]...)` in place; `ReadLock` writes into
the array as long as it has room and else makes one of twice the size.
`CancelNext` is one round of the loop: `LockContext.Cancel`, which may wait for the
process (`StopWaiting`). `had` and `kept` are for the properties only.

### Dlna

| TLA+ | code |
|------|------|
| `running`, `startTimer`, `stopTimer` | the fields of `Service`; a timer that has fired or was stopped but is not nil is "over" |
| `due` | timers that have fired and whose call waits for the mutex |
| `stop` | the `Stop` that has the mutex: it waits for the monitor, saves sessions, closes the server, or is stuck in that |
| `server` | the goroutine of `Serve`: launched, has made `closed`, has made `ssdpStopped` |
| `monitor`, `cancelled`, `sessions`, `expired`, `rest` | `ActivityTracker` with its goroutine; what the monitor and `Stop` have taken out and not yet saved |
| `linked` | clients whose connection is open: `Close` ends the listener and not the connections |

`begun` and `ended` count the sessions of each client and scene for
SessionsSavedOnce. `MCCleaner` puts Cleaner, ReadLocks and Dlna, which share no
state, into one instance; a behaviour is about one of the three. `PartsProofs` has
the proofs for the last two, each about its own specification.

### What is abstracted

- In Scanner one value stands for what a file contains: for its modification time
  where the code compares times, for its fingerprints where it compares those. A
  change that keeps the modification time escapes the code by design; `Noticeable`
  excludes it, so ChangesShow is about the order in which the scanner takes the
  time and reads the contents. Folders, zip files, images, galleries, paths that
  are equal without case or under another normalization, forced rescans and
  missing metadata are left out. The query for files with the same fingerprint
  and the calls of Lstat on what it returned are one step, as are FindByPath and
  the question whether the handler is needed. IDs of deleted rows are given
  out again, which keeps the instance finite; a clean job and a scan never
  overlap, so no ID is held across a deletion. The walk visits in any order.

- A row has one file; which files belong to an object is not modelled. Renames
  and removals of the Deleter succeed, except that marking may fail (the body of
  the transaction then fails).
- The Retryer and the pre-commit and post-complete hooks of `pkg/txn` have no
  user that matters here and are left out; read transactions do not compete for
  the write connection and are left out.
- In ScanJob a worker's database work is one step, its commit; the entries of a
  zip file belong to the step of the zip file. `AddTotal` with `Add`, and
  `AddTotal` with `Definite`, are one step each: between the two calls nothing
  that a property tells apart can happen. The sequential scan of one path,
  where tasks run in the worker, and the list of task names shown with the
  progress are not modelled, nor is the check for cancellation at the very start
  of `Execute`.
- In StreamManager there is one stream and no init segments, manifests or second
  manager (`RefreshStreamManager`). Time is left out: a wait may be too long and a
  stream idle at any moment. A killed ffmpeg ends, and one that the stream has
  forgotten is gone by the monitor's next round, unless the fault `linger` is
  chosen. The monitor's `checkSegments` is one step. A failure happens once in a
  behaviour; clients leave again and again. The monitor's round waits for
  requests that stand at the mutex. A crash is left out.
- In Tags a name stands for all its spellings, as the tables compare them. Images,
  stash IDs, custom fields and the objects that carry a tag are left out, and
  with them the destruction that fails because a marker has the tag as its
  primary one. In Groups descriptions, scenes and images are left out.
- In ReadLocks there is one file; files share only the mutex. A process is attached
  at any moment, ends at any moment, and a wait for it may end without it (5
  seconds, or another goroutine that waits for it too).
- In Dlna the interfaces are found or not found only where it matters (a Start by
  the timer); how much of a session counts as watched, failed saves (nothing is
  tried again), Status, the whitelist and the protocol are left out. The tracker is
  enabled: else no session begins.
- The unsynchronised appends to the list of unmatched captions are under a mutex
  in the code and single steps in the model.

## 4. What is checked

| run | instance | distinct states | question |
|-----|----------|-----------------|----------|
| job_queue | 3 jobs, CancelJob and CancelAll, fairness | 2,486 | no lost wakeup, every job leaves, refinement of JobLifecycle (one at a time, in order) |
| job_clients | 2 jobs, Start and Stop, 1 subscriber, channels of 1, 2 updates | 2,994,177 | removal is final and told once, no update is lost or sent after removal, a job ends as its Execute went |
| job_cancel_all_skips | 3 jobs | violation | does CancelAll cancel all? |
| job_stop_goes_on | 2 jobs, Stop | violation | is no job run once Stop was called? |
| transactions | 3 callers, all faults, fairness; or deletions: 2 callers sharing an item, 3 items of which 2 generated, one trash, all faults, fairness | 38,067 | the connection is given back, every call returns, refinement of TxnContract (an error means undone); on an error nothing is lost, no mark stays but the stranded ones, how files and rows differ in the end |
| locks_cancel_skips | 3 readers, 1 Cancel | violation | does Cancel cancel all? |
| delete_commit_lost | 1 caller, ended contexts | violation | can a file go while its row stays? |
| scan | 3 files, 1 directory, 1 caption, 3 tasks, both queues of 1, 2 workers, fairness | 155,238 | nothing missed, both queues are pools, progress ends full, Execute returns |
| scan_caption | the same | violation | is every caption of a new video matched? |
| library | 3 paths, two of them copies, 2 contents, 2 changes or failures, fairness; or read locks: 3 readers, 1 Cancel; or DLNA: 2 clients, 2 sessions each | 243,379 | tables agree, changes show, moved files keep rows, copies share a scene, a clean job is exact, scenes outlive files, rescans settle; the list of locks is exact, two readers are cancelled; each session is saved once |
| streams | 2 requests, 2 segments, room for 2 ffmpeg processes, one kind of trouble per behaviour, fairness | 607,811 | whole segments only, one ffmpeg, requests end, ffmpeg stops, Shutdown leaves nothing |
| catalog | 3 tags and 3 names; or 4 groups with 3 relations and indexes up to 5; or deletions: 2 callers sharing an item, 3 items of which 2 generated, one trash, panics and crashes | 105,036 | names are unique, no cycles, sub-groups end up where they were to be; a file is removed only with its row |

**Why the bounds are enough.** Three jobs are needed for CancelAll to skip one and
for order to matter behind a running job; two jobs with two updates let a timer of
an ended job fire while the next runs. A channel of one message is full after one.
Three callers let one hold the connection, one wait and one end early. Queues of
one place block their sender at the second item; with two workers and three files
each of the goroutines can be the one that the others wait for. The graveyard of
one or two jobs overflows. Two copies and a free path with two changes
(MaxChanges) give a rename, a copy beside a move, a scene with two files of which
one goes, two missing rows for one new file, and a file that comes back between
assessment and deletion. Two requests and two segments with a gap of one make the
monitor seek back and forth, let a request come for a stream that expires, and
leave a process of an earlier request behind; the second process is there to be
found wrong. Three tags make a cycle through a third tag and a merge of two into
one, three names let one be given to all; four groups with three relations
(MaxRelations) give a chain or a row of three sub-groups, and six indexes
(LastIndex) gaps, ends and room to shift. Two callers with an object in common and
one each, of which one has a trash, let a file be marked by one and found missing
by the other, and strand a generated one; each case that FilesFollowRows excepts
is reached. Two groups reordered together are sub-groups already (the constraint
in MCCatalog): the code skips one that is not, after it has made room for it.
Three readers fill the array of two, move the list to one of four, and come while
a call of Cancel still walks over the old one. Two clients with two sessions each
(MaxSessions) let one session be in the hands of the monitor, one in those of Stop
and a new one begin.

**Deadlock checking** is off where the modelled system does stop: all jobs have
ended and no more can be added, all deletions are done, Execute has returned, all
readers have gone, the clients of DLNA have had their sessions (MaxSessions).

**Fairness.** The goroutines of the program run on: weak fairness for their
steps. Steps that wait for `Manager.mutex` have strong fairness, because
`sync.Mutex` hands the lock to a waiter that starves. `Begin` has strong
fairness: `database/sql` serves requests for a connection first come, first
served. The bodies of jobs, transactions, workers and tasks are assumed to
return. Nothing is assumed of clients, of cancellation or of errors. In Cleaner
users start a scan again and again, also between clean jobs (strong fairness of
`BeginScan`); that is the condition in RescansSettle, not a promise of the code,
which starts scans on request only. In StreamManager the monitor, the goroutines
of processes and requests and ffmpeg run on (weak fairness); the goroutine of a
process and a request at the mutex have strong fairness, as above. Clients need
not come, leave or be late, and no failure has to happen. Tags, Groups, ReadLocks
and Dlna are checked for safety only.

## 5. What the violations show

1. **CancelAll skips jobs.** `CancelAll` (`pkg/job/manager.go:296`) ranges over
   `m.queue` and `removeJob` shifts the tail of the same array down, so with
   three jobs that have not started the second one is skipped and runs later.
   The comment at lines 289-290 says it is the same as CancelJob on each.
2. **Files of surviving objects are removed.** When a commit fails, `withTxn`
   returns nil (`pkg/txn/transaction.go:80`): the resolvers call
   `Deleter.Commit` although the rows stay. It takes no disk failure, only a
   client that disconnects before the commit.
3. **A caption stays unmatched.** The walker looks for the video in the database
   (`task_scan.go:189`) and puts the caption on the list in a later step (193);
   a worker that commits the video and reads the list in between misses it.
4. **Cancel passes over a reader.** `ReadLockManager.Cancel` (`pkg/fsutil/lock_manager.go:111`)
   ranges over the slice it read; when the first lock has ended, `waitAndUnlock`
   moves the others down in the same array, and a new reader may be appended where
   the second one was. Cancel comes to it and not to the second, who still holds
   the file when the deletion goes on. The comment at line 105 says that Cancel
   cancels all. With no more than two readers and none that comes it does
   (TwoReadersAreCancelled); with three the second one is skipped without a new reader.
5. **Jobs run after Stop.** "Once Stop is called, no more Jobs will be processed"
   (`pkg/job/manager.go:44-45`), but the dispatcher looks at the stop channel only
   when it has slept (142): when it waits for a job at the time of Stop, it goes on
   with the jobs that are added later. Nothing in the program calls Stop.

Seen while modelling, without a run: when a file is moved and copied, the workers
of both new paths may pick the same missing row (`pkg/file/scan.go:643`, from a
query before the transaction) and `FileStore.Update` writes it without looking
again; the second takes the row from the first, whose file has no row at the end
of a scan without an error. The next scan adds it, which is part of RescansSettle.

Live transcoding: with `linger`, a new request for an expired stream starts a second
ffmpeg in the directory the first still writes in, and OneTranscode and
ServedWhole fail. With clients that leave and a failing ffmpeg together,
EveryRequestEnds fails: the error fills the channel of a request whose client has
gone and the monitor blocks in the next send with the mutex held
(`stream_segmented.go:834`). A request after Shutdown writes to a nil map (914):
the handler panics, the mutex is not given back and the next one hangs.

Tags: `ValidateHierarchyExisting` (`pkg/tag/update.go:159`) compares new parents with
present descendants and new children with present ancestors, but not the new
parents with the new children. With A above B, an update of a third tag that puts
it below B and above A is accepted and makes a cycle; from then on the recursive
queries of FindAllAncestors and FindAllDescendants, whose rows carry the path, do
not end for tags on or next to it. CyclesNeedBothSides says, and the proof shows
for all sizes, that this is the only way. A tag that has its own name as an alias
(by a bulk update) cannot be merged, since the alias is inserted again.

Groups: several sub-groups put after another one come out in reverse order, each
right after it (`group_relationships.go:375`), and so do those added at an index
past the last; `graphql/schema/types/group.graphql:123` says "in this order", and the
tests compare without order. An insert index of 0 appends. Saving the containing
groups of a group with SET moves it to the end of each.

Jobs and files: the comment at `scan.go:39-40` says that a file is new when many
files with its fingerprint are missing, while the code takes the first of them
(641-643). MovedIsNotNew, which the comment and the code agree on, is about
exactly one missing file and says nothing of many. `Job.error` takes no mutex
(`job.go:112`), so a job that failed while it was being cancelled may end
CANCELLED; EndsAsItWent says that no other end is told wrongly. `Manager.Stop`
wakes nobody, so a sleeping dispatcher does not end (`manager.go:48`), and a
second Stop closes a closed channel. A job given to Start stays in the queue and
takes the wakeup from later Adds, whose condition is a queue of length one (69);
Start has no caller in the program. A late update of a FAILED job goes out after
its removal (367). `Job.TimeElapsed` has its nil test the wrong way round
(`job.go:88`). SceneMerge neither commits nor rolls back its Deleter
(`resolver_mutation_scene.go:655`). With a trash path, files marked without the
trash stay as `.delete` (`file/delete.go:197`, `243`). The transaction is undone
before the rollback hooks restore files, so another writer may see the row without
the file (`transaction.go:70`), destroy it, and the file comes back without its
row. The runs reach both, as exceptions that FilesFollowRows names. The marker
directory of a scene is looked for with a test for files and so is never marked
(`scene/delete.go:34`). `Progress.AddProcessed` sets instead of adding
(`progress.go:136`). `AssociateCaptions` reports a match although its transaction
failed (`video/caption.go:129`). A panic of a scan worker ends the process
(`task_scan.go:302`). Scan subscriptions and downloads have races that are listed
under "hazards" and wait for their modules.

DLNA: a second Start with a duration stops the timer of the first and, because the
timer is not nil, sets none (`service.go:286-291`), so the server never stops; Stop
does the same with the timer to start. A duration of 0 stops it at once, while
`graphql/schema/types/dlna.graphql:16` says "0 or null for indefinite"
(`resolver_mutation_dlna.go:33`). The tracker is made once, and Stop ends its monitor
for good (`activity.go:156`): sessions after the next Start never time out, however
long they are quiet, and are saved by the next Stop only. When the port is taken the
listener is nil, and the goroutine that logs its address ends the process
(`service.go:270`). A Stop right after Start closes a channel that Serve has not made
yet, or waits for one for good with the mutex held (`dms.go:742-744`).

## 6. What is proved

The proofs are in the `Proofs` modules and hold for every value of the
constants, under the assumptions named in the modules and those of each theorem.

**JobManagerProofs.** `TypeCorrect` holds unconditionally; its invariant adds
that the loop of CancelAll stays inside its slice and that only known jobs run.
The others assume `"Start" \notin Calls`, as in the program. Their inductive
invariant `JobInv` says that the queue is sorted by ID, that status and goroutine
of each job agree, that a queued job is READY or the one being run, that only
that one is active, and that a sleeping dispatcher has an empty queue. The last
part is why one Broadcast, when the queue grows to one job, is enough: it is
stronger than WaitsOnlyWhenIdle, which alone is not inductive. From it follow
`JobsRunOneAtATime`, `NoLostWakeup`, `JobsStartInOrder` and
`ManagerImplementsLifecycle`.

What clients and subscribers see holds without that assumption, and so does its
inductive invariant `RecordInv`: the queue is sorted, the status, the goroutine and
the ID of each job agree (`RecordsAgree`), and a job that is out of the queue is
over and has no goroutine (`OutIsOver`). It gives `RemovedStaysRemoved`,
`SubscribersToldOfRemovals` (what is sent in a step is what leaves the queue in it:
one lemma per action says what each sends), `NoUpdateOnceRemoved` and
`UpdatesAreNotLost`. `JobsEndAsTheyWent` adds `CancelMatches`: while a job is being
executed, its context is cancelled exactly if its status says so.

**TxnProofs.** `StagesAgree` is inductive with TypeOK (`TxnInvariant`): at each
stage the transaction is open or was ended by its context. `ErrorNeverCommits`,
`WriteConnectionIsFreed` and `TxnImplementsContract` hold with every fault.

**SafeDeleteProofs.** `NoFileLost` assumes `Careful`: no commit can fail and
each caller has its own Deleter. The inductive invariant `DelInv` says that a
Deleter only knows rows its own transaction destroyed and removes only once
that transaction is committed. Panics and crashes are covered.
The two others assume only that each caller has its own Deleter (`OwnDeleters`), so
they hold with failed commits, objects that callers share and any trash. Their
invariant `LostInv` says who answers for a file that is away: a caller that still
holds it in its Deleter and can take it back from where it is, one that was told
nil, or one whose Deleter has stranded it. `ErrorLosesNothing` follows from it.
`FilesFollowTheirRows` adds that a row only goes with the commit of a caller that
had destroyed it (`RowsGo`), and that a file of a destroyed row which is in its place
was put back by a caller that is told of an error (`PutBack`). A Deleter that all
callers share, as the blob store has, breaks all three.

**ScanJobProofs.** `ScanInv` relates the content of both channels, the state of
each file and task and the places of the goroutines: the reader leaves only when
its channel is closed and empty, the TaskQueue is closed only when no worker is
left. From it follow `NothingIsMissed` and the two refinements `FilesPool` and
`TasksPool`; the proof of the latter is that Close comes after the last worker,
so no send panics. `CaptionsAreKept` follows from ScanInv and the steps of the
walker. `ProgressEndsFull` needs `CountInv`: unless the job is cancelled, the total,
as it will be once the walker has added its count (`Due`), is at most what is done
and the numbers of files and of tasks at work. Finite cardinalities make it
inductive; directories, which add to what is done only, are why it is no equation.

**CleanerProofs.** The inductive invariant `IInv` adds to the types, TablesAgree
and ChangesShow what a worker knows (`WorkerOf`): it works only during a scan,
holds the ID of a row that exists, and once it has read the file, its fingerprint
belongs to the modification time it was given unless the file has changed
since. The last part is needed because the row is written from the worker's
memory: ChangesShow alone says nothing of what is about to be written. It rests on
the assumption in `Noticeable`. `CleanAgrees` relates the rows, the disk and
`toDelete` while a clean job is undisturbed. From them follow
`TablesStayInAgreement`, `NoChangeEscapes`, `CleanDeletesExactly` and
`ScenesOutliveFiles`. `HoldersAgree` says for the workers that hold the ID of a row
what the row, and its scene, are by now although others have stored theirs since;
`CopiesShareAScene` rests on it. `CalmAgrees` says, while no file changes during a
scan, that the files of the workers are where they were, so that a worker about to
make a row finds no row missing its file; from it follows `MovedFilesKeepTheirRows`.

**StreamProofs.** All assume `NoLinger`: no fault case has `linger`. The inductive
invariant `StreamInv` has three parts. TypeOK. `RunInv`: at most one process is
alive, it is the stream's or was killed, the monitor holds the mutex exactly
while it works. `FileInv`: what is under a final name is whole; a temporary file
that is not whole is the last one, of a running process or of one that failed;
temporary files lie between `tp.segment` and the place of ffmpeg without a gap.
The last is what makes "complete once the next one exists" right. From it follow
`OneTranscodeAtATime`, `OnlyWholeServed` and `ShutdownLeavesNothing`.

**CatalogProofs.** `ReplacedAcyclic` is the lemma behind the hierarchies: if R has
no cycle and no path leads from a child in C to a parent in P, replacing the
relations of n by P above and C below makes none. For groups `validateGroupHierarchy`
gives the premise (`GroupsStayAcyclic`, with the invariant that rows speak of
existing groups, `GroupRowsExist`, and the same for the database a rollback
returns to); for tags the validation gives it unless both sides change at once
(`TagCyclesNeedBothSides`). `TagNamesUnique` rests on the validation alone, in
bulk updates for the database before too.

`ReorderingIsExact` is about arithmetic and not about graphs. A row of
groups_relations is a set of indexes with a bound, no two the same (`RowOK`): every
operation of the store keeps that. `ReorderedRow` says what one call of
reorderSubGroup does to any such row: s comes right before p, or right after it,
and the others keep their order; it needs that getOrderIndexAfterOrderIndex finds
the least index above another (`LeastOf`, from the well-foundedness of the
naturals). `ReorderInv` says it of a list half done: what was placed stands
together before p, in the order given (`Placed`), and what is left is the rest of
the list (`LeftAgrees`). It is by induction over the steps of the call, so it needs
no induction over the list.

**PartsProofs.** `ListInv` is ListHoldsTheHeld with the types of `lock`, `array`
and `len`. An append writes behind the list, in the old array or in a new one that
has room (`GrownHasRoom`); a removal is a bijection between the places before and
after, without that of the lock (`WaitAndUnlockKeeps`). Cancel only ends contexts.
No assumption is needed: `ListStaysExact` holds for any number of readers and
calls. `TwoAreReached` adds `Ahead`: of the locks that were there when a call of
Cancel began, one that is held still lies ahead of the call's index in the array
it walks, the second one in the second place once the first is done.
`EachSessionIsSavedOnce` rests on `TrackerInv`: only a monitor that is saving has
expired sessions and only a Stop that is saving has the rest, so neither takes
sessions over what it has not saved. The types are proved too (`LockTypes`,
`DlnaTypes`).

**Only model-checked**: liveness (EveryJobLeaves, EveryCallReturns, MarksResolve,
ScanReturns, RescansSettle, EveryRequestEnds, TranscodeStops), which needs ENABLED
and fairness outside the reach of the prover. Not proved either is what is false
without an assumption: with `linger`, OneTranscode and ServedWhole; with Start,
WaitsOnlyWhenIdle and ImplementsLifecycle; and the five statements of section 5.

## 7. Not modelled

Most of the 120,000 lines of the server are not state machines: generated GraphQL
code and models, the construction of SQL queries and filters, the configuration,
resolvers that translate one input into one call of a store, scrapers, the
command lines of ffmpeg, import and export. They keep no state between calls and
have no order of steps to get wrong; a model of them would restate them line by
line. That is why the map covers a small share of the code. Left out although
they do keep state: scan subscriptions, downloads, the whitelist of DLNA, the mover
and the blob store (the plan has them), folders and zip
files in the scanner, and the job bodies other than scan and clean.
`PROJECT.json` gives the reason for each component.
