--------------------------- MODULE ScanJobProofs ---------------------------
(***************************************************************************)
(* The scan job keeps its invariant, both of its queues are worker pools,  *)
(* nothing is missed by a scan that was not cancelled, its progress ends   *)
(* at 100%, and no caption is dropped - for any tree, any number of        *)
(* workers and any capacity of the queues.                                 *)
(***************************************************************************)
EXTENDS ScanJob, FiniteSetTheorems, TLAPS

-----------------------------------------------------------------------------
(* Queues and the states of their items *)

LEMMA TailFacts ==
  ASSUME NEW S, NEW q \in Seq(S), q # <<>>
  PROVE  /\ Tail(q) \in Seq(S)
         /\ Head(q) \in S
         /\ Head(q) = q[1]
         /\ \A i \in DOMAIN Tail(q) : i + 1 \in DOMAIN q /\ Tail(q)[i] = q[i + 1]
         /\ \A i \in DOMAIN q : i # 1 => i - 1 \in DOMAIN Tail(q) /\ Tail(q)[i - 1] = q[i]
         /\ 1 \in DOMAIN q
<1>1. Len(q) \in Nat /\ Len(q) > 0 /\ DOMAIN q = 1..Len(q)
  OBVIOUS
<1>2. DOMAIN Tail(q) = 1..(Len(q) - 1) /\ \A i \in 1..(Len(q) - 1) : Tail(q)[i] = q[i + 1]
  BY <1>1
<1> QED
  BY <1>1, <1>2

LEMMA AppendFacts ==
  ASSUME NEW S, NEW q \in Seq(S), NEW x \in S
  PROVE  /\ Append(q, x) \in Seq(S)
         /\ DOMAIN Append(q, x) = DOMAIN q \cup {Len(q) + 1}
         /\ Len(q) + 1 \notin DOMAIN q
         /\ \A i \in DOMAIN q : Append(q, x)[i] = q[i]
         /\ Append(q, x)[Len(q) + 1] = x
  OBVIOUS

(* A new item goes to the end of the queue.                                *)
LEMMA Push ==
  ASSUME NEW S, NEW q \in Seq(S), NEW V, NEW st \in [S -> V], Holds(q, st, S),
         NEW x \in S, st[x] # "queued"
  PROVE  Holds(Append(q, x), [st EXCEPT ![x] = "queued"], S)
<1> DEFINE r == Append(q, x)
           st2 == [st EXCEPT ![x] = "queued"]
<1>1. /\ DOMAIN r = DOMAIN q \cup {Len(q) + 1}
      /\ Len(q) + 1 \notin DOMAIN q
      /\ \A i \in DOMAIN q : r[i] = q[i]
      /\ r[Len(q) + 1] = x
  BY AppendFacts
<1>2. \A y \in S : st2[y] = IF y = x THEN "queued" ELSE st[y]
  OBVIOUS
<1>3. /\ \A y \in S : st[y] = "queued" <=> \E i \in DOMAIN q : q[i] = y
      /\ \A i, j \in DOMAIN q : q[i] = q[j] => i = j
  BY DEF Holds
<1>4. \A i \in DOMAIN q : q[i] \in S
  OBVIOUS
<1> HIDE DEF r, st2
<1>5. \A y \in S : st2[y] = "queued" <=> \E i \in DOMAIN r : r[i] = y
  BY <1>1, <1>2, <1>3
<1>6. \A i, j \in DOMAIN r : r[i] = r[j] => i = j
  BY <1>1, <1>3, <1>4
<1> QED
  BY <1>5, <1>6 DEF Holds, r, st2

(* The first item leaves the queue.                                        *)
LEMMA Pop ==
  ASSUME NEW S, NEW q \in Seq(S), q # <<>>, NEW V, NEW st \in [S -> V], Holds(q, st, S),
         NEW v, v # "queued"
  PROVE  Holds(Tail(q), [st EXCEPT ![Head(q)] = v], S)
<1> DEFINE r == Tail(q)
           h == Head(q)
           st2 == [st EXCEPT ![h] = v]
<1>1. /\ h \in S
      /\ h = q[1]
      /\ 1 \in DOMAIN q
      /\ \A i \in DOMAIN r : i + 1 \in DOMAIN q /\ r[i] = q[i + 1]
      /\ \A i \in DOMAIN q : i # 1 => i - 1 \in DOMAIN r /\ r[i - 1] = q[i]
      /\ \A i \in DOMAIN r : i \in Int /\ i # 0
  BY TailFacts
<1>2. \A y \in S : st2[y] = IF y = h THEN v ELSE st[y]
  OBVIOUS
<1>3. /\ \A y \in S : st[y] = "queued" <=> \E i \in DOMAIN q : q[i] = y
      /\ \A i, j \in DOMAIN q : q[i] = q[j] => i = j
  BY DEF Holds
<1> HIDE DEF r, h, st2
<1>4. \A i \in DOMAIN r : r[i] # h
  BY <1>1, <1>3
<1>5. ASSUME NEW y \in S, st2[y] = "queued" PROVE \E i \in DOMAIN r : r[i] = y
  BY <1>1, <1>2, <1>3, <1>5
<1>6. ASSUME NEW y \in S, NEW i \in DOMAIN r, r[i] = y PROVE st2[y] = "queued"
  BY <1>1, <1>2, <1>3, <1>4, <1>6
<1>7. ASSUME NEW i \in DOMAIN r, NEW j \in DOMAIN r, r[i] = r[j] PROVE i = j
  <2>1. i + 1 = j + 1
    BY <1>1, <1>3, <1>7
  <2> QED
    BY <1>1, <2>1
<1> QED
  BY <1>5, <1>6, <1>7 DEF Holds, r, h, st2

(* An item outside of the queue changes its state.                         *)
LEMMA Move ==
  ASSUME NEW S, NEW q, NEW V, NEW st \in [S -> V], Holds(q, st, S),
         NEW x \in S, st[x] # "queued", NEW v, v # "queued"
  PROVE  Holds(q, [st EXCEPT ![x] = v], S)
  BY DEF Holds

-----------------------------------------------------------------------------
(* What a step leaves alone keeps its part of the invariant *)

LEMMA FileFrame ==
  ASSUME FileInv, UNCHANGED <<fileQueue, fileState, execute, walk, walker, fileClosed>>
  PROVE  FileInv'
  BY DEF FileInv, Holds, OneHeld, Scanning

LEMMA TaskFrame ==
  ASSUME TaskInv, UNCHANGED <<tasks, taskState, closed, executer>>,
         execute' \in {"closing", "returned"} <=> execute \in {"closing", "returned"}
  PROVE  TaskInv'
  BY DEF TaskInv, Holds, OneHeld, Running

LEMMA WorkFrame ==
  ASSUME WorkInv, UNCHANGED <<fileState, taskState, toAdd, stored, cancelled, executer>>,
         execute' = "returned" => execute = "returned"
  PROVE  WorkInv'
  BY DEF WorkInv

(* The walk gets shorter.                                                  *)
LEMMA WalkTail ==
  ASSUME TypeOK, FileInv, walk # <<>>
  PROVE  /\ Tail(walk) \in Seq(Entries)
         /\ \A i \in DOMAIN Tail(walk) :
              Tail(walk)[i] \in Files => fileState[Tail(walk)[i]] = "unseen"
         /\ \A i, j \in DOMAIN Tail(walk) : Tail(walk)[i] = Tail(walk)[j] => i = j
         /\ \A i \in DOMAIN Tail(walk) : Tail(walk)[i] # Head(walk)
<1> DEFINE r == Tail(walk)
<1>1. walk \in Seq(Entries)
  BY DEF TypeOK
<1>2. /\ r \in Seq(Entries)
      /\ Head(walk) = walk[1]
      /\ 1 \in DOMAIN walk
      /\ \A i \in DOMAIN r : i + 1 \in DOMAIN walk /\ r[i] = walk[i + 1]
      /\ \A i \in DOMAIN r : i \in Int /\ i # 0
  BY <1>1, TailFacts
<1>3. /\ \A i \in DOMAIN walk : walk[i] \in Files => fileState[walk[i]] = "unseen"
      /\ \A i, j \in DOMAIN walk : walk[i] = walk[j] => i = j
  BY DEF FileInv
<1> HIDE DEF r
<1>4. \A i \in DOMAIN r : r[i] # Head(walk)
  BY <1>2, <1>3
<1>5. ASSUME NEW i \in DOMAIN r, NEW j \in DOMAIN r, r[i] = r[j] PROVE i = j
  <2>1. i + 1 = j + 1
    BY <1>2, <1>3, <1>5
  <2> QED
    BY <1>2, <2>1
<1> QED
  BY <1>2, <1>3, <1>4, <1>5 DEF r

-----------------------------------------------------------------------------
(* The walker *)

LEMMA WalkOnKeeps ==
  ASSUME ScanInv, WalkSkips \/ WalkFolder
  PROVE  ScanInv'
<1>1. /\ walk # <<>> /\ walk' = Tail(walk) /\ walker = "walking"
      /\ UNCHANGED <<taskVars, cancelled, walker, count, fileVars, captionVars, execute>>
  BY DEF WalkSkips, WalkFolder, Visits
<1>2. ProgressTypeOK'
  BY DEF ScanInv, TypeOK, TaskTypeOK, ProgressTypeOK, WalkSkips, WalkFolder, Increment,
         progressVars
<1>3. TypeOK'
  BY <1>1, <1>2, WalkTail DEF ScanInv, TypeOK, TaskTypeOK, taskVars, fileVars, captionVars
<1>4. FileInv'
  BY <1>1, WalkTail DEF ScanInv, FileInv, Holds, OneHeld, Scanning, fileVars
<1>5. TaskInv' /\ WorkInv'
  BY <1>1, TaskFrame, WorkFrame DEF ScanInv, taskVars, fileVars
<1> QED
  BY <1>3, <1>4, <1>5 DEF ScanInv

(* A file that is sent is taken from the walk and goes into the queue.     *)
LEMMA WalkSendsKeeps ==
  ASSUME ScanInv, WalkSends
  PROVE  ScanInv'
<1> DEFINE f == Head(walk)
<1>1. /\ walk # <<>> /\ walk' = Tail(walk) /\ walker = "sending" /\ walker' = "walking"
      /\ f \in Files
      /\ fileQueue' = Append(fileQueue, f)
      /\ fileState' = [fileState EXCEPT ![f] = "queued"]
      /\ count' = count + 1
      /\ UNCHANGED <<progressVars, taskVars, cancelled, fileClosed, toAdd, stored, captionVars,
                     execute>>
  BY DEF WalkSends, ScanInv, FileInv
<1>2. fileState[f] = "unseen"
  <2>1. 1 \in DOMAIN walk /\ f = walk[1]
    BY <1>1, TailFacts DEF ScanInv, TypeOK
  <2> QED
    BY <1>1, <2>1 DEF ScanInv, FileInv
<1>3. /\ Tail(walk) \in Seq(Entries)
      /\ \A i \in DOMAIN Tail(walk) :
           Tail(walk)[i] \in Files => fileState[Tail(walk)[i]] = "unseen"
      /\ \A i, j \in DOMAIN Tail(walk) : Tail(walk)[i] = Tail(walk)[j] => i = j
      /\ \A i \in DOMAIN Tail(walk) : Tail(walk)[i] # f
  BY <1>1, WalkTail DEF ScanInv
<1>4. fileState \in [Files -> FileStates] /\ fileQueue \in Seq(Files) /\ count \in Nat
  BY DEF ScanInv, TypeOK
<1>5. Holds(fileQueue, fileState, Files)'
  <2>1. Holds(Append(fileQueue, f), [fileState EXCEPT ![f] = "queued"], Files)
    BY <1>1, <1>2, <1>4, Push DEF ScanInv, FileInv
  <2> QED
    BY <1>1, <2>1
<1> HIDE DEF f
<1>6. fileState' \in [Files -> FileStates] /\ fileQueue' \in Seq(Files) /\ count' \in Nat
  BY <1>1, <1>4 DEF FileStates
<1>7. TypeOK'
  BY <1>1, <1>3, <1>6
  DEF ScanInv, TypeOK, TaskTypeOK, ProgressTypeOK, progressVars, taskVars, captionVars
<1>8. FileInv'
  <2>1. OneHeld(fileState, Files, execute = "holding")'
    BY <1>1, <1>4 DEF ScanInv, FileInv, OneHeld
  <2>2. \A i \in DOMAIN walk' : walk'[i] \in Files => fileState'[walk'[i]] = "unseen"
    BY <1>1, <1>3, <1>4
  <2>3. ~fileClosed
    BY <1>1 DEF ScanInv, FileInv
  <2>4. execute \notin {"waiting", "joining", "closing", "returned"}
    BY <2>3 DEF ScanInv, FileInv
  <2> QED
    BY <1>1, <1>3, <1>5, <2>1, <2>2, <2>3, <2>4 DEF FileInv
<1>9. TaskInv'
  BY <1>1, TaskFrame DEF ScanInv, taskVars
<1>10. WorkInv'
  BY <1>1, <1>2, <1>4 DEF ScanInv, WorkInv, TypeOK, taskVars
<1> QED
  BY <1>7, <1>8, <1>9, <1>10 DEF ScanInv

LEMMA WalkerKeeps ==
  ASSUME ScanInv, WalkerStep
  PROVE  ScanInv'
<1>1. CASE WalkFile
  <2>1. /\ walk # <<>> /\ Head(walk) \in Files /\ walker = "walking" /\ walker' = "sending"
        /\ UNCHANGED <<progressVars, taskVars, cancelled, walk, count, fileVars, captionVars,
                       execute>>
    BY <1>1 DEF WalkFile, Visits
  <2>2. TypeOK'
    BY <2>1 DEF ScanInv, TypeOK, TaskTypeOK, ProgressTypeOK, progressVars, taskVars, fileVars,
                captionVars
  <2>3. FileInv'
    BY <2>1 DEF ScanInv, FileInv, Holds, OneHeld, Scanning, fileVars
  <2> QED
    BY <2>1, <2>2, <2>3, TaskFrame, WorkFrame DEF ScanInv, taskVars, fileVars
<1>2. CASE WalkCaption
  <2>1. /\ walk # <<>> /\ Head(walk) \in Captions /\ walker = "walking"
        /\ linked' \subseteq Captions
        /\ \/ walk' = Tail(walk) /\ walker' = "walking"
           \/ walk' = walk /\ walker' = "recording"
        /\ UNCHANGED <<progressVars, taskVars, cancelled, count, fileVars, unmatched, execute>>
    BY <1>2 DEF WalkCaption, Visits, ScanInv, TypeOK
  <2>2. TypeOK'
    BY <2>1, WalkTail
    DEF ScanInv, TypeOK, TaskTypeOK, ProgressTypeOK, progressVars, taskVars, fileVars
  <2>3. FileInv'
    BY <2>1, WalkTail DEF ScanInv, FileInv, Holds, OneHeld, Scanning, fileVars
  <2> QED
    BY <2>1, <2>2, <2>3, TaskFrame, WorkFrame DEF ScanInv, taskVars, fileVars
<1>3. CASE WalkRecords
  <2>1. /\ walk # <<>> /\ walker = "recording" /\ unmatched' \subseteq Captions
        /\ walk' = Tail(walk) /\ walker' = "walking"
        /\ UNCHANGED <<progressVars, taskVars, cancelled, count, fileVars, linked, execute>>
    BY <1>3 DEF WalkRecords, ScanInv, FileInv, TypeOK
  <2>2. TypeOK'
    BY <2>1, WalkTail
    DEF ScanInv, TypeOK, TaskTypeOK, ProgressTypeOK, progressVars, taskVars, fileVars
  <2>3. FileInv'
    BY <2>1, WalkTail DEF ScanInv, FileInv, Holds, OneHeld, Scanning, fileVars
  <2> QED
    BY <2>1, <2>2, <2>3, TaskFrame, WorkFrame DEF ScanInv, taskVars, fileVars
<1>4. CASE WalkEnds
  <2>1. /\ walker = "walking" /\ walker' = "totalling" /\ fileClosed' = TRUE
        /\ UNCHANGED <<progressVars, taskVars, cancelled, walk, count, fileQueue, fileState,
                       toAdd, stored, captionVars, execute>>
    BY <1>4 DEF WalkEnds
  <2>2. TypeOK'
    BY <2>1 DEF ScanInv, TypeOK, TaskTypeOK, ProgressTypeOK, progressVars, taskVars, captionVars
  <2>3. FileInv'
    BY <2>1 DEF ScanInv, FileInv, Holds, OneHeld, Scanning
  <2> QED
    BY <2>1, <2>2, <2>3, TaskFrame, WorkFrame DEF ScanInv, taskVars
<1>5. CASE WalkTotals
  <2>1. /\ walker = "totalling" /\ walker' = "done"
        /\ total' = total + count /\ defined' = TRUE
        /\ UNCHANGED <<processed, taskVars, cancelled, walk, count, fileVars, captionVars,
                       execute>>
    BY <1>5 DEF WalkTotals
  <2>2. TypeOK'
    BY <2>1 DEF ScanInv, TypeOK, TaskTypeOK, ProgressTypeOK, taskVars, fileVars, captionVars
  <2>3. FileInv'
    BY <2>1 DEF ScanInv, FileInv, Holds, OneHeld, Scanning, fileVars
  <2> QED
    BY <2>1, <2>2, <2>3, TaskFrame, WorkFrame DEF ScanInv, taskVars, fileVars
<1> QED
  BY <1>1, <1>2, <1>3, <1>4, <1>5, WalkOnKeeps, WalkSendsKeeps DEF WalkerStep

-----------------------------------------------------------------------------
(* The job goroutine *)

LEMMA TakesFileKeeps ==
  ASSUME ScanInv, TakesFile
  PROVE  ScanInv'
<1> DEFINE f == Head(fileQueue)
           v == IF cancelled THEN "dropped" ELSE "held"
<1>1. /\ fileQueue # <<>> /\ fileQueue' = Tail(fileQueue)
      /\ fileState' = [fileState EXCEPT ![f] = v]
      /\ execute = "receiving" /\ execute' = IF cancelled THEN "receiving" ELSE "holding"
      /\ UNCHANGED <<progressVars, taskVars, cancelled, walk, walker, count, fileClosed, toAdd,
                     stored, captionVars>>
  BY DEF TakesFile, walkVars
<1>2. fileState \in [Files -> FileStates] /\ fileQueue \in Seq(Files) /\ v \in FileStates
  BY DEF ScanInv, TypeOK, FileStates
<1>3. f \in Files /\ Tail(fileQueue) \in Seq(Files) /\ f = fileQueue[1] /\ 1 \in DOMAIN fileQueue
  BY <1>1, <1>2, TailFacts
<1>4. fileState[f] = "queued"
  BY <1>3 DEF ScanInv, FileInv, Holds
<1>5. Holds(fileQueue, fileState, Files)'
  <2>1. Holds(Tail(fileQueue), [fileState EXCEPT ![f] = v], Files)
    BY <1>1, <1>2, Pop DEF ScanInv, FileInv
  <2> QED
    BY <1>1, <2>1
<1> HIDE DEF f
<1>6. TypeOK'
  BY <1>1, <1>2, <1>3
  DEF ScanInv, TypeOK, TaskTypeOK, ProgressTypeOK, progressVars, taskVars, captionVars
<1>7. FileInv'
  <2>1. OneHeld(fileState, Files, execute = "holding")'
    BY <1>1, <1>2, <1>3 DEF ScanInv, FileInv, OneHeld
  <2>2. \A i \in DOMAIN walk : walk[i] \in Files => fileState'[walk[i]] = "unseen"
    BY <1>1, <1>2, <1>4 DEF ScanInv, FileInv
  <2> QED
    BY <1>1, <1>5, <2>1, <2>2 DEF ScanInv, FileInv
<1>8. TaskInv'
  BY <1>1, TaskFrame DEF ScanInv, taskVars
<1>9. WorkInv'
  BY <1>1, <1>2, <1>3, <1>4 DEF ScanInv, WorkInv, TypeOK, taskVars
<1> QED
  BY <1>6, <1>7, <1>8, <1>9 DEF ScanInv

LEMMA StartsWorkerKeeps ==
  ASSUME ScanInv, StartsWorker
  PROVE  ScanInv'
<1>1. PICK f \in Files :
        fileState[f] = "held" /\ fileState' = [fileState EXCEPT ![f] = "scanning"]
  BY DEF StartsWorker
<1>2. /\ execute = "holding" /\ execute' = "receiving"
      /\ UNCHANGED <<progressVars, taskVars, cancelled, walk, walker, count, fileQueue,
                     fileClosed, toAdd, stored, captionVars>>
  BY DEF StartsWorker, walkVars
<1>3. fileState \in [Files -> FileStates]
  BY DEF ScanInv, TypeOK
<1>4. TypeOK'
  BY <1>1, <1>2, <1>3
  DEF ScanInv, TypeOK, FileStates, TaskTypeOK, ProgressTypeOK, progressVars, taskVars, captionVars
<1>5. FileInv'
  <2>1. Holds(fileQueue, fileState, Files)'
    <3>1. Holds(fileQueue, [fileState EXCEPT ![f] = "scanning"], Files)
      BY <1>1, <1>3, Move DEF ScanInv, FileInv
    <3> QED
      BY <1>1, <1>2, <3>1
  <2>2. OneHeld(fileState, Files, execute = "holding")'
    BY <1>1, <1>2, <1>3 DEF ScanInv, FileInv, OneHeld
  <2>3. \A i \in DOMAIN walk : walk[i] \in Files => fileState'[walk[i]] = "unseen"
    BY <1>1, <1>3 DEF ScanInv, FileInv
  <2> QED
    BY <1>2, <2>1, <2>2, <2>3 DEF ScanInv, FileInv
<1>6. TaskInv'
  BY <1>2, TaskFrame DEF ScanInv, taskVars
<1>7. WorkInv'
  BY <1>1, <1>2, <1>3 DEF ScanInv, WorkInv, TypeOK, taskVars
<1> QED
  BY <1>4, <1>5, <1>6, <1>7 DEF ScanInv

LEMMA JobKeeps ==
  ASSUME ScanInv, JobStep
  PROVE  ScanInv'
<1> USE DEF walkVars, fileVars, captionVars
<1>1. CASE QueueEnds
  <2>1. /\ execute = "receiving" /\ fileQueue = <<>> /\ fileClosed /\ execute' = "waiting"
        /\ UNCHANGED <<progressVars, taskVars, cancelled, walkVars, fileVars, captionVars>>
    BY <1>1 DEF QueueEnds
  <2>2. TypeOK'
    BY <2>1 DEF ScanInv, TypeOK, TaskTypeOK, ProgressTypeOK, progressVars, taskVars
  <2>3. FileInv'
    BY <2>1 DEF ScanInv, FileInv, Holds, OneHeld, Scanning
  <2> QED
    BY <2>1, <2>2, <2>3, TaskFrame, WorkFrame DEF ScanInv, taskVars
<1>2. CASE WorkersEnd
  <2>1. /\ execute = "waiting" /\ Scanning = {} /\ execute' = "joining"
        /\ UNCHANGED <<progressVars, taskVars, cancelled, walkVars, fileVars, captionVars>>
    BY <1>2 DEF WorkersEnd
  <2>2. TypeOK'
    BY <2>1 DEF ScanInv, TypeOK, TaskTypeOK, ProgressTypeOK, progressVars, taskVars
  <2>3. FileInv'
    BY <2>1 DEF ScanInv, FileInv, Holds, OneHeld, Scanning
  <2> QED
    BY <2>1, <2>2, <2>3, TaskFrame, WorkFrame DEF ScanInv, taskVars
<1>3. CASE ClosesTasks
  <2>1. /\ execute = "joining" /\ execute' = "closing" /\ closed' = TRUE
        /\ UNCHANGED <<progressVars, tasks, taskState, executer, cancelled, walkVars, fileVars,
                       captionVars>>
    BY <1>3 DEF ClosesTasks, CloseTasks
  <2>2. TypeOK'
    BY <2>1 DEF ScanInv, TypeOK, TaskTypeOK, ProgressTypeOK, progressVars
  <2>3. FileInv'
    BY <2>1 DEF ScanInv, FileInv, Holds, OneHeld, Scanning
  <2>4. TaskInv'
    BY <2>1 DEF ScanInv, TaskInv, Holds, OneHeld, Running
  <2> QED
    BY <2>1, <2>2, <2>3, <2>4, WorkFrame DEF ScanInv
<1>4. CASE Returns
  <2>1. /\ execute = "closing" /\ executer = "done" /\ execute' = "returned"
        /\ UNCHANGED <<progressVars, taskVars, cancelled, walkVars, fileVars, captionVars>>
    BY <1>4 DEF Returns
  <2>2. TypeOK'
    BY <2>1 DEF ScanInv, TypeOK, TaskTypeOK, ProgressTypeOK, progressVars, taskVars
  <2>3. FileInv'
    BY <2>1 DEF ScanInv, FileInv, Holds, OneHeld, Scanning
  <2>4. WorkInv'
    BY <2>1 DEF ScanInv, WorkInv, taskVars
  <2> QED
    BY <2>1, <2>2, <2>3, <2>4, TaskFrame DEF ScanInv, taskVars
<1> QED
  BY <1>1, <1>2, <1>3, <1>4, TakesFileKeeps, StartsWorkerKeeps DEF JobStep

-----------------------------------------------------------------------------
(* The workers *)

(* A file at work is not in the queue, and the job waits for its worker.   *)
LEMMA WorkerFacts ==
  ASSUME ScanInv, NEW f \in Files, fileState[f] \in {"scanning", "following"}
  PROVE  /\ execute \notin {"joining", "closing", "returned"}
         /\ ~closed
  BY DEF ScanInv, FileInv, TaskInv, Scanning

(* A worker takes its file from one stage to the next.                     *)
LEMMA WorkerMovesFile ==
  ASSUME ScanInv, NEW f \in Files, fileState[f] \in {"scanning", "following"},
         NEW v \in {"following", "handled"}, fileState' = [fileState EXCEPT ![f] = v],
         UNCHANGED <<walkVars, fileQueue, fileClosed, execute>>
  PROVE  FileInv' /\ fileState' \in [Files -> FileStates]
<1>1. fileState \in [Files -> FileStates]
  BY DEF ScanInv, TypeOK
<1>2. UNCHANGED <<walk, walker, fileQueue, fileClosed, execute>>
  BY DEF walkVars
<1>3. Holds(fileQueue, fileState, Files)'
  <2>1. Holds(fileQueue, [fileState EXCEPT ![f] = v], Files)
    BY <1>1, Move DEF ScanInv, FileInv
  <2> QED
    BY <1>2, <2>1
<1>4. OneHeld(fileState, Files, execute = "holding")'
  BY <1>1, <1>2 DEF ScanInv, FileInv, OneHeld
<1>5. \A i \in DOMAIN walk : walk[i] \in Files => fileState'[walk[i]] = "unseen"
  BY <1>1 DEF ScanInv, FileInv
<1>6. execute \notin {"joining", "closing", "returned"}
  BY WorkerFacts
<1>7. fileState' \in [Files -> FileStates]
  BY <1>1 DEF FileStates
<1> QED
  BY <1>2, <1>3, <1>4, <1>5, <1>6, <1>7 DEF ScanInv, FileInv

LEMMA WorkerAddsKeeps ==
  ASSUME ScanInv, NEW f \in Files, WorkerAdds(f)
  PROVE  ScanInv'
<1>1. PICK t \in toAdd[f] : AddTask(t) /\ toAdd' = [toAdd EXCEPT ![f] = @ \ {t}]
  BY DEF WorkerAdds
<1>2. /\ fileState[f] = "following" /\ total' = total + 1
      /\ UNCHANGED <<processed, defined, cancelled, walkVars, fileQueue, fileClosed, fileState,
                     stored, captionVars, execute>>
  BY DEF WorkerAdds, AddTotal
<1>3. ~closed
  BY <1>2, WorkerFacts
<1>4. /\ taskState[t] = "new"
      /\ tasks' = Append(tasks, t)
      /\ taskState' = [taskState EXCEPT ![t] = "queued"]
      /\ UNCHANGED <<closed, executer>>
  BY <1>1, <1>3 DEF AddTask
<1>5. /\ t \in Tasks /\ toAdd \in [Files -> SUBSET Tasks]
      /\ taskState \in [Tasks -> TaskStates] /\ tasks \in Seq(Tasks)
  BY DEF ScanInv, TypeOK, TaskTypeOK
<1>6. toAdd' \in [Files -> SUBSET Tasks]
  BY <1>1, <1>5
<1>7. taskState' \in [Tasks -> TaskStates] /\ tasks' \in Seq(Tasks)
  BY <1>4, <1>5 DEF TaskStates
<1>8. TypeOK'
  BY <1>2, <1>4, <1>6, <1>7
  DEF ScanInv, TypeOK, TaskTypeOK, ProgressTypeOK, walkVars, captionVars
<1>9. FileInv'
  BY <1>2, FileFrame DEF ScanInv, walkVars
<1>10. TaskInv'
  <2>1. Holds(tasks, taskState, Tasks)'
    <3>1. Holds(Append(tasks, t), [taskState EXCEPT ![t] = "queued"], Tasks)
      BY <1>4, <1>5, Push DEF ScanInv, TaskInv
    <3> QED
      BY <1>4, <3>1
  <2>2. OneHeld(taskState, Tasks, executer = "holding")'
    BY <1>4, <1>5 DEF ScanInv, TaskInv, OneHeld
  <2>3. executer \notin {"waiting", "done"}
    BY <1>3 DEF ScanInv, TaskInv
  <2> QED
    BY <1>2, <1>4, <2>1, <2>2, <2>3 DEF ScanInv, TaskInv
<1>11. WorkInv'
  <2>1. \A s \in Tasks : taskState'[s] = IF s = t THEN "queued" ELSE taskState[s]
    BY <1>4, <1>5
  <2>2. \A g \in Files : toAdd'[g] = IF g = f THEN toAdd[g] \ {t} ELSE toAdd[g]
    BY <1>1, <1>5
  <2>3. stored \subseteq Files /\ FollowUps \in [Files -> SUBSET Tasks]
    BY FollowUpsAssumption DEF ScanInv, TypeOK
  <2>4. ASSUME NEW g \in stored, NEW s \in FollowUps[g], taskState'[s] = "new"
        PROVE  s \in toAdd'[g]
    <3>1. s \in Tasks /\ g \in Files
      BY <2>3
    <3>2. s # t /\ taskState[s] = "new"
      BY <2>1, <2>4, <3>1
    <3>3. s \in toAdd[g]
      BY <3>2 DEF ScanInv, WorkInv
    <3> QED
      BY <2>2, <3>1, <3>2, <3>3
  <2>5. \A s \in Tasks : taskState'[s] \in {"dropped", "panicked"} => taskState'[s] = taskState[s]
    BY <2>1
  <2>6. \A g \in Files : toAdd'[g] # {} => toAdd[g] # {}
    BY <2>2
  <2> QED
    BY <1>2, <1>4, <2>4, <2>5, <2>6 DEF ScanInv, WorkInv
<1> QED
  BY <1>8, <1>9, <1>10, <1>11 DEF ScanInv

LEMMA WorkerKeeps ==
  ASSUME ScanInv, NEW f \in Files, WorkerStep(f)
  PROVE  ScanInv'
<1>1. CASE WorkerPasses(f)
  <2>1. /\ fileState[f] = "scanning" /\ fileState' = [fileState EXCEPT ![f] = "handled"]
        /\ UNCHANGED <<total, defined, taskVars, cancelled, walkVars, fileQueue, fileClosed,
                       toAdd, stored, captionVars, execute>>
    BY <1>1 DEF WorkerPasses, Increment
  <2>2. processed' \in Nat
    BY <1>1 DEF WorkerPasses, Increment, ScanInv, TypeOK, TaskTypeOK, ProgressTypeOK
  <2>3. FileInv' /\ fileState' \in [Files -> FileStates]
    BY <2>1, WorkerMovesFile
  <2>4. TypeOK'
    BY <2>1, <2>2, <2>3
    DEF ScanInv, TypeOK, TaskTypeOK, ProgressTypeOK, taskVars, walkVars, captionVars
  <2>5. TaskInv'
    BY <2>1, TaskFrame DEF ScanInv, taskVars
  <2>6. WorkInv'
    BY <2>1 DEF ScanInv, WorkInv, TypeOK, taskVars
  <2> QED
    BY <2>3, <2>4, <2>5, <2>6 DEF ScanInv
<1>2. CASE WorkerStores(f)
  <2>1. /\ fileState[f] = "scanning" /\ fileState' = [fileState EXCEPT ![f] = "following"]
        /\ toAdd' = [toAdd EXCEPT ![f] = FollowUps[f]] /\ stored' = stored \cup {f}
        /\ UNCHANGED <<progressVars, taskVars, cancelled, walkVars, fileQueue, fileClosed,
                       captionVars, execute>>
    BY <1>2 DEF WorkerStores
  <2>2. FileInv' /\ fileState' \in [Files -> FileStates]
    BY <2>1, WorkerMovesFile
  <2>3. FollowUps[f] \in SUBSET Tasks /\ toAdd \in [Files -> SUBSET Tasks] /\ stored \subseteq Files
    BY FollowUpsAssumption DEF ScanInv, TypeOK
  <2>4. toAdd' \in [Files -> SUBSET Tasks]
    BY <2>1, <2>3
  <2>5. TypeOK'
    BY <2>1, <2>2, <2>3, <2>4
    DEF ScanInv, TypeOK, TaskTypeOK, ProgressTypeOK, progressVars, taskVars, walkVars, captionVars
  <2>6. TaskInv'
    BY <2>1, TaskFrame DEF ScanInv, taskVars
  <2>7. WorkInv'
    <3>1. /\ \A g \in Files : fileState'[g] = IF g = f THEN "following" ELSE fileState[g]
          /\ \A g \in Files : toAdd'[g] = IF g = f THEN FollowUps[f] ELSE toAdd[g]
      BY <2>1, <2>3 DEF ScanInv, TypeOK
    <3>2. UNCHANGED <<taskState, executer, cancelled, execute>>
      BY <2>1 DEF taskVars
    <3> QED
      BY <2>1, <2>3, <3>1, <3>2 DEF ScanInv, WorkInv
  <2> QED
    BY <2>2, <2>5, <2>6, <2>7 DEF ScanInv
<1>3. CASE WorkerEnds(f)
  <2>1. /\ fileState[f] = "following" /\ fileState' = [fileState EXCEPT ![f] = "handled"]
        /\ toAdd[f] = {}
        /\ UNCHANGED <<total, defined, taskVars, cancelled, walkVars, fileQueue, fileClosed,
                       toAdd, stored, execute>>
    BY <1>3 DEF WorkerEnds, Increment
  <2>2. processed' \in Nat
    BY <1>3 DEF WorkerEnds, Increment, ScanInv, TypeOK, TaskTypeOK, ProgressTypeOK
  <2>3. linked' \subseteq Captions /\ unmatched' \subseteq Captions
    BY <1>3 DEF WorkerEnds, ScanInv, TypeOK
  <2>4. FileInv' /\ fileState' \in [Files -> FileStates]
    BY <2>1, WorkerMovesFile
  <2>5. TypeOK'
    BY <2>1, <2>2, <2>3, <2>4 DEF ScanInv, TypeOK, TaskTypeOK, ProgressTypeOK, taskVars, walkVars
  <2>6. TaskInv'
    BY <2>1, TaskFrame DEF ScanInv, taskVars
  <2>7. WorkInv'
    BY <2>1 DEF ScanInv, WorkInv, TypeOK, taskVars
  <2> QED
    BY <2>4, <2>5, <2>6, <2>7 DEF ScanInv
<1> QED
  BY <1>1, <1>2, <1>3, WorkerAddsKeeps DEF WorkerStep

-----------------------------------------------------------------------------
(* The goroutines of the TaskQueue *)

(* What the TaskQueue does on its own is no concern of the file queue.     *)
LEMMA TaskStepKeeps ==
  ASSUME ScanInv, TaskTypeOK', TaskInv',
         UNCHANGED <<cancelled, walkVars, fileVars, captionVars, execute>>
  PROVE  TypeOK' /\ FileInv'
<1>1. TypeOK'
  BY DEF ScanInv, TypeOK, walkVars, fileVars, captionVars
<1>2. FileInv'
  BY FileFrame DEF ScanInv, walkVars, fileVars
<1> QED
  BY <1>1, <1>2

LEMMA ExecuterTakesKeeps ==
  ASSUME ScanInv, ExecuterRuns, ExecuterTakes
  PROVE  ScanInv'
<1> DEFINE t == Head(tasks)
           v == IF cancelled THEN "dropped" ELSE "held"
<1>1. /\ tasks # <<>> /\ tasks' = Tail(tasks)
      /\ taskState' = [taskState EXCEPT ![t] = v]
      /\ executer = "receiving" /\ executer' = IF cancelled THEN "receiving" ELSE "holding"
      /\ UNCHANGED <<closed, progressVars, cancelled, walkVars, fileVars, captionVars, execute>>
  BY DEF ExecuterTakes, ExecuterRuns
<1>2. taskState \in [Tasks -> TaskStates] /\ tasks \in Seq(Tasks) /\ v \in TaskStates
  BY DEF ScanInv, TypeOK, TaskTypeOK, TaskStates
<1>3. t \in Tasks /\ Tail(tasks) \in Seq(Tasks) /\ t = tasks[1] /\ 1 \in DOMAIN tasks
  BY <1>1, <1>2, TailFacts
<1>4. taskState[t] = "queued"
  BY <1>3 DEF ScanInv, TaskInv, Holds
<1>5. Holds(tasks, taskState, Tasks)'
  <2>1. Holds(Tail(tasks), [taskState EXCEPT ![t] = v], Tasks)
    BY <1>1, <1>2, Pop DEF ScanInv, TaskInv
  <2> QED
    BY <1>1, <2>1
<1> HIDE DEF t
<1>6. TaskTypeOK'
  BY <1>1, <1>2, <1>3 DEF ScanInv, TypeOK, TaskTypeOK, ProgressTypeOK, progressVars
<1>7. TaskInv'
  <2>1. OneHeld(taskState, Tasks, executer = "holding")'
    BY <1>1, <1>2, <1>3 DEF ScanInv, TaskInv, OneHeld
  <2> QED
    BY <1>1, <1>5, <2>1 DEF ScanInv, TaskInv
<1>8. WorkInv'
  <2>1. \A s \in Tasks : taskState'[s] = IF s = t THEN v ELSE taskState[s]
    BY <1>1, <1>2
  <2>2. FollowUps \in [Files -> SUBSET Tasks] /\ stored \subseteq Files
    BY FollowUpsAssumption DEF ScanInv, TypeOK
  <2>3. UNCHANGED <<cancelled, fileState, toAdd, stored, execute>>
    BY <1>1 DEF fileVars
  <2>4. execute = "returned" => executer = "done"
    BY DEF ScanInv, WorkInv
  <2> QED
    BY <1>1, <2>1, <2>2, <2>3, <2>4 DEF ScanInv, WorkInv
<1> QED
  BY <1>1, <1>6, <1>7, <1>8, TaskStepKeeps DEF ScanInv

(* A task outside of the queue gets from one stage to the next.            *)
LEMMA TaskMoves ==
  ASSUME ScanInv, NEW t \in Tasks, taskState[t] \in {"held", "running"},
         NEW v \in {"running", "finished"}, taskState' = [taskState EXCEPT ![t] = v],
         UNCHANGED <<tasks, cancelled, fileVars, execute>>,
         execute = "returned" => executer' = executer
  PROVE  /\ taskState' \in [Tasks -> TaskStates]
         /\ Holds(tasks, taskState, Tasks)'
         /\ \A s \in Tasks : taskState'[s] = IF s = t THEN v ELSE taskState[s]
         /\ WorkInv'
<1>1. taskState \in [Tasks -> TaskStates]
  BY DEF ScanInv, TypeOK, TaskTypeOK
<1>2. taskState' \in [Tasks -> TaskStates]
  BY <1>1 DEF TaskStates
<1>3. Holds(tasks, taskState, Tasks)'
  <2>1. Holds(tasks, [taskState EXCEPT ![t] = v], Tasks)
    BY <1>1, Move DEF ScanInv, TaskInv
  <2> QED
    BY <2>1
<1>4. \A s \in Tasks : taskState'[s] = IF s = t THEN v ELSE taskState[s]
  BY <1>1
<1>5. WorkInv'
  <2>1. FollowUps \in [Files -> SUBSET Tasks] /\ stored \subseteq Files
    BY FollowUpsAssumption DEF ScanInv, TypeOK
  <2>2. UNCHANGED <<cancelled, fileState, toAdd, stored, execute>>
    BY DEF fileVars
  <2> QED
    BY <1>4, <2>1, <2>2 DEF ScanInv, WorkInv
<1> QED
  BY <1>2, <1>3, <1>4, <1>5

LEMMA ExecuterKeeps ==
  ASSUME ScanInv, ExecuterRuns
  PROVE  ScanInv'
<1>0. UNCHANGED <<progressVars, cancelled, walkVars, fileVars, captionVars, execute>>
  BY DEF ExecuterRuns
<1>1. CASE ExecuterStarts
  <2>1. PICK t \in Tasks :
          taskState[t] = "held" /\ taskState' = [taskState EXCEPT ![t] = "running"]
    BY <1>1 DEF ExecuterStarts
  <2>2. executer = "holding" /\ executer' = "receiving" /\ UNCHANGED <<tasks, closed>>
    BY <1>1 DEF ExecuterStarts
  <2>3. execute # "returned"
    BY <2>2 DEF ScanInv, WorkInv
  <2>4. /\ taskState' \in [Tasks -> TaskStates]
        /\ Holds(tasks, taskState, Tasks)'
        /\ \A s \in Tasks : taskState'[s] = IF s = t THEN "running" ELSE taskState[s]
        /\ WorkInv'
    BY <1>0, <2>1, <2>2, <2>3, TaskMoves
  <2>5. TaskTypeOK'
    BY <1>0, <2>2, <2>4 DEF ScanInv, TypeOK, TaskTypeOK, ProgressTypeOK, progressVars
  <2>6. TaskInv'
    <3>1. OneHeld(taskState, Tasks, executer = "holding")'
      BY <2>1, <2>2, <2>4 DEF ScanInv, TaskInv, OneHeld
    <3> QED
      BY <1>0, <2>2, <2>4, <3>1 DEF ScanInv, TaskInv
  <2> QED
    BY <1>0, <2>4, <2>5, <2>6, TaskStepKeeps DEF ScanInv
<1>2. CASE ExecuterEnds \/ ExecuterLeaves
  <2>1. /\ UNCHANGED <<tasks, closed, taskState>>
        /\ \/ /\ executer = "receiving" /\ executer' = "waiting" /\ tasks = <<>> /\ closed
           \/ /\ executer = "waiting" /\ executer' = "done" /\ Running = {}
    BY <1>2 DEF ExecuterEnds, ExecuterLeaves
  <2>2. TaskTypeOK'
    BY <1>0, <2>1 DEF ScanInv, TypeOK, TaskTypeOK, ProgressTypeOK, progressVars
  <2>3. TaskInv'
    BY <1>0, <2>1 DEF ScanInv, TaskInv, Holds, OneHeld, Running
  <2>4. WorkInv'
    BY <1>0, <2>1 DEF ScanInv, WorkInv, fileVars
  <2> QED
    BY <1>0, <2>2, <2>3, <2>4, TaskStepKeeps DEF ScanInv
<1> QED
  BY <1>1, <1>2, ExecuterTakesKeeps DEF ExecuterRuns, ExecuterStep

LEMMA TaskRunsKeeps ==
  ASSUME ScanInv, NEW t \in Tasks, TaskRuns(t)
  PROVE  ScanInv'
<1>1. /\ taskState[t] = "running" /\ taskState' = [taskState EXCEPT ![t] = "finished"]
      /\ UNCHANGED <<total, defined, tasks, closed, executer, cancelled, walkVars, fileVars,
                     captionVars, execute>>
  BY DEF TaskRuns, TaskEnds, Increment
<1>2. processed' \in Nat
  BY DEF TaskRuns, TaskEnds, Increment, ScanInv, TypeOK, TaskTypeOK, ProgressTypeOK
<1>3. /\ taskState' \in [Tasks -> TaskStates]
      /\ Holds(tasks, taskState, Tasks)'
      /\ \A s \in Tasks : taskState'[s] = IF s = t THEN "finished" ELSE taskState[s]
      /\ WorkInv'
  BY <1>1, TaskMoves
<1>4. TaskTypeOK'
  BY <1>1, <1>2, <1>3 DEF ScanInv, TypeOK, TaskTypeOK, ProgressTypeOK
<1>5. TaskInv'
  <2>1. OneHeld(taskState, Tasks, executer = "holding")'
    BY <1>1, <1>3 DEF ScanInv, TaskInv, OneHeld
  <2>2. Running' \subseteq Running
    BY <1>1, <1>3 DEF Running
  <2> QED
    BY <1>1, <1>3, <2>1, <2>2 DEF ScanInv, TaskInv
<1> QED
  BY <1>1, <1>3, <1>4, <1>5, TaskStepKeeps DEF ScanInv

LEMMA CancelKeeps ==
  ASSUME ScanInv, Cancel
  PROVE  ScanInv'
<1>1. /\ cancelled' = TRUE
      /\ UNCHANGED <<progressVars, taskVars, walkVars, fileVars, captionVars, execute>>
  BY DEF Cancel
<1>2. TypeOK'
  BY <1>1 DEF ScanInv, TypeOK, TaskTypeOK, ProgressTypeOK, progressVars, taskVars, walkVars,
              fileVars, captionVars
<1>3. FileInv' /\ TaskInv'
  BY <1>1, FileFrame, TaskFrame DEF ScanInv, taskVars, walkVars, fileVars
<1>4. WorkInv'
  BY <1>1 DEF ScanInv, WorkInv, taskVars, fileVars
<1> QED
  BY <1>2, <1>3, <1>4 DEF ScanInv

-----------------------------------------------------------------------------
(* The invariant *)

LEMMA InitScan == Init => ScanInv
<1> SUFFICES ASSUME Init PROVE ScanInv
  OBVIOUS
<1>1. TypeOK
  <2>1. TaskTypeOK
    <3>1. taskState \in [Tasks -> TaskStates]
      BY DEF Init, TaskInit, TaskStates
    <3>2. tasks \in Seq(Tasks)
      BY DEF Init, TaskInit
    <3>3. ProgressTypeOK
      BY DEF Init, TaskInit, ProgressInit, ProgressTypeOK
    <3> QED
      BY <3>1, <3>2, <3>3 DEF Init, TaskInit, TaskTypeOK
  <2>2. walk \in Seq(Entries) /\ fileQueue \in Seq(Files)
    BY TreeAssumption DEF Init
  <2>3. fileState \in [Files -> FileStates] /\ toAdd \in [Files -> SUBSET Tasks]
    BY DEF Init, FileStates
  <2>4. stored \subseteq Files /\ unmatched \subseteq Captions /\ linked \subseteq Captions
    BY DEF Init
  <2>5. /\ walker = "walking" /\ fileClosed = FALSE /\ count = 0 /\ execute = "receiving"
    BY DEF Init
  <2> QED
    BY <2>1, <2>2, <2>3, <2>4, <2>5 DEF TypeOK
<1>2. FileInv
  <2>1. Holds(fileQueue, fileState, Files)
    BY DEF Init, Holds
  <2>2. OneHeld(fileState, Files, execute = "holding")
    BY DEF Init, OneHeld
  <2>3. \A i, j \in DOMAIN walk : walk[i] = walk[j] => i = j
    BY TreeAssumption DEF Init
  <2>4. \A i \in DOMAIN walk : walk[i] \in Files => fileState[walk[i]] = "unseen"
    BY DEF Init
  <2> QED
    BY <2>1, <2>2, <2>3, <2>4 DEF Init, FileInv
<1>3. TaskInv
  BY DEF Init, TaskInit, TaskInv, Holds, OneHeld
<1>4. WorkInv
  BY DEF Init, TaskInit, WorkInv
<1> QED
  BY <1>1, <1>2, <1>3, <1>4 DEF ScanInv

LEMMA StutterKeepsScan ==
  ASSUME ScanInv, UNCHANGED vars
  PROVE  ScanInv'
<1>1. UNCHANGED <<progressVars, taskVars, cancelled, walkVars, fileVars, captionVars, execute>>
  BY DEF vars
<1>2. TypeOK'
  BY <1>1 DEF ScanInv, TypeOK, TaskTypeOK, ProgressTypeOK, progressVars, taskVars, walkVars,
              fileVars, captionVars
<1>3. FileInv' /\ TaskInv' /\ WorkInv'
  BY <1>1, FileFrame, TaskFrame, WorkFrame DEF ScanInv, taskVars, walkVars, fileVars
<1> QED
  BY <1>2, <1>3 DEF ScanInv

LEMMA NextScan == ScanInv /\ [Next]_vars => ScanInv'
<1> SUFFICES ASSUME ScanInv, [Next]_vars PROVE ScanInv'
  OBVIOUS
<1> QED
  BY WalkerKeeps, JobKeeps, WorkerKeeps, ExecuterKeeps, TaskRunsKeeps, CancelKeeps,
     StutterKeepsScan
  DEF Next

(* The queues, the states of the files and tasks and the places of the     *)
(* goroutines of ScanJob.Execute agree, at every step of every scan.       *)
THEOREM ScanInvariant == Spec => []ScanInv
<1> QED
  BY InitScan, NextScan, PTL DEF Spec

(* A scan that ends without being cancelled has handled every file its     *)
(* walker queued and run every follow-up task of the new files.            *)
THEOREM NothingIsMissed == Spec => []NothingMissed
<1>1. ScanInv => NothingMissed
  <2> SUFFICES ASSUME ScanInv, execute = "returned", ~cancelled
               PROVE  /\ \A f \in Files : fileState[f] \in {"unseen", "handled"}
                      /\ \A t \in Tasks : \/ taskState[t] = "finished"
                                          \/ \A f \in stored : t \notin FollowUps[f]
    BY DEF NothingMissed
  <2>1. \A f \in Files : fileState[f] \in {"unseen", "handled"}
    <3>1. fileQueue = <<>> /\ Scanning = {} /\ Holds(fileQueue, fileState, Files)
          /\ OneHeld(fileState, Files, execute = "holding")
          /\ fileState \in [Files -> FileStates]
      BY DEF ScanInv, TypeOK, FileInv
    <3>2. \A f \in Files : fileState[f] \notin {"queued", "held", "scanning", "following"}
      BY <3>1 DEF Holds, OneHeld, Scanning
    <3>3. \A f \in Files : fileState[f] # "dropped"
      BY DEF ScanInv, WorkInv
    <3> QED
      BY <3>1, <3>2, <3>3 DEF FileStates
  <2>2. \A t \in Tasks : taskState[t] \in {"new", "finished"}
    <3>1. executer = "done"
      BY DEF ScanInv, WorkInv
    <3>2. tasks = <<>> /\ Running = {} /\ Holds(tasks, taskState, Tasks)
          /\ OneHeld(taskState, Tasks, executer = "holding")
          /\ taskState \in [Tasks -> TaskStates]
      BY <3>1 DEF ScanInv, TypeOK, TaskTypeOK, TaskInv
    <3>3. \A t \in Tasks : taskState[t] \notin {"queued", "held", "running"}
      BY <3>1, <3>2 DEF Holds, OneHeld, Running
    <3>4. \A t \in Tasks : taskState[t] \notin {"dropped", "panicked"}
      BY DEF ScanInv, WorkInv
    <3> QED
      BY <3>2, <3>3, <3>4 DEF TaskStates
  <2>3. ASSUME NEW t \in Tasks, taskState[t] = "new", NEW f \in stored
        PROVE  t \notin FollowUps[f]
    <3>1. f \in Files
      BY DEF ScanInv, TypeOK
    <3>2. toAdd[f] = {}
      BY <2>1, <3>1 DEF ScanInv, WorkInv
    <3> QED
      BY <2>3, <3>2 DEF ScanInv, WorkInv
  <2> QED
    BY <2>1, <2>2, <2>3
<1> QED
  BY <1>1, ScanInvariant, PTL

-----------------------------------------------------------------------------
(* The file queue is a worker pool *)

(* A step that leaves the files where they are is no step of the pool.     *)
LEMMA FilesStutter ==
  ASSUME UNCHANGED <<fileState, fileClosed>>,
         execute' \in {"joining", "closing", "returned"}
           <=> execute \in {"joining", "closing", "returned"}
  PROVE  UNCHANGED <<FilePhase, FileDoor>>
  BY DEF FilePhase, FileDoor

(* What the pool is told of a file that changes its state.                 *)
LEMMA FileMoves ==
  ASSUME ScanInv, NEW f \in Files, NEW v,
         fileState' = [fileState EXCEPT ![f] = v], UNCHANGED fileClosed,
         execute' \in {"joining", "closing", "returned"}
           <=> execute \in {"joining", "closing", "returned"}
  PROVE  /\ UNCHANGED FileDoor
         /\ v \in {"queued", "held"} => FilePhase' = [FilePhase EXCEPT ![f] = "in"]
         /\ v \in {"scanning", "following"} => FilePhase' = [FilePhase EXCEPT ![f] = "running"]
         /\ v \in {"handled", "dropped"} => FilePhase' = [FilePhase EXCEPT ![f] = "over"]
<1>1. fileState \in [Files -> FileStates]
  BY DEF ScanInv, TypeOK
<1>2. \A g \in Files : fileState'[g] = IF g = f THEN v ELSE fileState[g]
  BY <1>1
<1>3. UNCHANGED FileDoor
  BY DEF FileDoor
<1>4. v \in {"queued", "held"} => FilePhase' = [FilePhase EXCEPT ![f] = "in"]
  BY <1>2 DEF FilePhase
<1>5. v \in {"scanning", "following"} => FilePhase' = [FilePhase EXCEPT ![f] = "running"]
  BY <1>2 DEF FilePhase
<1>6. v \in {"handled", "dropped"} => FilePhase' = [FilePhase EXCEPT ![f] = "over"]
  BY <1>2 DEF FilePhase
<1> QED
  BY <1>3, <1>4, <1>5, <1>6

LEMMA FilesBusy == FilePool!Busy = Scanning
<1>1. \A f \in Files : FilePhase[f] = "running" <=> fileState[f] \in {"scanning", "following"}
  BY DEF FilePhase
<1> QED
  BY <1>1 DEF FilePool!Busy, Scanning

LEMMA FilesStep ==
  ASSUME ScanInv, Next
  PROVE  FilePool!Next \/ UNCHANGED <<FilePhase, FileDoor>>
<1>1. CASE WalkSkips \/ WalkFolder \/ WalkFile \/ WalkCaption \/ WalkRecords \/ WalkTotals
  BY <1>1, FilesStutter
  DEF WalkSkips, WalkFolder, WalkFile, WalkCaption, WalkRecords, WalkTotals, fileVars
<1>2. CASE WalkSends
  <2> DEFINE f == Head(walk)
  <2>1. /\ f \in Files /\ fileState[f] = "unseen" /\ ~fileClosed
        /\ execute \notin {"joining", "closing", "returned"}
    <3>1. walk # <<>> /\ f \in Files /\ ~fileClosed
      BY <1>2 DEF WalkSends, ScanInv, FileInv
    <3>2. 1 \in DOMAIN walk /\ f = walk[1]
      BY <3>1, TailFacts DEF ScanInv, TypeOK
    <3> QED
      BY <3>1, <3>2 DEF ScanInv, FileInv
  <2>2. fileState' = [fileState EXCEPT ![f] = "queued"] /\ UNCHANGED <<fileClosed, execute>>
    BY <1>2 DEF WalkSends
  <2> HIDE DEF f
  <2>3. FilePhase' = [FilePhase EXCEPT ![f] = "in"] /\ UNCHANGED FileDoor
    BY <2>1, <2>2, FileMoves
  <2>4. FileDoor = "open" /\ FilePhase[f] = "out"
    BY <2>1 DEF FileDoor, FilePhase
  <2> QED
    BY <2>1, <2>3, <2>4 DEF FilePool!Next, FilePool!Submit
<1>3. CASE WalkEnds
  <2>1. ~fileClosed /\ fileClosed' = TRUE /\ UNCHANGED <<fileState, execute>>
    BY <1>3 DEF WalkEnds, ScanInv, FileInv
  <2>2. execute \notin {"joining", "closing", "returned"}
    BY <2>1 DEF ScanInv, FileInv
  <2>3. FileDoor = "open" /\ FileDoor' = "closed" /\ UNCHANGED FilePhase
    BY <2>1, <2>2 DEF FileDoor, FilePhase
  <2> QED
    BY <2>3 DEF FilePool!Next, FilePool!Close
<1>4. CASE TakesFile
  <2> DEFINE f == Head(fileQueue)
             v == IF cancelled THEN "dropped" ELSE "held"
  <2>1. f \in Files /\ fileState[f] = "queued"
    <3>1. f \in Files /\ f = fileQueue[1] /\ 1 \in DOMAIN fileQueue
      BY <1>4, TailFacts DEF TakesFile, ScanInv, TypeOK
    <3> QED
      BY <3>1 DEF ScanInv, FileInv, Holds
  <2>2. /\ fileState' = [fileState EXCEPT ![f] = v] /\ UNCHANGED fileClosed
        /\ execute = "receiving" /\ execute' \in {"receiving", "holding"}
    BY <1>4 DEF TakesFile
  <2> HIDE DEF f
  <2>3. /\ FilePhase' = [FilePhase EXCEPT ![f] = IF cancelled THEN "over" ELSE "in"]
        /\ UNCHANGED FileDoor
    BY <2>1, <2>2, FileMoves
  <2>4. FilePhase[f] = "in" /\ DOMAIN FilePhase = Files
    BY <2>1 DEF FilePhase
  <2>5. CASE cancelled
    BY <2>1, <2>3, <2>4, <2>5 DEF FilePool!Next, FilePool!Drop
  <2>6. CASE ~cancelled
    <3>1. FilePhase' = FilePhase
      BY <2>3, <2>4, <2>6 DEF FilePhase
    <3> QED
      BY <2>3, <3>1
  <2> QED
    BY <2>5, <2>6
<1>5. CASE StartsWorker
  <2>1. PICK f \in Files :
          fileState[f] = "held" /\ fileState' = [fileState EXCEPT ![f] = "scanning"]
    BY <1>5 DEF StartsWorker
  <2>2. /\ Cardinality(Scanning) < Processes /\ UNCHANGED fileClosed
        /\ execute = "holding" /\ execute' = "receiving"
    BY <1>5 DEF StartsWorker
  <2>3. FilePhase' = [FilePhase EXCEPT ![f] = "running"] /\ UNCHANGED FileDoor
    BY <2>1, <2>2, FileMoves
  <2>4. FilePhase[f] = "in"
    BY <2>1 DEF FilePhase
  <2> QED
    BY <2>2, <2>3, <2>4, FilesBusy
    DEF FilePool!Next, FilePool!Start, FilePool!Cardinality, Cardinality
<1>6. CASE WorkersEnd
  <2>1. /\ execute = "waiting" /\ execute' = "joining" /\ Scanning = {}
        /\ UNCHANGED <<fileState, fileClosed>>
    BY <1>6 DEF WorkersEnd, fileVars
  <2>2. /\ fileClosed /\ fileQueue = <<>> /\ fileState \in [Files -> FileStates]
        /\ Holds(fileQueue, fileState, Files)
        /\ OneHeld(fileState, Files, execute = "holding")
    BY <2>1 DEF ScanInv, TypeOK, FileInv
  <2>3. \A f \in Files : fileState[f] \notin {"queued", "held", "scanning", "following"}
    BY <2>1, <2>2 DEF Holds, OneHeld, Scanning
  <2>4. \A f \in Files : FilePhase[f] \in {"out", "over"}
    BY <2>2, <2>3 DEF FilePhase
  <2>5. FileDoor = "closed" /\ FileDoor' = "ended" /\ UNCHANGED FilePhase
    BY <2>1, <2>2 DEF FileDoor, FilePhase
  <2> QED
    BY <2>4, <2>5 DEF FilePool!Next, FilePool!End
<1>7. CASE QueueEnds \/ ClosesTasks \/ Returns
  BY <1>7, FilesStutter DEF QueueEnds, ClosesTasks, Returns, fileVars
<1>8. ASSUME NEW f \in Files, WorkerStep(f)
      PROVE  FilePool!Next \/ UNCHANGED <<FilePhase, FileDoor>>
  <2>1. CASE WorkerAdds(f)
    BY <2>1, FilesStutter DEF WorkerAdds
  <2>2. CASE WorkerStores(f)
    <3>1. /\ fileState[f] = "scanning" /\ fileState' = [fileState EXCEPT ![f] = "following"]
          /\ UNCHANGED <<fileClosed, execute>>
      BY <2>2 DEF WorkerStores
    <3>2. FilePhase' = [FilePhase EXCEPT ![f] = "running"] /\ UNCHANGED FileDoor
      BY <3>1, FileMoves
    <3>3. FilePhase[f] = "running"
      BY <3>1 DEF FilePhase
    <3>4. FilePhase' = FilePhase
      BY <3>2, <3>3 DEF FilePhase
    <3> QED
      BY <3>2, <3>4
  <2>3. CASE WorkerPasses(f) \/ WorkerEnds(f)
    <3>1. /\ fileState[f] \in {"scanning", "following"}
          /\ fileState' = [fileState EXCEPT ![f] = "handled"]
          /\ UNCHANGED <<fileClosed, execute>>
      BY <2>3 DEF WorkerPasses, WorkerEnds
    <3>2. FilePhase' = [FilePhase EXCEPT ![f] = "over"] /\ UNCHANGED FileDoor
      BY <3>1, FileMoves
    <3>3. FilePhase[f] = "running"
      BY <3>1 DEF FilePhase
    <3> QED
      BY <3>2, <3>3 DEF FilePool!Next, FilePool!Finish
  <2> QED
    BY <1>8, <2>1, <2>2, <2>3 DEF WorkerStep
<1>9. CASE ExecuterRuns \/ Cancel \/ \E t \in Tasks : TaskRuns(t)
  BY <1>9, FilesStutter DEF ExecuterRuns, Cancel, TaskRuns, fileVars
<1> QED
  BY <1>1, <1>2, <1>3, <1>4, <1>5, <1>6, <1>7, <1>8, <1>9 DEF Next, WalkerStep, JobStep

(* Every file is worked on at most once, by one of at most Processes       *)
(* workers, and processQueue returns only when no file is in its hands.    *)
THEOREM FilesPool == Spec => FilesAreAPool
<1>1. Init => FilePool!Init
  BY DEF Init, FilePool!Init, FilePhase, FileDoor
<1>2. ScanInv /\ [Next]_vars => [FilePool!Next]_<<FilePhase, FileDoor>>
  <2> SUFFICES ASSUME ScanInv, [Next]_vars
               PROVE  FilePool!Next \/ UNCHANGED <<FilePhase, FileDoor>>
    OBVIOUS
  <2>1. CASE UNCHANGED vars
    BY <2>1, FilesStutter DEF vars, fileVars
  <2> QED
    BY <2>1, FilesStep
<1> QED
  BY <1>1, <1>2, ScanInvariant, PTL DEF Spec, FilesAreAPool, FilePool!Spec

-----------------------------------------------------------------------------
(* So is the TaskQueue *)

LEMMA TasksStutter ==
  ASSUME UNCHANGED <<taskState, closed, executer>>
  PROVE  UNCHANGED <<TaskPhase, TaskDoor>>
  BY DEF TaskPhase, TaskDoor

(* What the pool is told of a task that changes its state.                 *)
LEMMA TaskStages ==
  ASSUME ScanInv, NEW t \in Tasks, NEW v, taskState' = [taskState EXCEPT ![t] = v],
         UNCHANGED closed, executer' = "done" <=> executer = "done"
  PROVE  /\ UNCHANGED TaskDoor
         /\ v \in {"queued", "held"} => TaskPhase' = [TaskPhase EXCEPT ![t] = "in"]
         /\ v = "running" => TaskPhase' = [TaskPhase EXCEPT ![t] = "running"]
         /\ v \in {"finished", "dropped"} => TaskPhase' = [TaskPhase EXCEPT ![t] = "over"]
<1>1. taskState \in [Tasks -> TaskStates]
  BY DEF ScanInv, TypeOK, TaskTypeOK
<1>2. \A s \in Tasks : taskState'[s] = IF s = t THEN v ELSE taskState[s]
  BY <1>1
<1>3. UNCHANGED TaskDoor
  BY DEF TaskDoor
<1>4. v \in {"queued", "held"} => TaskPhase' = [TaskPhase EXCEPT ![t] = "in"]
  BY <1>2 DEF TaskPhase
<1>5. v = "running" => TaskPhase' = [TaskPhase EXCEPT ![t] = "running"]
  BY <1>2 DEF TaskPhase
<1>6. v \in {"finished", "dropped"} => TaskPhase' = [TaskPhase EXCEPT ![t] = "over"]
  BY <1>2 DEF TaskPhase
<1> QED
  BY <1>3, <1>4, <1>5, <1>6

LEMMA TasksBusy == TaskPool!Busy = Running
<1>1. \A t \in Tasks : TaskPhase[t] = "running" <=> taskState[t] = "running"
  BY DEF TaskPhase
<1> QED
  BY <1>1 DEF TaskPool!Busy, Running

LEMMA ExecuterIsPool ==
  ASSUME ScanInv, ExecuterStep
  PROVE  TaskPool!Next \/ UNCHANGED <<TaskPhase, TaskDoor>>
<1>1. CASE ExecuterTakes
  <2> DEFINE t == Head(tasks)
             v == IF cancelled THEN "dropped" ELSE "held"
  <2>1. t \in Tasks /\ taskState[t] = "queued"
    <3>1. t \in Tasks /\ t = tasks[1] /\ 1 \in DOMAIN tasks
      BY <1>1, TailFacts DEF ExecuterTakes, ScanInv, TypeOK, TaskTypeOK
    <3> QED
      BY <3>1 DEF ScanInv, TaskInv, Holds
  <2>2. /\ taskState' = [taskState EXCEPT ![t] = v] /\ UNCHANGED closed
        /\ executer = "receiving" /\ executer' \in {"receiving", "holding"}
    BY <1>1 DEF ExecuterTakes
  <2> HIDE DEF t
  <2>3. /\ TaskPhase' = [TaskPhase EXCEPT ![t] = IF cancelled THEN "over" ELSE "in"]
        /\ UNCHANGED TaskDoor
    BY <2>1, <2>2, TaskStages
  <2>4. TaskPhase[t] = "in" /\ DOMAIN TaskPhase = Tasks
    BY <2>1 DEF TaskPhase
  <2>5. CASE cancelled
    BY <2>1, <2>3, <2>4, <2>5 DEF TaskPool!Next, TaskPool!Drop
  <2>6. CASE ~cancelled
    <3>1. TaskPhase' = TaskPhase
      BY <2>3, <2>4, <2>6 DEF TaskPhase
    <3> QED
      BY <2>3, <3>1
  <2> QED
    BY <2>5, <2>6
<1>2. CASE ExecuterStarts
  <2>1. PICK t \in Tasks :
          taskState[t] = "held" /\ taskState' = [taskState EXCEPT ![t] = "running"]
    BY <1>2 DEF ExecuterStarts
  <2>2. /\ Cardinality(Running) < Processes /\ UNCHANGED closed
        /\ executer = "holding" /\ executer' = "receiving"
    BY <1>2 DEF ExecuterStarts
  <2>3. TaskPhase' = [TaskPhase EXCEPT ![t] = "running"] /\ UNCHANGED TaskDoor
    BY <2>1, <2>2, TaskStages
  <2>4. TaskPhase[t] = "in"
    BY <2>1 DEF TaskPhase
  <2> QED
    BY <2>2, <2>3, <2>4, TasksBusy
    DEF TaskPool!Next, TaskPool!Start, TaskPool!Cardinality, Cardinality
<1>3. CASE ExecuterEnds
  <2>1. UNCHANGED <<taskState, closed>> /\ executer = "receiving" /\ executer' = "waiting"
    BY <1>3 DEF ExecuterEnds
  <2> QED
    BY <2>1 DEF TaskPhase, TaskDoor
<1>4. CASE ExecuterLeaves
  <2>1. /\ executer = "waiting" /\ executer' = "done" /\ Running = {}
        /\ UNCHANGED <<taskState, closed>>
    BY <1>4 DEF ExecuterLeaves
  <2>2. /\ closed /\ tasks = <<>> /\ taskState \in [Tasks -> TaskStates]
        /\ Holds(tasks, taskState, Tasks)
        /\ OneHeld(taskState, Tasks, executer = "holding")
    BY <2>1 DEF ScanInv, TypeOK, TaskTypeOK, TaskInv
  <2>3. \A t \in Tasks : taskState[t] \notin {"queued", "held", "running"}
    BY <2>1, <2>2 DEF Holds, OneHeld, Running
  <2>4. \A t \in Tasks : TaskPhase[t] \in {"out", "over"}
    BY <2>2, <2>3 DEF TaskPhase
  <2>5. TaskDoor = "closed" /\ TaskDoor' = "ended" /\ UNCHANGED TaskPhase
    BY <2>1, <2>2 DEF TaskDoor, TaskPhase
  <2> QED
    BY <2>4, <2>5 DEF TaskPool!Next, TaskPool!End
<1> QED
  BY <1>1, <1>2, <1>3, <1>4 DEF ExecuterStep

LEMMA TasksStep ==
  ASSUME ScanInv, Next
  PROVE  TaskPool!Next \/ UNCHANGED <<TaskPhase, TaskDoor>>
<1>1. CASE WalkerStep
  BY <1>1, TasksStutter
  DEF WalkerStep, WalkSkips, WalkFolder, WalkFile, WalkSends, WalkCaption, WalkRecords,
      WalkEnds, WalkTotals, taskVars
<1>2. CASE TakesFile \/ StartsWorker \/ QueueEnds \/ WorkersEnd \/ Returns
  BY <1>2, TasksStutter DEF TakesFile, StartsWorker, QueueEnds, WorkersEnd, Returns, taskVars
<1>3. CASE ClosesTasks
  <2>1. closed' = TRUE /\ UNCHANGED <<taskState, executer>> /\ execute = "joining"
    BY <1>3 DEF ClosesTasks, CloseTasks
  <2>2. ~closed /\ executer # "done"
    BY <2>1 DEF ScanInv, TaskInv
  <2>3. TaskDoor = "open" /\ TaskDoor' = "closed" /\ UNCHANGED TaskPhase
    BY <2>1, <2>2 DEF TaskDoor, TaskPhase
  <2> QED
    BY <2>3 DEF TaskPool!Next, TaskPool!Close
<1>4. ASSUME NEW f \in Files, WorkerStep(f)
      PROVE  TaskPool!Next \/ UNCHANGED <<TaskPhase, TaskDoor>>
  <2>1. CASE WorkerAdds(f)
    <3>1. PICK t \in toAdd[f] : AddTask(t)
      BY <2>1 DEF WorkerAdds
    <3>2. t \in Tasks /\ ~closed /\ executer # "done"
      <4>1. ~closed
        BY <2>1, WorkerFacts DEF WorkerAdds
      <4> QED
        BY <4>1 DEF ScanInv, TypeOK, TaskInv
    <3>3. /\ taskState[t] = "new" /\ taskState' = [taskState EXCEPT ![t] = "queued"]
          /\ UNCHANGED <<closed, executer>>
      BY <3>1, <3>2 DEF AddTask
    <3>4. TaskPhase' = [TaskPhase EXCEPT ![t] = "in"] /\ UNCHANGED TaskDoor
      BY <3>2, <3>3, TaskStages
    <3>5. TaskDoor = "open" /\ TaskPhase[t] = "out"
      BY <3>2, <3>3 DEF TaskDoor, TaskPhase
    <3> QED
      BY <3>2, <3>4, <3>5 DEF TaskPool!Next, TaskPool!Submit
  <2>2. CASE WorkerPasses(f) \/ WorkerStores(f) \/ WorkerEnds(f)
    BY <2>2, TasksStutter DEF WorkerPasses, WorkerStores, WorkerEnds, taskVars
  <2> QED
    BY <1>4, <2>1, <2>2 DEF WorkerStep
<1>5. ASSUME NEW t \in Tasks, TaskRuns(t)
      PROVE  TaskPool!Next \/ UNCHANGED <<TaskPhase, TaskDoor>>
  <2>1. /\ taskState[t] = "running" /\ taskState' = [taskState EXCEPT ![t] = "finished"]
        /\ UNCHANGED <<closed, executer>>
    BY <1>5 DEF TaskRuns, TaskEnds
  <2>2. TaskPhase' = [TaskPhase EXCEPT ![t] = "over"] /\ UNCHANGED TaskDoor
    BY <2>1, TaskStages
  <2>3. TaskPhase[t] = "running"
    BY <2>1 DEF TaskPhase
  <2> QED
    BY <2>2, <2>3 DEF TaskPool!Next, TaskPool!Finish
<1>6. CASE Cancel
  BY <1>6, TasksStutter DEF Cancel, taskVars
<1> QED
  BY <1>1, <1>2, <1>3, <1>4, <1>5, <1>6, ExecuterIsPool DEF Next, JobStep, ExecuterRuns

(* No task is added to a closed TaskQueue, each is run at most once, with  *)
(* at most Processes at a time, and the scan waits for all of them.        *)
THEOREM TasksPool == Spec => TasksAreAPool
<1>1. Init => TaskPool!Init
  BY DEF Init, TaskInit, TaskPool!Init, TaskPhase, TaskDoor
<1>2. ScanInv /\ [Next]_vars => [TaskPool!Next]_<<TaskPhase, TaskDoor>>
  <2> SUFFICES ASSUME ScanInv, [Next]_vars
               PROVE  TaskPool!Next \/ UNCHANGED <<TaskPhase, TaskDoor>>
    OBVIOUS
  <2>1. CASE UNCHANGED vars
    BY <2>1, TasksStutter DEF vars, taskVars
  <2> QED
    BY <2>1, TasksStep
<1> QED
  BY <1>1, <1>2, ScanInvariant, PTL DEF Spec, TasksAreAPool, TaskPool!Spec

-----------------------------------------------------------------------------
(* Captions *)

(* What the walker leaves behind when it goes on to the next entry. *)
LEMMA WalkedOn ==
  ASSUME ScanInv, walk # <<>>, walk' = Tail(walk), NEW c \in Range(walk), c \notin Range(walk')
  PROVE  c = Head(walk)
<1>1. walk \in Seq(Entries)
  BY DEF ScanInv, TypeOK
<1>2. PICK i \in DOMAIN walk : c = walk[i]
  BY DEF Range
<1>3. /\ Len(walk) \in Nat /\ DOMAIN walk = 1..Len(walk) /\ Head(walk) = walk[1]
      /\ DOMAIN Tail(walk) = 1..(Len(walk) - 1)
      /\ \A k \in 1..(Len(walk) - 1) : Tail(walk)[k] = walk[k + 1]
  BY <1>1
<1>4. CASE i = 1
  BY <1>2, <1>3, <1>4
<1>5. CASE i # 1
  <2>1. i - 1 \in DOMAIN walk' /\ walk'[i - 1] = c
    BY <1>2, <1>3, <1>5
  <2> QED BY <2>1 DEF Range
<1> QED BY <1>4, <1>5

(* The caption the walker has just seen is linked or put on the list of    *)
(* unmatched ones, and a worker takes from that list only what it links.   *)
THEOREM CaptionsAreKept == Spec => []NoCaptionDropped
<1>1. Init => NoCaptionDropped
  BY DEF Init, NoCaptionDropped
<1>2. ASSUME ScanInv, NoCaptionDropped, [Next]_vars PROVE NoCaptionDropped'
  <2>1. ASSUME UNCHANGED walk, \A c \in linked \cup unmatched : c \in linked' \cup unmatched'
        PROVE  NoCaptionDropped'
    BY <1>2, <2>1 DEF NoCaptionDropped
  <2>2. ASSUME walk # <<>>, walk' = Tail(walk), linked \subseteq linked', unmatched \subseteq unmatched',
               Head(walk) \in Captions => Head(walk) \in linked' \cup unmatched'
        PROVE  NoCaptionDropped'
    <3> SUFFICES ASSUME NEW c \in Captions, c \in Range(Tree), c \notin Range(walk')
                 PROVE  c \in linked' \/ c \in unmatched'
      BY DEF NoCaptionDropped
    <3>1. CASE c \in Range(walk)
      BY <1>2, <2>2, <3>1, WalkedOn
    <3>2. CASE c \notin Range(walk)
      BY <1>2, <2>2, <3>2 DEF NoCaptionDropped
    <3> QED BY <3>1, <3>2
  <2>3. CASE WalkSkips \/ WalkFolder
    BY <2>2, <2>3, KindsAssumption DEF WalkSkips, WalkFolder, Visits, captionVars
  <2>4. CASE WalkSends
    BY <1>2, <2>2, <2>4, KindsAssumption DEF WalkSends, ScanInv, FileInv, captionVars
  <2>5. CASE WalkCaption
    <3>1. CASE VideoOf[Head(walk)] \in stored
      BY <2>2, <2>5, <3>1 DEF WalkCaption, Visits
    <3>2. CASE VideoOf[Head(walk)] \notin stored
      BY <2>1, <2>5, <3>2 DEF WalkCaption
    <3> QED BY <3>1, <3>2
  <2>6. CASE WalkRecords
    BY <1>2, <2>2, <2>6 DEF WalkRecords, ScanInv, FileInv
  <2>7. ASSUME NEW f \in Files, WorkerEnds(f) PROVE NoCaptionDropped'
    BY <2>1, <2>7 DEF WorkerEnds, walkVars
  <2>8. CASE UNCHANGED <<walk, captionVars>>
    BY <2>1, <2>8 DEF captionVars
  <2>9. ASSUME ~WalkSkips, ~WalkFolder, ~WalkSends, ~WalkCaption, ~WalkRecords,
               \A f \in Files : ~WorkerEnds(f)
        PROVE  UNCHANGED <<walk, captionVars>>
    BY <1>2, <2>9 DEF Next, WalkerStep, WalkFile, WalkEnds, WalkTotals, JobStep, TakesFile,
       StartsWorker, QueueEnds, WorkersEnd, ClosesTasks, Returns, WorkerStep, WorkerPasses,
       WorkerStores, WorkerAdds, ExecuterRuns, TaskRuns, Cancel, vars, walkVars
  <2> QED BY <2>3, <2>4, <2>5, <2>6, <2>7, <2>8, <2>9
<1> QED BY <1>1, <1>2, ScanInvariant, PTL DEF Spec

-----------------------------------------------------------------------------
(* The progress of the scan *)

(* The work that was counted and is not over. *)
FilesAtWork == {f \in Files : fileState[f] \in {"queued", "held", "scanning", "following"}}
TasksAtWork == {t \in Tasks : taskState[t] \in {"queued", "held", "running"}}

(* The total as it will be when the walker has added what it queued. *)
Due == IF defined THEN total ELSE total + count

(* What is due is done or at work, unless the job is cancelled: then       *)
(* files and tasks are dropped uncounted.                                  *)
CountInv ==
  /\ IsFiniteSet(FilesAtWork) /\ IsFiniteSet(TasksAtWork)
  /\ defined <=> walker = "done"
  /\ execute \in {"closing", "returned"} => walker = "done"
  /\ ~cancelled => Due <= processed + Cardinality(FilesAtWork) + Cardinality(TasksAtWork)

CountType ==
  /\ total \in Nat /\ processed \in Nat /\ count \in Nat
  /\ defined \in BOOLEAN /\ cancelled \in BOOLEAN
  /\ fileState \in [Files -> FileStates] /\ taskState \in [Tasks -> TaskStates]

LEMMA CountTyped ==
  ASSUME ScanInv
  PROVE  CountType
BY DEF ScanInv, TypeOK, TaskTypeOK, ProgressTypeOK, CountType

(* Increment pays for one piece of work, or the total is already reached.  *)
LEMMA IncrementPays ==
  ASSUME CountType, Increment
  PROVE  /\ processed' \in Nat /\ processed' >= processed
         /\ processed' = processed + 1 \/ (defined /\ total <= processed')
         /\ total' = total /\ defined' = defined
BY DEF Increment, CountType

(* Steps that finish nothing and add nothing. *)
LEMMA CountFrame ==
  ASSUME ScanInv, CountInv, FilesAtWork' = FilesAtWork, TasksAtWork' = TasksAtWork,
         defined' <=> walker' = "done",
         execute' \in {"closing", "returned"} => walker' = "done",
         cancelled => cancelled',
         Due' = Due, processed' \in Nat, processed' >= processed
  PROVE  CountInv'
<1>1. /\ Cardinality(FilesAtWork) \in Nat /\ Cardinality(TasksAtWork) \in Nat
      /\ Due \in Nat /\ processed \in Nat
  BY FS_CardinalityType, CountTyped DEF CountInv, CountType, Due
<1> QED BY <1>1 DEF CountInv

(* A step that ends one file or task and counts it, with Increment. *)
LEMMA CountPaid ==
  ASSUME ScanInv, CountInv, Increment, NEW x,
         <<FilesAtWork', TasksAtWork'>> \in {<<FilesAtWork \ {x}, TasksAtWork>>,
                                             <<FilesAtWork, TasksAtWork \ {x}>>},
         UNCHANGED <<count, walker, execute, cancelled>>
  PROVE  CountInv'
<1>1. /\ processed' \in Nat /\ processed' >= processed
      /\ processed' = processed + 1 \/ (defined /\ total <= processed')
      /\ total' = total /\ defined' = defined
      /\ processed \in Nat /\ total \in Nat /\ count \in Nat
  BY CountTyped, IncrementPays DEF CountType
<1>2. /\ IsFiniteSet(FilesAtWork) /\ IsFiniteSet(TasksAtWork)
      /\ Cardinality(FilesAtWork) \in Nat /\ Cardinality(TasksAtWork) \in Nat
  BY FS_CardinalityType DEF CountInv
<1>3. /\ IsFiniteSet(FilesAtWork') /\ IsFiniteSet(TasksAtWork')
      /\ Cardinality(FilesAtWork') \in Nat /\ Cardinality(TasksAtWork') \in Nat
      /\ Cardinality(FilesAtWork) + Cardinality(TasksAtWork)
           <= Cardinality(FilesAtWork') + Cardinality(TasksAtWork') + 1
  <2>1. CASE FilesAtWork' = FilesAtWork \ {x} /\ TasksAtWork' = TasksAtWork
    <3>1. /\ IsFiniteSet(FilesAtWork')
          /\ Cardinality(FilesAtWork') \in {Cardinality(FilesAtWork), Cardinality(FilesAtWork) - 1}
      BY <1>2, <2>1, FS_RemoveElement
    <3>2. Cardinality(FilesAtWork') \in Nat
      BY <3>1, FS_CardinalityType
    <3> QED BY <1>2, <2>1, <3>1, <3>2
  <2>2. CASE FilesAtWork' = FilesAtWork /\ TasksAtWork' = TasksAtWork \ {x}
    <3>1. /\ IsFiniteSet(TasksAtWork')
          /\ Cardinality(TasksAtWork') \in {Cardinality(TasksAtWork), Cardinality(TasksAtWork) - 1}
      BY <1>2, <2>2, FS_RemoveElement
    <3>2. Cardinality(TasksAtWork') \in Nat
      BY <3>1, FS_CardinalityType
    <3> QED BY <1>2, <2>2, <3>1, <3>2
  <2> QED BY <2>1, <2>2
<1>4. Due' = Due /\ Due \in Nat
  BY <1>1 DEF Due
<1>5. ~cancelled => Due' <= processed' + Cardinality(FilesAtWork') + Cardinality(TasksAtWork')
  <2>1. CASE processed' = processed + 1
    BY <1>1, <1>2, <1>3, <1>4, <2>1 DEF CountInv
  <2>2. CASE defined /\ total <= processed'
    BY <1>1, <1>3, <1>4, <2>2 DEF Due
  <2> QED BY <1>1, <2>1, <2>2
<1>6. /\ defined' <=> walker' = "done"
      /\ execute' \in {"closing", "returned"} => walker' = "done"
  BY <1>1 DEF CountInv
<1> QED BY <1>3, <1>5, <1>6 DEF CountInv

LEMMA CountInit == Init => CountInv
<1> SUFFICES ASSUME Init PROVE CountInv
  OBVIOUS
<1>1. FilesAtWork = {} /\ TasksAtWork = {}
  BY DEF Init, TaskInit, FilesAtWork, TasksAtWork
<1>2. /\ total = 0 /\ processed = 0 /\ defined = FALSE /\ count = 0
      /\ walker = "walking" /\ execute = "receiving"
  BY DEF Init, TaskInit, ProgressInit
<1> QED BY <1>1, <1>2, FS_EmptySet DEF CountInv, Due

(* A file or a task that gets from one stage to another. *)
LEMMA FilesAtWorkMove ==
  ASSUME CountType, NEW f \in Files, NEW v, fileState' = [fileState EXCEPT ![f] = v],
         UNCHANGED taskState
  PROVE  /\ FilesAtWork' = IF v \in {"queued", "held", "scanning", "following"}
                           THEN FilesAtWork \cup {f} ELSE FilesAtWork \ {f}
         /\ f \in FilesAtWork <=> fileState[f] \in {"queued", "held", "scanning", "following"}
         /\ TasksAtWork' = TasksAtWork
<1>1. \A g \in Files : fileState'[g] = IF g = f THEN v ELSE fileState[g]
  BY DEF CountType
<1> QED BY <1>1 DEF FilesAtWork, TasksAtWork

LEMMA TasksAtWorkMove ==
  ASSUME CountType, NEW t \in Tasks, NEW v, taskState' = [taskState EXCEPT ![t] = v],
         UNCHANGED fileState
  PROVE  /\ TasksAtWork' = IF v \in {"queued", "held", "running"}
                           THEN TasksAtWork \cup {t} ELSE TasksAtWork \ {t}
         /\ t \in TasksAtWork <=> taskState[t] \in {"queued", "held", "running"}
         /\ FilesAtWork' = FilesAtWork
<1>1. \A u \in Tasks : taskState'[u] = IF u = t THEN v ELSE taskState[u]
  BY DEF CountType
<1> QED BY <1>1 DEF FilesAtWork, TasksAtWork

(* The walker counts what it queues, and settles the total at its end.     *)
LEMMA WalkerCounts ==
  ASSUME ScanInv, CountInv, WalkerStep
  PROVE  CountInv'
<1>t. /\ CountType
      /\ Cardinality(FilesAtWork) \in Nat /\ Cardinality(TasksAtWork) \in Nat
  BY CountTyped, FS_CardinalityType DEF CountInv
<1> USE DEF CountType
<1>1. CASE WalkSends
  <2> DEFINE f == Head(walk)
  <2>1. f \in Files /\ fileState[f] = "unseen"
    <3>1. walk \in Seq(Entries) /\ walk # <<>> /\ Head(walk) \in Files
      BY <1>1 DEF WalkSends, ScanInv, TypeOK, FileInv
    <3>2. 1 \in DOMAIN walk /\ walk[1] = f
      BY <3>1
    <3> QED BY <3>1, <3>2 DEF ScanInv, FileInv
  <2>2. /\ fileState' = [fileState EXCEPT ![f] = "queued"] /\ count' = count + 1
        /\ walker = "sending" /\ walker' = "walking"
        /\ UNCHANGED <<total, processed, defined, taskState, cancelled, execute>>
    BY <1>1 DEF WalkSends, progressVars, taskVars
  <2> HIDE DEF f
  <2>3. FilesAtWork' = FilesAtWork \cup {f} /\ f \notin FilesAtWork /\ TasksAtWork' = TasksAtWork
    BY <1>t, <2>1, <2>2, FilesAtWorkMove
  <2>4. IsFiniteSet(FilesAtWork') /\ Cardinality(FilesAtWork') = Cardinality(FilesAtWork) + 1
    BY <2>3, FS_AddElement DEF CountInv
  <2>5. ~defined /\ execute \notin {"closing", "returned"}
    BY <2>2 DEF CountInv
  <2>6. Due' = Due + 1 /\ Due \in Nat
    BY <1>t, <2>2, <2>5 DEF Due
  <2> QED BY <1>t, <2>2, <2>3, <2>4, <2>5, <2>6 DEF CountInv
<1>2. CASE WalkTotals
  <2>1. /\ total' = total + count /\ defined' = TRUE /\ walker = "totalling" /\ walker' = "done"
        /\ UNCHANGED <<processed, count, fileState, taskState, cancelled, execute>>
    BY <1>2 DEF WalkTotals, fileVars, taskVars
  <2>2. FilesAtWork' = FilesAtWork /\ TasksAtWork' = TasksAtWork
    BY <2>1 DEF FilesAtWork, TasksAtWork
  <2>3. Due' = Due
    BY <2>1 DEF CountInv, Due
  <2> QED BY <1>t, <2>1, <2>2, <2>3, CountFrame
<1>3. CASE WalkFolder
  <2>1. /\ Increment /\ UNCHANGED <<count, walker, fileState, taskState, cancelled, execute>>
    BY <1>3 DEF WalkFolder, fileVars, taskVars
  <2>2. /\ processed' \in Nat /\ processed' >= processed
        /\ total' = total /\ defined' = defined
    BY <1>t, <2>1, IncrementPays
  <2>3. FilesAtWork' = FilesAtWork /\ TasksAtWork' = TasksAtWork /\ Due' = Due
    BY <2>1, <2>2 DEF FilesAtWork, TasksAtWork, Due
  <2> QED BY <2>1, <2>2, <2>3, CountFrame DEF CountInv
<1>4. CASE WalkSkips \/ WalkFile \/ WalkCaption \/ WalkRecords \/ WalkEnds
  <2>1. /\ UNCHANGED <<total, processed, defined, count, fileState, taskState, cancelled, execute>>
        /\ walker' = "done" <=> walker = "done"
    BY <1>4 DEF WalkSkips, WalkFile, WalkCaption, WalkRecords, WalkEnds, Visits,
       progressVars, taskVars, fileVars
  <2>2. FilesAtWork' = FilesAtWork /\ TasksAtWork' = TasksAtWork /\ Due' = Due
    BY <2>1 DEF FilesAtWork, TasksAtWork, Due
  <2>3. /\ processed' \in Nat /\ processed' >= processed
        /\ defined' <=> walker' = "done"
        /\ execute' \in {"closing", "returned"} => walker' = "done"
        /\ cancelled => cancelled'
    BY <1>t, <2>1 DEF CountInv
  <2> QED BY <2>2, <2>3, CountFrame
<1> QED BY <1>1, <1>2, <1>3, <1>4 DEF WalkerStep

(* The job goroutine and the executer count nothing: what they take stays  *)
(* at work, unless the job is cancelled.                                   *)
LEMMA ReadersCount ==
  ASSUME ScanInv, CountInv, JobStep \/ ExecuterRuns \/ Cancel
  PROVE  CountInv'
<1>t. /\ CountType
      /\ Cardinality(FilesAtWork) \in Nat /\ Cardinality(TasksAtWork) \in Nat
  BY CountTyped, FS_CardinalityType DEF CountInv
<1> USE DEF CountType
<1>p. /\ UNCHANGED <<total, processed, defined, count, walker>>
      /\ cancelled => cancelled'
      /\ execute' \in {"closing", "returned"} => walker = "done"
  BY DEF JobStep, TakesFile, StartsWorker, QueueEnds, WorkersEnd, ClosesTasks, Returns,
     ExecuterRuns, Cancel, CountInv, progressVars, walkVars
<1>d. /\ Due' = Due /\ processed' \in Nat /\ processed' >= processed
      /\ defined' <=> walker' = "done"
      /\ execute' \in {"closing", "returned"} => walker' = "done"
  BY <1>t, <1>p DEF Due, CountInv
<1>f. ASSUME FilesAtWork' = FilesAtWork, TasksAtWork' = TasksAtWork PROVE CountInv'
  BY <1>d, <1>f, <1>p, CountFrame
<1>c. ASSUME cancelled', NEW x,
             \/ FilesAtWork' = FilesAtWork \ {x} /\ TasksAtWork' = TasksAtWork
             \/ FilesAtWork' = FilesAtWork /\ TasksAtWork' = TasksAtWork \ {x}
      PROVE  CountInv'
  <2>1. IsFiniteSet(FilesAtWork') /\ IsFiniteSet(TasksAtWork')
    BY <1>c, FS_RemoveElement DEF CountInv
  <2> QED BY <1>c, <1>d, <2>1 DEF CountInv
<1>1. CASE TakesFile
  <2> DEFINE f == Head(fileQueue)
             v == IF cancelled THEN "dropped" ELSE "held"
  <2>1. f \in Files /\ fileState[f] = "queued"
    <3>1. fileQueue \in Seq(Files) /\ fileQueue # <<>>
      BY <1>1 DEF TakesFile, ScanInv, TypeOK
    <3>2. f \in Files /\ f = fileQueue[1] /\ 1 \in DOMAIN fileQueue
      BY <3>1, TailFacts
    <3> QED BY <3>2 DEF ScanInv, FileInv, Holds
  <2>2. fileState' = [fileState EXCEPT ![f] = v] /\ UNCHANGED <<taskState, cancelled>>
    BY <1>1 DEF TakesFile, taskVars
  <2> HIDE DEF f, v
  <2>3. /\ FilesAtWork' = IF v \in {"queued", "held", "scanning", "following"}
                          THEN FilesAtWork \cup {f} ELSE FilesAtWork \ {f}
        /\ f \in FilesAtWork
        /\ TasksAtWork' = TasksAtWork
    BY <1>t, <2>1, <2>2, FilesAtWorkMove
  <2>4. CASE cancelled
    BY <1>c, <2>2, <2>3, <2>4 DEF v
  <2>5. CASE ~cancelled
    BY <1>f, <2>3, <2>5 DEF v
  <2> QED BY <2>4, <2>5
<1>2. CASE StartsWorker
  <2>1. PICK f \in Files :
          fileState[f] = "held" /\ fileState' = [fileState EXCEPT ![f] = "scanning"]
    BY <1>2 DEF StartsWorker
  <2>2. UNCHANGED taskState
    BY <1>2 DEF StartsWorker, taskVars
  <2> QED BY <1>f, <1>t, <2>1, <2>2, FilesAtWorkMove
<1>3. CASE QueueEnds \/ WorkersEnd \/ ClosesTasks \/ Returns \/ Cancel
  <2>1. UNCHANGED <<fileState, taskState>>
    BY <1>3 DEF QueueEnds, WorkersEnd, ClosesTasks, CloseTasks, Returns, Cancel, fileVars, taskVars
  <2> QED BY <1>f, <2>1 DEF FilesAtWork, TasksAtWork
<1>4. CASE ExecuterRuns /\ ExecuterTakes
  <2> DEFINE t == Head(tasks)
             v == IF cancelled THEN "dropped" ELSE "held"
  <2>1. t \in Tasks /\ taskState[t] = "queued"
    <3>1. tasks \in Seq(Tasks) /\ tasks # <<>>
      BY <1>4 DEF ExecuterTakes, ScanInv, TypeOK, TaskTypeOK
    <3>2. t \in Tasks /\ t = tasks[1] /\ 1 \in DOMAIN tasks
      BY <3>1, TailFacts
    <3> QED BY <3>2 DEF ScanInv, TaskInv, Holds
  <2>2. taskState' = [taskState EXCEPT ![t] = v] /\ UNCHANGED <<fileState, cancelled>>
    BY <1>4 DEF ExecuterTakes, ExecuterRuns, fileVars
  <2> HIDE DEF t, v
  <2>3. /\ TasksAtWork' = IF v \in {"queued", "held", "running"}
                          THEN TasksAtWork \cup {t} ELSE TasksAtWork \ {t}
        /\ t \in TasksAtWork
        /\ FilesAtWork' = FilesAtWork
    BY <1>t, <2>1, <2>2, TasksAtWorkMove
  <2>4. CASE cancelled
    BY <1>c, <2>2, <2>3, <2>4 DEF v
  <2>5. CASE ~cancelled
    BY <1>f, <2>3, <2>5 DEF v
  <2> QED BY <2>4, <2>5
<1>5. CASE ExecuterRuns /\ ExecuterStarts
  <2>1. PICK t \in Tasks :
          taskState[t] = "held" /\ taskState' = [taskState EXCEPT ![t] = "running"]
    BY <1>5 DEF ExecuterStarts
  <2>2. UNCHANGED fileState
    BY <1>5 DEF ExecuterRuns, fileVars
  <2> QED BY <1>f, <1>t, <2>1, <2>2, TasksAtWorkMove
<1>6. CASE ExecuterRuns /\ (ExecuterEnds \/ ExecuterLeaves)
  <2>1. UNCHANGED <<fileState, taskState>>
    BY <1>6 DEF ExecuterRuns, ExecuterEnds, ExecuterLeaves, fileVars
  <2> QED BY <1>f, <2>1 DEF FilesAtWork, TasksAtWork
<1> QED BY <1>1, <1>2, <1>3, <1>4, <1>5, <1>6 DEF JobStep, ExecuterRuns, ExecuterStep

(* The workers count a follow-up when they add it, and a file at its end.  *)
LEMMA WorkersCount ==
  ASSUME ScanInv, CountInv,
         (\E f \in Files : WorkerStep(f)) \/ (\E t \in Tasks : TaskRuns(t))
  PROVE  CountInv'
<1>t. /\ CountType
      /\ Cardinality(FilesAtWork) \in Nat /\ Cardinality(TasksAtWork) \in Nat
  BY CountTyped, FS_CardinalityType DEF CountInv
<1> USE DEF CountType
<1>1. ASSUME NEW f \in Files, WorkerPasses(f) \/ WorkerEnds(f) PROVE CountInv'
  <2>1. /\ fileState' = [fileState EXCEPT ![f] = "handled"] /\ Increment
        /\ UNCHANGED <<taskState, cancelled, count, walker, execute>>
    BY <1>1 DEF WorkerPasses, WorkerEnds, taskVars, walkVars
  <2>2. FilesAtWork' = FilesAtWork \ {f} /\ TasksAtWork' = TasksAtWork
    <3>1. \A g \in Files : fileState'[g] = IF g = f THEN "handled" ELSE fileState[g]
      BY <1>t, <2>1
    <3> QED BY <2>1, <3>1 DEF FilesAtWork, TasksAtWork
  <2>3. <<FilesAtWork', TasksAtWork'>> = <<FilesAtWork \ {f}, TasksAtWork>>
    BY <2>2
  <2> QED BY <2>1, <2>3, CountPaid
<1>2. ASSUME NEW f \in Files, WorkerStores(f) PROVE CountInv'
  <2>1. /\ fileState[f] = "scanning" /\ fileState' = [fileState EXCEPT ![f] = "following"]
        /\ UNCHANGED <<total, processed, defined, taskState, cancelled, count, walker, execute>>
    BY <1>2 DEF WorkerStores, progressVars, taskVars, walkVars
  <2>2. FilesAtWork' = FilesAtWork /\ TasksAtWork' = TasksAtWork /\ Due' = Due
    BY <1>t, <2>1, FilesAtWorkMove DEF Due
  <2>3. /\ processed' \in Nat /\ processed' >= processed
        /\ defined' <=> walker' = "done"
        /\ execute' \in {"closing", "returned"} => walker' = "done"
        /\ cancelled => cancelled'
    BY <1>t, <2>1 DEF CountInv
  <2> QED BY <2>2, <2>3, CountFrame
<1>3. ASSUME NEW f \in Files, WorkerAdds(f) PROVE CountInv'
  <2>1. PICK t \in toAdd[f] : AddTask(t)
    BY <1>3 DEF WorkerAdds
  <2>2. /\ total' = total + 1
        /\ UNCHANGED <<processed, defined, cancelled, count, walker, fileState, execute>>
    BY <1>3 DEF WorkerAdds, AddTotal, walkVars
  <2>3. t \in Tasks /\ ~closed
    BY <1>3, <2>1, WorkerFacts DEF WorkerAdds, ScanInv, TypeOK
  <2>4. taskState[t] = "new" /\ taskState' = [taskState EXCEPT ![t] = "queued"]
    BY <2>1, <2>3 DEF AddTask
  <2>5. TasksAtWork' = TasksAtWork \cup {t} /\ t \notin TasksAtWork /\ FilesAtWork' = FilesAtWork
    BY <1>t, <2>2, <2>3, <2>4, TasksAtWorkMove
  <2>6. IsFiniteSet(TasksAtWork') /\ Cardinality(TasksAtWork') = Cardinality(TasksAtWork) + 1
    BY <2>5, FS_AddElement DEF CountInv
  <2>7. Due' = Due + 1 /\ Due \in Nat
    BY <1>t, <2>2 DEF Due
  <2> QED BY <1>t, <2>2, <2>5, <2>6, <2>7 DEF CountInv
<1>4. ASSUME NEW t \in Tasks, TaskRuns(t) PROVE CountInv'
  <2>1. /\ taskState' = [taskState EXCEPT ![t] = "finished"] /\ Increment
        /\ UNCHANGED <<fileState, cancelled, count, walker, execute>>
    BY <1>4 DEF TaskRuns, TaskEnds, fileVars, walkVars
  <2>2. TasksAtWork' = TasksAtWork \ {t} /\ FilesAtWork' = FilesAtWork
    <3>1. \A u \in Tasks : taskState'[u] = IF u = t THEN "finished" ELSE taskState[u]
      BY <1>t, <2>1
    <3> QED BY <2>1, <3>1 DEF FilesAtWork, TasksAtWork
  <2>3. <<FilesAtWork', TasksAtWork'>> = <<FilesAtWork, TasksAtWork \ {t}>>
    BY <2>2
  <2> QED BY <2>1, <2>3, CountPaid
<1> QED BY <1>1, <1>2, <1>3, <1>4 DEF WorkerStep

LEMMA CountStep == ScanInv /\ CountInv /\ [Next]_vars => CountInv'
<1> SUFFICES ASSUME ScanInv, CountInv, [Next]_vars PROVE CountInv'
  OBVIOUS
<1>1. CASE UNCHANGED vars
  <2>1. UNCHANGED <<total, processed, defined, count, walker, execute, cancelled, fileState, taskState>>
    BY <1>1 DEF vars, progressVars, taskVars, walkVars, fileVars
  <2>2. FilesAtWork' = FilesAtWork /\ TasksAtWork' = TasksAtWork /\ Due' = Due
    BY <2>1 DEF Due, FilesAtWork, TasksAtWork
  <2> QED BY <2>1, <2>2 DEF CountInv
<1> QED BY <1>1, WalkerCounts, ReadersCount, WorkersCount DEF Next

(* A scan that ends without being cancelled shows 100%: every file queued  *)
(* and every follow-up added was counted once in the total and once, at    *)
(* least, in what is done, in whatever order the goroutines did so.        *)
THEOREM ProgressEndsFull == Spec => []EndsFull
<1>1. ScanInv /\ CountInv => EndsFull
  <2> SUFFICES ASSUME ScanInv, CountInv, execute = "returned", ~cancelled
               PROVE  Full
    BY DEF EndsFull
  <2>1. \A f \in Files : fileState[f] \notin {"queued", "held", "scanning", "following"}
    BY DEF ScanInv, FileInv, Holds, OneHeld, Scanning
  <2>2. \A t \in Tasks : taskState[t] \notin {"queued", "held", "running"}
    BY DEF ScanInv, WorkInv, TaskInv, Holds, OneHeld, Running
  <2>3. FilesAtWork = {} /\ TasksAtWork = {}
    BY <2>1, <2>2 DEF FilesAtWork, TasksAtWork
  <2>4. Cardinality(FilesAtWork) = 0 /\ Cardinality(TasksAtWork) = 0
    BY <2>3, FS_EmptySet
  <2>5. defined
    BY DEF CountInv
  <2> QED BY <2>4, <2>5, CountTyped DEF CountInv, CountType, Due, Full
<1> QED BY <1>1, ScanInvariant, CountInit, CountStep, PTL DEF Spec
=============================================================================
