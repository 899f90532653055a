------------------------------ MODULE Scanner ------------------------------
(***************************************************************************)
(* The scanner of pkg/file/scan.go with the scene handler of               *)
(* pkg/scene/scan.go: how the files on the disk get into the database.     *)
(* A scan works on many files at the same time.  The worker of a file      *)
(* looks it up, reads it and looks for a missing file with the same        *)
(* fingerprint, all outside of the transaction in which it writes.         *)
(*                                                                         *)
(* What a file contains is one value; it stands for the modification time  *)
(* where the code compares times, and for the fingerprints where it        *)
(* compares those.  Users change the disk at any moment.                   *)
(***************************************************************************)
EXTENDS Naturals

CONSTANTS
  Paths,      \* the paths of files
  Contents,   \* what a file may contain
  Nothing,    \* no file, no row, no scene
  FirstDisk,  \* the disk before the first scan
  FileIds,    \* IDs of rows of files, given out from the lowest
  SceneIds,   \* IDs of scenes, given out from the lowest
  MaxChanges  \* bound on changes of users and on failures

Row == [path : Paths, mod : Contents, print : Contents]
Scene == [files : SUBSET FileIds, primary : FileIds]

ASSUME NothingAssumption ==
  Nothing \notin Contents \cup FileIds \cup Row \cup Scene
ASSUME FirstDiskAssumption == FirstDisk \in [Paths -> Contents \cup {Nothing}]
ASSUME MaxChangesAssumption == MaxChanges \in Nat
ASSUME IdsAssumption == FileIds \subseteq Nat /\ SceneIds \subseteq Nat

VARIABLES
  disk,    \* what is at each path
  library, \* the paths the scan and clean filters accept
  rows,    \* the table of files
  scenes,  \* the table of scenes, joined with their files
  job,     \* the job that runs: "none", "scan", and those of Cleaner
  pending, \* the paths the walk of the scan has yet to visit
  work,    \* the worker of each path
  changes, \* counts changes and failures
  calm     \* whether there were none since the job began

dbVars == <<rows, scenes>>
diskVars == <<disk, library>>
vars == <<diskVars, dbVars, job, pending, work, changes, calm>>

Idle == [at |-> "idle", seen |-> Nothing, print |-> Nothing, id |-> Nothing]

WorkerState ==
  [at : {"idle", "queued", "new", "existing", "matching", "creating",
         "renaming", "updating", "handling"},
   seen : Contents \cup {Nothing},
   print : Contents \cup {Nothing},
   id : FileIds \cup {Nothing}]

TypeOK ==
  /\ disk \in [Paths -> Contents \cup {Nothing}]
  /\ library \subseteq Paths
  /\ rows \in [FileIds -> Row \cup {Nothing}]
  /\ scenes \in [SceneIds -> Scene \cup {Nothing}]
  /\ job \in {"none", "scan", "assess", "delete"}
  /\ pending \subseteq Paths
  /\ work \in [Paths -> WorkerState]
  /\ changes \in 0..MaxChanges
  /\ calm \in BOOLEAN

Init ==
  /\ disk = FirstDisk
  /\ library = Paths
  /\ rows = [i \in FileIds |-> Nothing]
  /\ scenes = [s \in SceneIds |-> Nothing]
  /\ job = "none"
  /\ pending = {}
  /\ work = [p \in Paths |-> Idle]
  /\ changes = 0
  /\ calm = FALSE

-----------------------------------------------------------------------------
(* The database *)

Known == {i \in FileIds : rows[i] # Nothing}

RowsAt(p) == {i \in Known : rows[i].path = p}

(* FindByFingerprint *)
Twins(c) == {i \in Known : rows[i].print = c}

(* FindByFileID and FindByFingerprints of the scenes *)
ScenesOf(i) == {s \in SceneIds : scenes[s] # Nothing /\ i \in scenes[s].files}

ScenesWith(c) == UNION {ScenesOf(i) : i \in Twins(c)}

(* The ID of the next row of a table. *)
NextFree(ids, table, i) ==
  /\ i \in ids /\ table[i] = Nothing
  /\ \A k \in ids : table[k] = Nothing => i <= k

HandleApart(i, c) == \* mutant: a scene is not looked for by fingerprint
  IF ScenesOf(i) # {}
  THEN UNCHANGED scenes
  ELSE \E s \in SceneIds :
         /\ NextFree(SceneIds, scenes, s)
         /\ scenes' = [scenes EXCEPT ![s] = [files |-> {i}, primary |-> i]]

(* ScanHandler.Handle for the file i with the fingerprint c: the file      *)
(* stays with its scenes, or joins all that have a file like it, or gets   *)
(* a scene of its own.                                                     *)
Handle(i, c) ==
  \/ /\ ScenesOf(i) # {}
     /\ UNCHANGED scenes
  \/ /\ ScenesOf(i) = {}
     /\ ScenesWith(c) # {}
     /\ scenes' = [s \in SceneIds |->
                     IF s \in ScenesWith(c)
                     THEN [scenes[s] EXCEPT !.files = @ \cup {i}] ELSE scenes[s]]
  \/ /\ ScenesOf(i) = {}
     /\ ScenesWith(c) = {}
     /\ \E s \in SceneIds :
          /\ NextFree(SceneIds, scenes, s)
          /\ scenes' = [scenes EXCEPT ![s] = [files |-> {i}, primary |-> i]]

(* No file, or one that the filters do not accept any more. *)
Missing(i) == disk[rows[i].path] = Nothing \/ rows[i].path \notin library

-----------------------------------------------------------------------------
(* The scan *)

Done(p) == work' = [work EXCEPT ![p] = Idle]

BeginScan ==
  /\ job = "none"
  /\ job' = "scan"
  /\ pending' = library
  /\ calm' = TRUE
  /\ UNCHANGED <<diskVars, dbVars, work, changes>>

(* The walker finds a file and queues it with its modification time. *)
Visit(p) ==
  /\ p \in pending
  /\ pending' = pending \ {p}
  /\ work' = IF disk[p] = Nothing THEN work
             ELSE [work EXCEPT ![p].at = "queued", ![p].seen = disk[p]]
  /\ UNCHANGED <<diskVars, dbVars, job, changes, calm>>

(* ScanFile: FindByPath, and the checks that need no more than the row. *)
LookUp(p) ==
  /\ work[p].at = "queued"
  /\ \/ /\ RowsAt(p) = {}
        /\ work' = [work EXCEPT ![p].at = "new"]
     \/ \E i \in RowsAt(p) :
          \/ /\ rows[i].mod # work[p].seen
             /\ work' = [work EXCEPT ![p].at = "existing", ![p].id = i]
          \/ /\ rows[i].mod = work[p].seen
             /\ IF ScenesOf(i) = {}
                THEN work' = [work EXCEPT ![p].at = "handling", ![p].id = i,
                                          ![p].print = rows[i].print]
                ELSE Done(p)
  /\ UNCHANGED <<diskVars, dbVars, job, pending, changes, calm>>

ReadsLate(p) == \* mutant: the modification time is taken after the contents
  /\ work[p].at \in {"new", "existing"}
  /\ IF disk[p] = Nothing
     THEN Done(p)
     ELSE work' = [work EXCEPT ![p].at = IF @ = "new" THEN "matching" ELSE "updating",
                               ![p].print = work[p].seen, ![p].seen = disk[p]]
  /\ UNCHANGED <<diskVars, dbVars, job, pending, changes, calm>>

(* The fingerprints are calculated from what the file contains by now. *)
Reads(p) ==
  /\ work[p].at \in {"new", "existing"}
  /\ IF disk[p] = Nothing
     THEN Done(p)
     ELSE work' = [work EXCEPT ![p].at = IF @ = "new" THEN "matching" ELSE "updating",
                               ![p].print = disk[p]]
  /\ UNCHANGED <<diskVars, dbVars, job, pending, changes, calm>>

MatchesGone(p) == \* mutant: a file outside of the library paths is not missing
  /\ work[p].at = "matching"
  /\ LET missing == {i \in Twins(work[p].print) : disk[rows[i].path] = Nothing}
     IN  \/ /\ missing = {}
            /\ work' = [work EXCEPT ![p].at = "creating"]
         \/ \E i \in missing :
              work' = [work EXCEPT ![p].at = "renaming", ![p].id = i]
  /\ UNCHANGED <<diskVars, dbVars, job, pending, changes, calm>>

MatchesAny(p) == \* mutant: Lstat is not called
  /\ work[p].at = "matching"
  /\ IF Twins(work[p].print) = {}
     THEN work' = [work EXCEPT ![p].at = "creating"]
     ELSE \E i \in Twins(work[p].print) :
            work' = [work EXCEPT ![p].at = "renaming", ![p].id = i]
  /\ UNCHANGED <<diskVars, dbVars, job, pending, changes, calm>>

(* handleRename: one of the missing files like this one is its old name. *)
Matches(p) ==
  /\ work[p].at = "matching"
  /\ LET missing == {i \in Twins(work[p].print) : Missing(i)}
     IN  \/ /\ missing = {}
            /\ work' = [work EXCEPT ![p].at = "creating"]
         \/ \E i \in missing :
              work' = [work EXCEPT ![p].at = "renaming", ![p].id = i]
  /\ UNCHANGED <<diskVars, dbVars, job, pending, changes, calm>>

(* The transaction that writes the row i for the path p, and what the      *)
(* handler does in it; it fails if another row has the path.               *)
Store(i, p) ==
  IF RowsAt(p) \subseteq {i}
  THEN /\ rows' = [rows EXCEPT ![i] =
                     [path |-> p, mod |-> work[p].seen, print |-> work[p].print]]
       /\ Handle(i, work[p].print)
  ELSE UNCHANGED dbVars

Creates(p) ==
  /\ work[p].at = "creating"
  /\ \E i \in FileIds : NextFree(FileIds, rows, i) /\ Store(i, p)
  /\ Done(p)
  /\ UNCHANGED <<diskVars, job, pending, changes, calm>>

(* The missing row becomes that of this file, wherever it is by now. *)
Renames(p) ==
  /\ work[p].at = "renaming"
  /\ Store(work[p].id, p)
  /\ Done(p)
  /\ UNCHANGED <<diskVars, job, pending, changes, calm>>

(* onExistingFile of a changed file. *)
Updates(p) ==
  /\ work[p].at = "updating"
  /\ Store(work[p].id, p)
  /\ Done(p)
  /\ UNCHANGED <<diskVars, job, pending, changes, calm>>

(* onUnchangedFile for a file that has lost its scene. *)
HandlesAgain(p) ==
  /\ work[p].at = "handling"
  /\ Handle(work[p].id, work[p].print)
  /\ Done(p)
  /\ UNCHANGED <<diskVars, rows, job, pending, changes, calm>>

WorkerStep(p) ==
  \/ LookUp(p) \/ Reads(p) \/ Matches(p)
  \/ Creates(p) \/ Renames(p) \/ Updates(p) \/ HandlesAgain(p)

EndScan ==
  /\ job = "scan"
  /\ pending = {}
  /\ \A p \in Paths : work[p] = Idle
  /\ job' = "none"
  /\ UNCHANGED <<diskVars, dbVars, pending, work, changes, calm>>

ScanStep ==
  \/ \E p \in Paths : Visit(p) \/ WorkerStep(p)
  \/ EndScan

-----------------------------------------------------------------------------
(* Users and failures, at most MaxChanges of them *)

Disturb ==
  /\ changes < MaxChanges
  /\ changes' = changes + 1
  /\ calm' = FALSE

(* A file is seen as changed by its modification time alone.  So it cannot *)
(* be noticed that c comes back to p after another file was read there in  *)
(* its place, and users are taken not to do that.                          *)
Noticeable(p, c) ==
  /\ \A i \in RowsAt(p) : rows[i].mod = c => rows[i].print = c
  /\ work[p].seen = c => work[p].print \in {c, Nothing}

(* A file is written, copied or restored. *)
Put(p, c) ==
  /\ Disturb
  /\ disk[p] # c
  /\ Noticeable(p, c)
  /\ disk' = [disk EXCEPT ![p] = c]
  /\ UNCHANGED <<library, dbVars, job, pending, work>>

Unlink(p) ==
  /\ Disturb
  /\ disk[p] # Nothing
  /\ disk' = [disk EXCEPT ![p] = Nothing]
  /\ UNCHANGED <<library, dbVars, job, pending, work>>

Move(p, q) ==
  /\ Disturb
  /\ disk[p] # Nothing /\ disk[q] = Nothing
  /\ Noticeable(q, disk[p])
  /\ disk' = [disk EXCEPT ![p] = Nothing, ![q] = disk[p]]
  /\ UNCHANGED <<library, dbVars, job, pending, work>>

(* The configuration is read when a job begins. *)
Exclude(p) ==
  /\ Disturb
  /\ job = "none"
  /\ p \in library
  /\ library' = library \ {p}
  /\ UNCHANGED <<disk, dbVars, job, pending, work>>

(* A scene is destroyed, its files stay. *)
DestroyScene(s) ==
  /\ Disturb
  /\ scenes[s] # Nothing
  /\ scenes' = [scenes EXCEPT ![s] = Nothing]
  /\ UNCHANGED <<diskVars, rows, job, pending, work>>

(* A worker fails: nothing of its transaction stays. *)
Fails(p) ==
  /\ Disturb
  /\ work[p] # Idle
  /\ Done(p)
  /\ UNCHANGED <<diskVars, dbVars, job, pending>>

(* The job is cancelled: what is queued or not yet visited is left out. *)
CancelScan ==
  /\ Disturb
  /\ job = "scan"
  /\ pending' = {}
  /\ work' = [p \in Paths |-> IF work[p].at = "queued" THEN Idle ELSE work[p]]
  /\ UNCHANGED <<diskVars, dbVars, job>>

Disturbance ==
  \/ \E p \in Paths, c \in Contents : Put(p, c)
  \/ \E p, q \in Paths : Move(p, q)
  \/ \E p \in Paths : Unlink(p) \/ Exclude(p) \/ Fails(p)
  \/ \E s \in SceneIds : DestroyScene(s)
  \/ CancelScan

ScanNext == BeginScan \/ ScanStep \/ Disturbance

-----------------------------------------------------------------------------
(* Properties *)

(* What the tables agree on: no two rows have one path, and a scene has    *)
(* files, the primary one among them.                                      *)
TablesAgree ==
  /\ \A i, k \in Known : rows[i].path = rows[k].path => i = k
  /\ \A s \in SceneIds :
       scenes[s] # Nothing =>
         scenes[s].primary \in scenes[s].files /\ scenes[s].files \subseteq Known

(* No change escapes the scanner: a row that has not the fingerprint of    *)
(* its file has not its modification time either, so the next scan will    *)
(* read the file again.                                                    *)
ChangesShow ==
  \A i \in Known :
    rows[i].mod = disk[rows[i].path] => rows[i].print = rows[i].mod

(* "If one is, then the file is treated as renamed": a moved file keeps    *)
(* its row, and with it its scene.  In a scan that nothing disturbs no row *)
(* is created for a file while just one row with its fingerprint is        *)
(* without a file.                                                         *)
MovedIsNotNew ==
  [][calm /\ calm' =>
       \A i \in FileIds :
         rows[i] = Nothing /\ rows'[i] # Nothing =>
           \A k \in Twins(rows'[i].print) :
             Missing(k) => \E l \in Twins(rows'[i].print) \ {k} : Missing(l)]_vars

(* Files with the same contents share a scene: a scene is only created for *)
(* a file when no scene has one with its fingerprint, although two copies  *)
(* may be scanned at the same time.                                        *)
NoSecondScene ==
  [][\A s \in SceneIds :
       scenes[s] = Nothing /\ scenes'[s] # Nothing =>
         ScenesWith(rows'[scenes'[s].primary].print) = {}]_vars

(* Every file on the disk has a row that describes it, and a scene. *)
Accurate ==
  \A p \in library :
    disk[p] # Nothing =>
      \E i \in RowsAt(p) :
        rows[i].mod = disk[p] /\ rows[i].print = disk[p] /\ ScenesOf(i) # {}

(* However scans were disturbed, scanning again and again gets the library *)
(* right in the end, and it then stays as it is.                           *)
RescansSettle == <>[]Accurate
=============================================================================
