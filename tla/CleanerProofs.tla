--------------------------- MODULE CleanerProofs ---------------------------
(***************************************************************************)
(* Proofs about Scanner and Cleaner: types, that the tables of files and   *)
(* scenes agree, that no change of a file escapes the scanner, that copies *)
(* share a scene and moved files keep their rows, and that no scene goes   *)
(* before its last file.  One inductive invariant carries them: it adds to *)
(* the properties what the workers of a scan know of the disk and of the   *)
(* rows they are going to write.                                           *)
(***************************************************************************)
EXTENDS Cleaner, TLAPS

(* What the worker of a path has read: when it writes, the contents it     *)
(* read are those of the time it has seen, unless that time has passed.    *)
WorkerOf(p) ==
  /\ work[p].at # "idle" \/ p \in pending => job = "scan"
  /\ work[p].at \in {"queued", "new", "existing"} => work[p].seen \in Contents
  /\ work[p].at \in {"existing", "renaming", "updating"} => work[p].id \in FileIds
  /\ work[p].at = "handling" => work[p].id \in Known
  /\ work[p].at \in {"matching", "creating", "renaming", "updating"} =>
       /\ work[p].seen \in Contents /\ work[p].print \in Contents
       /\ work[p].seen = disk[p] => work[p].print = work[p].seen

WorkersAgree == \A p \in Paths : WorkerOf(p)

IInv == CleanTypeOK /\ TablesAgree /\ ChangesShow /\ WorkersAgree

-----------------------------------------------------------------------------
(* A handler keeps the scenes well formed, with the file it was called for *)
(* among the known ones.                                                   *)
LEMMA HandleKeepsScenes ==
  ASSUME NEW i \in FileIds, NEW c, NEW K,
         scenes \in [SceneIds -> Scene \cup {Nothing}],
         \A s \in SceneIds : scenes[s] # Nothing =>
           scenes[s].primary \in scenes[s].files /\ scenes[s].files \subseteq K,
         i \in K,
         Handle(i, c)
  PROVE  /\ scenes' \in [SceneIds -> Scene \cup {Nothing}]
         /\ \A s \in SceneIds : scenes'[s] # Nothing =>
              scenes'[s].primary \in scenes'[s].files /\ scenes'[s].files \subseteq K
<1>1. CASE UNCHANGED scenes
  BY <1>1
<1>2. CASE scenes' = [s \in SceneIds |->
                        IF s \in ScenesWith(c)
                        THEN [scenes[s] EXCEPT !.files = @ \cup {i}] ELSE scenes[s]]
  <2>1. \A s \in ScenesWith(c) : s \in SceneIds /\ scenes[s] # Nothing
    BY DEF ScenesWith, ScenesOf
  <2>2. ASSUME NEW s \in SceneIds
        PROVE  /\ scenes'[s] \in Scene \cup {Nothing}
               /\ scenes'[s] # Nothing =>
                    scenes'[s].primary \in scenes'[s].files /\ scenes'[s].files \subseteq K
    <3>1. CASE s \in ScenesWith(c)
      <4>1. scenes[s] \in Scene
        BY <2>1, <3>1
      <4>2. scenes'[s] = [scenes[s] EXCEPT !.files = @ \cup {i}]
        BY <1>2, <3>1
      <4>3. /\ scenes'[s] \in Scene
            /\ scenes'[s].files = scenes[s].files \cup {i}
            /\ scenes'[s].primary = scenes[s].primary
        BY <4>1, <4>2 DEF Scene
      <4> QED BY <4>3, <2>1, <3>1
    <3>2. CASE s \notin ScenesWith(c)
      BY <1>2, <3>2
    <3> QED BY <3>1, <3>2
  <2> QED BY <1>2, <2>2
<1>3. CASE \E s \in SceneIds :
             scenes' = [scenes EXCEPT ![s] = [files |-> {i}, primary |-> i]]
  BY <1>3 DEF Scene
<1> QED BY <1>1, <1>2, <1>3 DEF Handle

(* What a worker stores keeps the tables in agreement and shows the change *)
(* it has missed, if there was one.                                        *)
LEMMA StoreKeepsTables ==
  ASSUME IInv, NEW p \in Paths, NEW i \in FileIds, Store(i, p),
         work[p].at \in {"creating", "renaming", "updating"},
         UNCHANGED diskVars
  PROVE  /\ rows' \in [FileIds -> Row \cup {Nothing}]
         /\ scenes' \in [SceneIds -> Scene \cup {Nothing}]
         /\ Known \subseteq Known'
         /\ TablesAgree' /\ ChangesShow'
<1> DEFINE r == [path |-> p, mod |-> work[p].seen, print |-> work[p].print]
<1> USE DEF IInv
<1>1. /\ r \in Row
      /\ r # Nothing
      /\ r.mod = disk[p] => r.print = r.mod
  BY NothingAssumption DEF WorkersAgree, WorkerOf, Row
<1>2. CASE UNCHANGED dbVars
  BY <1>2 DEF dbVars, diskVars, CleanTypeOK, TypeOK, Known, TablesAgree, ChangesShow
<1>3. CASE /\ RowsAt(p) \subseteq {i}
           /\ rows' = [rows EXCEPT ![i] = r]
           /\ Handle(i, work[p].print)
  <2>1. rows' \in [FileIds -> Row \cup {Nothing}]
    BY <1>1, <1>3 DEF CleanTypeOK, TypeOK
  <2>2. /\ rows'[i] = r
        /\ \A k \in FileIds : k # i => rows'[k] = rows[k]
    BY <1>3 DEF CleanTypeOK, TypeOK
  <2>3. Known' = Known \cup {i}
    BY <1>1, <2>2 DEF Known
  <2>4. \A k, l \in Known' : rows'[k].path = rows'[l].path => k = l
    <3>1. \A k \in Known : k # i => rows[k].path # p
      BY <1>3 DEF RowsAt
    <3>2. r.path = p
      OBVIOUS
    <3> QED BY <2>2, <2>3, <3>1, <3>2 DEF TablesAgree, Known
  <2>5. /\ scenes' \in [SceneIds -> Scene \cup {Nothing}]
        /\ \A s \in SceneIds : scenes'[s] # Nothing =>
             scenes'[s].primary \in scenes'[s].files /\ scenes'[s].files \subseteq Known'
    <3>1. \A s \in SceneIds : scenes[s] # Nothing =>
            scenes[s].primary \in scenes[s].files /\ scenes[s].files \subseteq Known'
      BY <2>3 DEF TablesAgree
    <3>2. i \in Known' /\ Handle(i, work[p].print)
      BY <1>3, <2>3
    <3>3. scenes \in [SceneIds -> Scene \cup {Nothing}]
      BY DEF CleanTypeOK, TypeOK
    <3> QED BY <3>1, <3>2, <3>3, HandleKeepsScenes
  <2>6. ChangesShow'
    <3>1. r.path = p
      OBVIOUS
    <3> QED BY <1>1, <2>2, <2>3, <3>1 DEF ChangesShow, diskVars, Known
  <2> QED BY <2>1, <2>3, <2>4, <2>5, <2>6 DEF TablesAgree
<1> QED BY <1>2, <1>3 DEF Store

(* Steps that leave the tables and the disk alone keep what is said of     *)
(* them; what is left is the types and the workers.                        *)
LEMMA TablesStay ==
  ASSUME IInv, UNCHANGED <<disk, rows, scenes>>
  PROVE  TablesAgree' /\ ChangesShow' /\ Known' = Known
BY DEF IInv, TablesAgree, ChangesShow, Known

(* The steps of the scan that write nothing. *)
LEMMA ScanReadsKeep ==
  ASSUME IInv, NEW p \in Paths,
         Visit(p) \/ LookUp(p) \/ Reads(p) \/ Matches(p),
         UNCHANGED cleanVars
  PROVE  IInv'
<1> USE DEF IInv
<1>1. UNCHANGED <<disk, library, rows, scenes, job, changes, calm, toAssess, toDelete>>
  BY DEF Visit, LookUp, Reads, Matches, diskVars, dbVars, cleanVars
<1>2. TablesAgree' /\ ChangesShow' /\ Known' = Known
  BY <1>1, TablesStay
<1>3. \A q \in Paths : q # p => work'[q] = work[q] /\ (q \in pending' <=> q \in pending)
  BY DEF CleanTypeOK, TypeOK, Visit, LookUp, Reads, Matches, Done
<1>4. pending' \subseteq Paths /\ work' \in [Paths -> WorkerState] /\ WorkerOf(p)'
  <2>1. work[p] \in WorkerState /\ WorkerOf(p) /\ pending \subseteq Paths
        /\ work \in [Paths -> WorkerState]
    BY DEF CleanTypeOK, TypeOK, WorkersAgree
  <2>2. \A i \in Known : i \in FileIds /\ rows[i] \in Row
    BY DEF CleanTypeOK, TypeOK, Known
  <2>3. disk[p] # Nothing => disk[p] \in Contents
    BY DEF CleanTypeOK, TypeOK
  <2>4. CASE Visit(p)
    <3>1. p \in pending /\ pending' = pending \ {p} /\ job = "scan"
      BY <2>1, <2>4 DEF Visit, WorkerOf
    <3>2. CASE disk[p] = Nothing
      BY <2>1, <2>4, <3>1, <3>2, <1>1, <1>2 DEF Visit, WorkerOf
    <3>3. CASE disk[p] # Nothing
      <4>1. work' = [work EXCEPT ![p].at = "queued", ![p].seen = disk[p]]
        BY <2>4, <3>3 DEF Visit
      <4>2. work'[p] = [work[p] EXCEPT !.at = "queued", !.seen = disk[p]]
        BY <2>1, <4>1
      <4>3. /\ work'[p] \in WorkerState
            /\ work'[p].at = "queued" /\ work'[p].seen \in Contents
        BY <2>1, <2>3, <3>3, <4>2 DEF WorkerState
      <4>4. work' \in [Paths -> WorkerState]
        BY <2>1, <4>1, <4>3
      <4> QED BY <2>1, <3>1, <4>3, <4>4, <1>1 DEF WorkerOf
    <3> QED BY <3>2, <3>3
  <2>5. CASE LookUp(p)
    <3>0. pending' = pending /\ job = "scan" /\ work[p].seen \in Contents
      BY <2>1, <2>5 DEF LookUp, WorkerOf
    <3>1. CASE work' = [work EXCEPT ![p].at = "new"]
      BY <2>1, <3>0, <3>1, <1>1 DEF WorkerState, WorkerOf
    <3>2. CASE \E i \in Known : work' = [work EXCEPT ![p].at = "existing", ![p].id = i]
      <4>1. PICK i \in Known : work' = [work EXCEPT ![p].at = "existing", ![p].id = i]
        BY <3>2
      <4>2. work'[p] = [work[p] EXCEPT !.at = "existing", !.id = i] /\ i \in FileIds
        BY <2>1, <2>2, <4>1
      <4>3. /\ work'[p] \in WorkerState
            /\ work'[p].at = "existing" /\ work'[p].id = i /\ work'[p].seen = work[p].seen
        BY <2>1, <4>2 DEF WorkerState
      <4>4. work' \in [Paths -> WorkerState]
        BY <2>1, <4>1, <4>3
      <4> QED BY <2>1, <3>0, <4>2, <4>3, <4>4, <1>1 DEF WorkerOf
    <3>3. CASE \E i \in Known :
                 work' = [work EXCEPT ![p].at = "handling", ![p].id = i,
                                      ![p].print = rows[i].print]
      <4>1. PICK i \in Known :
              work' = [work EXCEPT ![p].at = "handling", ![p].id = i,
                                   ![p].print = rows[i].print]
        BY <3>3
      <4>2. i \in FileIds /\ rows[i].print \in Contents
        BY <2>2 DEF Row
      <4> QED BY <2>1, <3>0, <4>1, <4>2, <1>1, <1>2 DEF WorkerState, WorkerOf
    <3>4. CASE Done(p)
      BY <2>1, <2>5, <3>4, <1>1 DEF LookUp, Done, Idle, WorkerState, WorkerOf
    <3> QED BY <2>5, <3>1, <3>2, <3>3, <3>4 DEF LookUp, RowsAt
  <2>6. CASE Reads(p)
    <3>1. CASE disk[p] = Nothing
      BY <2>1, <2>6, <3>1, <1>1 DEF Reads, Done, Idle, WorkerState, WorkerOf
    <3>2. CASE disk[p] # Nothing
      BY <2>1, <2>3, <2>6, <3>2, <1>1 DEF Reads, WorkerState, WorkerOf
    <3> QED BY <3>1, <3>2
  <2>7. CASE Matches(p)
    <3>1. \A i \in Twins(work[p].print) : i \in FileIds
      BY DEF Twins, Known
    <3> QED BY <2>1, <2>7, <3>1, <1>1 DEF Matches, WorkerState, WorkerOf
  <2> QED BY <2>4, <2>5, <2>6, <2>7
<1>5. CleanTypeOK'
  BY <1>1, <1>4 DEF CleanTypeOK, TypeOK
<1>6. \A q \in Paths : q # p => WorkerOf(q)'
  BY <1>1, <1>2, <1>3 DEF WorkersAgree, WorkerOf
<1> QED BY <1>2, <1>4, <1>5, <1>6 DEF WorkersAgree

(* The steps of the scan that write. *)
LEMMA ScanWritesKeep ==
  ASSUME IInv, NEW p \in Paths,
         Creates(p) \/ Renames(p) \/ Updates(p) \/ HandlesAgain(p),
         UNCHANGED cleanVars
  PROVE  IInv'
<1> USE DEF IInv
<1>1. /\ UNCHANGED <<disk, library, job, pending, changes, calm, toAssess, toDelete>>
      /\ UNCHANGED diskVars
      /\ work' = [work EXCEPT ![p] = Idle]
  BY DEF Creates, Renames, Updates, HandlesAgain, Done, diskVars, cleanVars
<1>2. /\ rows' \in [FileIds -> Row \cup {Nothing}]
      /\ scenes' \in [SceneIds -> Scene \cup {Nothing}]
      /\ Known \subseteq Known'
      /\ TablesAgree' /\ ChangesShow'
  <2>1. CASE Creates(p)
    <3>1. PICK i \in FileIds : Store(i, p)
      BY <2>1 DEF Creates
    <3>2. work[p].at = "creating"
      BY <2>1 DEF Creates
    <3> QED BY <1>1, <3>1, <3>2, StoreKeepsTables
  <2>2. CASE Renames(p) \/ Updates(p)
    <3>1. /\ work[p].id \in FileIds
          /\ work[p].at \in {"renaming", "updating"}
          /\ Store(work[p].id, p)
      BY <2>2 DEF Renames, Updates, WorkersAgree, WorkerOf
    <3> QED BY <1>1, <3>1, StoreKeepsTables
  <2>3. CASE HandlesAgain(p)
    <3>1. /\ work[p].id \in Known /\ Known \subseteq FileIds
          /\ Handle(work[p].id, work[p].print)
          /\ rows' = rows
      BY <2>3 DEF HandlesAgain, WorkersAgree, WorkerOf, Known
    <3>2. /\ scenes' \in [SceneIds -> Scene \cup {Nothing}]
          /\ \A s \in SceneIds : scenes'[s] # Nothing =>
               scenes'[s].primary \in scenes'[s].files /\ scenes'[s].files \subseteq Known
      <4>1. scenes \in [SceneIds -> Scene \cup {Nothing}]
        BY DEF CleanTypeOK, TypeOK
      <4>2. \A s \in SceneIds : scenes[s] # Nothing =>
              scenes[s].primary \in scenes[s].files /\ scenes[s].files \subseteq Known
        BY DEF TablesAgree
      <4> QED BY <3>1, <4>1, <4>2, HandleKeepsScenes
    <3> QED BY <1>1, <3>1, <3>2 DEF CleanTypeOK, TypeOK, TablesAgree, ChangesShow, Known
  <2> QED BY <2>1, <2>2, <2>3
<1>3. work' \in [Paths -> WorkerState] /\ WorkerOf(p)' /\ work'[p] = Idle
  BY <1>1 DEF CleanTypeOK, TypeOK, Idle, WorkerState, WorkerOf, WorkersAgree
<1>4. CleanTypeOK'
  BY <1>1, <1>2, <1>3 DEF CleanTypeOK, TypeOK
<1>5. \A q \in Paths : q # p => WorkerOf(q)'
  <2>1. \A q \in Paths : q # p => work'[q] = work[q]
    BY <1>1 DEF CleanTypeOK, TypeOK
  <2> QED BY <1>1, <1>2, <2>1 DEF WorkersAgree, WorkerOf
<1> QED BY <1>2, <1>3, <1>4, <1>5 DEF WorkersAgree

(* What users do to the disk: they cannot undo a change that the scanner   *)
(* has not seen yet, which is what Noticeable says.                        *)
LEMMA DiskChangesKeep ==
  ASSUME IInv, UNCHANGED cleanVars, Disturb,
         UNCHANGED <<rows, scenes, job, pending, work, library>>,
         disk' \in [Paths -> Contents \cup {Nothing}],
         \A p \in Paths : disk'[p] = disk[p] \/ disk'[p] = Nothing \/ Noticeable(p, disk'[p])
  PROVE  IInv'
<1> USE DEF IInv
<1>1. CleanTypeOK'
  <2>1. changes \in 0..MaxChanges /\ changes < MaxChanges /\ changes' = changes + 1
    BY DEF CleanTypeOK, TypeOK, Disturb
  <2>2. changes' \in 0..MaxChanges
    BY <2>1, MaxChangesAssumption
  <2>3. calm' \in BOOLEAN
    BY DEF Disturb
  <2> QED BY <2>2, <2>3 DEF CleanTypeOK, TypeOK, cleanVars
<1>2. TablesAgree' /\ Known' = Known
  BY DEF TablesAgree, Known
<1>3. ChangesShow'
  <2>1. \A i \in Known : rows[i] \in Row
    BY DEF CleanTypeOK, TypeOK, Known
  <2>2. \A i \in Known : rows[i].path \in Paths /\ rows[i].mod \in Contents
    BY <2>1 DEF Row
  <2> QED BY <1>2, <2>2, NothingAssumption DEF ChangesShow, Noticeable, RowsAt
<1>4. WorkersAgree'
  BY <1>2, NothingAssumption DEF WorkersAgree, WorkerOf, Noticeable
<1> QED BY <1>1, <1>2, <1>3, <1>4

(* The steps of the jobs, and of what disturbs them, that write nothing:   *)
(* no worker starts to work in them.                                       *)
LEMMA JobStepsKeep ==
  ASSUME IInv,
         UNCHANGED <<disk, rows, scenes>>,
         library' \subseteq Paths, pending' \subseteq Paths,
         work' \in [Paths -> WorkerState],
         \A p \in Paths : work'[p] = work[p] \/ work'[p] = Idle,
         job' \in {"none", "scan", "assess", "delete"},
         job' # "scan" => pending' = {} /\ \A p \in Paths : work'[p].at = "idle",
         UNCHANGED <<changes, calm>> \/ (calm' = TRUE /\ changes' = changes) \/ Disturb,
         toAssess' \subseteq FileIds, toDelete' \subseteq FileIds
  PROVE  IInv'
<1>1. TablesAgree' /\ ChangesShow' /\ Known' = Known
  BY TablesStay
<1>2. CleanTypeOK'
  <2>1. changes \in 0..MaxChanges /\ calm \in BOOLEAN
    BY DEF IInv, CleanTypeOK, TypeOK
  <2>2. changes' \in 0..MaxChanges
    BY <2>1, MaxChangesAssumption DEF Disturb
  <2>3. calm' \in BOOLEAN
    BY <2>1 DEF Disturb
  <2> QED BY <2>2, <2>3 DEF IInv, CleanTypeOK, TypeOK
<1>3. ASSUME NEW p \in Paths PROVE WorkerOf(p)'
  <2>1. WorkerOf(p)
    BY DEF IInv, WorkersAgree
  <2>2. CASE work'[p] = Idle
    BY <2>2 DEF WorkerOf, Idle
  <2>3. CASE work'[p] = work[p]
    BY <1>1, <2>1, <2>3 DEF WorkerOf
  <2> QED BY <2>2, <2>3
<1> QED BY <1>1, <1>2, <1>3 DEF IInv, WorkersAgree

(* When no scan runs nobody works and nothing waits to be visited. *)
LEMMA NobodyWorks ==
  ASSUME IInv, job # "scan"
  PROVE  pending = {} /\ \A p \in Paths : work[p].at = "idle"
BY DEF IInv, WorkersAgree, WorkerOf, CleanTypeOK, TypeOK

(* A scene that is destroyed leaves the others as they are. *)
LEMMA DestroySceneKeeps ==
  ASSUME IInv, NEW s \in SceneIds, DestroyScene(s), UNCHANGED cleanVars
  PROVE  IInv'
<1>1. /\ UNCHANGED <<disk, library, rows, job, pending, work, toAssess, toDelete>>
      /\ Known' = Known
  BY DEF DestroyScene, diskVars, cleanVars, Known
<1>2. /\ scenes' \in [SceneIds -> Scene \cup {Nothing}]
      /\ \A t \in SceneIds : scenes'[t] # Nothing => scenes'[t] = scenes[t]
  BY DEF DestroyScene, IInv, CleanTypeOK, TypeOK
<1>3. TablesAgree' /\ ChangesShow' /\ WorkersAgree'
  BY <1>1, <1>2 DEF IInv, TablesAgree, ChangesShow, WorkersAgree, WorkerOf
<1>4. changes' \in 0..MaxChanges
  <2>1. changes \in 0..MaxChanges /\ changes < MaxChanges /\ changes' = changes + 1
    BY DEF IInv, CleanTypeOK, TypeOK, DestroyScene, Disturb
  <2> QED BY <2>1, MaxChangesAssumption
<1>5. calm' \in BOOLEAN
  BY DEF DestroyScene, Disturb
<1> QED BY <1>1, <1>2, <1>3, <1>4, <1>5 DEF IInv, CleanTypeOK, TypeOK

(* A deleted row leaves no scene behind that refers to it. *)
LEMMA DeleteFileKeeps ==
  ASSUME IInv, NEW i \in FileIds, DeleteFile(i)
  PROVE  IInv'
<1>1. /\ UNCHANGED <<disk, library, job, pending, work, changes, calm, toAssess>>
      /\ toDelete' \subseteq toDelete
      /\ job = "delete"
      /\ rows' = [rows EXCEPT ![i] = Nothing]
  BY DEF DeleteFile, diskVars
<1>2. /\ rows' \in [FileIds -> Row \cup {Nothing}]
      /\ Known' = Known \ {i}
      /\ \A k \in Known' : rows'[k] = rows[k]
  BY <1>1 DEF IInv, CleanTypeOK, TypeOK, Known
<1>3. ASSUME NEW s \in SceneIds
      PROVE  /\ scenes'[s] \in Scene \cup {Nothing}
             /\ scenes'[s] # Nothing =>
                  /\ scenes'[s].primary \in scenes'[s].files
                  /\ scenes'[s].files \subseteq Known \ {i}
  <2>1. PICK other \in [ScenesOf(i) -> FileIds] :
          /\ \A t \in ScenesOf(i) :
               scenes[t].files # {i} => other[t] \in scenes[t].files \ {i}
          /\ scenes' = [t \in SceneIds |->
                IF t \notin ScenesOf(i) THEN scenes[t]
                ELSE IF scenes[t].files = {i} THEN Nothing
                ELSE [files |-> scenes[t].files \ {i}, primary |-> other[t]]]
    BY DEF DeleteFile, LosesFile
  <2>2. scenes[s] \in Scene \cup {Nothing}
    BY DEF IInv, CleanTypeOK, TypeOK
  <2>3. scenes[s] # Nothing =>
          scenes[s].primary \in scenes[s].files /\ scenes[s].files \subseteq Known
    BY DEF IInv, TablesAgree
  <2>4. CASE s \notin ScenesOf(i)
    BY <2>1, <2>2, <2>3, <2>4 DEF ScenesOf
  <2>5. CASE s \in ScenesOf(i) /\ scenes[s].files = {i}
    BY <2>1, <2>5
  <2>6. CASE s \in ScenesOf(i) /\ scenes[s].files # {i}
    <3>1. scenes[s] # Nothing /\ scenes[s] \in Scene
      BY <2>2, <2>6 DEF ScenesOf
    <3>2. scenes'[s] = [files |-> scenes[s].files \ {i}, primary |-> other[s]]
      BY <2>1, <2>6
    <3>3. other[s] \in scenes[s].files \ {i}
      BY <2>1, <2>6
    <3>4. scenes[s].files \subseteq FileIds
      BY <3>1 DEF Scene
    <3> QED BY <2>3, <3>1, <3>2, <3>3, <3>4 DEF Scene
  <2> QED BY <2>4, <2>5, <2>6
<1>4. scenes' \in [SceneIds -> Scene \cup {Nothing}]
  BY <1>3 DEF DeleteFile, LosesFile
<1>5. TablesAgree' /\ ChangesShow'
  BY <1>1, <1>2, <1>3 DEF IInv, TablesAgree, ChangesShow
<1>6. WorkersAgree'
  <2>1. pending = {} /\ \A p \in Paths : work[p].at = "idle"
    BY <1>1, NobodyWorks
  <2> QED BY <1>1, <2>1 DEF WorkersAgree, WorkerOf
<1> QED BY <1>1, <1>2, <1>4, <1>5, <1>6 DEF IInv, CleanTypeOK, TypeOK

-----------------------------------------------------------------------------
LEMMA InitKeeps ==
  ASSUME CleanInit
  PROVE  IInv
<1>1. CleanTypeOK
  <2>1. Idle \in WorkerState
    BY DEF WorkerState, Idle
  <2>2. changes \in 0..MaxChanges
    BY MaxChangesAssumption DEF CleanInit, Init
  <2>3. calm \in BOOLEAN
    BY DEF CleanInit, Init
  <2> QED BY <2>1, <2>2, <2>3, FirstDiskAssumption DEF CleanInit, Init, CleanTypeOK, TypeOK
<1>2. Known = {} /\ \A s \in SceneIds : scenes[s] = Nothing
  BY DEF CleanInit, Init, Known
<1>3. WorkersAgree
  BY DEF CleanInit, Init, WorkersAgree, WorkerOf, Idle
<1> QED BY <1>1, <1>2, <1>3 DEF IInv, TablesAgree, ChangesShow

LEMMA NextKeeps ==
  ASSUME IInv, [CleanNext]_allVars
  PROVE  IInv'
<1> DEFINE Types ==
      /\ library \subseteq Paths /\ pending \subseteq Paths
      /\ work \in [Paths -> WorkerState]
      /\ job \in {"none", "scan", "assess", "delete"}
      /\ toAssess \subseteq FileIds /\ toDelete \subseteq FileIds
<1>0. Types /\ disk \in [Paths -> Contents \cup {Nothing}] /\ Idle \in WorkerState
  BY DEF IInv, CleanTypeOK, TypeOK, WorkerState, Idle
<1>1. CASE UNCHANGED allVars
  <2>1. UNCHANGED <<disk, library, rows, scenes, job, pending, work, changes, calm,
                    toAssess, toDelete>>
    BY <1>1 DEF allVars, vars, cleanVars, diskVars, dbVars
  <2>2. TablesAgree' /\ ChangesShow' /\ Known' = Known
    BY <2>1, TablesStay
  <2>3. CleanTypeOK'
    BY <2>1 DEF IInv, CleanTypeOK, TypeOK
  <2>4. WorkersAgree'
    BY <2>1, <2>2 DEF IInv, WorkersAgree, WorkerOf
  <2> QED BY <2>2, <2>3, <2>4 DEF IInv
<1>2. CASE ScanNext /\ UNCHANGED cleanVars
  <2>1. CASE BeginScan
    <3>1. job = "none" /\ job' = "scan" /\ pending' = library
          /\ calm' = TRUE /\ changes' = changes
          /\ UNCHANGED <<disk, library, rows, scenes, work, toAssess, toDelete>>
      BY <1>2, <2>1 DEF BeginScan, diskVars, dbVars, cleanVars
    <3> QED BY <1>0, <3>1, JobStepsKeep
  <2>2. CASE \E p \in Paths : Visit(p) \/ WorkerStep(p)
    BY <1>2, <2>2, ScanReadsKeep, ScanWritesKeep DEF WorkerStep
  <2>3. CASE EndScan
    <3>1. job' = "none" /\ pending = {} /\ \A p \in Paths : work[p].at = "idle"
      BY <2>3 DEF EndScan, Idle
    <3>2. UNCHANGED <<disk, library, rows, scenes, pending, work, changes, calm,
                      toAssess, toDelete>>
      BY <1>2, <2>3 DEF EndScan, diskVars, dbVars, cleanVars
    <3> QED BY <1>0, <3>1, <3>2, JobStepsKeep
  <2>4. CASE \E p \in Paths : Fails(p)
    <3>1. PICK p \in Paths : Fails(p)
      BY <2>4
    <3>2. /\ Disturb /\ work[p] # Idle
          /\ UNCHANGED <<disk, library, rows, scenes, pending, job, toAssess, toDelete>>
          /\ work' = [work EXCEPT ![p] = Idle]
      BY <1>2, <3>1 DEF Fails, Done, diskVars, dbVars, cleanVars
    <3>3. \A q \in Paths : work'[q] = work[q] \/ work'[q] = Idle
      BY <1>0, <3>2
    <3>4. job # "scan" => pending = {} /\ \A q \in Paths : work[q].at = "idle"
      BY NobodyWorks
    <3>5. Idle.at = "idle"
      BY DEF Idle
    <3> QED BY <1>0, <3>2, <3>3, <3>4, <3>5, JobStepsKeep
  <2>5. CASE \E p \in Paths : Exclude(p)
    <3>1. /\ Disturb /\ library' \subseteq library
          /\ UNCHANGED <<disk, rows, scenes, pending, job, work, toAssess, toDelete>>
      BY <1>2, <2>5 DEF Exclude, dbVars, cleanVars
    <3>2. job # "scan" => pending = {} /\ \A q \in Paths : work[q].at = "idle"
      BY NobodyWorks
    <3> QED BY <1>0, <3>1, <3>2, JobStepsKeep
  <2>6. CASE CancelScan
    <3>1. /\ Disturb /\ job = "scan" /\ pending' = {}
          /\ UNCHANGED <<disk, library, rows, scenes, job, toAssess, toDelete>>
          /\ work' = [p \in Paths |-> IF work[p].at = "queued" THEN Idle ELSE work[p]]
      BY <1>2, <2>6 DEF CancelScan, diskVars, dbVars, cleanVars
    <3>2. /\ work' \in [Paths -> WorkerState]
          /\ \A p \in Paths : work'[p] = work[p] \/ work'[p] = Idle
      BY <1>0, <3>1
    <3> QED BY <1>0, <3>1, <3>2, JobStepsKeep
  <2>7. CASE \E s \in SceneIds : DestroyScene(s)
    BY <1>2, <2>7, DestroySceneKeeps
  <2>8. CASE \E p \in Paths, c \in Contents : Put(p, c)
    <3>1. PICK p \in Paths, c \in Contents : Put(p, c)
      BY <2>8
    <3>2. /\ Disturb /\ Noticeable(p, c) /\ disk' = [disk EXCEPT ![p] = c]
          /\ UNCHANGED <<rows, scenes, job, pending, work, library>>
      BY <3>1 DEF Put, dbVars
    <3>3. /\ disk' \in [Paths -> Contents \cup {Nothing}]
          /\ \A q \in Paths : disk'[q] = disk[q] \/ Noticeable(q, disk'[q])
      BY <1>0, <3>2
    <3> QED BY <1>2, <3>2, <3>3, DiskChangesKeep
  <2>9. CASE \E p \in Paths : Unlink(p)
    <3>1. PICK p \in Paths : Unlink(p)
      BY <2>9
    <3>2. /\ Disturb /\ disk' = [disk EXCEPT ![p] = Nothing]
          /\ UNCHANGED <<rows, scenes, job, pending, work, library>>
      BY <3>1 DEF Unlink, dbVars
    <3>3. /\ disk' \in [Paths -> Contents \cup {Nothing}]
          /\ \A q \in Paths : disk'[q] = disk[q] \/ disk'[q] = Nothing
      BY <1>0, <3>2
    <3> QED BY <1>2, <3>2, <3>3, DiskChangesKeep
  <2>10. CASE \E p, q \in Paths : Move(p, q)
    <3>1. PICK p \in Paths, q \in Paths : Move(p, q)
      BY <2>10
    <3>2. /\ Disturb /\ Noticeable(q, disk[p])
          /\ disk' = [disk EXCEPT ![p] = Nothing, ![q] = disk[p]]
          /\ UNCHANGED <<rows, scenes, job, pending, work, library>>
      BY <3>1 DEF Move, dbVars
    <3>3. /\ disk' \in [Paths -> Contents \cup {Nothing}]
          /\ \A r \in Paths : \/ disk'[r] = disk[r] \/ disk'[r] = Nothing
                              \/ Noticeable(r, disk'[r])
      BY <1>0, <3>2
    <3> QED BY <1>2, <3>2, <3>3, DiskChangesKeep
  <2> QED BY <1>2, <2>1, <2>2, <2>3, <2>4, <2>5, <2>6, <2>7, <2>8, <2>9, <2>10
          DEF ScanNext, ScanStep, Disturbance
<1>3. CASE BeginClean \/ (\E i \in FileIds : AssessFile(i) \/ DeleteFails(i))
           \/ EndAssess \/ EndClean \/ CancelClean
  <2>1. /\ UNCHANGED <<disk, library, rows, scenes, pending, work>>
        /\ job # "scan"
        /\ job' \in {"none", "assess", "delete"}
        /\ UNCHANGED <<changes, calm>> \/ (calm' = TRUE /\ changes' = changes) \/ Disturb
    BY <1>3 DEF BeginClean, AssessFile, DeleteFails, EndAssess, EndClean, CancelClean,
                vars, diskVars, dbVars
  <2>2. toAssess' \subseteq FileIds /\ toDelete' \subseteq FileIds
    BY <1>0, <1>3 DEF BeginClean, AssessFile, DeleteFails, EndAssess, EndClean,
                      CancelClean, cleanVars, Known
  <2>3. pending = {} /\ \A p \in Paths : work[p].at = "idle"
    BY <2>1, NobodyWorks
  <2> QED BY <1>0, <2>1, <2>2, <2>3, JobStepsKeep
<1>4. CASE \E i \in FileIds : DeleteFile(i)
  BY <1>4, DeleteFileKeeps
<1> QED BY <1>1, <1>2, <1>3, <1>4 DEF CleanNext, CleanStep

LEMMA Invariant == Spec => []IInv
<1>1. CleanInit => IInv
  BY InitKeeps
<1>2. IInv /\ [CleanNext]_allVars => IInv'
  BY NextKeeps
<1> QED BY <1>1, <1>2, PTL DEF Spec

(* The variables of scans and clean jobs keep their types. *)
THEOREM CleanTypeCorrect == Spec => []CleanTypeOK
<1>1. IInv => CleanTypeOK
  BY DEF IInv
<1> QED BY <1>1, Invariant, PTL

(* No two rows have one path and every scene has files, the primary one    *)
(* among them, whatever workers, failures and clean jobs do.               *)
THEOREM TablesStayInAgreement == Spec => []TablesAgree
<1>1. IInv => TablesAgree
  BY DEF IInv
<1> QED BY <1>1, Invariant, PTL

(* No change escapes the scanner: ScanFile is given the modification time  *)
(* that was taken before the contents were read.                           *)
THEOREM NoChangeEscapes == Spec => []ChangesShow
<1>1. IInv => ChangesShow
  BY DEF IInv
<1> QED BY <1>1, Invariant, PTL

-----------------------------------------------------------------------------
(* While a clean job that nothing disturbs runs, what it has marked is     *)
(* without a file, and what is without a file is marked or yet to be       *)
(* looked at.                                                              *)
CleanAgrees ==
  calm /\ job \in {"assess", "delete"} =>
    /\ \A i \in Known : i \in toDelete => Missing(i)
    /\ \A i \in Known :
         Missing(i) => i \in toDelete \/ (job = "assess" /\ i \in toAssess)

(* In a step that is not a step of the clean job and leaves a clean job    *)
(* undisturbed nothing it looks at changes.                                *)
LEMMA OthersLeaveCleanAlone ==
  ASSUME IInv, ScanNext \/ UNCHANGED vars, UNCHANGED cleanVars, calm'
  PROVE  job' \in {"assess", "delete"} => UNCHANGED <<diskVars, rows, job, calm>>
<1>1. CASE UNCHANGED vars
  BY <1>1 DEF vars, diskVars, dbVars
<1>2. CASE ScanNext
  <2>1. ~Disturb
    BY DEF Disturb
  <2>2. CASE BeginScan \/ EndScan
    BY <2>2 DEF BeginScan, EndScan
  <2>3. CASE \E p \in Paths : Visit(p) \/ WorkerStep(p)
    <3>1. PICK p \in Paths : Visit(p) \/ WorkerStep(p)
      BY <2>3
    <3>2. p \in pending \/ work[p].at # "idle"
      BY <3>1 DEF Visit, WorkerStep, LookUp, Reads, Matches, Creates, Renames, Updates,
                  HandlesAgain
    <3>3. job = "scan"
      BY <3>2 DEF IInv, WorkersAgree, WorkerOf
    <3>4. job' = job
      BY <3>1 DEF Visit, WorkerStep, LookUp, Reads, Matches, Creates, Renames, Updates,
                  HandlesAgain
    <3> QED BY <3>3, <3>4
  <2> QED BY <1>2, <2>1, <2>2, <2>3
          DEF ScanNext, ScanStep, Disturbance, Put, Move, Unlink, Exclude, Fails,
              DestroyScene, CancelScan
<1> QED BY <1>1, <1>2

LEMMA CleanAgreesKept ==
  ASSUME IInv, CleanAgrees, [CleanNext]_allVars
  PROVE  CleanAgrees'
<1> SUFFICES ASSUME calm', job' \in {"assess", "delete"}
             PROVE  CleanAgrees'
  BY DEF CleanAgrees
<1>0. ~Disturb
  BY DEF Disturb
<1>1. CASE (ScanNext \/ UNCHANGED vars) /\ UNCHANGED cleanVars
  <2>1. UNCHANGED <<disk, library, rows, job, calm, toAssess, toDelete>>
    BY <1>1, OthersLeaveCleanAlone DEF cleanVars, diskVars
  <2> QED BY <2>1 DEF CleanAgrees, Known, Missing
<1>2. CASE BeginClean
  BY <1>2 DEF BeginClean, CleanAgrees, Known, Missing, diskVars, dbVars
<1>3. CASE \E i \in FileIds : AssessFile(i)
  <2>1. PICK i \in FileIds : AssessFile(i)
    BY <1>3
  <2>2. UNCHANGED <<disk, library, rows, job, calm>>
    BY <2>1 DEF AssessFile, vars, diskVars, dbVars
  <2>3. \A k \in Known : (Missing(k))' <=> Missing(k)
    BY <2>2 DEF Missing
  <2> QED BY <2>1, <2>2, <2>3 DEF AssessFile, CleanAgrees, Known
<1>4. CASE EndAssess
  BY <1>4 DEF EndAssess, CleanAgrees, Known, Missing, diskVars, dbVars, cleanVars
<1>5. CASE \E i \in FileIds : DeleteFile(i)
  <2>1. PICK i \in FileIds : DeleteFile(i)
    BY <1>5
  <2>2. /\ UNCHANGED <<disk, library, job, calm, toAssess>>
        /\ toDelete' = toDelete \ {i} /\ job = "delete"
        /\ rows' = [rows EXCEPT ![i] = Nothing]
    BY <2>1 DEF DeleteFile, diskVars
  <2>3. /\ Known' = Known \ {i}
        /\ \A k \in Known' : rows'[k] = rows[k]
    BY <2>2 DEF IInv, CleanTypeOK, TypeOK, Known
  <2> QED BY <2>2, <2>3 DEF CleanAgrees, Missing
<1>6. CASE EndClean
  BY <1>6 DEF EndClean
<1> QED BY <1>0, <1>1, <1>2, <1>3, <1>4, <1>5, <1>6
        DEF CleanNext, CleanStep, DeleteFails, CancelClean, allVars

(* What one step of the two jobs deletes: rows go only in DeleteFile.      *)
LEMMA RowsGoInDeleteFile ==
  ASSUME IInv, [CleanNext]_allVars, NEW i \in Known, rows'[i] = Nothing
  PROVE  DeleteFile(i)
<1>1. i \in FileIds /\ rows[i] # Nothing
  BY DEF Known
<1>2. CASE UNCHANGED rows
  BY <1>1, <1>2
<1>3. CASE \E p \in Paths, k \in FileIds :
             Store(k, p) /\ work[p].at \in {"creating", "renaming", "updating"}
  <2>1. PICK p \in Paths, k \in FileIds :
          Store(k, p) /\ work[p].at \in {"creating", "renaming", "updating"}
    BY <1>3
  <2>2. [path |-> p, mod |-> work[p].seen, print |-> work[p].print] # Nothing
    BY <2>1, NothingAssumption DEF IInv, WorkersAgree, WorkerOf, Row
  <2> QED BY <1>1, <2>1, <2>2 DEF Store, dbVars, IInv, CleanTypeOK, TypeOK
<1>4. CASE \E k \in FileIds : DeleteFile(k)
  BY <1>1, <1>4 DEF DeleteFile, IInv, CleanTypeOK, TypeOK
<1>5. CASE \E p \in Paths : Creates(p)
  BY <1>3, <1>5 DEF Creates
<1>6. CASE \E p \in Paths : Renames(p) \/ Updates(p)
  <2>1. PICK p \in Paths : Renames(p) \/ Updates(p)
    BY <1>6
  <2>2. work[p].at \in {"renaming", "updating"} /\ Store(work[p].id, p)
    BY <2>1 DEF Renames, Updates
  <2>3. work[p].id \in FileIds
    BY <2>2 DEF IInv, WorkersAgree, WorkerOf
  <2> QED BY <1>3, <2>2, <2>3
<1>7. CASE ScanNext
  <2>1. CASE BeginScan \/ EndScan \/ Disturbance
    BY <1>2, <2>1 DEF BeginScan, EndScan, Disturbance, Put, Move, Unlink, Exclude, Fails,
                      DestroyScene, CancelScan, dbVars
  <2>2. CASE \E p \in Paths : Visit(p) \/ LookUp(p) \/ Reads(p) \/ Matches(p) \/ HandlesAgain(p)
    BY <1>2, <2>2 DEF Visit, LookUp, Reads, Matches, HandlesAgain, dbVars
  <2> QED BY <1>5, <1>6, <1>7, <2>1, <2>2 DEF ScanNext, ScanStep, WorkerStep
<1>8. CASE BeginClean \/ (\E k \in FileIds : AssessFile(k) \/ DeleteFails(k))
           \/ EndAssess \/ EndClean \/ CancelClean \/ UNCHANGED allVars
  BY <1>2, <1>8 DEF BeginClean, AssessFile, DeleteFails, EndAssess, EndClean, CancelClean,
                    allVars, vars, dbVars
<1> QED BY <1>4, <1>7, <1>8 DEF CleanNext, CleanStep

LEMMA InvariantOfClean == Spec => [](IInv /\ CleanAgrees)
<1>1. CleanInit => IInv /\ CleanAgrees
  BY InitKeeps DEF CleanAgrees, CleanInit, Init
<1>2. IInv /\ CleanAgrees /\ [CleanNext]_allVars => IInv' /\ CleanAgrees'
  BY NextKeeps, CleanAgreesKept
<1> QED BY <1>1, <1>2, PTL DEF Spec

(* A clean job that nothing disturbs deletes the rows without a file, all  *)
(* of them and no other, although it decides and deletes in separate       *)
(* transactions.                                                           *)
THEOREM CleanDeletesExactly == Spec => CleanIsExact
<1>1. ASSUME IInv, CleanAgrees, [CleanNext]_allVars, calm, calm'
      PROVE  /\ \A i \in Known : rows'[i] = Nothing => Missing(i)
             /\ job = "delete" /\ job' = "none" => \A i \in Known : ~Missing(i)
  <2>1. ASSUME NEW i \in Known, rows'[i] = Nothing PROVE Missing(i)
    <3>1. DeleteFile(i)
      BY <1>1, <2>1, RowsGoInDeleteFile
    <3> QED BY <1>1, <3>1 DEF DeleteFile, CleanAgrees
  <2>2. ASSUME job = "delete", job' = "none", NEW i \in Known PROVE ~Missing(i)
    <3>1. toDelete = {}
      <4>1. ~Disturb
        BY <1>1 DEF Disturb
      <4>2. pending = {} /\ \A p \in Paths : work[p].at = "idle"
        BY <1>1, <2>2, NobodyWorks
      <4>3. ~ScanNext
        BY <2>2, <4>1, <4>2
           DEF ScanNext, BeginScan, ScanStep, EndScan, Disturbance, Put, Move, Unlink,
               Exclude, Fails, DestroyScene, CancelScan, Visit, WorkerStep, LookUp, Reads,
               Matches, Creates, Renames, Updates, HandlesAgain
      <4> QED BY <1>1, <2>2, <4>1, <4>3
              DEF CleanNext, BeginClean, CleanStep, AssessFile, DeleteFile, EndAssess,
                  EndClean, DeleteFails, CancelClean, vars, allVars
    <3> QED BY <1>1, <2>2, <3>1 DEF CleanAgrees
  <2> QED BY <2>1, <2>2
<1>2. IInv /\ CleanAgrees /\ [CleanNext]_allVars =>
        [calm /\ calm' =>
           /\ \A i \in Known : rows'[i] = Nothing => Missing(i)
           /\ job = "delete" /\ job' = "none" => \A i \in Known : ~Missing(i)]_allVars
  BY <1>1
<1> QED BY <1>2, InvariantOfClean, PTL DEF Spec, CleanIsExact

-----------------------------------------------------------------------------
(* A handler adds to scenes and adds scenes; it destroys none. *)
LEMMA HandleDestroysNone ==
  ASSUME NEW i \in FileIds, NEW c, Handle(i, c),
         scenes \in [SceneIds -> Scene \cup {Nothing}],
         NEW s \in SceneIds, scenes[s] # Nothing
  PROVE  scenes'[s] # Nothing
<1>1. CASE UNCHANGED scenes
  BY <1>1
<1>2. CASE scenes' = [t \in SceneIds |->
                        IF t \in ScenesWith(c)
                        THEN [scenes[t] EXCEPT !.files = @ \cup {i}] ELSE scenes[t]]
  <2>1. scenes[s] \in Scene
    OBVIOUS
  <2>2. [scenes[s] EXCEPT !.files = @ \cup {i}] \in Scene
    BY <2>1 DEF Scene
  <2> QED BY <1>2, <2>2, NothingAssumption
<1>3. CASE \E t \in SceneIds :
             scenes' = [scenes EXCEPT ![t] = [files |-> {i}, primary |-> i]]
  <2>1. [files |-> {i}, primary |-> i] \in Scene
    BY DEF Scene
  <2> QED BY <1>3, <2>1, NothingAssumption
<1> QED BY <1>1, <1>2, <1>3 DEF Handle

(* No scan and no clean job takes a scene away before its last file: what  *)
(* users have entered about a video survives renames, copies and the loss  *)
(* of one of its files.                                                    *)
THEOREM ScenesOutliveFiles == Spec => SceneLeavesWithLastFile
<1>1. ASSUME IInv, [CleanNext]_allVars,
             NEW s \in SceneIds, scenes[s] # Nothing, scenes'[s] = Nothing,
             rows' # rows
      PROVE  \A i \in scenes[s].files : rows'[i] = Nothing
  <2>1. CASE \E p \in Paths, i \in FileIds : Store(i, p)
    <3>1. PICK p \in Paths, i \in FileIds : Store(i, p)
      BY <2>1
    <3>2. Handle(i, work[p].print)
      BY <1>1, <3>1 DEF Store, dbVars
    <3>3. scenes \in [SceneIds -> Scene \cup {Nothing}]
      BY <1>1 DEF IInv, CleanTypeOK, TypeOK
    <3> QED BY <1>1, <3>2, <3>3, HandleDestroysNone
  <2>2. CASE \E i \in FileIds : DeleteFile(i)
    <3>1. PICK i \in FileIds : DeleteFile(i)
      BY <2>2
    <3>2. scenes[s].files = {i}
      <4>1. Nothing \notin Scene /\ scenes[s] \in Scene
        BY <1>1, NothingAssumption DEF IInv, CleanTypeOK, TypeOK
      <4>2. PICK other \in [ScenesOf(i) -> FileIds] :
              /\ \A t \in ScenesOf(i) :
                   scenes[t].files # {i} => other[t] \in scenes[t].files \ {i}
              /\ scenes' = [t \in SceneIds |->
                    IF t \notin ScenesOf(i) THEN scenes[t]
                    ELSE IF scenes[t].files = {i} THEN Nothing
                    ELSE [files |-> scenes[t].files \ {i}, primary |-> other[t]]]
        BY <3>1 DEF DeleteFile, LosesFile
      <4>3. ASSUME s \in ScenesOf(i), scenes[s].files # {i} PROVE FALSE
        <5>1. scenes'[s] = [files |-> scenes[s].files \ {i}, primary |-> other[s]]
          BY <4>2, <4>3
        <5>2. other[s] \in FileIds /\ scenes[s].files \subseteq FileIds
          BY <4>1, <4>2, <4>3 DEF Scene
        <5>3. scenes'[s] \in Scene
          BY <5>1, <5>2 DEF Scene
        <5> QED BY <1>1, <4>1, <5>3
      <4> QED BY <1>1, <4>2, <4>3
    <3> QED BY <1>1, <3>1, <3>2 DEF DeleteFile, IInv, CleanTypeOK, TypeOK
  <2>3. CASE ScanNext
    <3>1. CASE \E p \in Paths : Creates(p)
      BY <2>1, <3>1 DEF Creates
    <3>2. CASE \E p \in Paths : Renames(p) \/ Updates(p)
      <4>1. PICK p \in Paths : Renames(p) \/ Updates(p)
        BY <3>2
      <4>2. work[p].at \in {"renaming", "updating"} /\ Store(work[p].id, p)
        BY <4>1 DEF Renames, Updates
      <4>3. work[p].id \in FileIds
        BY <1>1, <4>2 DEF IInv, WorkersAgree, WorkerOf
      <4> QED BY <2>1, <4>2, <4>3
    <3>3. CASE BeginScan \/ EndScan \/ Disturbance
      BY <1>1, <3>3 DEF BeginScan, EndScan, Disturbance, Put, Move, Unlink, Exclude, Fails,
                        DestroyScene, CancelScan, dbVars
    <3>4. CASE \E p \in Paths : Visit(p) \/ LookUp(p) \/ Reads(p) \/ Matches(p) \/ HandlesAgain(p)
      BY <1>1, <3>4 DEF Visit, LookUp, Reads, Matches, HandlesAgain, dbVars
    <3> QED BY <2>3, <3>1, <3>2, <3>3, <3>4 DEF ScanNext, ScanStep, WorkerStep
  <2> QED BY <1>1, <2>2, <2>3
          DEF CleanNext, CleanStep, BeginClean, AssessFile, DeleteFails, EndAssess,
              EndClean, CancelClean, allVars, vars, dbVars
<1>2. IInv /\ [CleanNext]_allVars =>
        [\A s \in SceneIds :
           scenes[s] # Nothing /\ scenes'[s] = Nothing =>
             rows' = rows \/ \A i \in scenes[s].files : rows'[i] = Nothing]_allVars
  BY <1>1
<1> QED BY <1>2, Invariant, PTL DEF Spec, SceneLeavesWithLastFile
-----------------------------------------------------------------------------
(* Which rows the workers of a scan are going to write, and what they know *)
(* of them.  Every worker has one path, which it is done with once: so a   *)
(* row that it has found at its path can only have gone to a path that is  *)
(* settled, by a rename, which does not change its fingerprint.            *)
Settled(p) == p \notin pending /\ work[p].at = "idle"

HasRow(p) == work[p].at \in {"existing", "updating", "handling"}

Holds(p) ==
  /\ work[p].at # "idle" => p \notin pending
  /\ HasRow(p) =>
       /\ work[p].id \in Known
       /\ rows[work[p].id].path = p \/ Settled(rows[work[p].id].path)
       /\ \A q \in Paths : HasRow(q) /\ work[q].id = work[p].id => q = p
  /\ work[p].at = "renaming" =>
       /\ work[p].id \in Known
       /\ rows[work[p].id].print = work[p].print \/ Settled(rows[work[p].id].path)
  /\ work[p].at = "handling" =>
       /\ rows[work[p].id].print = work[p].print
       /\ \A q \in Paths : work[q].at = "renaming" /\ work[q].id = work[p].id
                             => work[q].print = work[p].print

HoldersAgree == \A p \in Paths : Holds(p)

LEMMA NobodyHolds ==
  ASSUME \A p \in Paths : work'[p].at = "idle"
  PROVE  HoldersAgree'
BY DEF HoldersAgree, Holds, HasRow

(* Steps of workers that take no row. *)
LEMMA TakesNoRow ==
  ASSUME HoldersAgree, rows' = rows,
         \A p \in Paths : Settled(p) => Settled(p)',
         \A p \in Paths : work'[p].at # "idle" => p \notin pending',
         \A p \in Paths :
           \/ work'[p] = work[p]
           \/ work'[p].at \in {"idle", "queued", "new", "matching", "creating"}
           \/ /\ work[p].at = "existing" /\ work'[p].at = "updating"
              /\ work'[p].id = work[p].id,
         \A i \in Known : rows[i].path \in Paths
  PROVE  HoldersAgree'
<1>1. Known' = Known
  BY DEF Known
<1>2. \A p \in Paths : HasRow(p)' => HasRow(p) /\ work'[p].id = work[p].id
  BY DEF HasRow
<1>3. \A p \in Paths : work'[p].at \in {"renaming", "handling"} => work'[p] = work[p]
  OBVIOUS
<1>4. ASSUME NEW p \in Paths, HasRow(p)'
      PROVE  /\ work'[p].id \in Known'
             /\ (rows[work[p].id].path = p \/ Settled(rows[work[p].id].path))'
             /\ \A q \in Paths : HasRow(q)' /\ work'[q].id = work'[p].id => q = p
  <2>1. /\ work'[p].id = work[p].id /\ work[p].id \in Known
        /\ rows[work[p].id].path = p \/ Settled(rows[work[p].id].path)
        /\ \A q \in Paths : HasRow(q) /\ work[q].id = work[p].id => q = p
    BY <1>2, <1>4 DEF HoldersAgree, Holds
  <2>2. (rows[work[p].id].path = p \/ Settled(rows[work[p].id].path))'
    BY <2>1 DEF Settled
  <2> QED BY <1>1, <1>2, <2>1, <2>2
<1>5. ASSUME NEW p \in Paths, work'[p].at = "renaming"
      PROVE  /\ work'[p].id \in Known'
             /\ (rows[work[p].id].print = work[p].print \/ Settled(rows[work[p].id].path))'
  <2>1. /\ work'[p] = work[p] /\ work[p].id \in Known
        /\ rows[work[p].id].print = work[p].print \/ Settled(rows[work[p].id].path)
    BY <1>3, <1>5 DEF HoldersAgree, Holds
  <2>2. (rows[work[p].id].print = work[p].print \/ Settled(rows[work[p].id].path))'
    BY <2>1 DEF Settled
  <2> QED BY <1>1, <2>1, <2>2
<1>6. ASSUME NEW p \in Paths, work'[p].at = "handling"
      PROVE  /\ rows'[work'[p].id].print = work'[p].print
             /\ \A q \in Paths : work'[q].at = "renaming" /\ work'[q].id = work'[p].id
                                   => work'[q].print = work'[p].print
  BY <1>3, <1>6 DEF HoldersAgree, Holds
<1> QED BY <1>4, <1>5, <1>6 DEF HoldersAgree, Holds

(* A worker that finds a row at its path is the only one that has it: one  *)
(* that found it earlier found it elsewhere, and this path is not settled. *)
LEMMA LookUpHolds ==
  ASSUME IInv, HoldersAgree, NEW p \in Paths, LookUp(p)
  PROVE  HoldersAgree'
<1>1. /\ work[p].at = "queued" /\ rows' = rows /\ pending' = pending /\ Known' = Known
      /\ \A i \in Known : rows[i].path \in Paths
  BY NothingAssumption DEF LookUp, dbVars, Known, IInv, CleanTypeOK, TypeOK, Row
<1>2. CASE \A q \in Paths :
             \/ work'[q] = work[q]
             \/ q = p /\ work'[q].at \in {"idle", "new"}
  <2>1. \A q \in Paths : Settled(q) => Settled(q)'
    BY <1>1, <1>2 DEF Settled
  <2>2. \A q \in Paths : work'[q].at # "idle" => q \notin pending'
    BY <1>1, <1>2 DEF HoldersAgree, Holds
  <2> QED BY <1>1, <1>2, <2>1, <2>2, TakesNoRow
<1>3. ASSUME NEW i \in RowsAt(p),
             work'[p].id = i, work'[p].at \in {"existing", "handling"},
             work'[p].at = "handling" => work'[p].print = rows[i].print,
             \A q \in Paths : q # p => work'[q] = work[q]
      PROVE  HoldersAgree'
  <2>1. i \in Known /\ rows[i].path = p
    BY DEF RowsAt
  <2>2. ~Settled(p) /\ \A q \in Paths : Settled(q) => Settled(q)'
    BY <1>1, <1>3 DEF Settled
  <2>3. \A q \in Paths : q # p /\ HasRow(q) => work[q].id # i
    BY <2>1, <2>2 DEF HoldersAgree, Holds
  <2>4. \A q \in Paths : q # p /\ work[q].at = "renaming" /\ work[q].id = i
                            => work[q].print = rows[i].print
    BY <2>1, <2>2 DEF HoldersAgree, Holds
  <2>5. p \notin pending'
    BY <1>1 DEF HoldersAgree, Holds
  <2>6. Holds(p)'
    BY <1>1, <1>3, <2>1, <2>3, <2>4, <2>5 DEF Holds, HasRow
  <2>7. ASSUME NEW q \in Paths, q # p PROVE Holds(q)'
    <3>1. work'[q] = work[q] /\ Holds(q)
      BY <1>3, <2>7 DEF HoldersAgree
    <3>2. HasRow(q) =>
            /\ work[q].id \in Known
            /\ (rows[work[q].id].path = q \/ Settled(rows[work[q].id].path))'
      BY <1>1, <2>2, <3>1 DEF Holds, Settled
    <3>3. \A r \in Paths : HasRow(q) /\ HasRow(r)' /\ work'[r].id = work[q].id => r = q
      BY <1>3, <2>3, <2>7, <3>1 DEF Holds, HasRow
    <3>4. work[q].at = "renaming" =>
            /\ work[q].id \in Known
            /\ (rows[work[q].id].print = work[q].print \/ Settled(rows[work[q].id].path))'
      BY <1>1, <2>2, <3>1 DEF Holds, Settled
    <3>5. \A r \in Paths : work'[r].at = "renaming" => work'[r] = work[r]
      BY <1>3
    <3> QED BY <1>1, <3>1, <3>2, <3>3, <3>4, <3>5 DEF Holds, HasRow
  <2> QED BY <2>6, <2>7 DEF HoldersAgree
<1>4. work \in [Paths -> WorkerState]
  BY DEF IInv, CleanTypeOK, TypeOK
<1>5. CASE RowsAt(p) = {} /\ work' = [work EXCEPT ![p].at = "new"]
  BY <1>2, <1>4, <1>5 DEF WorkerState
<1>6. CASE Done(p)
  BY <1>2, <1>4, <1>6 DEF Done, Idle
<1>7. ASSUME NEW i \in RowsAt(p), work' = [work EXCEPT ![p].at = "existing", ![p].id = i]
      PROVE  HoldersAgree'
  <2>1. work'[p].id = i /\ work'[p].at = "existing" /\ \A q \in Paths : q # p => work'[q] = work[q]
    BY <1>4, <1>7 DEF WorkerState
  <2> QED BY <1>3, <2>1
<1>8. ASSUME NEW i \in RowsAt(p), work' = [work EXCEPT ![p].at = "handling", ![p].id = i,
                                                       ![p].print = rows[i].print]
      PROVE  HoldersAgree'
  <2>1. /\ work'[p].id = i /\ work'[p].at = "handling" /\ work'[p].print = rows[i].print
        /\ \A q \in Paths : q # p => work'[q] = work[q]
    BY <1>4, <1>8 DEF WorkerState
  <2> QED BY <1>3, <2>1
<1> QED BY <1>5, <1>6, <1>7, <1>8 DEF LookUp

(* A worker that matches a missing row has the fingerprint of that row. *)
LEMMA MatchesHolds ==
  ASSUME IInv, HoldersAgree, NEW p \in Paths, Matches(p)
  PROVE  HoldersAgree'
<1>1. /\ work[p].at = "matching" /\ rows' = rows /\ pending' = pending /\ Known' = Known
      /\ \A i \in Known : rows[i].path \in Paths
      /\ work \in [Paths -> WorkerState]
  BY NothingAssumption DEF Matches, dbVars, Known, IInv, CleanTypeOK, TypeOK, Row
<1>2. \A q \in Paths : Settled(q) => Settled(q)'
  <2>1. \A q \in Paths : q # p => work'[q] = work[q]
    BY <1>1 DEF Matches
  <2> QED BY <1>1, <2>1 DEF Settled
<1>3. CASE work' = [work EXCEPT ![p].at = "creating"]
  <2>1. \A q \in Paths : IF q = p THEN work'[q].at = "creating" ELSE work'[q] = work[q]
    BY <1>1, <1>3 DEF WorkerState
  <2>2. \A q \in Paths : work'[q].at # "idle" => q \notin pending'
    BY <1>1, <2>1 DEF HoldersAgree, Holds
  <2> QED BY <1>1, <1>2, <2>1, <2>2, TakesNoRow
<1>4. ASSUME NEW i \in Twins(work[p].print),
             work' = [work EXCEPT ![p].at = "renaming", ![p].id = i]
      PROVE  HoldersAgree'
  <2>1. /\ work'[p].at = "renaming" /\ work'[p].id = i /\ work'[p].print = work[p].print
        /\ \A q \in Paths : q # p => work'[q] = work[q]
    BY <1>1, <1>4 DEF WorkerState
  <2>2. i \in Known /\ rows[i].print = work[p].print
    BY DEF Twins
  <2>3. p \notin pending'
    BY <1>1 DEF HoldersAgree, Holds
  <2>4. Holds(p)'
    BY <1>1, <2>1, <2>2, <2>3 DEF Holds, HasRow
  <2>5. ASSUME NEW q \in Paths, q # p PROVE Holds(q)'
    <3>1. work'[q] = work[q] /\ Holds(q)
      BY <2>1, <2>5 DEF HoldersAgree
    <3>2. HasRow(q) =>
            /\ work[q].id \in Known
            /\ (rows[work[q].id].path = q \/ Settled(rows[work[q].id].path))'
      BY <1>1, <1>2, <3>1 DEF Holds, Settled
    <3>3. \A r \in Paths : HasRow(q) /\ HasRow(r)' /\ work'[r].id = work[q].id => r = q
      BY <2>1, <3>1 DEF Holds, HasRow
    <3>4. work[q].at = "renaming" =>
            /\ work[q].id \in Known
            /\ (rows[work[q].id].print = work[q].print \/ Settled(rows[work[q].id].path))'
      BY <1>1, <1>2, <3>1 DEF Holds, Settled
    <3>5. work[q].at = "handling" =>
            /\ rows[work[q].id].print = work[q].print
            /\ \A r \in Paths : work'[r].at = "renaming" /\ work'[r].id = work[q].id
                                  => work'[r].print = work[q].print
      <4>1. ASSUME work[q].at = "handling", NEW r \in Paths,
                   work'[r].at = "renaming", work'[r].id = work[q].id
            PROVE  work'[r].print = work[q].print
        BY <2>1, <2>2, <3>1, <4>1 DEF Holds
      <4> QED BY <3>1, <4>1 DEF Holds
    <3> QED BY <1>1, <3>1, <3>2, <3>3, <3>4, <3>5 DEF Holds, HasRow
  <2> QED BY <2>4, <2>5 DEF HoldersAgree
<1> QED BY <1>3, <1>4 DEF Matches

(* What a transaction that stores does to the rows: the row has the path   *)
(* of the worker and what the worker has read, and nobody waits there.     *)
LEMMA StoreHolds ==
  ASSUME IInv, HoldersAgree, NEW p \in Paths, NEW i \in FileIds,
         Store(i, p), Done(p), pending' = pending,
         \/ work[p].at = "creating" /\ rows[i] = Nothing
         \/ work[p].at \in {"renaming", "updating"} /\ i = work[p].id
  PROVE  HoldersAgree'
<1> DEFINE r == [path |-> p, mod |-> work[p].seen, print |-> work[p].print]
<1>1. /\ work'[p].at = "idle" /\ \A q \in Paths : q # p => work'[q] = work[q]
      /\ \A k \in Known : rows[k].path \in Paths
      /\ rows \in [FileIds -> Row \cup {Nothing}]
      /\ r # Nothing
  BY NothingAssumption
     DEF Done, Idle, Known, IInv, CleanTypeOK, TypeOK, Row, WorkersAgree, WorkerOf
<1>2. /\ p \notin pending
      /\ \A q \in Paths : Settled(q) => Settled(q)'
      /\ Settled(p)'
  BY <1>1 DEF HoldersAgree, Holds, Settled
<1>3. CASE rows' = rows
  <2>1. \A q \in Paths : work'[q].at # "idle" => q \notin pending'
    BY <1>1 DEF HoldersAgree, Holds
  <2> QED BY <1>1, <1>2, <1>3, <2>1, TakesNoRow
<1>4. CASE rows' = [rows EXCEPT ![i] = r]
  <2>1. /\ rows'[i].path = p /\ rows'[i].print = work[p].print
        /\ \A k \in FileIds : k # i => rows'[k] = rows[k]
        /\ Known \subseteq Known'
    BY <1>1, <1>4 DEF Known
  <2>2. ASSUME NEW q \in Paths, q # p PROVE Holds(q)'
    <3>1. work'[q] = work[q] /\ Holds(q)
      BY <1>1, <2>2 DEF HoldersAgree
    <3>2. HasRow(q) =>
            /\ work[q].id \in Known'
            /\ (rows[work[q].id].path = q \/ Settled(rows[work[q].id].path))'
      <4>1. HasRow(q) =>
              /\ work[q].id \in Known
              /\ rows[work[q].id].path = q \/ Settled(rows[work[q].id].path)
        BY <3>1 DEF Holds
      <4>2. CASE work[q].id = i
        BY <1>2, <2>1, <3>1, <4>1, <4>2 DEF Settled
      <4>3. CASE work[q].id # i
        BY <1>1, <1>2, <2>1, <3>1, <4>1, <4>3 DEF Settled, Known
      <4> QED BY <4>2, <4>3
    <3>3. \A t \in Paths : HasRow(q) /\ HasRow(t)' /\ work'[t].id = work[q].id => t = q
      BY <1>1, <3>1 DEF Holds, HasRow
    <3>4. work[q].at = "renaming" =>
            /\ work[q].id \in Known'
            /\ (rows[work[q].id].print = work[q].print \/ Settled(rows[work[q].id].path))'
      <4>1. work[q].at = "renaming" =>
              /\ work[q].id \in Known
              /\ rows[work[q].id].print = work[q].print \/ Settled(rows[work[q].id].path)
        BY <3>1 DEF Holds
      <4>2. CASE work[q].id = i
        BY <1>2, <2>1, <3>1, <4>1, <4>2 DEF Settled
      <4>3. CASE work[q].id # i
        BY <1>1, <1>2, <2>1, <3>1, <4>1, <4>3 DEF Settled, Known
      <4> QED BY <4>2, <4>3
    <3>5. work[q].at = "handling" => rows'[work[q].id].print = work[q].print
      <4>1. work[q].at = "handling" => rows[work[q].id].print = work[q].print /\ work[q].id \in Known
        BY <3>1 DEF Holds, HasRow
      <4>2. ASSUME work[q].at = "handling", work[q].id = i
            PROVE  work[p].print = work[q].print
        <5>1. rows[i] # Nothing
          BY <4>1, <4>2 DEF Known
        <5>2. work[p].at # "updating"
          BY <2>2, <3>1, <4>2, <5>1 DEF Holds, HasRow
        <5> QED BY <3>1, <4>2, <5>1, <5>2 DEF Holds
      <4> QED BY <2>1, <4>1, <4>2 DEF Known
    <3>6. \A t \in Paths : work'[t].at = "renaming" => work'[t] = work[t]
      BY <1>1
    <3> QED BY <1>1, <3>1, <3>2, <3>3, <3>4, <3>5, <3>6 DEF Holds, HasRow
  <2>3. Holds(p)'
    BY <1>1, <1>2 DEF Holds, HasRow
  <2> QED BY <2>2, <2>3 DEF HoldersAgree
<1> QED BY <1>3, <1>4 DEF Store, dbVars

(* A step that changes the rows stores one or deletes one. *)
LEMMA StoringSteps ==
  ASSUME IInv, HoldersAgree, NEW p \in Paths, Creates(p) \/ Renames(p) \/ Updates(p)
  PROVE  \E i \in FileIds :
           /\ Store(i, p) /\ Done(p)
           /\ \/ work[p].at = "creating" /\ rows[i] = Nothing
              \/ work[p].at \in {"renaming", "updating"} /\ i = work[p].id /\ i \in Known
<1>1. CASE Creates(p)
  BY <1>1 DEF Creates, NextFree
<1>2. CASE Renames(p) \/ Updates(p)
  <2>1. work[p].at \in {"renaming", "updating"} /\ Store(work[p].id, p) /\ Done(p)
    BY <1>2 DEF Renames, Updates
  <2>2. work[p].id \in Known
    BY <2>1 DEF HoldersAgree, Holds, HasRow
  <2> QED BY <2>1, <2>2 DEF Known
<1> QED BY <1>1, <1>2

LEMMA HoldersAgreeKept ==
  ASSUME IInv, HoldersAgree, [CleanNext]_allVars
  PROVE  HoldersAgree'
<1>1. /\ \A i \in Known : rows[i].path \in Paths
      /\ work \in [Paths -> WorkerState]
  BY NothingAssumption DEF Known, IInv, CleanTypeOK, TypeOK, Row
<1>2. ASSUME job # "scan", UNCHANGED work PROVE HoldersAgree'
  BY <1>2, NobodyWorks, NobodyHolds
<1>3. ASSUME UNCHANGED rows,
             \A p \in Paths : Settled(p) => Settled(p)',
             \A p \in Paths : work'[p].at # "idle" => p \notin pending',
             \A p \in Paths :
               \/ work'[p] = work[p]
               \/ work'[p].at \in {"idle", "queued", "new", "matching", "creating"}
               \/ /\ work[p].at = "existing" /\ work'[p].at = "updating"
                  /\ work'[p].id = work[p].id
      PROVE  HoldersAgree'
  BY <1>1, <1>3, TakesNoRow
<1>4. ASSUME NEW p \in Paths, UNCHANGED rows, p \notin pending', pending' \subseteq pending,
             p \in pending \/ work[p].at # "idle",
             \A q \in Paths : q # p => work'[q] = work[q],
             \/ work'[p] = work[p]
             \/ work'[p].at \in {"idle", "queued", "new", "matching", "creating"}
             \/ /\ work[p].at = "existing" /\ work'[p].at = "updating"
                /\ work'[p].id = work[p].id
      PROVE  HoldersAgree'
  <2>1. \A q \in Paths : Settled(q) => Settled(q)'
    BY <1>4 DEF Settled
  <2>2. \A q \in Paths : work'[q].at # "idle" => q \notin pending'
    BY <1>4 DEF HoldersAgree, Holds
  <2> QED BY <1>3, <1>4, <2>1, <2>2
<1>5. ASSUME NEW p \in Paths, Visit(p) PROVE HoldersAgree'
  <2>1. \/ work'[p] = work[p]
        \/ work'[p].at = "queued"
    BY <1>1, <1>5 DEF Visit, WorkerState
  <2>2. \A q \in Paths : q # p => work'[q] = work[q]
    BY <1>1, <1>5 DEF Visit
  <2> QED BY <1>4, <1>5, <2>1, <2>2 DEF Visit, dbVars
<1>6. ASSUME NEW p \in Paths, Reads(p) PROVE HoldersAgree'
  <2>1. work[p].at # "idle" /\ pending' = pending /\ rows' = rows
    BY <1>6 DEF Reads, dbVars
  <2>2. /\ \A q \in Paths : q # p => work'[q] = work[q]
        /\ \/ work'[p].at \in {"idle", "matching"}
           \/ /\ work[p].at = "existing" /\ work'[p].at = "updating"
              /\ work'[p].id = work[p].id
    BY <1>1, <1>6 DEF Reads, Done, Idle, WorkerState
  <2>3. p \notin pending'
    BY <2>1 DEF HoldersAgree, Holds
  <2> QED BY <1>4, <2>1, <2>2, <2>3
<1>7. ASSUME NEW p \in Paths, Fails(p) \/ HandlesAgain(p) PROVE HoldersAgree'
  <2>1. /\ work[p].at # "idle" \/ work[p] # Idle
        /\ pending' = pending /\ rows' = rows /\ Done(p)
    BY <1>7 DEF Fails, HandlesAgain, dbVars
  <2>2. work'[p].at = "idle" /\ \A q \in Paths : q # p => work'[q] = work[q]
    BY <1>1, <2>1 DEF Done, Idle
  <2>3. \A q \in Paths : Settled(q) => Settled(q)'
    BY <2>1, <2>2 DEF Settled
  <2>4. \A q \in Paths : work'[q].at # "idle" => q \notin pending'
    BY <2>1, <2>2 DEF HoldersAgree, Holds
  <2> QED BY <1>3, <2>1, <2>2, <2>3, <2>4
<1>8. ASSUME NEW p \in Paths, Creates(p) \/ Renames(p) \/ Updates(p) PROVE HoldersAgree'
  <2>1. PICK i \in FileIds :
          /\ Store(i, p) /\ Done(p)
          /\ \/ work[p].at = "creating" /\ rows[i] = Nothing
             \/ work[p].at \in {"renaming", "updating"} /\ i = work[p].id /\ i \in Known
    BY <1>8, StoringSteps
  <2>2. pending' = pending
    BY <1>8 DEF Creates, Renames, Updates
  <2> QED BY <2>1, <2>2, StoreHolds
<1>9. ASSUME NEW p \in Paths, WorkerStep(p) PROVE HoldersAgree'
  BY <1>6, <1>7, <1>8, <1>9, LookUpHolds, MatchesHolds DEF WorkerStep
<1>10. CASE CancelScan
  <2>1. /\ rows' = rows /\ pending' = {}
        /\ \A p \in Paths : work'[p] = IF work[p].at = "queued" THEN Idle ELSE work[p]
    BY <1>10 DEF CancelScan, dbVars
  <2>2. \A p \in Paths : work'[p].at = "idle" \/ work'[p] = work[p]
    BY <2>1 DEF Idle
  <2>3. \A p \in Paths : Settled(p) => Settled(p)'
    BY <2>1, <2>2 DEF Settled
  <2> QED BY <1>3, <2>1, <2>2, <2>3
<1>11. CASE UNCHANGED <<rows, pending, work>>
  <2>1. /\ \A p \in Paths : Settled(p) => Settled(p)'
        /\ \A p \in Paths : work'[p].at # "idle" => p \notin pending'
    BY <1>11 DEF Settled, HoldersAgree, Holds
  <2> QED BY <1>3, <1>11, <2>1
<1>12. CASE Disturbance
  BY <1>7, <1>10, <1>11, <1>12
     DEF Disturbance, Put, Move, Unlink, Exclude, DestroyScene, dbVars
<1>13. CASE ScanNext
  <2>1. CASE BeginScan
    BY <1>2, <2>1 DEF BeginScan
  <2>2. CASE EndScan
    BY <1>11, <2>2 DEF EndScan, dbVars
  <2> QED BY <1>5, <1>9, <1>12, <1>13, <2>1, <2>2 DEF ScanNext, ScanStep
<1>14. CASE UNCHANGED allVars
  BY <1>11, <1>14 DEF allVars, vars, dbVars
<1>15. CASE BeginClean \/ CleanStep \/ (\E i \in FileIds : DeleteFails(i)) \/ CancelClean
  <2>1. job # "scan" /\ work' = work
    BY <1>15 DEF BeginClean, CleanStep, AssessFile, DeleteFile, EndAssess, EndClean,
                 DeleteFails, CancelClean, vars
  <2> QED BY <1>2, <2>1
<1> QED BY <1>13, <1>14, <1>15 DEF CleanNext

LEMMA InvariantOfHolders == Spec => [](IInv /\ HoldersAgree)
<1>1. CleanInit => IInv /\ HoldersAgree
  <2>1. CleanInit => HoldersAgree
    <3>1. CleanInit => \A p \in Paths : work[p].at = "idle"
      <4>1. CleanInit => \A p \in Paths : work[p] = Idle
        BY DEF CleanInit, Init
      <4>2. Idle.at = "idle"
        BY DEF Idle
      <4> QED BY <4>1, <4>2
    <3> QED BY <3>1 DEF HoldersAgree, Holds, HasRow
  <2> QED BY <2>1, InitKeeps
<1>2. IInv /\ HoldersAgree /\ [CleanNext]_allVars => IInv' /\ HoldersAgree'
  BY NextKeeps, HoldersAgreeKept
<1> QED BY <1>1, <1>2, PTL DEF Spec

(* A handler only makes a scene for a file when no scene has one like it. *)
LEMMA HandleCreates ==
  ASSUME NEW i \in FileIds, NEW c, Handle(i, c),
         scenes \in [SceneIds -> Scene \cup {Nothing}],
         NEW s \in SceneIds, scenes[s] = Nothing, scenes'[s] # Nothing
  PROVE  scenes'[s].primary = i /\ ScenesWith(c) = {}
<1>1. CASE UNCHANGED scenes
  BY <1>1
<1>2. CASE scenes' = [t \in SceneIds |->
                        IF t \in ScenesWith(c)
                        THEN [scenes[t] EXCEPT !.files = @ \cup {i}] ELSE scenes[t]]
  <2>1. s \notin ScenesWith(c)
    BY DEF ScenesWith, ScenesOf
  <2> QED BY <1>2, <2>1
<1>3. ASSUME ScenesWith(c) = {},
             NEW t \in SceneIds, scenes' = [scenes EXCEPT ![t] = [files |-> {i}, primary |-> i]]
      PROVE  scenes'[s].primary = i /\ ScenesWith(c) = {}
  BY <1>3
<1> QED BY <1>1, <1>2, <1>3 DEF Handle

(* Files with the same contents share a scene, in whatever order workers   *)
(* look them up, read and store them: what a worker makes a scene for is   *)
(* the row as it is by then.                                               *)
THEOREM CopiesShareAScene == Spec => NoSecondScene
<1>1. ASSUME IInv, HoldersAgree, [CleanNext]_allVars,
             NEW s \in SceneIds, scenes[s] = Nothing, scenes'[s] # Nothing
      PROVE  ScenesWith(rows'[scenes'[s].primary].print) = {}
  <2>1. scenes \in [SceneIds -> Scene \cup {Nothing}] /\ rows \in [FileIds -> Row \cup {Nothing}]
    BY <1>1 DEF IInv, CleanTypeOK, TypeOK
  <2>2. ASSUME NEW p \in Paths, NEW i \in FileIds, Store(i, p)
        PROVE  ScenesWith(rows'[scenes'[s].primary].print) = {}
    <3>1. /\ rows' = [rows EXCEPT ![i] =
                        [path |-> p, mod |-> work[p].seen, print |-> work[p].print]]
          /\ Handle(i, work[p].print)
      BY <1>1, <2>2 DEF Store, dbVars
    <3>2. rows'[i].print = work[p].print
      BY <2>1, <3>1
    <3>3. scenes'[s].primary = i /\ ScenesWith(work[p].print) = {}
      BY <1>1, <2>1, <3>1, HandleCreates
    <3> QED BY <3>2, <3>3
  <2>3. ASSUME NEW p \in Paths, HandlesAgain(p)
        PROVE  ScenesWith(rows'[scenes'[s].primary].print) = {}
    <3>1. /\ work[p].at = "handling" /\ rows' = rows
          /\ Handle(work[p].id, work[p].print)
      BY <2>3 DEF HandlesAgain
    <3>2. work[p].id \in FileIds /\ rows[work[p].id].print = work[p].print
      BY <1>1, <3>1 DEF HoldersAgree, Holds, HasRow, Known
    <3>3. scenes'[s].primary = work[p].id /\ ScenesWith(work[p].print) = {}
      BY <1>1, <2>1, <3>1, <3>2, HandleCreates
    <3> QED BY <3>1, <3>2, <3>3
  <2>4. ASSUME NEW i \in FileIds, DeleteFile(i) PROVE FALSE
    <3>1. s \notin ScenesOf(i)
      BY <1>1 DEF ScenesOf
    <3>2. scenes'[s] = scenes[s]
      BY <2>4, <3>1 DEF DeleteFile, LosesFile
    <3> QED BY <1>1, <3>2
  <2>5. ASSUME NEW t \in SceneIds, DestroyScene(t) PROVE FALSE
    <3>1. scenes' = [scenes EXCEPT ![t] = Nothing]
      BY <2>5 DEF DestroyScene
    <3>2. scenes'[s] \in {scenes[s], Nothing}
      BY <2>1, <3>1
    <3> QED BY <1>1, <3>2
  <2>6. scenes' # scenes
    BY <1>1
  <2>7. CASE ScanNext
    <3>1. ASSUME NEW p \in Paths, Creates(p) \/ Renames(p) \/ Updates(p)
          PROVE  ScenesWith(rows'[scenes'[s].primary].print) = {}
      BY <1>1, <2>2, <3>1, StoringSteps
    <3>2. CASE BeginScan \/ EndScan \/ Disturbance
      BY <2>5, <2>6, <3>2 DEF BeginScan, EndScan, Disturbance, Put, Move, Unlink, Exclude,
                              Fails, CancelScan, dbVars
    <3>3. ASSUME NEW p \in Paths, Visit(p) \/ LookUp(p) \/ Reads(p) \/ Matches(p) PROVE FALSE
      BY <2>6, <3>3 DEF Visit, LookUp, Reads, Matches, dbVars
    <3> QED BY <2>3, <2>7, <3>1, <3>2, <3>3 DEF ScanNext, ScanStep, WorkerStep
  <2> QED BY <1>1, <2>4, <2>6, <2>7
          DEF CleanNext, CleanStep, BeginClean, AssessFile, DeleteFails, EndAssess,
              EndClean, CancelClean, allVars, vars, dbVars
<1>2. IInv /\ HoldersAgree /\ [CleanNext]_allVars =>
        [\A s \in SceneIds :
           scenes[s] = Nothing /\ scenes'[s] # Nothing =>
             ScenesWith(rows'[scenes'[s].primary].print) = {}]_vars
  BY <1>1
<1> QED BY <1>2, InvariantOfHolders, PTL DEF Spec, NoSecondScene

-----------------------------------------------------------------------------
(* In a scan that nothing has disturbed the files that workers have come   *)
(* to are where they were, so that no row with their path is without a     *)
(* file: the missing rows only get fewer, and when a worker has found none *)
(* like its file there is none until it creates a row.                     *)
CalmAgrees ==
  calm =>
    /\ pending \subseteq library
    /\ \A p \in Paths : work[p].at # "idle" =>
         /\ p \in library /\ disk[p] # Nothing
         /\ work[p].at = "creating" => \A k \in Twins(work[p].print) : ~Missing(k)

(* A transaction that stores leaves no row without a file. *)
LEMMA StoreCalm ==
  ASSUME IInv, HoldersAgree, CalmAgrees, NEW p \in Paths, NEW i \in FileIds,
         Store(i, p), Done(p), UNCHANGED <<disk, library, pending>>, calm,
         work[p].at \in {"creating", "renaming", "updating"}
  PROVE  CalmAgrees'
<1> DEFINE r == [path |-> p, mod |-> work[p].seen, print |-> work[p].print]
<1>1. /\ work'[p].at = "idle" /\ \A q \in Paths : q # p => work'[q] = work[q]
      /\ rows \in [FileIds -> Row \cup {Nothing}]
      /\ r # Nothing
      /\ p \in library /\ disk[p] # Nothing
  BY NothingAssumption
     DEF Done, Idle, IInv, CleanTypeOK, TypeOK, Row, WorkersAgree, WorkerOf, CalmAgrees
<1>2. ASSUME NEW q \in Paths, q # p, work[q].at = "creating",
             NEW k \in Known', rows'[k].print = work[q].print
      PROVE  disk[rows'[k].path] # Nothing /\ rows'[k].path \in library
  <2>1. \A j \in Twins(work[q].print) : ~Missing(j)
    BY <1>2 DEF CalmAgrees
  <2>2. CASE rows'[k] = rows[k]
    BY <1>2, <2>1, <2>2 DEF Known, Twins, Missing
  <2>3. CASE k = i /\ rows' = [rows EXCEPT ![i] = r]
    <3>1. rows'[k].path = p
      BY <1>1, <2>3
    <3> QED BY <1>1, <3>1
  <2>4. rows' = rows \/ rows' = [rows EXCEPT ![i] = r]
    BY DEF Store, dbVars
  <2> QED BY <1>1, <1>2, <2>2, <2>3, <2>4 DEF Known
<1>3. ASSUME NEW q \in Paths, q # p, work[q].at = "creating"
      PROVE  (\A k \in Twins(work[q].print) : ~Missing(k))'
  BY <1>1, <1>2, <1>3 DEF Twins, Missing
<1> QED BY <1>1, <1>3 DEF CalmAgrees

(* Steps that leave the disk and the rows alone, and workers that do not   *)
(* come to the point of creating one.                                      *)
LEMMA OthersCalm ==
  ASSUME CalmAgrees, calm, UNCHANGED <<disk, library, rows>>, pending' \subseteq pending,
         \A p \in Paths :
           \/ work'[p] = work[p]
           \/ work'[p].at = "idle"
           \/ /\ work'[p].at # "creating" /\ disk[p] # Nothing
              /\ p \in pending \/ work[p].at # "idle"
  PROVE  CalmAgrees'
<1>1. ASSUME NEW p \in Paths, work'[p].at # "idle"
      PROVE  /\ p \in library /\ disk[p] # Nothing
             /\ work'[p].at = "creating" => work'[p] = work[p]
  BY <1>1 DEF CalmAgrees
<1>2. \A k \in FileIds : (Missing(k))' <=> Missing(k)
  BY DEF Missing
<1>3. ASSUME NEW p \in Paths, work'[p].at = "creating"
      PROVE  (\A k \in Twins(work[p].print) : ~Missing(k))'
  BY <1>1, <1>2, <1>3 DEF CalmAgrees, Twins, Known
<1> QED BY <1>1, <1>3 DEF CalmAgrees

LEMMA CalmAgreesKept ==
  ASSUME IInv, HoldersAgree, CalmAgrees, [CleanNext]_allVars
  PROVE  CalmAgrees'
<1> SUFFICES ASSUME calm' PROVE CalmAgrees'
  BY DEF CalmAgrees
<1>0. ~Disturb
  BY DEF Disturb
<1>1. work \in [Paths -> WorkerState]
  BY DEF IInv, CleanTypeOK, TypeOK
<1>2. ASSUME job # "scan", UNCHANGED <<work, library>>, pending' \subseteq library PROVE CalmAgrees'
  <2>1. \A p \in Paths : work'[p].at = "idle"
    BY <1>2, NobodyWorks
  <2> QED BY <1>2, <2>1 DEF CalmAgrees
<1>3. ASSUME NEW p \in Paths, Visit(p) PROVE CalmAgrees'
  <2>1. /\ p \in pending /\ pending' = pending \ {p} /\ calm
        /\ UNCHANGED <<disk, library, rows>>
    BY <1>3 DEF Visit, diskVars, dbVars
  <2>2. \A q \in Paths :
          \/ work'[q] = work[q]
          \/ q = p /\ work'[q].at = "queued" /\ disk[q] # Nothing
    BY <1>1, <1>3 DEF Visit, WorkerState
  <2> QED BY <2>1, <2>2, OthersCalm
<1>4. ASSUME NEW p \in Paths, LookUp(p) \/ Reads(p) \/ HandlesAgain(p) PROVE CalmAgrees'
  <2>1. /\ work[p].at # "idle" /\ pending' = pending /\ calm
        /\ UNCHANGED <<disk, library, rows>>
    BY <1>4 DEF LookUp, Reads, HandlesAgain, diskVars, dbVars
  <2>2. /\ \A q \in Paths : q # p => work'[q] = work[q]
        /\ work'[p].at \in {"idle", "new", "existing", "handling", "matching", "updating"}
    <3>1. CASE LookUp(p)
      <4>1. ASSUME NEW i \in RowsAt(p),
                   work' = [work EXCEPT ![p].at = "handling", ![p].id = i, ![p].print = rows[i].print]
            PROVE  work'[p].at = "handling" /\ \A q \in Paths : q # p => work'[q] = work[q]
        BY <1>1, <4>1 DEF WorkerState
      <4>2. ASSUME NEW i \in RowsAt(p), work' = [work EXCEPT ![p].at = "existing", ![p].id = i]
            PROVE  work'[p].at = "existing" /\ \A q \in Paths : q # p => work'[q] = work[q]
        BY <1>1, <4>2 DEF WorkerState
      <4>3. ASSUME Done(p) \/ work' = [work EXCEPT ![p].at = "new"]
            PROVE  work'[p].at \in {"idle", "new"} /\ \A q \in Paths : q # p => work'[q] = work[q]
        BY <1>1, <4>3 DEF Done, Idle, WorkerState
      <4> QED BY <3>1, <4>1, <4>2, <4>3 DEF LookUp
    <3>2. CASE Done(p)
      <4>1. Idle.at = "idle"
        BY DEF Idle
      <4> QED BY <1>1, <3>2, <4>1 DEF Done
    <3>3. CASE Reads(p) /\ ~Done(p)
      <4>1. work' = [work EXCEPT ![p].at = IF @ = "new" THEN "matching" ELSE "updating",
                                 ![p].print = disk[p]]
        BY <3>3 DEF Reads
      <4> QED BY <1>1, <4>1 DEF WorkerState
    <3> QED BY <1>4, <3>1, <3>2, <3>3 DEF HandlesAgain
  <2>3. disk[p] # Nothing
    BY <2>1 DEF CalmAgrees
  <2> QED BY <2>1, <2>2, <2>3, OthersCalm
<1>5. ASSUME NEW p \in Paths, Matches(p) PROVE CalmAgrees'
  <2>1. /\ work[p].at = "matching" /\ pending' = pending /\ calm
        /\ UNCHANGED <<disk, library, rows>>
    BY <1>5 DEF Matches, diskVars, dbVars
  <2>2. disk[p] # Nothing /\ p \in library
    BY <2>1 DEF CalmAgrees
  <2>3. \A q \in Paths : q # p => work'[q] = work[q]
    BY <1>1, <1>5 DEF Matches
  <2>4. CASE work'[p].at = "renaming"
    BY <2>1, <2>2, <2>3, <2>4, OthersCalm
  <2>5. CASE /\ {k \in Twins(work[p].print) : Missing(k)} = {}
             /\ work' = [work EXCEPT ![p].at = "creating"]
    <3>1. work'[p].at = "creating" /\ work'[p].print = work[p].print
      BY <1>1, <2>5 DEF WorkerState
    <3>2. \A k \in FileIds : (Missing(k))' <=> Missing(k)
      BY <2>1 DEF Missing
    <3>3. ASSUME NEW q \in Paths, work'[q].at = "creating"
          PROVE  (\A k \in Twins(work[q].print) : ~Missing(k))'
      <4>1. \A k \in Twins(work'[q].print) : ~Missing(k)
        BY <2>1, <2>3, <2>5, <3>1, <3>3 DEF CalmAgrees
      <4> QED BY <2>1, <3>2, <4>1 DEF Twins, Known
    <3>4. ASSUME NEW q \in Paths, work'[q].at # "idle"
          PROVE  q \in library /\ disk[q] # Nothing
      BY <2>1, <2>2, <2>3, <3>4 DEF CalmAgrees
    <3> QED BY <2>1, <3>3, <3>4 DEF CalmAgrees
  <2>6. \A i \in FileIds :
          work' = [work EXCEPT ![p].at = "renaming", ![p].id = i] => work'[p].at = "renaming"
    BY <1>1 DEF WorkerState
  <2> QED BY <1>5, <2>4, <2>5, <2>6 DEF Matches, Twins, Known
<1>6. ASSUME NEW p \in Paths, Creates(p) \/ Renames(p) \/ Updates(p) PROVE CalmAgrees'
  <2>1. PICK i \in FileIds :
          /\ Store(i, p) /\ Done(p)
          /\ \/ work[p].at = "creating" /\ rows[i] = Nothing
             \/ work[p].at \in {"renaming", "updating"} /\ i = work[p].id /\ i \in Known
    BY <1>6, StoringSteps
  <2>2. UNCHANGED <<disk, library, pending, calm>>
    BY <1>6 DEF Creates, Renames, Updates, diskVars
  <2> QED BY <2>1, <2>2, StoreCalm
<1>7. ASSUME UNCHANGED <<disk, library, rows, pending, work, calm>> PROVE CalmAgrees'
  BY <1>7, OthersCalm
<1>8. CASE ScanNext
  <2>1. CASE BeginScan
    <3>1. job # "scan" /\ UNCHANGED <<work, library>> /\ pending' \subseteq library
      BY <2>1 DEF BeginScan, diskVars
    <3> QED BY <1>2, <3>1
  <2>2. CASE EndScan
    BY <1>7, <2>2 DEF EndScan, diskVars, dbVars
  <2>3. ~Disturbance
    BY <1>0 DEF Disturbance, Put, Move, Unlink, Exclude, Fails, DestroyScene, CancelScan
  <2> QED BY <1>3, <1>4, <1>5, <1>6, <1>8, <2>1, <2>2, <2>3 DEF ScanNext, ScanStep, WorkerStep
<1>9. CASE UNCHANGED allVars
  BY <1>7, <1>9 DEF allVars, vars, diskVars, dbVars
<1>10. CASE BeginClean \/ CleanStep
  <2>1. job # "scan" /\ UNCHANGED <<work, library, pending>>
    BY <1>10 DEF BeginClean, CleanStep, AssessFile, DeleteFile, EndAssess, EndClean, vars, diskVars
  <2>2. pending' \subseteq library
    BY <2>1, NobodyWorks
  <2> QED BY <1>2, <2>1, <2>2
<1> QED BY <1>0, <1>8, <1>9, <1>10 DEF CleanNext, DeleteFails, CancelClean

LEMMA InvariantOfCalm == Spec => [](IInv /\ HoldersAgree /\ CalmAgrees)
<1>1. CleanInit => CalmAgrees
  BY DEF CleanInit, Init, CalmAgrees
<1>2. IInv /\ HoldersAgree /\ CalmAgrees /\ [CleanNext]_allVars => CalmAgrees'
  BY CalmAgreesKept
<1> QED BY <1>1, <1>2, InvariantOfHolders, PTL DEF Spec

(* In a scan that nothing disturbs, a file that has been moved is not      *)
(* taken for a new one, although the worker that makes a row looked at     *)
(* the file earlier and others have stored theirs since: it makes none     *)
(* while a row with the same fingerprint is without a file (<1>1).         *)
THEOREM MovedFilesKeepTheirRows == Spec => MovedIsNotNew
<1>1. ASSUME IInv, HoldersAgree, CalmAgrees, [CleanNext]_allVars, calm, calm',
             NEW i \in FileIds, rows[i] = Nothing, rows'[i] # Nothing,
             NEW k \in Twins(rows'[i].print)
      PROVE  ~Missing(k)
  <2>0. ~Disturb
    BY <1>1 DEF Disturb
  <2>1. rows \in [FileIds -> Row \cup {Nothing}]
    BY <1>1 DEF IInv, CleanTypeOK, TypeOK
  <2>2. rows' # rows
    BY <1>1
  <2>3. ASSUME NEW j \in FileIds, DeleteFile(j) PROVE FALSE
    BY <1>1, <2>1, <2>3 DEF DeleteFile
  <2>4. ASSUME NEW p \in Paths, Creates(p) \/ Renames(p) \/ Updates(p) PROVE ~Missing(k)
    <3>1. PICK j \in FileIds :
            /\ Store(j, p)
            /\ \/ work[p].at = "creating" /\ rows[j] = Nothing
               \/ work[p].at \in {"renaming", "updating"} /\ j \in Known
      BY <1>1, <2>4, StoringSteps
    <3>2. rows' = [rows EXCEPT ![j] =
                    [path |-> p, mod |-> work[p].seen, print |-> work[p].print]]
      BY <2>2, <3>1 DEF Store, dbVars
    <3>3. j = i
      BY <1>1, <2>1, <3>2
    <3>4. work[p].at = "creating"
      BY <1>1, <3>1, <3>3 DEF Known
    <3>5. rows'[i].print = work[p].print
      BY <2>1, <3>2, <3>3
    <3> QED BY <1>1, <3>4, <3>5 DEF CalmAgrees
  <2>5. CASE ScanNext
    <3>1. CASE BeginScan \/ EndScan
      BY <2>2, <3>1 DEF BeginScan, EndScan, dbVars
    <3>2. ~Disturbance
      BY <2>0 DEF Disturbance, Put, Move, Unlink, Exclude, Fails, DestroyScene, CancelScan
    <3>3. ASSUME NEW p \in Paths,
                 Visit(p) \/ LookUp(p) \/ Reads(p) \/ Matches(p) \/ HandlesAgain(p)
          PROVE  FALSE
      BY <2>2, <3>3 DEF Visit, LookUp, Reads, Matches, HandlesAgain, dbVars
    <3> QED BY <2>4, <2>5, <3>1, <3>2, <3>3 DEF ScanNext, ScanStep, WorkerStep
  <2> QED BY <1>1, <2>0, <2>2, <2>3, <2>5
          DEF CleanNext, CleanStep, BeginClean, AssessFile, DeleteFails, EndAssess,
              EndClean, CancelClean, allVars, vars, dbVars
<1>2. IInv /\ HoldersAgree /\ CalmAgrees /\ [CleanNext]_allVars =>
        [calm /\ calm' =>
           \A i \in FileIds :
             rows[i] = Nothing /\ rows'[i] # Nothing =>
               \A k \in Twins(rows'[i].print) :
                 Missing(k) => \E l \in Twins(rows'[i].print) \ {k} : Missing(l)]_vars
  BY <1>1
<1> QED BY <1>2, InvariantOfCalm, PTL DEF Spec, MovedIsNotNew
=============================================================================
