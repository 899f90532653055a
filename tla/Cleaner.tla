------------------------------ MODULE Cleaner ------------------------------
(***************************************************************************)
(* The clean job (pkg/file/clean.go) on the tables and the disk of         *)
(* Scanner: it first decides which rows have lost their file and then      *)
(* deletes them, each in a transaction of its own, together with the       *)
(* scenes that are left without a file.  Jobs run one at a time, so a scan *)
(* and a clean job do not overlap.                                         *)
(***************************************************************************)
EXTENDS Scanner

VARIABLES
  toAssess, \* the rows that are yet to be looked at
  toDelete  \* deleteSet

cleanVars == <<toAssess, toDelete>>
allVars == <<vars, cleanVars>>

CleanTypeOK ==
  /\ TypeOK
  /\ toAssess \subseteq FileIds
  /\ toDelete \subseteq FileIds

CleanInit ==
  /\ Init
  /\ toAssess = {}
  /\ toDelete = {}

(* The read transaction of assessFiles fixes the rows. *)
BeginClean ==
  /\ job = "none"
  /\ job' = "assess"
  /\ toAssess' = Known
  /\ toDelete' = {}
  /\ calm' = TRUE
  /\ UNCHANGED <<diskVars, dbVars, pending, work, changes>>

AssessFileOnDisk(i) == \* mutant: the filter of the library is not asked
  /\ job = "assess"
  /\ i \in toAssess
  /\ toAssess' = toAssess \ {i}
  /\ toDelete' = IF disk[rows[i].path] = Nothing THEN toDelete \cup {i} ELSE toDelete
  /\ UNCHANGED vars

(* shouldClean *)
AssessFile(i) ==
  /\ job = "assess"
  /\ i \in toAssess
  /\ toAssess' = toAssess \ {i}
  /\ toDelete' = IF Missing(i) THEN toDelete \cup {i} ELSE toDelete
  /\ UNCHANGED vars

EndAssess ==
  /\ job = "assess"
  /\ toAssess = {}
  /\ job' = "delete"
  /\ UNCHANGED <<diskVars, dbVars, pending, work, changes, calm, cleanVars>>

LosesFileButPrimary(i) == \* mutant: the primary file of a scene is not replaced
  scenes' = [s \in SceneIds |->
               IF s \notin ScenesOf(i) THEN scenes[s]
               ELSE IF scenes[s].files = {i} THEN Nothing
               ELSE [scenes[s] EXCEPT !.files = @ \ {i}]]

LosesFileAndScene(i) == \* mutant: scenes with two files are destroyed too
  scenes' = [s \in SceneIds |-> IF s \in ScenesOf(i) THEN Nothing ELSE scenes[s]]

(* handleRelatedScenes: a scene goes with its last file; otherwise another *)
(* file becomes its primary one.                                           *)
LosesFile(i) ==
  \E other \in [ScenesOf(i) -> FileIds] :
    /\ \A s \in ScenesOf(i) :
         scenes[s].files # {i} => other[s] \in scenes[s].files \ {i}
    /\ \A s \in ScenesOf(i) : scenes[s].files = {i} => other[s] = i
    /\ scenes' = [s \in SceneIds |->
                    IF s \notin ScenesOf(i) THEN scenes[s]
                    ELSE IF scenes[s].files = {i} THEN Nothing
                    ELSE [files |-> scenes[s].files \ {i}, primary |-> other[s]]]

DeleteFile(i) ==
  /\ job = "delete"
  /\ i \in toDelete
  /\ toDelete' = toDelete \ {i}
  /\ LosesFile(i)
  /\ rows' = [rows EXCEPT ![i] = Nothing]
  /\ UNCHANGED <<diskVars, job, pending, work, changes, calm, toAssess>>

(* A transaction that fails is logged, and the loop goes on. *)
DeleteFails(i) ==
  /\ Disturb
  /\ job = "delete"
  /\ i \in toDelete
  /\ toDelete' = toDelete \ {i}
  /\ UNCHANGED <<diskVars, dbVars, job, pending, work, toAssess>>

EndClean ==
  /\ job = "delete"
  /\ toDelete = {}
  /\ job' = "none"
  /\ UNCHANGED <<diskVars, dbVars, pending, work, changes, calm, cleanVars>>

(* Both loops look at the context. *)
CancelClean ==
  /\ Disturb
  /\ job \in {"assess", "delete"}
  /\ job' = "none"
  /\ toAssess' = {}
  /\ toDelete' = {}
  /\ UNCHANGED <<diskVars, dbVars, pending, work>>

CleanStep ==
  \/ \E i \in FileIds : AssessFile(i) \/ DeleteFile(i)
  \/ EndAssess \/ EndClean

CleanNext ==
  \/ ScanNext /\ UNCHANGED cleanVars
  \/ BeginClean
  \/ CleanStep
  \/ \E i \in FileIds : DeleteFails(i)
  \/ CancelClean

Spec == CleanInit /\ [][CleanNext]_allVars

(* The jobs run on, and users start a scan again and again. *)
Fairness ==
  /\ \A p \in Paths :
       /\ WF_allVars(Visit(p) /\ UNCHANGED cleanVars)
       /\ WF_allVars(WorkerStep(p) /\ UNCHANGED cleanVars)
  /\ WF_allVars(EndScan /\ UNCHANGED cleanVars)
  /\ WF_allVars(CleanStep)
  /\ SF_allVars(BeginScan /\ UNCHANGED cleanVars)

FairSpec == Spec /\ Fairness

-----------------------------------------------------------------------------
(* Properties *)

(* A clean job that nothing disturbs deletes the rows without a file, all  *)
(* of them and no other.                                                   *)
CleanIsExact ==
  [][calm /\ calm' =>
       /\ \A i \in Known : rows'[i] = Nothing => Missing(i)
       /\ job = "delete" /\ job' = "none" => \A i \in Known : ~Missing(i)]_allVars

(* What users know of a video outlives its files one by one: a scene only  *)
(* goes when its last file does, unless a user destroys it.                *)
SceneLeavesWithLastFile ==
  [][\A s \in SceneIds :
       scenes[s] # Nothing /\ scenes'[s] = Nothing =>
         rows' = rows \/ \A i \in scenes[s].files : rows'[i] = Nothing]_allVars
=============================================================================
