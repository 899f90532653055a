----------------------------- MODULE SafeDelete -----------------------------
(***************************************************************************)
(* The deletion of objects together with their files: the Deleter of       *)
(* pkg/file, which renames a file to mark it inside the transaction that   *)
(* destroys its row, and removes or restores it once the transaction is    *)
(* over.  The transaction and the connection are those of Txn.             *)
(*                                                                         *)
(* Each caller destroys the items of its Work in one transaction, as the   *)
(* destroy resolvers of internal/api and the clean job do.  An item is a   *)
(* row with one file: "source" files go to the trash if there is one,      *)
(* "generated" files never do.                                             *)
(***************************************************************************)
EXTENDS Txn, SequencesExt

CONSTANTS
  Items,     \* the rows, each with its file
  Generated, \* the items whose file is a generated one
  Work,      \* the items each caller destroys, in order
  Deleters,  \* the Deleter objects
  DeleterOf, \* the one each caller uses; FilesystemStore has one for all
  Crashes,   \* whether the process may die
  TrashPath  \* whether the TrashPath of a Deleter is set

ASSUME GeneratedAssumption == Generated \subseteq Items
ASSUME WorkAssumption == Work \in [Procs -> Seq(Items)]
ASSUME DeleterOfAssumption == DeleterOf \in [Procs -> Deleters]
ASSUME CrashesAssumption == Crashes \in BOOLEAN
ASSUME TrashPathAssumption == TrashPath \in [Deleters -> BOOLEAN]

VARIABLES
  rows,    \* the rows in the database
  doomed,  \* the rows destroyed in the open transaction of each caller
  todo,    \* what is left of the caller's Work
  at,      \* where the file of an item is
  files,   \* Deleter.files (and dirs) of each Deleter
  trashed, \* the keys of Deleter.trashedPaths
  finish,  \* what the caller makes its Deleter do after the transaction
  list     \* the files the loop of that has yet to visit

fileVars == <<at, files, trashed>>
endVars == <<finish, list>>
delVars == <<rows, doomed, todo, fileVars, endVars>>
vars == <<txnVars, delVars>>

DelTypeOK ==
  /\ rows \subseteq Items
  /\ doomed \in [Procs -> SUBSET Items]
  /\ todo \in [Procs -> Seq(Items)]
  /\ at \in [Items -> {"place", "marked", "trash", "gone"}]
  /\ files \in [Deleters -> SUBSET Items]
  /\ trashed \in [Deleters -> SUBSET Items]
  /\ finish \in [Procs -> {"no", "removing", "restoring", "done"}]
  /\ list \in [Procs -> SUBSET Items]

DelInit ==
  /\ Init
  /\ rows = Items
  /\ doomed = [p \in Procs |-> {}]
  /\ todo = Work
  /\ at = [i \in Items |-> "place"]
  /\ files = [d \in Deleters |-> {}]
  /\ trashed = [d \in Deleters |-> {}]
  /\ finish = [p \in Procs |-> "no"]
  /\ list = [p \in Procs |-> {}]

-----------------------------------------------------------------------------
(* The body of the transaction *)

(* renameForDelete: into the trash, or in place with the suffix .delete. *)
Trashes(p, i) == TrashPath[DeleterOf[p]] /\ i \notin Generated

MarkUnrecorded(p, i) == \* mutant: a marked file is not added to Deleter.files
  /\ at' = [at EXCEPT ![i] = IF @ = "place"
                             THEN IF Trashes(p, i) THEN "trash" ELSE "marked" ELSE @]
  /\ UNCHANGED <<files, trashed>>

MarkUntracked(p, i) == \* mutant: the trash path is not kept
  IF at[i] = "place"
  THEN /\ at' = [at EXCEPT ![i] = IF Trashes(p, i) THEN "trash" ELSE "marked"]
       /\ files' = [files EXCEPT ![DeleterOf[p]] = @ \cup {i}]
       /\ UNCHANGED trashed
  ELSE UNCHANGED <<at, files, trashed>>

(* filesInternal for one path: a file that is not there is passed over. *)
Mark(p, i) ==
  IF at[i] = "place"
  THEN /\ at' = [at EXCEPT ![i] = IF Trashes(p, i) THEN "trash" ELSE "marked"]
       /\ files' = [files EXCEPT ![DeleterOf[p]] = @ \cup {i}]
       /\ trashed' = IF Trashes(p, i) THEN [trashed EXCEPT ![DeleterOf[p]] = @ \cup {i}]
                     ELSE trashed
  ELSE UNCHANGED <<at, files, trashed>>

(* The next item: its row is found and destroyed, its file is marked.  The *)
(* query fails when the context has ended the transaction.                 *)
DestroyItem(p) ==
  /\ pc[p] = "body"
  /\ tx[p] = "open" /\ p \notin ctxDone
  /\ todo[p] # <<>>
  /\ LET i == Head(todo[p])
     IN  /\ i \in rows \ doomed[p]
         /\ doomed' = [doomed EXCEPT ![p] = @ \cup {i}]
         /\ Mark(p, i)
  /\ todo' = [todo EXCEPT ![p] = Tail(@)]
  /\ UNCHANGED <<txnVars, rows, endVars>>

(* The function succeeds when every item is done.  It may fail anywhere:   *)
(* an item is not found, a query fails, a file cannot be renamed.          *)
BodyEnds(p) ==
  /\ \/ todo[p] = <<>> /\ FnReturns(p, "ok")
     \/ FnReturns(p, "err")
     \/ FnPanics(p)
  /\ UNCHANGED delVars

-----------------------------------------------------------------------------
(* The end of the transaction *)

CommitRows(p) ==
  /\ Commit(p)
  /\ rows' = IF tx'[p] = "committed" THEN rows \ doomed[p] ELSE rows
  /\ UNCHANGED <<doomed, todo, fileVars, endVars>>

(* A resolver calls Rollback when withTxn returns an error and Commit      *)
(* otherwise; the clean job has both registered as hooks, which run just   *)
(* before.  After a panic no one restores the files.                       *)
FinishWith(p, how) ==
  /\ finish' = [finish EXCEPT ![p] = how]
  /\ list' = [list EXCEPT ![p] = files[DeleterOf[p]]]
  /\ UNCHANGED <<rows, doomed, todo, fileVars>>

EndsWell(p) == PostCommitHooks(p) /\ FinishWith(p, "removing")

EndsBadlyRemoving(p) == \* mutant: the error of withTxn is not looked at
  /\ PostRollbackHooks(p) \/ BeginFails(p)
  /\ FinishWith(p, "removing")

EndsBadly(p) ==
  /\ PostRollbackHooks(p) \/ BeginFails(p)
  /\ FinishWith(p, "restoring")

EndsInPanic(p) ==
  /\ Panic(p)
  /\ finish' = [finish EXCEPT ![p] = "done"]
  /\ UNCHANGED <<rows, doomed, todo, fileVars, list>>

-----------------------------------------------------------------------------
(* Deleter.Commit and Deleter.Rollback, one file at a time *)

RemoveEarly(p) == \* mutant: the files go before the transaction is over
  /\ finish[p] = "no"
  /\ pc[p] = "committing"
  /\ at' = [i \in Items |-> IF i \in files[DeleterOf[p]] /\ at[i] = "marked"
                            THEN "gone" ELSE at[i]]
  /\ UNCHANGED <<txnVars, rows, doomed, todo, files, trashed, endVars>>

(* Commit removes the .delete files; with a trash it removes nothing. *)
RemoveOne(p) ==
  /\ finish[p] = "removing"
  /\ \E i \in list[p] :
       /\ at' = [at EXCEPT ![i] = IF ~TrashPath[DeleterOf[p]] /\ @ = "marked"
                              THEN "gone" ELSE @]
       /\ list' = [list EXCEPT ![p] = @ \ {i}]
  /\ UNCHANGED <<txnVars, rows, doomed, todo, files, trashed, finish>>

(* Rollback takes a file back from where Mark put it.  With a trash only   *)
(* what has a trash path is taken back.                                    *)
RestoreOne(p) ==
  /\ finish[p] = "restoring"
  /\ \E i \in list[p] :
       /\ at' = [at EXCEPT ![i] =
                   CASE TrashPath[DeleterOf[p]] /\ i \in trashed[DeleterOf[p]] /\ @ = "trash"
                          -> "place"
                     [] ~TrashPath[DeleterOf[p]] /\ @ = "marked" -> "place"
                     [] OTHER -> @]
       /\ list' = [list EXCEPT ![p] = @ \ {i}]
  /\ UNCHANGED <<txnVars, rows, doomed, todo, files, trashed, finish>>

(* The lists of the Deleter are cleared and the call is over. *)
Clear(p) ==
  /\ finish[p] \in {"removing", "restoring"}
  /\ list[p] = {}
  /\ finish' = [finish EXCEPT ![p] = "done"]
  /\ files' = [files EXCEPT ![DeleterOf[p]] = {}]
  /\ trashed' = [trashed EXCEPT ![DeleterOf[p]] = {}]
  /\ UNCHANGED <<txnVars, rows, doomed, todo, at, list>>

(* The process dies: SQLite undoes an open transaction when the database   *)
(* is opened again, and no one knows of the files that were marked.        *)
Crash ==
  /\ Crashes
  /\ LET alive == {p \in Procs : pc[p] # "idle" /\ finish[p] # "done"}
     IN  /\ alive # {}
         /\ pc' = [p \in Procs |-> IF p \in alive THEN "panicked" ELSE pc[p]]
         /\ tx' = [p \in Procs |-> IF tx[p] = "open" THEN "rolledback" ELSE tx[p]]
         /\ result' = [p \in Procs |-> IF p \in alive THEN "err" ELSE result[p]]
         /\ finish' = [p \in Procs |-> IF p \in alive THEN "done" ELSE finish[p]]
  /\ files' = [d \in Deleters |-> {}]
  /\ trashed' = [d \in Deleters |-> {}]
  /\ list' = [p \in Procs |-> {}]
  /\ UNCHANGED <<ctxDone, hooks, rows, doomed, todo, at>>

-----------------------------------------------------------------------------

TxnStep(p) ==
  /\ Call(p) \/ Begin(p) \/ Rollback(p) \/ Cancel(p) \/ ContextRollsBack(p)
  /\ UNCHANGED delVars

DelStep(p) ==
  \/ DestroyItem(p) \/ BodyEnds(p) \/ CommitRows(p)
  \/ EndsWell(p) \/ EndsBadly(p) \/ EndsInPanic(p)
  \/ RemoveOne(p) \/ RestoreOne(p) \/ Clear(p)

DelNext == Crash \/ \E p \in Procs : TxnStep(p) \/ DelStep(p)

DelSpec == DelInit /\ [][DelNext]_vars

(* As in Txn: a call that has begun runs on, and the pool is fair.         *)
DelFairness ==
  \A p \in Procs :
    /\ WF_vars(pc[p] # "waiting" /\ DelStep(p))
    /\ WF_vars(p \in ctxDone /\ EndsBadly(p))
    /\ WF_vars((Rollback(p) \/ ContextRollsBack(p)) /\ UNCHANGED delVars)
    /\ SF_vars(Begin(p) /\ UNCHANGED delVars)

FairDelSpec == DelSpec /\ DelFairness

-----------------------------------------------------------------------------
(* Properties *)

Quiet == \A p \in Procs : pc[p] = "idle" \/ finish[p] = "done"

NoPanic == \A p \in Procs : pc[p] # "panicked"

(* No file is lost for an object that is still there: a file is removed    *)
(* only when the row it belongs to has been destroyed for good.            *)
GoneOnlyWithRow == \A i \in Items : at[i] = "gone" => i \notin rows

(* Where no commit can fail and no two callers share a Deleter, a Deleter  *)
(* removes files only after its transaction is committed, and the files it *)
(* knows are those of rows its own transaction destroyed: the inductive    *)
(* invariant behind GoneOnlyWithRow.                                       *)
DelInv ==
  /\ TypeOK
  /\ DelTypeOK
  /\ ctxDone = {}
  /\ \A p \in Procs :
       /\ pc[p] \in {"body", "committing"} => tx[p] = "open"
       /\ pc[p] = "postCommit" => tx[p] = "committed"
       /\ finish[p] # "no" => pc[p] \in Returned
       /\ finish[p] = "removing" => tx[p] = "committed"
       /\ tx[p] = "committed" => doomed[p] \cap rows = {}
       /\ files[DeleterOf[p]] \subseteq doomed[p]
       /\ list[p] \subseteq doomed[p]
  /\ \A i \in Items : at[i] = "gone" => i \notin rows

(* A generated file that a Deleter with a TrashPath marks: Commit does not *)
(* remove it and Rollback does not take it back, so it stays marked.       *)
Stranded(p, i) == TrashPath[DeleterOf[p]] /\ i \in Generated /\ i \in doomed[p]

(* The caller was told nil, and its work is not in the database.           *)
CommitLost(p) == result[p] = "ok" /\ tx[p] # "committed"

(* Once every call is over and none has panicked, a file is in its place   *)
(* if its row is there and not otherwise, whichever callers share objects  *)
(* and whatever fails, but in three cases: a row whose file is away was to *)
(* go in a commit that was lost, or its file is stranded; and a file whose *)
(* row is gone was put back by a second caller that had found it too.      *)
FilesFollowRows ==
  Quiet /\ NoPanic =>
    \A i \in Items :
      /\ i \in rows /\ at[i] # "place" =>
           \E p \in Procs :
             \/ i \in doomed[p] /\ CommitLost(p)
             \/ at[i] = "marked" /\ Stranded(p, i)
      /\ i \notin rows /\ at[i] = "place" =>
           \E p \in Procs : i \in doomed[p] /\ result[p] = "err"

(* A file marked for deletion does not stay so: it is removed or restored, *)
(* unless a call panics, the process dies or the file is stranded.         *)
MarksResolve ==
  \A i \in Items :
    at[i] = "marked" ~> \/ at[i] # "marked"
                       \/ ~NoPanic
                       \/ \E p \in Procs : Stranded(p, i)

(* A caller that is told of an error has lost nothing: when all is over    *)
(* every file is in its place, but those of callers that were told nil and *)
(* those that are stranded, which are still there under another name.      *)
NothingLostOnError ==
  Quiet /\ NoPanic =>
    \A i \in Items :
      \/ at[i] = "place"
      \/ \E p \in Procs : i \in Range(Work[p]) /\ result[p] = "ok"
      \/ at[i] = "marked" /\ \E p \in Procs : Stranded(p, i)
=============================================================================
