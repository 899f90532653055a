-------------------------- MODULE SafeDeleteProofs --------------------------
(***************************************************************************)
(* What the deletion of objects with their files guarantees, for any       *)
(* number of callers and objects, where every caller has a Deleter of its  *)
(* own, as each resolver and the clean job have (FilesystemStore of        *)
(* pkg/sqlite/blob is the one that all callers share).  With any failure,  *)
(* shared objects and any trash: an error loses no file, and when all      *)
(* calls are over files and rows differ only as FilesFollowRows says.      *)
(* Where moreover no commit fails, no file is lost for an object that is   *)
(* still there, whoever panics or crashes; the run delete_commit_lost      *)
(* shows what a failed commit does.                                        *)
(***************************************************************************)
EXTENDS SafeDelete, TLAPS

(* What the results below assume of the constants. *)
NoFailedCommits == Faults \subseteq {"panic"}
OwnDeleters == \A p, q \in Procs : DeleterOf[p] = DeleterOf[q] => p = q
Careful == NoFailedCommits /\ OwnDeleters

LEMMA DelInitially == DelInit => DelInv
  BY WorkAssumption, DeleterOfAssumption
  DEF DelInit, Init, DelInv, TypeOK, DelTypeOK, Returned

(* The steps that leave the rows, the files and the Deleters alone.        *)
LEMMA TxnStepKeeps ==
  ASSUME Careful, DelInv, NEW p \in Procs, TxnStep(p) PROVE DelInv'
<1> USE DEF DelInv, TypeOK, DelTypeOK, Returned, delVars, fileVars, endVars
<1>1. CASE Call(p)
  BY <1>1 DEF TxnStep, Call
<1>2. CASE Begin(p)
  BY <1>2 DEF TxnStep, Begin
<1>3. CASE Rollback(p)
  BY <1>3 DEF TxnStep, Rollback, EndTx
<1>4. CASE Cancel(p) \/ ContextRollsBack(p)
  BY <1>4 DEF TxnStep, Cancel, ContextRollsBack, Careful, NoFailedCommits
<1> QED
  BY <1>1, <1>2, <1>3, <1>4 DEF TxnStep

(* What marking a file does to the lists and to the files.                 *)
LEMMA MarkEffect ==
  ASSUME DelTypeOK, NEW p \in Procs, NEW i \in Items, Mark(p, i)
  PROVE  /\ \/ files' = files
            \/ files' = [files EXCEPT ![DeleterOf[p]] = files[DeleterOf[p]] \cup {i}]
         /\ trashed' \in [Deleters -> SUBSET Items]
         /\ at' \in [Items -> {"place", "marked", "trash", "gone"}]
         /\ \A k \in Items : at'[k] = "gone" => at[k] = "gone"
<1> DEFINE d == DeleterOf[p]
<1>1. d \in Deleters
  BY DeleterOfAssumption
<1>2. CASE at[i] = "place"
  <2>1. at' = [at EXCEPT ![i] = IF Trashes(p, i) THEN "trash" ELSE "marked"]
    BY <1>2 DEF Mark
  <2>2. files' = [files EXCEPT ![d] = files[d] \cup {i}]
    BY <1>2 DEF Mark
  <2>3. trashed' = IF Trashes(p, i) THEN [trashed EXCEPT ![d] = trashed[d] \cup {i}]
                   ELSE trashed
    BY <1>2 DEF Mark
  <2> HIDE DEF d
  <2>4. trashed' \in [Deleters -> SUBSET Items]
    BY <1>1, <2>3 DEF DelTypeOK
  <2>5. /\ at' \in [Items -> {"place", "marked", "trash", "gone"}]
        /\ \A k \in Items : at'[k] = "gone" => at[k] = "gone"
    BY <2>1 DEF DelTypeOK
  <2> QED
    BY <2>2, <2>4, <2>5 DEF d
<1>3. CASE at[i] # "place"
  BY <1>3 DEF Mark, DelTypeOK
<1> QED
  BY <1>2, <1>3

(* Destroying an item adds the same item to what is doomed and to what is  *)
(* marked, and to no other caller's.                                       *)
LEMMA DestroyItemKeeps ==
  ASSUME Careful, DelInv, NEW p \in Procs, DestroyItem(p) PROVE DelInv'
<1> DEFINE i == Head(todo[p])
           d == DeleterOf[p]
<1>1. i \in Items /\ d \in Deleters
  BY DeleterOfAssumption DEF DestroyItem, DelInv, DelTypeOK
<1>2. todo' \in [Procs -> Seq(Items)]
  BY DEF DestroyItem, DelInv, DelTypeOK
<1>3. Mark(p, i)
  BY DEF DestroyItem
<1>4. doomed' = [doomed EXCEPT ![p] = doomed[p] \cup {i}] /\ tx[p] = "open"
  BY DEF DestroyItem
<1>5. UNCHANGED <<pc, tx, ctxDone, result, hooks, rows, finish, list>>
  BY DEF DestroyItem, txnVars, endVars
<1> HIDE DEF i, d
<1>6. /\ files' = files \/ files' = [files EXCEPT ![d] = files[d] \cup {i}]
      /\ trashed' \in [Deleters -> SUBSET Items]
      /\ at' \in [Items -> {"place", "marked", "trash", "gone"}]
      /\ \A k \in Items : at'[k] = "gone" => at[k] = "gone"
  BY <1>1, <1>3, MarkEffect DEF DelInv, d
<1>7. files' \in [Deleters -> SUBSET Items] /\ doomed' \in [Procs -> SUBSET Items]
  <2>1. files \in [Deleters -> SUBSET Items] /\ doomed \in [Procs -> SUBSET Items]
    BY DEF DelInv, DelTypeOK
  <2>2. files[d] \cup {i} \in SUBSET Items /\ doomed[p] \cup {i} \in SUBSET Items
    BY <1>1, <2>1
  <2>3. files' \in [Deleters -> SUBSET Items]
    BY <1>6, <2>1, <2>2
  <2>4. doomed' \in [Procs -> SUBSET Items]
    BY <1>4, <2>1, <2>2
  <2> QED
    BY <2>3, <2>4
<1>8. ASSUME NEW q \in Procs PROVE files'[DeleterOf[q]] \subseteq doomed'[q]
  <2>1. DeleterOf[q] \in Deleters /\ files[DeleterOf[q]] \subseteq doomed[q]
    BY DeleterOfAssumption DEF DelInv
  <2>2. CASE q = p
    BY <1>1, <1>4, <1>6, <2>1, <2>2 DEF DelInv, DelTypeOK, d
  <2>3. CASE q # p
    <3>1. DeleterOf[q] # d
      BY <2>3 DEF Careful, OwnDeleters, d
    <3> QED
      BY <1>1, <1>4, <1>6, <2>1, <2>3, <3>1 DEF DelInv, DelTypeOK
  <2> QED
    BY <2>2, <2>3
<1>9. \A q \in Procs : list'[q] \subseteq doomed'[q]
  BY <1>4, <1>5 DEF DelInv, DelTypeOK
<1>10. \A q \in Procs : tx'[q] = "committed" => doomed'[q] \cap rows' = {}
  BY <1>4, <1>5 DEF DelInv, DelTypeOK
<1> QED
  BY <1>2, <1>5, <1>6, <1>7, <1>8, <1>9, <1>10 DEF DelInv, TypeOK, DelTypeOK, Returned

(* The body ends: nothing of the deletion moves.                           *)
LEMMA BodyEndsKeeps ==
  ASSUME Careful, DelInv, NEW p \in Procs, BodyEnds(p) PROVE DelInv'
<1>1. UNCHANGED <<tx, ctxDone, hooks, rows, doomed, todo, at, files, trashed, finish, list>>
  BY DEF BodyEnds, FnReturns, FnPanics, delVars, fileVars, endVars
<1>2. pc[p] = "body" /\ result' \in [Procs -> {"none", "ok", "err"}]
  BY DEF BodyEnds, FnReturns, FnPanics, DelInv, TypeOK
<1>3. \E s \in {"committing", "rolling", "panicking"} : pc' = [pc EXCEPT ![p] = s]
  BY DEF BodyEnds, FnReturns, FnPanics
<1> QED
  BY <1>1, <1>2, <1>3 DEF DelInv, TypeOK, DelTypeOK, Returned

(* With no failed commit, committing destroys exactly the doomed rows.     *)
LEMMA CommitRowsKeeps ==
  ASSUME Careful, DelInv, NEW p \in Procs, CommitRows(p) PROVE DelInv'
<1> USE DEF DelInv, TypeOK, DelTypeOK, Returned, fileVars, endVars
<1>1. tx' = [tx EXCEPT ![p] = "committed"] /\ rows' = rows \ doomed[p]
  BY DEF CommitRows, Commit, EndTx, Careful, NoFailedCommits
<1>2. /\ pc' = [pc EXCEPT ![p] = "postCommit"]
      /\ UNCHANGED <<ctxDone, result, hooks, doomed, todo, at, files, trashed, finish, list>>
  BY DEF CommitRows, Commit
<1>3. pc[p] = "committing" /\ finish[p] = "no"
  BY DEF CommitRows, Commit
<1>4. TypeOK' /\ DelTypeOK'
  BY <1>1, <1>2
<1>5. \A q \in Procs : tx'[q] = "committed" => doomed'[q] \cap rows' = {}
  BY <1>1, <1>2
<1> QED
  BY <1>1, <1>2, <1>3, <1>4, <1>5

(* Only a committed transaction sends its Deleter to remove files.         *)
LEMMA EndsKeep ==
  ASSUME Careful, DelInv, NEW p \in Procs, EndsWell(p) \/ EndsBadly(p) \/ EndsInPanic(p)
  PROVE  DelInv'
<1> USE DEF DelInv, TypeOK, DelTypeOK, Returned, fileVars
<1>1. files[DeleterOf[p]] \subseteq Items
  BY DeleterOfAssumption
<1>2. CASE EndsWell(p)
  BY <1>1, <1>2 DEF EndsWell, PostCommitHooks, FinishWith
<1>3. CASE EndsBadly(p)
  <2>1. CASE PostRollbackHooks(p)
    BY <1>1, <1>3, <2>1 DEF EndsBadly, PostRollbackHooks, FinishWith
  <2>2. CASE BeginFails(p)
    BY <1>1, <1>3, <2>2 DEF EndsBadly, BeginFails, FinishWith
  <2> QED
    BY <1>3, <2>1, <2>2 DEF EndsBadly
<1>4. CASE EndsInPanic(p)
  BY <1>4 DEF EndsInPanic, Panic, EndTx
<1> QED
  BY <1>2, <1>3, <1>4

(* What the loops of the Deleter do: a file that is removed is in the list *)
(* of a committed transaction, so its row is gone.                         *)
LEMMA LoopsKeep ==
  ASSUME Careful, DelInv, NEW p \in Procs, RemoveOne(p) \/ RestoreOne(p) \/ Clear(p)
  PROVE  DelInv'
<1> USE DEF DelInv, TypeOK, DelTypeOK, Returned, txnVars
<1>1. CASE RemoveOne(p)
  BY <1>1 DEF RemoveOne
<1>2. CASE RestoreOne(p)
  BY <1>2 DEF RestoreOne
<1>3. CASE Clear(p)
  BY <1>3, DeleterOfAssumption DEF Clear
<1> QED
  BY <1>1, <1>2, <1>3

(* A crash forgets the lists and rolls back what is open.                  *)
LEMMA CrashKeeps ==
  ASSUME DelInv, Crash PROVE DelInv'
  BY DeleterOfAssumption DEF DelInv, TypeOK, DelTypeOK, Returned, Crash

LEMMA DelInvStep ==
  ASSUME Careful, DelInv, [DelNext]_vars PROVE DelInv'
<1>1. CASE UNCHANGED vars
  BY <1>1 DEF vars, txnVars, delVars, fileVars, endVars, DelInv, TypeOK, DelTypeOK, Returned
<1>2. ASSUME NEW p \in Procs, DelStep(p) PROVE DelInv'
  BY <1>2, DestroyItemKeeps, BodyEndsKeeps, CommitRowsKeeps, EndsKeep, LoopsKeep DEF DelStep
<1> QED
  BY <1>1, <1>2, CrashKeeps, TxnStepKeeps DEF DelNext

(* No file is removed while its row is in the database, whoever fails,     *)
(* panics or crashes.                                                      *)
THEOREM NoFileLost ==
  ASSUME Careful PROVE DelSpec => []GoneOnlyWithRow
<1>1. DelInv /\ [DelNext]_vars => DelInv'
  BY DelInvStep
<1>2. DelInv => GoneOnlyWithRow
  BY DEF DelInv, GoneOnlyWithRow
<1> QED
  BY DelInitially, <1>1, <1>2, PTL DEF DelSpec

-----------------------------------------------------------------------------
(* What a caller that is told of an error has lost: nothing, with any      *)
(* failure, any end of a context and any overlap of what is deleted.       *)

(* The file of i is where Deleter.Rollback of p takes it back from.        *)
Kept(p, i) ==
  \/ at[i] = "trash" /\ TrashPath[DeleterOf[p]] /\ i \in trashed[DeleterOf[p]]
  \/ at[i] = "marked" /\ ~TrashPath[DeleterOf[p]]

(* Caller p will restore the file of i if it fails, or has been told nil,  *)
(* or has left it where its Deleter does not look for it.                  *)
AnswersFor(p, i) ==
  \/ finish[p] = "no" /\ i \in files[DeleterOf[p]] /\ Kept(p, i)
  \/ finish[p] = "restoring" /\ i \in list[p] /\ Kept(p, i)
  \/ result[p] = "ok" /\ i \in doomed[p]
  \/ at[i] = "marked" /\ Stranded(p, i)

Calls(p) ==
  /\ pc[p] \in {"idle", "waiting"} => finish[p] = "no" /\ files[DeleterOf[p]] = {}
  /\ finish[p] # "no" => pc[p] \in Returned
  /\ pc[p] \in {"idle", "waiting", "body"} => result[p] = "none"
  /\ pc[p] \in {"committing", "postCommit"} => result[p] = "ok"
  /\ pc[p] \in {"rolling", "postRollback"} => result[p] = "err"
  /\ finish[p] = "removing" => result[p] = "ok"
  /\ finish[p] = "restoring" => result[p] = "err"
  /\ files[DeleterOf[p]] \subseteq doomed[p]
  /\ list[p] \subseteq doomed[p]
  /\ doomed[p] \subseteq Range(Work[p])
  /\ \A k \in 1..Len(todo[p]) : todo[p][k] \in Range(Work[p])

CallInv == TypeOK /\ DelTypeOK /\ \A p \in Procs : Calls(p)

Answered ==
  NoPanic => \A i \in Items : at[i] = "place" \/ \E p \in Procs : AnswersFor(p, i)

LostInv == CallInv /\ Answered

LEMMA LostInitially == DelInit => LostInv
<1> SUFFICES ASSUME DelInit PROVE LostInv
  OBVIOUS
<1> USE WorkAssumption, DeleterOfAssumption DEF DelInit, Init
<1>1. TypeOK /\ DelTypeOK
  BY DEF TypeOK, DelTypeOK, Returned
<1>2. ASSUME NEW p \in Procs PROVE Calls(p)
  <2>1. \A k \in 1..Len(Work[p]) : Work[p][k] \in Range(Work[p])
    BY DEF Range
  <2> QED BY <2>1 DEF Calls
<1>3. Answered
  BY DEF Answered
<1> QED BY <1>1, <1>2, <1>3 DEF LostInv, CallInv

(* A step of p leaves the lists of the other callers alone.                *)
LEMMA OthersKeepTheirDeleter ==
  ASSUME OwnDeleters, NEW p \in Procs, NEW q \in Procs, q # p
  PROVE  DeleterOf[q] # DeleterOf[p] /\ DeleterOf[q] \in Deleters /\ DeleterOf[p] \in Deleters
BY DeleterOfAssumption DEF OwnDeleters

(* Types and the stages of a call, for the steps of the transaction alone. *)
LEMMA TxnStepCalls ==
  ASSUME CallInv, NEW p \in Procs, TxnStep(p) PROVE CallInv'
<1> USE DEF CallInv, Calls, TypeOK, DelTypeOK, Returned, delVars, fileVars, endVars
<1>1. CASE Call(p)
  BY <1>1 DEF TxnStep, Call
<1>2. CASE Begin(p)
  BY <1>2 DEF TxnStep, Begin
<1>3. CASE Rollback(p)
  <2>1. /\ pc[p] = "rolling" /\ pc' = [pc EXCEPT ![p] = "postRollback"]
        /\ UNCHANGED <<ctxDone, result, hooks, delVars>>
    BY <1>3 DEF TxnStep, Rollback
  <2>2. tx' \in [Procs -> {"none", "open", "committed", "rolledback"}]
    BY <1>3 DEF Rollback, EndTx
  <2>3. TypeOK' /\ DelTypeOK'
    BY <2>1, <2>2
  <2>4. ASSUME NEW q \in Procs PROVE Calls(q)'
    <3>1. pc'[q] = IF q = p THEN "postRollback" ELSE pc[q]
      BY <2>1
    <3> QED BY <2>1, <3>1
  <2> QED BY <2>3, <2>4
<1>4. CASE Cancel(p)
  BY <1>4 DEF TxnStep, Cancel
<1>5. CASE ContextRollsBack(p)
  BY <1>5 DEF TxnStep, ContextRollsBack
<1> QED BY <1>1, <1>2, <1>3, <1>4, <1>5 DEF TxnStep

(* The item that is destroyed is one of the caller's work.                 *)
LEMMA DestroyItemCalls ==
  ASSUME OwnDeleters, CallInv, NEW p \in Procs, DestroyItem(p) PROVE CallInv'
<1> DEFINE i == Head(todo[p])
           d == DeleterOf[p]
<1>1. /\ todo[p] \in Seq(Items) /\ todo[p] # <<>> /\ pc[p] = "body" /\ finish[p] = "no"
      /\ todo' = [todo EXCEPT ![p] = Tail(todo[p])]
      /\ UNCHANGED <<pc, tx, ctxDone, result, hooks, rows, finish, list>>
  BY DEF DestroyItem, CallInv, Calls, DelTypeOK, Returned, txnVars, endVars
<1>2. i \in Items /\ i \in Range(Work[p])
  <2>1. 1 \in 1..Len(todo[p]) /\ i = todo[p][1] /\ i \in Items
    BY <1>1
  <2> QED BY <2>1 DEF CallInv, Calls
<1>3. Tail(todo[p]) \in Seq(Items)
      /\ \A k \in 1..Len(Tail(todo[p])) : Tail(todo[p])[k] \in Range(Work[p])
  <2>1. ASSUME NEW k \in 1..Len(Tail(todo[p]))
        PROVE  k + 1 \in 1..Len(todo[p]) /\ Tail(todo[p])[k] = todo[p][k + 1]
    BY <1>1
  <2> QED BY <1>1, <2>1 DEF CallInv, Calls
<1>4. Mark(p, i) /\ doomed' = [doomed EXCEPT ![p] = doomed[p] \cup {i}]
  BY DEF DestroyItem
<1>5. d \in Deleters
  BY DeleterOfAssumption
<1> HIDE DEF i, d
<1>6. /\ files' = files \/ files' = [files EXCEPT ![d] = files[d] \cup {i}]
      /\ trashed' \in [Deleters -> SUBSET Items]
      /\ at' \in [Items -> {"place", "marked", "trash", "gone"}]
  BY <1>2, <1>4, MarkEffect DEF CallInv, d
<1>7. TypeOK' /\ DelTypeOK'
  <2>1. doomed' \in [Procs -> SUBSET Items]
    BY <1>2, <1>4 DEF CallInv, DelTypeOK
  <2>2. files' \in [Deleters -> SUBSET Items]
    <3>1. files \in [Deleters -> SUBSET Items] /\ files[d] \cup {i} \in SUBSET Items
      BY <1>2, <1>5 DEF CallInv, DelTypeOK
    <3> QED BY <1>6, <3>1
  <2>3. todo' \in [Procs -> Seq(Items)]
    BY <1>1, <1>3 DEF CallInv, DelTypeOK
  <2> QED BY <1>1, <1>6, <2>1, <2>2, <2>3 DEF CallInv, TypeOK, DelTypeOK
<1>8. ASSUME NEW q \in Procs PROVE Calls(q)'
  <2>1. CASE q = p
    <3>1. files[d] \subseteq doomed[p] /\ files \in [Deleters -> SUBSET Items]
          /\ doomed'[p] = doomed[p] \cup {i}
      BY <1>4 DEF CallInv, Calls, DelTypeOK, d
    <3>2. files'[d] \subseteq doomed'[p]
      BY <1>5, <1>6, <3>1
    <3>3. list'[p] \subseteq doomed'[p] /\ doomed'[p] \subseteq Range(Work[p])
      BY <1>1, <1>2, <3>1 DEF CallInv, Calls
    <3>4. todo'[p] = Tail(todo[p])
      BY <1>1 DEF CallInv, DelTypeOK
    <3> QED BY <1>1, <1>3, <2>1, <3>2, <3>3, <3>4 DEF CallInv, Calls, Returned, d
  <2>2. CASE q # p
    <3>1. DeleterOf[q] # d /\ DeleterOf[q] \in Deleters
      BY <2>2, OthersKeepTheirDeleter DEF d
    <3>2. files'[DeleterOf[q]] = files[DeleterOf[q]]
      BY <1>5, <1>6, <3>1 DEF CallInv, DelTypeOK
    <3>3. todo'[q] = todo[q] /\ doomed'[q] = doomed[q]
      BY <1>1, <1>4, <2>2 DEF CallInv, DelTypeOK
    <3> QED BY <1>1, <3>2, <3>3 DEF CallInv, Calls
  <2> QED BY <2>1, <2>2
<1> QED BY <1>7, <1>8 DEF CallInv

LEMMA BodyEndsCalls ==
  ASSUME CallInv, NEW p \in Procs, BodyEnds(p) PROVE CallInv'
<1>1. UNCHANGED <<tx, ctxDone, hooks, rows, doomed, todo, at, files, trashed, finish, list>>
  BY DEF BodyEnds, FnReturns, FnPanics, delVars, fileVars, endVars
<1>2. pc[p] = "body" /\ finish[p] = "no"
  BY DEF BodyEnds, FnReturns, FnPanics, CallInv, Calls, Returned
<1>3. PICK s \in {"committing", "rolling", "panicking"}, e \in {"ok", "err"} :
        /\ pc' = [pc EXCEPT ![p] = s] /\ result' = [result EXCEPT ![p] = e]
        /\ s = "committing" => e = "ok"
        /\ s = "rolling" => e = "err"
  BY DEF BodyEnds, FnReturns, FnPanics
<1>4. TypeOK' /\ DelTypeOK'
  BY <1>1, <1>3 DEF CallInv, TypeOK, DelTypeOK
<1>5. ASSUME NEW q \in Procs PROVE Calls(q)'
  <2>1. pc'[p] = s /\ result'[p] = e /\ (q # p => pc'[q] = pc[q] /\ result'[q] = result[q])
    BY <1>3 DEF CallInv, TypeOK
  <2> QED BY <1>1, <1>2, <1>3, <2>1 DEF CallInv, Calls
<1> QED BY <1>4, <1>5 DEF CallInv

LEMMA CommitRowsCalls ==
  ASSUME CallInv, NEW p \in Procs, CommitRows(p) PROVE CallInv'
<1>1. /\ pc[p] = "committing" /\ pc' = [pc EXCEPT ![p] = "postCommit"]
      /\ UNCHANGED <<ctxDone, result, hooks, doomed, todo, at, files, trashed, finish, list>>
  BY DEF CommitRows, Commit, fileVars, endVars
<1>2. tx' \in [Procs -> {"none", "open", "committed", "rolledback"}] /\ rows' \subseteq Items
  BY DEF CommitRows, Commit, EndTx, CallInv, TypeOK, DelTypeOK
<1>3. TypeOK' /\ DelTypeOK'
  BY <1>1, <1>2 DEF CallInv, TypeOK, DelTypeOK
<1>4. ASSUME NEW q \in Procs PROVE Calls(q)'
  <2>1. pc'[q] = IF q = p THEN "postCommit" ELSE pc[q]
    BY <1>1 DEF CallInv, TypeOK
  <2> QED BY <1>1, <2>1 DEF CallInv, Calls, Returned
<1> QED BY <1>3, <1>4 DEF CallInv

LEMMA EndsCalls ==
  ASSUME CallInv, NEW p \in Procs, EndsWell(p) \/ EndsBadly(p) \/ EndsInPanic(p)
  PROVE  CallInv'
<1>1. files[DeleterOf[p]] \subseteq Items /\ files[DeleterOf[p]] \subseteq doomed[p]
  BY DeleterOfAssumption DEF CallInv, Calls, DelTypeOK
<1>2. ASSUME NEW how \in {"removing", "restoring"}, FinishWith(p, how),
             pc' = [pc EXCEPT ![p] = "returned"], UNCHANGED <<tx, ctxDone>>,
             hooks' \in [Procs -> {"none", "commit", "rollback"}],
             \/ how = "removing" /\ result[p] = "ok" /\ result' = result
             \/ how = "restoring" /\ result' = [result EXCEPT ![p] = "err"]
      PROVE  CallInv'
  <2>1. /\ finish' = [finish EXCEPT ![p] = how]
        /\ list' = [list EXCEPT ![p] = files[DeleterOf[p]]]
        /\ UNCHANGED <<rows, doomed, todo, at, files, trashed>>
    BY <1>2 DEF FinishWith, fileVars
  <2>2. TypeOK' /\ DelTypeOK'
    BY <1>1, <1>2, <2>1 DEF CallInv, TypeOK, DelTypeOK, Returned
  <2>3. ASSUME NEW q \in Procs PROVE Calls(q)'
    <3>1. CASE q = p
      <4>1. pc'[p] = "returned" /\ finish'[p] = how /\ list'[p] = files[DeleterOf[p]]
            /\ result'[p] = IF how = "removing" THEN "ok" ELSE "err"
        BY <1>2, <2>1 DEF CallInv, TypeOK, DelTypeOK
      <4> QED BY <1>1, <1>2, <2>1, <3>1, <4>1 DEF CallInv, Calls, Returned
    <3>2. CASE q # p
      <4>1. pc'[q] = pc[q] /\ finish'[q] = finish[q] /\ list'[q] = list[q] /\ result'[q] = result[q]
        BY <1>2, <2>1, <3>2 DEF CallInv, TypeOK, DelTypeOK
      <4> QED BY <2>1, <4>1 DEF CallInv, Calls, Returned
    <3> QED BY <3>1, <3>2
  <2> QED BY <2>2, <2>3 DEF CallInv
<1>3. CASE EndsWell(p)
  BY <1>2, <1>3 DEF EndsWell, PostCommitHooks, CallInv, Calls, TypeOK
<1>4. CASE EndsBadly(p)
  <2>1. /\ FinishWith(p, "restoring") /\ pc' = [pc EXCEPT ![p] = "returned"]
        /\ UNCHANGED <<tx, ctxDone>> /\ hooks' \in [Procs -> {"none", "commit", "rollback"}]
    BY <1>4 DEF EndsBadly, PostRollbackHooks, BeginFails, CallInv, TypeOK
  <2>2. result' = [result EXCEPT ![p] = "err"]
    BY <1>4 DEF EndsBadly, PostRollbackHooks, BeginFails, CallInv, Calls, TypeOK
  <2> QED BY <1>2, <2>1, <2>2
<1>5. CASE EndsInPanic(p)
  BY <1>5 DEF EndsInPanic, Panic, EndTx, CallInv, Calls, TypeOK, DelTypeOK, Returned, fileVars
<1> QED BY <1>3, <1>4, <1>5

LEMMA LoopsCalls ==
  ASSUME OwnDeleters, CallInv, NEW p \in Procs, RemoveOne(p) \/ RestoreOne(p) \/ Clear(p)
  PROVE  CallInv'
<1> USE DEF txnVars
<1>1. CASE RemoveOne(p) \/ RestoreOne(p)
  <2>1. PICK i \in list[p] : list' = [list EXCEPT ![p] = list[p] \ {i}]
    BY <1>1 DEF RemoveOne, RestoreOne
  <2>2. at' \in [Items -> {"place", "marked", "trash", "gone"}]
    BY <1>1 DEF RemoveOne, RestoreOne, CallInv, DelTypeOK
  <2>3. UNCHANGED <<txnVars, rows, doomed, todo, files, trashed, finish>>
    BY <1>1 DEF RemoveOne, RestoreOne
  <2>4. list' \in [Procs -> SUBSET Items] /\ \A q \in Procs : list'[q] \subseteq list[q]
    BY <2>1 DEF CallInv, DelTypeOK
  <2>5. TypeOK' /\ DelTypeOK'
    BY <2>2, <2>3, <2>4 DEF CallInv, TypeOK, DelTypeOK
  <2>6. \A q \in Procs : Calls(q)'
    BY <2>3, <2>4 DEF CallInv, Calls
  <2> QED BY <2>5, <2>6 DEF CallInv
<1>2. CASE Clear(p)
  <2>1. /\ finish[p] # "no" /\ pc[p] \in Returned
        /\ finish' = [finish EXCEPT ![p] = "done"]
        /\ files' = [files EXCEPT ![DeleterOf[p]] = {}]
        /\ trashed' = [trashed EXCEPT ![DeleterOf[p]] = {}]
        /\ UNCHANGED <<txnVars, rows, doomed, todo, at, list>>
    BY <1>2 DEF Clear, CallInv, Calls
  <2>2. TypeOK' /\ DelTypeOK'
    BY <2>1 DEF CallInv, TypeOK, DelTypeOK
  <2>3. \A q \in Procs : files'[DeleterOf[q]] \subseteq files[DeleterOf[q]]
    BY <2>1, DeleterOfAssumption DEF CallInv, DelTypeOK
  <2>4. ASSUME NEW q \in Procs PROVE Calls(q)'
    <3>1. finish'[q] = IF q = p THEN "done" ELSE finish[q]
      BY <2>1 DEF CallInv, DelTypeOK
    <3>2. Calls(q) /\ UNCHANGED <<pc, result, doomed, todo, list>>
      BY <2>1 DEF CallInv, txnVars
    <3>3. files'[DeleterOf[q]] \subseteq files[DeleterOf[q]]
      BY <2>3
    <3>4. finish'[q] # "no" => pc[q] \in Returned
      BY <2>1, <3>1, <3>2 DEF Calls
    <3>5. finish'[q] = "no" \/ finish'[q] = "done" \/ finish'[q] = finish[q]
      BY <3>1
    <3>6. finish'[q] = "no" => finish[q] = "no"
      BY <2>1, <3>1
    <3> QED BY <3>1, <3>2, <3>3, <3>4, <3>5, <3>6 DEF Calls, Returned
  <2> QED BY <2>2, <2>4 DEF CallInv
<1> QED BY <1>1, <1>2

LEMMA CrashCalls ==
  ASSUME CallInv, Crash PROVE CallInv'
BY DeleterOfAssumption DEF CallInv, Calls, TypeOK, DelTypeOK, Returned, Crash

LEMMA CallInvStep ==
  ASSUME OwnDeleters, CallInv, [DelNext]_vars PROVE CallInv'
<1>1. CASE UNCHANGED vars
  BY <1>1 DEF vars, txnVars, delVars, fileVars, endVars, CallInv, Calls, TypeOK, DelTypeOK, Returned
<1>2. ASSUME NEW p \in Procs, DelStep(p) PROVE CallInv'
  BY <1>2, DestroyItemCalls, BodyEndsCalls, CommitRowsCalls, EndsCalls, LoopsCalls DEF DelStep
<1> QED BY <1>1, <1>2, CrashCalls, TxnStepCalls DEF DelNext

(* A file that is away is answered for, before and after every step.       *)
LEMMA DestroyItemAnswered ==
  ASSUME OwnDeleters, LostInv, NEW p \in Procs, DestroyItem(p), NoPanic
  PROVE  Answered'
<1> DEFINE d == DeleterOf[p]
<1>0. PICK j : j = Head(todo[p])
  OBVIOUS
<1>1. /\ Mark(p, j) /\ pc[p] = "body" /\ d \in Deleters
      /\ doomed' = [doomed EXCEPT ![p] = doomed[p] \cup {j}]
      /\ UNCHANGED <<pc, result, finish, list>>
  BY <1>0, DeleterOfAssumption DEF DestroyItem, txnVars, endVars
<1>2. j \in Items /\ finish[p] = "no"
  BY <1>0, <1>1 DEF DestroyItem, LostInv, CallInv, DelTypeOK, Calls, Returned
<1>d. j \in doomed'[p] /\ \A q \in Procs : doomed[q] \subseteq doomed'[q]
  BY <1>1 DEF LostInv, CallInv, DelTypeOK
<1> HIDE DEF d
<1>3. CASE at[j] # "place"
  <2>1. UNCHANGED <<at, files, trashed>>
    BY <1>1, <1>3 DEF Mark
  <2>2. ASSUME NEW i \in Items, NEW q \in Procs, AnswersFor(q, i) PROVE AnswersFor(q, i)'
    BY <1>1, <1>d, <2>1, <2>2 DEF AnswersFor, Kept, Stranded
  <2> QED BY <2>1, <2>2 DEF LostInv, Answered
<1>4. CASE at[j] = "place"
  <2>1. at' = [at EXCEPT ![j] = IF Trashes(p, j) THEN "trash" ELSE "marked"]
    BY <1>1, <1>4 DEF Mark
  <2>2. files' = [files EXCEPT ![d] = files[d] \cup {j}]
    BY <1>1, <1>4 DEF Mark, d
  <2>3. trashed' = IF Trashes(p, j) THEN [trashed EXCEPT ![d] = trashed[d] \cup {j}] ELSE trashed
    BY <1>1, <1>4 DEF Mark, d
  <2>t. /\ at \in [Items -> {"place", "marked", "trash", "gone"}]
        /\ files \in [Deleters -> SUBSET Items] /\ trashed \in [Deleters -> SUBSET Items]
    BY DEF LostInv, CallInv, DelTypeOK
  <2>4. AnswersFor(p, j)'
    <3>2. j \in files'[d] /\ finish'[p] = "no"
      BY <1>1, <1>2, <2>2, <2>t
    <3>3. CASE Trashes(p, j)
      <4>1. at'[j] = "trash" /\ j \in trashed'[d] /\ TrashPath[d]
        BY <1>1, <1>2, <2>1, <2>3, <2>t, <3>3 DEF Trashes, d
      <4> QED BY <3>2, <4>1 DEF AnswersFor, Kept, d
    <3>4. CASE ~Trashes(p, j)
      <4>1. at'[j] = "marked" /\ (TrashPath[d] => j \in Generated)
        BY <1>2, <2>1, <2>t, <3>4 DEF Trashes, d
      <4> QED BY <1>d, <3>2, <4>1 DEF AnswersFor, Kept, Stranded, d
    <3> QED BY <3>3, <3>4
  <2>5. ASSUME NEW i \in Items, i # j, NEW q \in Procs, AnswersFor(q, i)
        PROVE  AnswersFor(q, i)'
    <3>1. DeleterOf[q] \in Deleters
      BY DeleterOfAssumption
    <3>2. at'[i] = at[i]
      BY <2>1, <2>5, <2>t
    <3>3. files[DeleterOf[q]] \subseteq files'[DeleterOf[q]]
      BY <2>2, <2>t, <3>1
    <3>4. trashed[DeleterOf[q]] \subseteq trashed'[DeleterOf[q]]
      BY <2>3, <2>t, <3>1
    <3> QED BY <1>1, <1>d, <2>5, <3>2, <3>3, <3>4 DEF AnswersFor, Kept, Stranded
  <2>6. \A i \in Items : i # j => at'[i] = at[i]
    BY <2>1, <2>t
  <2>7. ASSUME NEW i \in Items, at'[i] # "place" PROVE \E q \in Procs : AnswersFor(q, i)'
    <3>1. CASE i = j
      BY <2>4, <3>1
    <3>2. CASE i # j
      <4>1. PICK q \in Procs : AnswersFor(q, i)
        BY <2>6, <2>7, <3>2 DEF LostInv, Answered
      <4> QED BY <2>5, <3>2, <4>1
    <3> QED BY <3>1, <3>2
  <2> QED BY <2>7 DEF Answered
<1> QED BY <1>3, <1>4

LEMMA EndsAnswered ==
  ASSUME LostInv, NEW p \in Procs, EndsWell(p) \/ EndsBadly(p), NoPanic
  PROVE  Answered'
<1>1. \E how \in {"removing", "restoring"} :
        /\ finish' = [finish EXCEPT ![p] = how]
        /\ list' = [list EXCEPT ![p] = files[DeleterOf[p]]]
        /\ finish[p] = "no"
        /\ how = "removing" => result[p] = "ok"
        /\ \/ result' = result
           \/ result[p] = "none" /\ result' = [result EXCEPT ![p] = "err"]
        /\ UNCHANGED <<doomed, at, files, trashed>>
  BY DEF EndsWell, EndsBadly, PostCommitHooks, PostRollbackHooks, BeginFails, FinishWith, fileVars,
         LostInv, CallInv, Calls, Returned
<1>2. finish \in [Procs -> {"no", "removing", "restoring", "done"}] /\ list \in [Procs -> SUBSET Items]
      /\ result \in [Procs -> {"none", "ok", "err"}]
  BY DEF LostInv, CallInv, TypeOK, DelTypeOK
<1>3. ASSUME NEW i \in Items, NEW q \in Procs, AnswersFor(q, i) PROVE AnswersFor(q, i)'
  <2>1. CASE q = p
    <3>1. result[p] = "ok" => result'[p] = "ok"
      BY <1>1, <1>2
    <3>2. i \in files[DeleterOf[p]] => i \in doomed[p]
      BY DEF LostInv, CallInv, Calls
    <3>3. PICK how \in {"removing", "restoring"} :
            /\ finish' = [finish EXCEPT ![p] = how]
            /\ list' = [list EXCEPT ![p] = files[DeleterOf[p]]]
            /\ finish[p] = "no"
            /\ how = "removing" => result[p] = "ok"
            /\ UNCHANGED <<doomed, at, files, trashed>>
      BY <1>1
    <3>4. finish'[p] = how /\ list'[p] = files[DeleterOf[p]]
      BY <1>2, <3>3
    <3>5. CASE result[p] = "ok" /\ i \in doomed[p]
      BY <2>1, <3>1, <3>3, <3>5 DEF AnswersFor
    <3>6. CASE i \in files[DeleterOf[p]] /\ Kept(p, i)
      BY <2>1, <3>1, <3>2, <3>3, <3>4, <3>6 DEF AnswersFor, Kept
    <3>7. CASE at[i] = "marked" /\ Stranded(p, i)
      BY <2>1, <3>3, <3>7 DEF AnswersFor, Stranded
    <3> QED BY <1>3, <2>1, <3>3, <3>5, <3>6, <3>7 DEF AnswersFor
  <2>2. CASE q # p
    BY <1>1, <1>2, <1>3, <2>2 DEF AnswersFor, Kept, Stranded
  <2> QED BY <2>1, <2>2
<1>4. at' = at
  BY <1>1
<1> QED BY <1>3, <1>4 DEF LostInv, Answered

LEMMA LoopsAnswered ==
  ASSUME OwnDeleters, LostInv, NEW p \in Procs, RemoveOne(p) \/ RestoreOne(p) \/ Clear(p), NoPanic
  PROVE  Answered'
<1> USE DEF txnVars
<1>t. /\ at \in [Items -> {"place", "marked", "trash", "gone"}] /\ list \in [Procs -> SUBSET Items]
      /\ files \in [Deleters -> SUBSET Items] /\ trashed \in [Deleters -> SUBSET Items]
      /\ finish \in [Procs -> {"no", "removing", "restoring", "done"}]
  BY DEF LostInv, CallInv, DelTypeOK
<1>1. CASE RemoveOne(p)
  <2>1. PICK j \in list[p] :
          /\ at' = [at EXCEPT ![j] = IF ~TrashPath[DeleterOf[p]] /\ at[j] = "marked"
                                     THEN "gone" ELSE at[j]]
          /\ list' = [list EXCEPT ![p] = list[p] \ {j}]
    BY <1>1 DEF RemoveOne
  <2>2. UNCHANGED <<result, doomed, files, trashed, finish>> /\ finish[p] = "removing" /\ result[p] = "ok"
    BY <1>1 DEF RemoveOne, LostInv, CallInv, Calls
  <2>3. AnswersFor(p, j)'
    BY <2>1, <2>2 DEF AnswersFor, LostInv, CallInv, Calls
  <2>4. ASSUME NEW i \in Items, i # j PROVE at'[i] = at[i]
    BY <1>t, <2>1, <2>4
  <2>5. ASSUME NEW i \in Items, i # j, NEW q \in Procs, AnswersFor(q, i) PROVE AnswersFor(q, i)'
    <3>1. q # p => list'[q] = list[q]
      BY <1>t, <2>1
    <3> QED BY <2>2, <2>4, <2>5, <3>1 DEF AnswersFor, Kept, Stranded
  <2> QED BY <2>3, <2>4, <2>5 DEF LostInv, Answered
<1>2. CASE RestoreOne(p)
  <2>1. PICK j \in list[p] :
          /\ at' = [at EXCEPT ![j] =
                      CASE TrashPath[DeleterOf[p]] /\ j \in trashed[DeleterOf[p]] /\ at[j] = "trash"
                             -> "place"
                        [] ~TrashPath[DeleterOf[p]] /\ at[j] = "marked" -> "place"
                        [] OTHER -> at[j]]
          /\ list' = [list EXCEPT ![p] = list[p] \ {j}]
    BY <1>2 DEF RestoreOne
  <2>2. UNCHANGED <<result, doomed, files, trashed, finish>> /\ finish[p] = "restoring" /\ j \in Items
    BY <1>2, <1>t, <2>1 DEF RestoreOne
  <2>3. at'[j] = IF Kept(p, j) THEN "place" ELSE at[j]
    BY <1>t, <2>1, <2>2 DEF Kept
  <2>4. ASSUME NEW i \in Items, i # j PROVE at'[i] = at[i]
    BY <1>t, <2>1, <2>4
  <2>5. ASSUME NEW i \in Items, at'[i] # "place", NEW q \in Procs, AnswersFor(q, i)
        PROVE  AnswersFor(q, i)'
    <3>1. at'[i] = at[i] /\ (q = p => i # j \/ ~Kept(p, i))
      BY <2>3, <2>4, <2>5
    <3>2. i # j \/ q # p => (i \in list'[q] <=> i \in list[q])
      BY <1>t, <2>1
    <3> QED BY <2>2, <2>5, <3>1, <3>2 DEF AnswersFor, Kept, Stranded
  <2>6. \A i \in Items : at'[i] # "place" => at[i] # "place"
    BY <2>3, <2>4
  <2> QED BY <2>5, <2>6 DEF LostInv, Answered
<1>3. CASE Clear(p)
  <2>1. /\ finish[p] \in {"removing", "restoring"} /\ list[p] = {}
        /\ finish' = [finish EXCEPT ![p] = "done"]
        /\ files' = [files EXCEPT ![DeleterOf[p]] = {}]
        /\ trashed' = [trashed EXCEPT ![DeleterOf[p]] = {}]
        /\ UNCHANGED <<result, doomed, at, list>>
    BY <1>3 DEF Clear
  <2>2. ASSUME NEW i \in Items, NEW q \in Procs, AnswersFor(q, i) PROVE AnswersFor(q, i)'
    <3>1. CASE q = p
      BY <2>1, <2>2, <3>1 DEF AnswersFor, Stranded, LostInv, CallInv, Calls
    <3>2. CASE q # p
      <4>1. DeleterOf[q] # DeleterOf[p] /\ DeleterOf[q] \in Deleters
        BY <3>2, OthersKeepTheirDeleter
      <4>2. files'[DeleterOf[q]] = files[DeleterOf[q]] /\ trashed'[DeleterOf[q]] = trashed[DeleterOf[q]]
            /\ finish'[q] = finish[q]
        BY <1>t, <2>1, <3>2, <4>1
      <4> QED BY <2>1, <2>2, <4>2 DEF AnswersFor, Kept, Stranded
    <3> QED BY <3>1, <3>2
  <2> QED BY <2>1, <2>2 DEF LostInv, Answered
<1> QED BY <1>1, <1>2, <1>3

(* The other steps move no file.                                           *)
LEMMA RestAnswered ==
  ASSUME LostInv, NEW p \in Procs, TxnStep(p) \/ BodyEnds(p) \/ CommitRows(p), NoPanic
  PROVE  Answered'
<1>1. UNCHANGED <<doomed, at, files, trashed, finish, list>>
      /\ (result' = result \/ \E e \in {"ok", "err"} : result[p] = "none" /\ result' = [result EXCEPT ![p] = e])
  BY DEF TxnStep, BodyEnds, CommitRows, Call, Begin, Rollback, Cancel, ContextRollsBack, Commit,
         FnReturns, FnPanics, delVars, fileVars, endVars, LostInv, CallInv, Calls
<1>2. \A q \in Procs : result[q] = "ok" => result'[q] = "ok"
  BY <1>1 DEF LostInv, CallInv, TypeOK
<1> QED BY <1>1, <1>2 DEF LostInv, Answered, AnswersFor, Kept, Stranded

(* After a panic or a crash nothing is promised.                           *)
LEMMA PanicStays ==
  ASSUME CallInv, [DelNext]_vars, NoPanic' PROVE NoPanic /\ ~Crash /\ \A p \in Procs : ~EndsInPanic(p)
<1>t. pc \in [Procs -> {"idle", "waiting", "body", "committing", "rolling",
                        "panicking", "postCommit", "postRollback"} \cup Returned]
  BY DEF CallInv, TypeOK
<1>1. ~Crash
  BY <1>t DEF Crash, NoPanic
<1>2. ASSUME NEW p \in Procs PROVE ~EndsInPanic(p)
  BY <1>t DEF EndsInPanic, Panic, NoPanic
<1>3. ASSUME NEW p \in Procs, TxnStep(p) \/ DelStep(p) PROVE NoPanic
  <2>1. pc[p] # "panicked" \/ pc' = pc
    BY <1>3 DEF TxnStep, DelStep, Call, Begin, Rollback, Cancel, ContextRollsBack, DestroyItem, BodyEnds,
         FnReturns, FnPanics, CommitRows, Commit, EndsWell, EndsBadly, EndsInPanic, Panic,
         PostCommitHooks, PostRollbackHooks, BeginFails, RemoveOne, RestoreOne, Clear, txnVars
  <2>2. \A q \in Procs : q # p => pc'[q] = pc[q]
    BY <1>3, <1>t DEF TxnStep, DelStep, Call, Begin, Rollback, Cancel, ContextRollsBack, DestroyItem,
         BodyEnds, FnReturns, FnPanics, CommitRows, Commit, EndsWell, EndsBadly, EndsInPanic, Panic,
         PostCommitHooks, PostRollbackHooks, BeginFails, RemoveOne, RestoreOne, Clear, txnVars
  <2> QED BY <2>1, <2>2 DEF NoPanic
<1>4. ASSUME UNCHANGED vars PROVE NoPanic
  BY <1>4 DEF vars, txnVars, NoPanic
<1>5. NoPanic
  BY <1>1, <1>3, <1>4 DEF DelNext
<1> QED BY <1>1, <1>2, <1>5

LEMMA LostInvStep ==
  ASSUME OwnDeleters, LostInv, [DelNext]_vars PROVE LostInv'
<1>1. CallInv'
  BY CallInvStep DEF LostInv
<1>2. ASSUME NoPanic' PROVE Answered'
  <2>1. NoPanic /\ ~Crash /\ \A p \in Procs : ~EndsInPanic(p)
    BY <1>2, PanicStays DEF LostInv
  <2>2. CASE UNCHANGED vars
    BY <2>1, <2>2 DEF vars, txnVars, delVars, fileVars, endVars, LostInv, Answered, AnswersFor,
         Kept, Stranded, NoPanic
  <2> QED BY <2>1, <2>2, DestroyItemAnswered, EndsAnswered, LoopsAnswered, RestAnswered DEF DelNext, DelStep
<1> QED BY <1>1, <1>2 DEF LostInv, Answered

(* Who answers for a file once all calls are over.                         *)
LEMMA AnsweredInTheEnd ==
  ASSUME LostInv, Quiet, NoPanic, NEW i \in Items, at[i] # "place"
  PROVE  \E p \in Procs :
           \/ result[p] = "ok" /\ i \in doomed[p]
           \/ at[i] = "marked" /\ Stranded(p, i)
<1>1. PICK p \in Procs : AnswersFor(p, i)
  BY DEF LostInv, Answered
<1>2. pc[p] = "idle" \/ finish[p] = "done"
  BY DEF Quiet
<1> QED BY <1>1, <1>2 DEF AnswersFor, LostInv, CallInv, Calls

(* A caller that is told of an error has lost no file, whatever fails,     *)
(* however contexts end, whoever else deletes the same objects and         *)
(* whichever Deleters have a trash.                                        *)
THEOREM ErrorLosesNothing ==
  ASSUME OwnDeleters PROVE DelSpec => []NothingLostOnError
<1>1. LostInv /\ [DelNext]_vars => LostInv'
  BY LostInvStep
<1>2. LostInv => NothingLostOnError
  <2> SUFFICES ASSUME LostInv, Quiet, NoPanic, NEW i \in Items, at[i] # "place"
               PROVE  \E p \in Procs : \/ i \in Range(Work[p]) /\ result[p] = "ok"
                                       \/ at[i] = "marked" /\ Stranded(p, i)
    BY DEF NothingLostOnError
  <2> QED BY AnsweredInTheEnd DEF LostInv, CallInv, Calls
<1> QED BY LostInitially, <1>1, <1>2, PTL DEF DelSpec

-----------------------------------------------------------------------------
(* How files and rows differ when all is over, for any failures and any    *)
(* overlap of what is deleted.  A file is only put back by a caller that   *)
(* is told of an error, and a row only goes with the commit of a caller    *)
(* that had destroyed it.                                                  *)

RowsGo ==
  /\ \A p \in Procs : tx[p] = "committed" => doomed[p] \cap rows = {}
  /\ \A i \in Items : i \notin rows => \E p \in Procs : i \in doomed[p]

PutBack ==
  \A i \in Items :
    at[i] = "place" /\ (\E q \in Procs : i \in doomed[q])
      => \E p \in Procs : i \in doomed[p] /\ result[p] = "err"

FollowInv == LostInv /\ RowsGo /\ PutBack

LEMMA FollowInitially == DelInit => FollowInv
<1>1. DelInit => RowsGo /\ PutBack
  BY DEF DelInit, Init, RowsGo, PutBack
<1> QED BY <1>1, LostInitially DEF FollowInv

(* No caller that was told of an error is told anything else.              *)
LEMMA ErrStays ==
  ASSUME CallInv, [DelNext]_vars, NEW p \in Procs, result[p] = "err" PROVE result'[p] = "err"
<1>t. result \in [Procs -> {"none", "ok", "err"}]
  BY DEF CallInv, TypeOK
<1>1. CASE Crash \/ UNCHANGED vars
  BY <1>1, <1>t DEF Crash, vars, txnVars
<1>2. ASSUME NEW q \in Procs, TxnStep(q) PROVE result' = result
  BY <1>2 DEF TxnStep, Call, Begin, Rollback, Cancel, ContextRollsBack
<1>3. ASSUME NEW q \in Procs, BodyEnds(q) PROVE result'[p] = "err"
  <2>1. result[q] = "none" /\ \E e \in {"ok", "err"} : result' = [result EXCEPT ![q] = e]
    BY <1>3 DEF BodyEnds, FnReturns, FnPanics, CallInv, Calls
  <2> QED BY <1>t, <2>1
<1>4. ASSUME NEW q \in Procs, EndsBadly(q) PROVE result'[p] = "err"
  BY <1>4, <1>t DEF EndsBadly, PostRollbackHooks, BeginFails
<1>5. ASSUME NEW q \in Procs, DestroyItem(q) \/ CommitRows(q) \/ EndsWell(q) \/ EndsInPanic(q)
                              \/ RemoveOne(q) \/ RestoreOne(q) \/ Clear(q)
      PROVE  result' = result
  BY <1>5 DEF DestroyItem, CommitRows, Commit, EndsWell, PostCommitHooks, EndsInPanic, Panic,
       RemoveOne, RestoreOne, Clear, txnVars
<1> QED BY <1>1, <1>2, <1>3, <1>4, <1>5 DEF DelNext, DelStep

(* What a caller has destroyed stays so, and but for DestroyItem nothing   *)
(* is added to it.                                                         *)
LEMMA DoomedGrows ==
  ASSUME CallInv, [DelNext]_vars
  PROVE  /\ \A p \in Procs : doomed[p] \subseteq doomed'[p]
         /\ (\A p \in Procs : ~DestroyItem(p)) => doomed' = doomed
<1>1. ASSUME NEW p \in Procs, DestroyItem(p) PROVE \A q \in Procs : doomed[q] \subseteq doomed'[q]
  BY <1>1 DEF DestroyItem, CallInv, DelTypeOK
<1>2. ASSUME \A p \in Procs : ~DestroyItem(p) PROVE doomed' = doomed
  BY <1>2 DEF DelNext, TxnStep, DelStep, BodyEnds, CommitRows, EndsWell, EndsBadly, EndsInPanic,
       FinishWith, RemoveOne, RestoreOne, Clear, Crash, vars, delVars
<1> QED BY <1>1, <1>2

LEMMA RowsGoStep ==
  ASSUME CallInv, RowsGo, [DelNext]_vars PROVE RowsGo'
<1>t. /\ tx \in [Procs -> {"none", "open", "committed", "rolledback"}]
      /\ doomed \in [Procs -> SUBSET Items] /\ rows \subseteq Items
  BY DEF CallInv, TypeOK, DelTypeOK
<1>1. ASSUME NEW p \in Procs, DestroyItem(p) PROVE RowsGo'
  <2>1. tx[p] = "open" /\ UNCHANGED <<tx, rows>>
        /\ doomed' = [doomed EXCEPT ![p] = doomed[p] \cup {Head(todo[p])}]
    BY <1>1 DEF DestroyItem, txnVars
  <2> QED BY <1>t, <2>1 DEF RowsGo
<1>2. ASSUME NEW p \in Procs, CommitRows(p) PROVE RowsGo'
  <2>1. /\ doomed' = doomed
        /\ rows' = IF tx'[p] = "committed" THEN rows \ doomed[p] ELSE rows
        /\ \A q \in Procs : q # p => tx'[q] = tx[q]
    BY <1>2, <1>t DEF CommitRows, Commit, EndTx
  <2> QED BY <1>t, <2>1 DEF RowsGo
<1>3. ASSUME rows' = rows, doomed' = doomed, \A q \in Procs : tx'[q] = "committed" => tx[q] = "committed"
      PROVE  RowsGo'
  BY <1>3 DEF RowsGo
<1>4. ASSUME NEW p \in Procs, TxnStep(p) \/ BodyEnds(p) \/ EndsWell(p) \/ EndsBadly(p) \/ EndsInPanic(p)
                              \/ RemoveOne(p) \/ RestoreOne(p) \/ Clear(p)
      PROVE  RowsGo'
  <2>1. UNCHANGED <<rows, doomed>>
    BY <1>4 DEF TxnStep, BodyEnds, EndsWell, EndsBadly, EndsInPanic, FinishWith, RemoveOne, RestoreOne,
         Clear, delVars
  <2>2. \A q \in Procs : tx'[q] = "committed" => tx[q] = "committed"
    BY <1>4, <1>t DEF TxnStep, Call, Begin, Rollback, EndTx, Cancel, ContextRollsBack, BodyEnds, FnReturns,
         FnPanics, EndsWell, EndsBadly, EndsInPanic, Panic, PostCommitHooks, PostRollbackHooks, BeginFails,
         RemoveOne, RestoreOne, Clear, txnVars
  <2> QED BY <1>3, <2>1, <2>2
<1>5. CASE Crash \/ UNCHANGED vars
  BY <1>3, <1>5, <1>t DEF Crash, vars, txnVars, delVars
<1> QED BY <1>1, <1>2, <1>4, <1>5 DEF DelNext, DelStep

LEMMA PutBackStep ==
  ASSUME CallInv, PutBack, [DelNext]_vars PROVE PutBack'
<1>t. /\ at \in [Items -> {"place", "marked", "trash", "gone"}]
      /\ doomed \in [Procs -> SUBSET Items] /\ todo \in [Procs -> Seq(Items)]
  BY DEF CallInv, DelTypeOK
<1>k. ASSUME NEW i \in Items, at[i] = "place", NEW q \in Procs, i \in doomed[q]
      PROVE  \E p \in Procs : i \in doomed'[p] /\ result'[p] = "err"
  BY <1>k, ErrStays, DoomedGrows DEF PutBack
<1>1. ASSUME NEW p \in Procs, DestroyItem(p) PROVE PutBack'
  <2>0. PICK j : j = Head(todo[p])
    OBVIOUS
  <2>1. Mark(p, j) /\ doomed' = [doomed EXCEPT ![p] = doomed[p] \cup {j}] /\ j \in Items
    BY <1>1, <1>t, <2>0 DEF DestroyItem
  <2>2. at'[j] # "place" /\ \A i \in Items : i # j => at'[i] = at[i]
    BY <1>t, <2>1 DEF Mark
  <2>3. \A q \in Procs : doomed'[q] \subseteq doomed[q] \cup {j}
    BY <1>t, <2>1
  <2> QED BY <1>k, <2>2, <2>3 DEF PutBack
<1>2. ASSUME NEW p \in Procs, RestoreOne(p) PROVE PutBack'
  <2>1. PICK j \in list[p] : \A i \in Items : i # j => at'[i] = at[i]
    BY <1>2, <1>t DEF RestoreOne
  <2>2. UNCHANGED <<doomed, result>> /\ result[p] = "err" /\ j \in doomed[p]
    BY <1>2 DEF RestoreOne, txnVars, CallInv, Calls
  <2> QED BY <1>k, <2>1, <2>2 DEF PutBack
<1>3. ASSUME \A p \in Procs : ~DestroyItem(p) /\ ~RestoreOne(p) PROVE PutBack'
  <2>1. \A i \in Items : at'[i] = "place" => at[i] = "place"
    BY <1>3, <1>t DEF DelNext, TxnStep, DelStep, BodyEnds, CommitRows, EndsWell, EndsBadly, EndsInPanic,
         FinishWith, RemoveOne, Clear, Crash, vars, delVars, fileVars
  <2>2. doomed' = doomed
    BY <1>3, DoomedGrows
  <2> QED BY <1>k, <2>1, <2>2 DEF PutBack
<1> QED BY <1>1, <1>2, <1>3

(* When all calls are over and none has panicked, a file is in its place   *)
(* if its row is there and not otherwise, but in the cases FilesFollowRows *)
(* names: for any callers, objects they share, failures and trashes.       *)
THEOREM FilesFollowTheirRows ==
  ASSUME OwnDeleters PROVE DelSpec => []FilesFollowRows
<1>1. FollowInv /\ [DelNext]_vars => FollowInv'
  BY LostInvStep, RowsGoStep, PutBackStep DEF FollowInv, LostInv
<1>2. FollowInv => FilesFollowRows
  <2> SUFFICES ASSUME FollowInv, Quiet, NoPanic, NEW i \in Items
               PROVE  /\ i \in rows /\ at[i] # "place" =>
                           \E p \in Procs :
                             \/ i \in doomed[p] /\ CommitLost(p)
                             \/ at[i] = "marked" /\ Stranded(p, i)
                      /\ i \notin rows /\ at[i] = "place" =>
                           \E p \in Procs : i \in doomed[p] /\ result[p] = "err"
    BY DEF FilesFollowRows
  <2>1. ASSUME i \in rows, at[i] # "place"
        PROVE  \E p \in Procs : \/ i \in doomed[p] /\ CommitLost(p)
                                \/ at[i] = "marked" /\ Stranded(p, i)
    <3>1. PICK p \in Procs : \/ result[p] = "ok" /\ i \in doomed[p]
                             \/ at[i] = "marked" /\ Stranded(p, i)
      BY <2>1, AnsweredInTheEnd DEF FollowInv
    <3> QED BY <2>1, <3>1 DEF FollowInv, RowsGo, CommitLost
  <2>2. ASSUME i \notin rows, at[i] = "place"
        PROVE  \E p \in Procs : i \in doomed[p] /\ result[p] = "err"
    BY <2>2 DEF FollowInv, RowsGo, PutBack
  <2> QED BY <2>1, <2>2
<1> QED BY FollowInitially, <1>1, <1>2, PTL DEF DelSpec
=============================================================================
