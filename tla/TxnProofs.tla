----------------------------- MODULE TxnProofs -----------------------------
(***************************************************************************)
(* What withTxn guarantees for every number of callers.  TypeOK and        *)
(* StagesAgree are inductive together; the other results follow from them. *)
(***************************************************************************)
EXTENDS Txn, TLAPS

TxnInv == TypeOK /\ StagesAgree

LEMMA TxnInit == Init => TxnInv
  BY DEF Init, TxnInv, TypeOK, StagesAgree

(* Every step keeps the types. *)
LEMMA TxnTypeStep == TypeOK /\ [Next]_txnVars => TypeOK'
<1> SUFFICES ASSUME TypeOK, [Next]_txnVars PROVE TypeOK'
  OBVIOUS
<1> USE DEF TypeOK, Returned
<1>1. CASE UNCHANGED txnVars
  BY <1>1 DEF txnVars
<1>2. ASSUME NEW p \in Procs, Call(p) PROVE TypeOK'
  BY <1>2 DEF Call
<1>3. ASSUME NEW p \in Procs, Begin(p) \/ BeginFails(p) PROVE TypeOK'
  BY <1>3 DEF Begin, BeginFails
<1>4. ASSUME NEW p \in Procs, NEW err \in {"ok", "err"}, FnReturns(p, err) PROVE TypeOK'
  BY <1>4 DEF FnReturns
<1>5. ASSUME NEW p \in Procs, FnPanics(p) \/ Panic(p) \/ Rollback(p) PROVE TypeOK'
  BY <1>5 DEF FnPanics, Panic, Rollback, EndTx
<1>6. ASSUME NEW p \in Procs, Commit(p) PROVE TypeOK'
  BY <1>6 DEF Commit, EndTx
<1>7. ASSUME NEW p \in Procs, PostCommitHooks(p) \/ PostRollbackHooks(p) PROVE TypeOK'
  BY <1>7 DEF PostCommitHooks, PostRollbackHooks
<1>8. ASSUME NEW p \in Procs, CallAgain(p) \/ Cancel(p) \/ ContextRollsBack(p) PROVE TypeOK'
  BY <1>8 DEF CallAgain, Cancel, ContextRollsBack
<1> QED
  BY <1>1, <1>2, <1>3, <1>4, <1>5, <1>6, <1>7, <1>8 DEF Next, CallStep

(* Every step keeps the stages of every call: a step of p leaves the       *)
(* variables of the others alone.                                          *)
LEMMA TxnStagesStep == TxnInv /\ [Next]_txnVars => StagesAgree'
<1> SUFFICES ASSUME TypeOK, StagesAgree, [Next]_txnVars PROVE StagesAgree'
  BY DEF TxnInv
<1> USE DEF TypeOK, StagesAgree, Returned
<1>1. CASE UNCHANGED txnVars
  BY <1>1 DEF txnVars
<1>2. ASSUME NEW p \in Procs, Call(p) PROVE StagesAgree'
  BY <1>2 DEF Call
<1>3. ASSUME NEW p \in Procs, Begin(p) PROVE StagesAgree'
  BY <1>3 DEF Begin
<1>4. ASSUME NEW p \in Procs, BeginFails(p) PROVE StagesAgree'
  BY <1>4 DEF BeginFails
<1>5. ASSUME NEW p \in Procs, NEW err \in {"ok", "err"}, FnReturns(p, err)
      PROVE  StagesAgree'
  BY <1>5 DEF FnReturns
<1>6. ASSUME NEW p \in Procs, FnPanics(p) PROVE StagesAgree'
  BY <1>6 DEF FnPanics
<1>7. ASSUME NEW p \in Procs, Panic(p) PROVE StagesAgree'
  BY <1>7 DEF Panic, EndTx
<1>8. ASSUME NEW p \in Procs, Rollback(p) PROVE StagesAgree'
  BY <1>8 DEF Rollback, EndTx
<1>9. ASSUME NEW p \in Procs, Commit(p) PROVE StagesAgree'
  BY <1>9 DEF Commit, EndTx
<1>10. ASSUME NEW p \in Procs, PostCommitHooks(p) PROVE StagesAgree'
  BY <1>10 DEF PostCommitHooks
<1>11. ASSUME NEW p \in Procs, PostRollbackHooks(p) PROVE StagesAgree'
  BY <1>11 DEF PostRollbackHooks
<1>12. ASSUME NEW p \in Procs, CallAgain(p) PROVE StagesAgree'
  BY <1>12 DEF CallAgain
<1>13. ASSUME NEW p \in Procs, Cancel(p) PROVE StagesAgree'
  BY <1>13 DEF Cancel
<1>14. ASSUME NEW p \in Procs, ContextRollsBack(p) PROVE StagesAgree'
  BY <1>14 DEF ContextRollsBack
<1> QED
  BY <1>1, <1>2, <1>3, <1>4, <1>5, <1>6, <1>7, <1>8, <1>9, <1>10, <1>11,
     <1>12, <1>13, <1>14 DEF Next, CallStep

(* The inductive invariant holds in every state, whatever fails.           *)
THEOREM TxnInvariant == Spec => [](TypeOK /\ StagesAgree)
<1>1. TxnInv /\ [Next]_txnVars => TxnInv'
  BY TxnTypeStep, TxnStagesStep DEF TxnInv
<1>2. Spec => []TxnInv
  BY TxnInit, <1>1, PTL DEF Spec
<1> QED
  BY <1>2 DEF TxnInv

(* A caller that is told of an error has nothing left in the database, and *)
(* post-rollback hooks never run after a commit, whatever fails.           *)
THEOREM ErrorNeverCommits == Spec => []ErrorMeansUndone
<1>1. TypeOK /\ StagesAgree => ErrorMeansUndone
  BY DEF TypeOK, StagesAgree, ErrorMeansUndone, Returned
<1> QED
  BY <1>1, TxnInvariant, PTL

(* No call that has returned or panicked keeps the only write connection,  *)
(* unless its context is cancelled, and then database/sql takes it back.   *)
THEOREM WriteConnectionIsFreed == Spec => []ConnectionGivenBack
<1>1. TypeOK /\ StagesAgree => ConnectionGivenBack
  BY DEF TypeOK, StagesAgree, ConnectionGivenBack, Returned
<1> QED
  BY <1>1, TxnInvariant, PTL

CommitMayFail == Faults \cap {"cancel", "db"} # {}

(* Without the faults that make a commit fail no context is cancelled, and *)
(* a call that is past its commit has its work in the database.            *)
NoFailedCommit ==
  /\ ctxDone = {}
  /\ \A p \in Procs :
       pc[p] = "postCommit" \/ (pc[p] = "returned" /\ result[p] = "ok") =>
         tx[p] = "committed"

CommitInv == CommitMayFail \/ NoFailedCommit

LEMMA NoFailedCommitStep ==
  ASSUME ~CommitMayFail, TxnInv, NoFailedCommit, [Next]_txnVars
  PROVE  NoFailedCommit'
<1> USE DEF TxnInv, TypeOK, NoFailedCommit
<1>1. "cancel" \notin Faults /\ "db" \notin Faults
  BY DEF CommitMayFail
<1>2. CASE UNCHANGED txnVars
  BY <1>2 DEF txnVars
<1>3. ASSUME NEW p \in Procs, Call(p) \/ Begin(p) \/ BeginFails(p) PROVE NoFailedCommit'
  BY <1>3 DEF Call, Begin, BeginFails
<1>4. ASSUME NEW p \in Procs, NEW err \in {"ok", "err"}, FnReturns(p, err)
      PROVE  NoFailedCommit'
  BY <1>4 DEF FnReturns
<1>5. ASSUME NEW p \in Procs, FnPanics(p) \/ Panic(p) \/ Rollback(p) PROVE NoFailedCommit'
  BY <1>5 DEF FnPanics, Panic, Rollback, EndTx
<1>6. ASSUME NEW p \in Procs, Commit(p) PROVE NoFailedCommit'
  BY <1>1, <1>6 DEF Commit, EndTx, StagesAgree
<1>7. ASSUME NEW p \in Procs, PostCommitHooks(p) \/ PostRollbackHooks(p)
      PROVE  NoFailedCommit'
  BY <1>7 DEF PostCommitHooks, PostRollbackHooks, StagesAgree
<1>8. ASSUME NEW p \in Procs, CallAgain(p) \/ Cancel(p) \/ ContextRollsBack(p)
      PROVE  NoFailedCommit'
  BY <1>1, <1>8 DEF CallAgain, Cancel, ContextRollsBack
<1> QED
  BY <1>2, <1>3, <1>4, <1>5, <1>6, <1>7, <1>8 DEF Next, CallStep

(* Each step of a call is a step of the contract or leaves it alone.       *)
LEMMA StepImplementsContract ==
  ASSUME TxnInv, CommitInv, [Next]_txnVars
  PROVE  [Contract!Next]_<<Effect, Report>>
<1> DEFINE Goal == Contract!Next \/ (Effect' = Effect /\ Report' = Report)
<1> SUFFICES Goal
  OBVIOUS
<1> USE DEF TxnInv, TypeOK, StagesAgree, Returned, Effect, Report
<1>1. CASE UNCHANGED txnVars
  BY <1>1 DEF txnVars
<1>2. ASSUME NEW p \in Procs, Call(p) \/ Begin(p) \/ Cancel(p) PROVE Goal
  <2>1. Effect' = Effect
    BY <1>2 DEF Call, Begin, Cancel
  <2>2. Report' = Report
    BY <1>2 DEF Call, Begin, Cancel
  <2> QED
    BY <2>1, <2>2
<1>3. ASSUME NEW p \in Procs, NEW err \in {"ok", "err"}, FnReturns(p, err) \/ FnPanics(p)
      PROVE  Goal
  <2>1. Effect' = Effect
    BY <1>3 DEF FnReturns, FnPanics
  <2>2. Report' = Report
    BY <1>3 DEF FnReturns, FnPanics
  <2> QED
    BY <2>1, <2>2
<1>4. ASSUME NEW p \in Procs, BeginFails(p) PROVE Goal
  <2>1. Effect[p] = "none" /\ Effect' = [Effect EXCEPT ![p] = "discarded"]
    BY <1>4 DEF BeginFails
  <2>2. Report[p] = "none" /\ Report' = [Report EXCEPT ![p] = "err"]
    BY <1>4 DEF BeginFails
  <2> QED
    BY <2>1, <2>2 DEF Contract!Next, Contract!Refuse
<1>5. ASSUME NEW p \in Procs, Panic(p) PROVE Goal
  <2>1. Report[p] = "none" /\ Report' = [Report EXCEPT ![p] = "err"]
    BY <1>5 DEF Panic
  <2>2. CASE tx[p] = "open"
    <3>1. Effect[p] = "none" /\ Effect' = [Effect EXCEPT ![p] = "discarded"]
      BY <1>5, <2>2 DEF Panic, EndTx
    <3> QED
      BY <2>1, <3>1 DEF Contract!Next, Contract!Refuse
  <2>3. CASE tx[p] # "open"
    <3>1. Effect[p] = "discarded" /\ Effect' = Effect
      BY <1>5, <2>3 DEF Panic, EndTx
    <3> QED
      BY <2>1, <3>1 DEF Contract!Next, Contract!Report
  <2> QED
    BY <2>2, <2>3
<1>6. ASSUME NEW p \in Procs, Rollback(p) PROVE Goal
  <2>1. Report[p] = "none" /\ Report' = Report
    BY <1>6 DEF Rollback
  <2>2. CASE tx[p] = "open"
    <3>1. Effect[p] = "none" /\ Effect' = [Effect EXCEPT ![p] = "discarded"]
      BY <1>6, <2>2 DEF Rollback, EndTx
    <3> QED
      BY <2>1, <3>1 DEF Contract!Next, Contract!Settle
  <2>3. CASE tx[p] # "open"
    <3>1. Effect' = Effect
      BY <1>6, <2>3 DEF Rollback, EndTx
    <3> QED
      BY <2>1, <3>1
  <2> QED
    BY <2>2, <2>3
<1>7. ASSUME NEW p \in Procs, Commit(p) PROVE Goal
  <2>1. Report[p] = "none" /\ Report' = Report
    BY <1>7 DEF Commit
  <2>2. CASE p \in ctxDone
    <3>1. Effect' = Effect
      BY <1>7, <2>2 DEF Commit
    <3> QED
      BY <2>1, <3>1
  <2>3. CASE p \notin ctxDone
    <3>1. tx[p] = "open" /\ Effect[p] = "none"
      BY <1>7, <2>3 DEF Commit
    <3>2. PICK how \in {"committed", "rolledback"} : tx' = [tx EXCEPT ![p] = how]
      BY <1>7, <2>3, <3>1 DEF Commit, EndTx
    <3>3. CASE how = "committed"
      <4>1. Effect' = [Effect EXCEPT ![p] = "applied"]
        BY <1>7, <3>2, <3>3 DEF Commit
      <4> QED
        BY <2>1, <3>1, <4>1 DEF Contract!Next, Contract!Settle
    <3>4. CASE how = "rolledback"
      <4>1. Effect' = [Effect EXCEPT ![p] = "discarded"]
        BY <1>7, <3>2, <3>4 DEF Commit
      <4> QED
        BY <2>1, <3>1, <4>1 DEF Contract!Next, Contract!Settle
    <3> QED
      BY <3>3, <3>4
  <2> QED
    BY <2>2, <2>3
<1>8. ASSUME NEW p \in Procs, PostCommitHooks(p) PROVE Goal
  <2>1. Report[p] = "none" /\ Report' = [Report EXCEPT ![p] = "ok"]
    BY <1>8 DEF PostCommitHooks
  <2>2. Effect' = Effect
    BY <1>8 DEF PostCommitHooks
  <2>3. CommitMayFail \/ Effect[p] = "applied"
    BY <1>8 DEF PostCommitHooks, CommitInv, NoFailedCommit
  <2> QED
    BY <2>1, <2>2, <2>3 DEF Contract!Next, Contract!Report, CommitMayFail
<1>9. ASSUME NEW p \in Procs, PostRollbackHooks(p) PROVE Goal
  <2>1. Effect[p] = "discarded" /\ Effect' = Effect
    BY <1>9 DEF PostRollbackHooks
  <2>2. Report[p] = "none" /\ Report' = [Report EXCEPT ![p] = "err"]
    BY <1>9 DEF PostRollbackHooks
  <2> QED
    BY <2>1, <2>2 DEF Contract!Next, Contract!Report
<1>10. ASSUME NEW p \in Procs, CallAgain(p) PROVE Goal
  <2>1. Effect[p] # "none" /\ Effect' = [Effect EXCEPT ![p] = "none"]
    BY <1>10 DEF CallAgain
  <2>2. Report[p] # "none" /\ Report' = [Report EXCEPT ![p] = "none"]
    BY <1>10 DEF CallAgain
  <2> QED
    BY <2>1, <2>2 DEF Contract!Next, Contract!Renew
<1>11. ASSUME NEW p \in Procs, ContextRollsBack(p) PROVE Goal
  <2>1. Effect[p] = "none" /\ Effect' = [Effect EXCEPT ![p] = "discarded"]
    BY <1>11 DEF ContextRollsBack
  <2>2. Report' = Report /\ Report[p] \in {"none", "ok"}
    BY <1>11 DEF ContextRollsBack
  <2>3. CommitMayFail
    BY <1>11 DEF ContextRollsBack, CommitInv, NoFailedCommit
  <2> QED
    BY <2>1, <2>2, <2>3
    DEF Contract!Next, Contract!Settle, Contract!Lose, CommitMayFail
<1> HIDE DEF Goal, TxnInv, TypeOK, StagesAgree, Returned, Effect, Report
<1> QED
  <2>1. CASE Next
    <3>1. PICK p \in Procs :
            Call(p) \/ CallStep(p) \/ ContextRollsBack(p) \/ CallAgain(p) \/ Cancel(p)
      BY <2>1 DEF Next
    <3>2. CASE CallStep(p)
      BY <1>2, <1>3, <1>4, <1>5, <1>6, <1>7, <1>8, <1>9, <3>2 DEF CallStep
    <3> QED
      BY <1>2, <1>10, <1>11, <3>1, <3>2
  <2> QED
    BY <1>1, <2>1

(* withTxn does what its comment promises: an error means that nothing was *)
(* done and nil that the work was done, but for what a failed commit loses *)
(* when contexts may end or SQLite fail.                                   *)
THEOREM TxnImplementsContract == Spec => ImplementsContract
<1> DEFINE Inv == TxnInv /\ CommitInv
<1>1. Init => Inv
  BY TxnInit DEF Init, CommitInv, NoFailedCommit
<1>2. Inv /\ [Next]_txnVars => Inv'
  BY TxnTypeStep, TxnStagesStep, NoFailedCommitStep DEF TxnInv, CommitInv, CommitMayFail
<1>3. Init => Contract!Init
  BY DEF Init, Contract!Init, Effect, Report, Returned
<1>4. Inv /\ [Next]_txnVars => [Contract!Next]_<<Effect, Report>>
  BY StepImplementsContract
<1> QED
  BY <1>1, <1>2, <1>3, <1>4, PTL DEF Spec, ImplementsContract, Contract!Spec
=============================================================================
