-------------------------------- MODULE Txn --------------------------------
(***************************************************************************)
(* withTxn of pkg/txn over the database of pkg/sqlite: each process runs a *)
(* function in a transaction on the one connection of the write pool; the  *)
(* transaction is committed or rolled back, and the hooks of the outcome   *)
(* run outside of it.  A transaction is bound to the context of its call:  *)
(* when that is cancelled (a client disconnects, a job is cancelled)       *)
(* database/sql rolls the transaction back by itself.                      *)
(***************************************************************************)
CONSTANTS
  Procs,    \* the goroutines that call withTxn with writable = true
  Faults    \* what may happen: "cancel", "panic", "db" (SQLite fails)

ASSUME FaultsAssumption == Faults \subseteq {"cancel", "panic", "db"}

VARIABLES
  pc,      \* where the call of each process is
  tx,      \* the sql.Tx of the call
  ctxDone, \* the processes whose context is cancelled
  result,  \* what the call returned
  hooks    \* the hooks that have run: "none", "commit", "rollback"

txnVars == <<pc, tx, ctxDone, result, hooks>>

Returned == {"returned", "panicked"}

TypeOK ==
  /\ pc \in [Procs -> {"idle", "waiting", "body", "committing", "rolling",
                       "panicking", "postCommit", "postRollback"} \cup Returned]
  /\ tx \in [Procs -> {"none", "open", "committed", "rolledback"}]
  /\ ctxDone \subseteq Procs
  /\ result \in [Procs -> {"none", "ok", "err"}]
  /\ hooks \in [Procs -> {"none", "commit", "rollback"}]

Init ==
  /\ pc = [p \in Procs |-> "idle"]
  /\ tx = [p \in Procs |-> "none"]
  /\ ctxDone = {}
  /\ result = [p \in Procs |-> "none"]
  /\ hooks = [p \in Procs |-> "none"]

-----------------------------------------------------------------------------

(* maxWriteConnections is 1. *)
ConnectionFree == \A p \in Procs : tx[p] # "open"

Call(p) ==
  /\ pc[p] = "idle"
  /\ pc' = [pc EXCEPT ![p] = "waiting"]
  /\ UNCHANGED <<tx, ctxDone, result, hooks>>

(* Begin: BeginTxx waits for the connection as long as its context lives. *)
Begin(p) ==
  /\ pc[p] = "waiting"
  /\ p \notin ctxDone
  /\ ConnectionFree
  /\ tx' = [tx EXCEPT ![p] = "open"]
  /\ pc' = [pc EXCEPT ![p] = "body"]
  /\ UNCHANGED <<ctxDone, result, hooks>>

BeginFails(p) ==
  /\ pc[p] = "waiting"
  /\ p \in ctxDone \/ "db" \in Faults
  /\ result' = [result EXCEPT ![p] = "err"]
  /\ pc' = [pc EXCEPT ![p] = "returned"]
  /\ UNCHANGED <<tx, ctxDone, hooks>>

FnReturnsIgnored(p, err) == \* mutant: the error of fn does not reach the defer
  /\ pc[p] = "body"
  /\ result' = [result EXCEPT ![p] = err]
  /\ pc' = [pc EXCEPT ![p] = "committing"]
  /\ UNCHANGED <<tx, ctxDone, hooks>>

(* "err = fn(txnCtx); return err": the result is fixed here, for it has no *)
(* name, and the deferred function only changes the variable err.          *)
FnReturns(p, err) ==
  /\ pc[p] = "body"
  /\ result' = [result EXCEPT ![p] = err]
  /\ pc' = [pc EXCEPT ![p] = IF err = "err" THEN "rolling" ELSE "committing"]
  /\ UNCHANGED <<tx, ctxDone, hooks>>

FnPanics(p) ==
  /\ "panic" \in Faults
  /\ pc[p] = "body"
  /\ result' = [result EXCEPT ![p] = "err"]
  /\ pc' = [pc EXCEPT ![p] = "panicking"]
  /\ UNCHANGED <<tx, ctxDone, hooks>>

EndTx(p, how) == tx' = [tx EXCEPT ![p] = IF @ = "open" THEN how ELSE @]

PanicUnrolled(p) == \* mutant: a panic skips the rollback
  /\ pc[p] = "panicking"
  /\ pc' = [pc EXCEPT ![p] = "panicked"]
  /\ UNCHANGED <<tx, ctxDone, result, hooks>>

(* The recover: rolled back and panicked again, and no hook is run. *)
Panic(p) ==
  /\ pc[p] = "panicking"
  /\ EndTx(p, "rolledback")
  /\ pc' = [pc EXCEPT ![p] = "panicked"]
  /\ UNCHANGED <<ctxDone, result, hooks>>

RollbackNot(p) == \* mutant: only the hooks of a rollback are run
  /\ pc[p] = "rolling"
  /\ pc' = [pc EXCEPT ![p] = "postRollback"]
  /\ UNCHANGED <<tx, ctxDone, result, hooks>>

Rollback(p) ==
  /\ pc[p] = "rolling"
  /\ EndTx(p, "rolledback")
  /\ pc' = [pc EXCEPT ![p] = "postRollback"]
  /\ UNCHANGED <<ctxDone, result, hooks>>

(* Commit fails when the context is cancelled, without touching the        *)
(* transaction, and when SQLite fails, after which it is rolled back.  The *)
(* error goes to err only: hooks and result are those of a success.        *)
Commit(p) ==
  /\ pc[p] = "committing"
  /\ IF p \in ctxDone
     THEN UNCHANGED tx
     ELSE \/ EndTx(p, "committed")
          \/ "db" \in Faults /\ EndTx(p, "rolledback")
  /\ pc' = [pc EXCEPT ![p] = "postCommit"]
  /\ UNCHANGED <<ctxDone, result, hooks>>

PostCommitHooks(p) ==
  /\ pc[p] = "postCommit"
  /\ hooks' = [hooks EXCEPT ![p] = "commit"]
  /\ pc' = [pc EXCEPT ![p] = "returned"]
  /\ UNCHANGED <<tx, ctxDone, result>>

PostRollbackHooks(p) ==
  /\ pc[p] = "postRollback"
  /\ hooks' = [hooks EXCEPT ![p] = "rollback"]
  /\ pc' = [pc EXCEPT ![p] = "returned"]
  /\ UNCHANGED <<tx, ctxDone, result>>

(* The caller calls again, with a new context. *)
CallAgain(p) ==
  /\ pc[p] \in Returned
  /\ tx[p] # "open"
  /\ pc' = [pc EXCEPT ![p] = "idle"]
  /\ tx' = [tx EXCEPT ![p] = "none"]
  /\ ctxDone' = ctxDone \ {p}
  /\ result' = [result EXCEPT ![p] = "none"]
  /\ hooks' = [hooks EXCEPT ![p] = "none"]

Cancel(p) ==
  /\ "cancel" \in Faults
  /\ pc[p] # "idle"
  /\ p \notin ctxDone
  /\ ctxDone' = ctxDone \cup {p}
  /\ UNCHANGED <<pc, tx, result, hooks>>

(* database/sql: the goroutine that awaits the end of the context. *)
ContextRollsBack(p) ==
  /\ p \in ctxDone
  /\ tx[p] = "open"
  /\ tx' = [tx EXCEPT ![p] = "rolledback"]
  /\ UNCHANGED <<pc, ctxDone, result, hooks>>

-----------------------------------------------------------------------------

(* The steps of a call once it waits; fn decides how the body ends. *)
CallStep(p) ==
  \/ Begin(p) \/ BeginFails(p)
  \/ \E err \in {"ok", "err"} : FnReturns(p, err)
  \/ FnPanics(p) \/ Panic(p)
  \/ Rollback(p) \/ PostRollbackHooks(p)
  \/ Commit(p) \/ PostCommitHooks(p)

Next ==
  \E p \in Procs :
    Call(p) \/ CallStep(p) \/ ContextRollsBack(p) \/ CallAgain(p) \/ Cancel(p)

Spec == Init /\ [][Next]_txnVars

(* A call that has begun runs on: fn is assumed to return.  The pool       *)
(* serves the requests for its connection in order, hence strong fairness  *)
(* for Begin; a wait ends when its context does, but no error of SQLite    *)
(* has to happen.                                                          *)
Fairness ==
  \A p \in Procs :
    /\ WF_txnVars(pc[p] # "waiting" /\ CallStep(p))
    /\ WF_txnVars(p \in ctxDone /\ BeginFails(p))
    /\ SF_txnVars(Begin(p))
    /\ WF_txnVars(ContextRollsBack(p))

FairSpec == Spec /\ Fairness

-----------------------------------------------------------------------------
(* Properties *)

(* "If fn returns an error then the transaction is rolled back": no work   *)
(* stays in the database for which the caller is told of an error, and the *)
(* hooks that restore files only run when the work is undone.              *)
ErrorMeansUndone ==
  \A p \in Procs :
    result[p] = "err" \/ hooks[p] = "rollback" => tx[p] # "committed"

(* The only write connection is given back by a call that returned, or its *)
(* context is cancelled and database/sql is about to give it back.         *)
ConnectionGivenBack ==
  \A p \in Procs : pc[p] \in Returned => tx[p] # "open" \/ p \in ctxDone

(* Every call returns, whatever the others do: none keeps the connection,  *)
(* after an error, a panic or a cancelled context.                         *)
EveryCallReturns ==
  \A p \in Procs : pc[p] = "waiting" ~> pc[p] \in Returned

(* At each stage of a call the transaction, the result and the hooks are   *)
(* those the stage implies; a transaction that ended early was ended by    *)
(* its context.  This is the inductive invariant behind the others.        *)
StagesAgree ==
  \A p \in Procs :
    /\ pc[p] \in {"idle", "waiting"} => tx[p] = "none"
    /\ pc[p] \in {"body", "committing", "rolling", "panicking"} =>
         tx[p] = "open" \/ (tx[p] = "rolledback" /\ p \in ctxDone)
    /\ pc[p] \in {"postRollback", "panicked"} => tx[p] = "rolledback"
    /\ pc[p] = "postCommit" \/ (pc[p] = "returned" /\ result[p] = "ok") =>
         tx[p] \in {"committed", "rolledback"} \/ (tx[p] = "open" /\ p \in ctxDone)
    /\ pc[p] = "returned" /\ result[p] = "err" => tx[p] \in {"none", "rolledback"}
    /\ pc[p] \in {"idle", "waiting", "body"} <=> result[p] = "none"
    /\ pc[p] \in {"committing", "postCommit"} => result[p] = "ok"
    /\ pc[p] \in {"rolling", "panicking", "postRollback", "panicked"} => result[p] = "err"
    /\ hooks[p] # "none" => pc[p] = "returned"
    /\ hooks[p] = "rollback" => result[p] = "err"

(* What the callers see of a call. *)
Effect ==
  [p \in Procs |->
     CASE tx[p] = "committed" -> "applied"
       [] tx[p] = "rolledback" \/ (tx[p] = "none" /\ pc[p] = "returned") -> "discarded"
       [] OTHER -> "none"]

Report == [p \in Procs |-> IF pc[p] \in Returned THEN result[p] ELSE "none"]

Contract == INSTANCE TxnContract
  WITH effect <- Effect, report <- Report, CommitMayFail <- Faults \cap {"cancel", "db"} # {}

(* withTxn does what its comment promises, "If fn returns an error then    *)
(* the transaction is rolled back" and "Otherwise it is committed", but    *)
(* for the work that a failed commit loses: that is never half done, and   *)
(* it is not done later.                                                   *)
ImplementsContract == Contract!Spec
=============================================================================
