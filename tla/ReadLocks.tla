----------------------------- MODULE ReadLocks -----------------------------
(***************************************************************************)
(* The read locks of one file (pkg/fsutil): who reads the file takes one,  *)
(* and who deletes the file calls Cancel, which cancels the contexts of    *)
(* all of them and waits for their ffmpeg.  Files share nothing but the    *)
(* mutex, which no operation keeps.                                        *)
(*                                                                         *)
(* The locks are a Go slice: a length and an array.  A removal moves the   *)
(* elements of the array down in place, an append writes to the array as   *)
(* long as it has room.  Cancel walks over the slice it read at first.     *)
(***************************************************************************)
EXTENDS Naturals, Sequences, SequencesExt

CONSTANTS
  Locks,     \* the lock contexts that are ever made
  Cancels,   \* the calls of Cancel
  Nil    \* in an array: no lock yet

VARIABLES
  lock,     \* how far each lock is
  attached, \* the locks that AttachCommand has given a process
  array,    \* the array behind readLocks[fn]
  len,      \* the length of readLocks[fn]
  walk      \* the calls of Cancel

lockVars == <<lock, attached, array, len, walk>>

(* A call walks over the first n elements of its array: own is Shared as   *)
(* long as that is the array of the list, then a copy of what it was.      *)
(* Only to state what a call does: had, the locks that it is to cancel,    *)
(* and kept, that no lock was added since.                                 *)
Shared == <<>>

NoWalk == [at |-> "idle", n |-> 0, i |-> 0, own |-> Shared, had |-> {}, kept |-> TRUE]

Walks == [at : {"idle", "walking", "waiting", "returned"}, n : Nat, i : Nat,
          own : Seq(Locks \cup {Nil}), had : SUBSET Locks, kept : BOOLEAN]

Listed == {array[k] : k \in 1..len}

LockTypeOK ==
  /\ lock \in [Locks -> {"new", "held", "done", "removed"}]
  /\ attached \subseteq Locks
  /\ array \in Seq(Locks \cup {Nil})
  /\ len \in 0..Len(array)
  /\ walk \in [Cancels -> Walks]

LockInit ==
  /\ lock = [l \in Locks |-> "new"]
  /\ attached = {}
  /\ array = <<>> /\ len = 0
  /\ walk = [c \in Cancels |-> NoWalk]

-----------------------------------------------------------------------------
(* The readers *)

(* The capacity that append gives a full array: 1, 2, 4, ...               *)
Grown == IF array = <<>> THEN 1 ELSE 2 * Len(array)

(* Calls that still walk over the array keep it when the list gets another.*)
Detached(c) ==
  IF walk[c].at \in {"walking", "waiting"} /\ walk[c].own = Shared THEN array ELSE walk[c].own

ReadLock(l) ==
  /\ lock[l] = "new"
  /\ lock' = [lock EXCEPT ![l] = "held"]
  /\ len' = len + 1
  /\ \/ /\ len < Len(array)
        /\ array' = [array EXCEPT ![len + 1] = l]
        /\ walk' = [c \in Cancels |-> [walk[c] EXCEPT !.kept = FALSE]]
     \/ /\ len = Len(array)
        /\ array' = [k \in 1..Grown |->
             IF k <= len THEN array[k] ELSE IF k = len + 1 THEN l ELSE Nil]
        /\ walk' = [c \in Cancels |-> [walk[c] EXCEPT !.kept = FALSE, !.own = Detached(c)]]
  /\ UNCHANGED attached

(* The process has been started with the context of the lock, which may    *)
(* have ended in between.                                                  *)
AttachCommand(l) ==
  /\ lock[l] # "new" /\ l \notin attached
  /\ attached' = attached \cup {l}
  /\ UNCHANGED <<lock, array, len, walk>>

(* The reader is done with the file or has gone.                           *)
Release(l) ==
  /\ lock[l] = "held"
  /\ lock' = [lock EXCEPT ![l] = "done"]
  /\ UNCHANGED <<attached, array, len, walk>>

UnlockLast(l) == \* mutant: the length shrinks but nothing moves
  /\ lock[l] = "done"
  /\ lock' = [lock EXCEPT ![l] = "removed"]
  /\ l \in Listed
  /\ len' = len - 1
  /\ UNCHANGED <<attached, array, walk>>

(* waitAndUnlock, under the mutex: what is after the lock moves down.      *)
WaitAndUnlock(l) ==
  /\ lock[l] = "done"
  /\ lock' = [lock EXCEPT ![l] = "removed"]
  /\ \E i \in 1..len :
       /\ array[i] = l /\ \A k \in 1..(i - 1) : array[k] # l
       /\ array' = [k \in DOMAIN array |->
            IF i <= k /\ k < len THEN array[k + 1] ELSE array[k]]
       /\ len' = len - 1
  /\ UNCHANGED <<attached, walk>>

-----------------------------------------------------------------------------
(* Cancel *)

CancelBegins(c) ==
  /\ walk[c].at = "idle"
  /\ walk' = [walk EXCEPT ![c] =
       [NoWalk EXCEPT !.at = "walking", !.n = len, !.had = Listed]]
  /\ UNCHANGED <<lock, attached, array, len>>

Walked(c) == IF walk[c].own = Shared THEN array ELSE walk[c].own

MoreAnew(c) == \* mutant: the length is looked at again each time
  walk[c].i < walk[c].n /\ walk[c].i < len

More(c) == walk[c].i < walk[c].n

(* LockContext.Cancel: cancel, and wait for the process if there is one.   *)
CancelNext(c) ==
  LET l == Walked(c)[walk[c].i + 1] IN
  /\ walk[c].at = "walking"
  /\ More(c)
  /\ lock' = [lock EXCEPT ![l] = IF @ = "held" THEN "done" ELSE @]
  /\ walk' = [walk EXCEPT ![c].i = @ + 1,
                          ![c].at = IF l \in attached THEN "waiting" ELSE "walking"]
  /\ UNCHANGED <<attached, array, len>>

(* The process has ended, or its owner, who waits for it as well, was told *)
(* so first, or 5 seconds have passed.                                     *)
StopWaiting(c) ==
  /\ walk[c].at = "waiting"
  /\ walk' = [walk EXCEPT ![c].at = "walking"]
  /\ UNCHANGED <<lock, attached, array, len>>

CancelReturns(c) ==
  /\ walk[c].at = "walking"
  /\ ~More(c)
  /\ walk' = [walk EXCEPT ![c] = [@ EXCEPT !.at = "returned", !.n = 0, !.i = 0, !.own = Shared]]
  /\ UNCHANGED <<lock, attached, array, len>>

-----------------------------------------------------------------------------

LockNext ==
  \/ \E l \in Locks :
       ReadLock(l) \/ AttachCommand(l) \/ Release(l) \/ WaitAndUnlock(l)
  \/ \E c \in Cancels : CancelBegins(c) \/ CancelNext(c) \/ StopWaiting(c) \/ CancelReturns(c)

LockSpec == LockInit /\ [][LockNext]_lockVars

-----------------------------------------------------------------------------
(* Properties *)

(* However locks come and go in the array that calls of Cancel walk over,  *)
(* the list holds every lock that is held exactly once: no reader gets out *)
(* of reach of the next deletion.                                          *)
ListHoldsTheHeld ==
  /\ Listed = {l \in Locks : lock[l] \in {"held", "done"}}
  /\ \A j, k \in 1..len : array[j] = array[k] => j = k

(* Cancel reaches both readers of a file that has no more than two, while  *)
(* nobody else begins to read it: the moves in its array do not hurt it.   *)
TwoReadersAreCancelled ==
  [][\A c \in Cancels :
       walk[c].at = "walking" /\ walk'[c].at = "returned" /\ walk[c].n <= 2 /\ walk[c].kept
         => \A l \in walk[c].had : lock'[l] # "held"]_lockVars

-----------------------------------------------------------------------------
(* A statement of the source that the code does not keep *)

(* "Cancel cancels all read lock contexts associated with fn."             *)
CancelCancelsAll ==
  [][\A c \in Cancels :
       walk[c].at = "walking" /\ walk'[c].at = "returned" =>
         \A l \in walk[c].had : lock'[l] # "held"]_lockVars
=============================================================================
