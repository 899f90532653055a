---------------------------- MODULE PartsProofs ----------------------------
(***************************************************************************)
(* The read locks of a file: its list stays exact, and calls of Cancel     *)
(* reach two readers, for any number of readers and calls.  The DLNA       *)
(* service: each session is saved once, for any number of clients.         *)
(***************************************************************************)
EXTENDS ReadLocks, Dlna, TLAPS

-----------------------------------------------------------------------------
(* The list of the locks *)

\* The inductive invariant: ListHoldsTheHeld with the types it is about.
ListInv ==
  /\ lock \in [Locks -> {"new", "held", "done", "removed"}]
  /\ array \in Seq(Locks \cup {Nil})
  /\ len \in 0..Len(array)
  /\ ListHoldsTheHeld

(* Making room for one more: the array that append makes holds it. *)
LEMMA GrownHasRoom ==
  ASSUME array \in Seq(Locks \cup {Nil}), len = Len(array)
  PROVE  Grown \in Nat /\ len + 1 <= Grown
<1>1. Len(array) \in Nat /\ (array # <<>> => Len(array) >= 1)
  OBVIOUS
<1> QED BY <1>1 DEF Grown

(* A lock that is added behind the others is the only change of the list. *)
LEMMA ReadLockKeeps ==
  ASSUME ListInv, NEW l \in Locks, ReadLock(l)
  PROVE  ListInv'
<1>1. /\ lock[l] = "new"
      /\ lock' = [lock EXCEPT ![l] = "held"]
      /\ len' = len + 1 /\ len \in Nat /\ len <= Len(array) /\ Len(array) \in Nat
  <2>1. /\ lock[l] = "new" /\ len' = len + 1
        /\ lock' = [lock EXCEPT ![l] = "held"]
    BY DEF ReadLock
  <2> QED BY <2>1 DEF ListInv
<1>2. /\ array' \in Seq(Locks \cup {Nil})
      /\ len' \in 0..Len(array')
      /\ array'[len + 1] = l
      /\ \A k \in 1..len : array'[k] = array[k]
  <2>1. CASE len < Len(array) /\ array' = [array EXCEPT ![len + 1] = l]
    BY <1>1, <2>1 DEF ListInv
  <2>2. CASE /\ len = Len(array)
             /\ array' = [k \in 1..Grown |->
                  IF k <= len THEN array[k] ELSE IF k = len + 1 THEN l ELSE Nil]
    <3>1. Grown \in Nat /\ len + 1 <= Grown
      BY <2>2, GrownHasRoom DEF ListInv
    <3>2. \A k \in 1..Grown : array'[k] \in Locks \cup {Nil}
      BY <1>1, <2>2, <3>1 DEF ListInv
    <3>3. array' \in Seq(Locks \cup {Nil}) /\ Len(array') = Grown
      BY <2>2, <3>1, <3>2
    <3> QED BY <1>1, <2>2, <3>1, <3>3
  <2> QED BY <2>1, <2>2 DEF ReadLock
<1>3. l \notin Listed
  BY <1>1 DEF ListInv, ListHoldsTheHeld
<1>4. Listed' = Listed \cup {l}
  BY <1>1, <1>2 DEF Listed
<1>5. {k \in Locks : lock'[k] \in {"held", "done"}}
        = {k \in Locks : lock[k] \in {"held", "done"}} \cup {l}
  BY <1>1 DEF ListInv
<1>6. \A j, k \in 1..len' : array'[j] = array'[k] => j = k
  BY <1>1, <1>2, <1>3 DEF ListInv, ListHoldsTheHeld, Listed
<1> QED BY <1>1, <1>2, <1>4, <1>5, <1>6 DEF ListInv, ListHoldsTheHeld

(* A lock that is removed is the only one that leaves, although all behind *)
(* it move.                                                                *)
LEMMA WaitAndUnlockKeeps ==
  ASSUME ListInv, NEW l \in Locks, WaitAndUnlock(l)
  PROVE  ListInv'
<1>1. PICK i \in 1..len :
        /\ array[i] = l
        /\ array' = [k \in DOMAIN array |->
             IF i <= k /\ k < len THEN array[k + 1] ELSE array[k]]
        /\ len' = len - 1
  BY DEF WaitAndUnlock
<1>2. /\ lock' = [lock EXCEPT ![l] = "removed"]
      /\ len \in Nat /\ i \in Nat /\ 1 <= i /\ i <= len
      /\ Len(array) \in Nat /\ len <= Len(array) /\ DOMAIN array = 1..Len(array)
  BY <1>1 DEF ListInv, WaitAndUnlock
<1>3. \A k \in 1..(len - 1) :
        array'[k] = IF i <= k THEN array[k + 1] ELSE array[k]
  BY <1>1, <1>2
<1>4. /\ array' \in Seq(Locks \cup {Nil})
      /\ len' \in 0..Len(array')
  <2>1. \A k \in 1..Len(array) : array'[k] \in Locks \cup {Nil}
    BY <1>1, <1>2 DEF ListInv
  <2>2. array' \in Seq(Locks \cup {Nil}) /\ Len(array') = Len(array)
    BY <1>1, <1>2, <2>1
  <2> QED BY <1>1, <1>2, <2>2
<1>5. \A j, k \in 1..len : array[j] = array[k] => j = k
  BY DEF ListInv, ListHoldsTheHeld
<1>6. Listed' = Listed \ {l}
  <2>1. ASSUME NEW k \in 1..(len - 1)
        PROVE  \E j \in 1..len : j # i /\ array'[k] = array[j]
    BY <1>2, <1>3
  <2>2. ASSUME NEW j \in 1..len, j # i
        PROVE  \E k \in 1..(len - 1) : array'[k] = array[j]
    <3>1. CASE j < i
      BY <1>2, <1>3, <3>1
    <3>2. CASE i < j
      <4>1. j - 1 \in 1..(len - 1) /\ array'[j - 1] = array[j]
        BY <1>2, <1>3, <3>2
      <4> QED BY <4>1
    <3> QED BY <1>2, <2>2, <3>1, <3>2
  <2>3. \A j \in 1..len : j # i <=> array[j] # l
    BY <1>1, <1>5
  <2>4. ASSUME NEW x PROVE x \in Listed' <=> x \in Listed /\ x # l
    BY <1>1, <2>1, <2>2, <2>3 DEF Listed
  <2> QED BY <2>4
<1>7. {k \in Locks : lock'[k] \in {"held", "done"}}
        = {k \in Locks : lock[k] \in {"held", "done"}} \ {l}
  BY <1>2 DEF ListInv
<1>8. \A j, k \in 1..len' : array'[j] = array'[k] => j = k
  BY <1>1, <1>2, <1>3, <1>5
<1> QED BY <1>2, <1>4, <1>6, <1>7, <1>8 DEF ListInv, ListHoldsTheHeld

LEMMA ListInvStep == ListInv /\ [LockNext]_lockVars => ListInv'
<1> SUFFICES ASSUME ListInv, [LockNext]_lockVars PROVE ListInv'
  OBVIOUS
<1>1. ASSUME NEW l \in Locks, ReadLock(l) PROVE ListInv'
  BY <1>1, ReadLockKeeps
<1>2. ASSUME NEW l \in Locks, WaitAndUnlock(l) PROVE ListInv'
  BY <1>2, WaitAndUnlockKeeps
<1>3. ASSUME UNCHANGED <<array, len>>,
             \/ lock' = lock
             \/ \E l \in Locks : lock[l] = "held" /\ lock' = [lock EXCEPT ![l] = "done"]
      PROVE  ListInv'
  BY <1>3 DEF ListInv, ListHoldsTheHeld, Listed
<1>4. ASSUME NEW l \in Locks, AttachCommand(l) \/ Release(l) PROVE ListInv'
  BY <1>3, <1>4 DEF AttachCommand, Release
<1>5. ASSUME NEW c \in Cancels, CancelNext(c) PROVE ListInv'
  <2>1. PICK l : lock' = [lock EXCEPT ![l] = IF @ = "held" THEN "done" ELSE @]
    BY <1>5 DEF CancelNext
  <2>2. CASE l \in Locks /\ lock[l] = "held"
    BY <1>3, <1>5, <2>1, <2>2 DEF CancelNext
  <2>3. CASE ~(l \in Locks /\ lock[l] = "held")
    <3>1. lock' = lock
      BY <2>1, <2>3 DEF ListInv
    <3> QED BY <1>3, <1>5, <3>1 DEF CancelNext
  <2> QED BY <2>2, <2>3
<1>6. ASSUME NEW c \in Cancels, CancelBegins(c) \/ StopWaiting(c) \/ CancelReturns(c) PROVE ListInv'
  BY <1>3, <1>6 DEF CancelBegins, StopWaiting, CancelReturns
<1>7. CASE UNCHANGED lockVars
  BY <1>3, <1>7 DEF lockVars
<1> QED BY <1>1, <1>2, <1>4, <1>5, <1>6, <1>7 DEF LockNext

(* However readers come and go, and whatever calls of Cancel do meanwhile, *)
(* a deletion finds every reader of the file in the list.                  *)
THEOREM ListStaysExact == LockSpec => []ListHoldsTheHeld
<1>1. LockInit => ListInv
  BY DEF LockInit, ListInv, ListHoldsTheHeld, Listed
<1>2. ListInv => ListHoldsTheHeld
  BY DEF ListInv
<1> QED BY <1>1, <1>2, ListInvStep, PTL DEF LockSpec

-----------------------------------------------------------------------------
(* What a call of Cancel reaches *)

\* A call that walks over two elements at most, while none is added, has the
\* array of the list before it; and of the locks it is to cancel one that is
\* still held is ahead of it: once it is past the first, as the second.
Ahead(c) ==
  walk[c].at \in {"walking", "waiting"} /\ walk[c].kept /\ walk[c].n <= 2 =>
    /\ walk[c].own = Shared
    /\ len <= walk[c].n
    /\ \A l \in walk[c].had :
         lock[l] = "held" => walk[c].i < walk[c].n /\ (walk[c].i = 1 => array[2] = l)

WalkInv ==
  /\ LockTypeOK
  /\ ListHoldsTheHeld
  /\ \A c \in Cancels : Ahead(c)

LEMMA WalkHasList == WalkInv => ListInv
BY DEF WalkInv, ListInv, LockTypeOK

(* A call that has a lock added to its array is none of these any more.    *)
LEMMA ReadLockWalk ==
  ASSUME WalkInv, NEW l \in Locks, ReadLock(l)
  PROVE  WalkInv'
<1>1. ListInv'
  BY WalkHasList, ReadLockKeeps
<1>2. /\ walk' \in [Cancels -> Walks]
      /\ \A c \in Cancels : walk'[c].kept = FALSE
  <2>1. CASE walk' = [c \in Cancels |-> [walk[c] EXCEPT !.kept = FALSE]]
    BY <2>1 DEF WalkInv, LockTypeOK, Walks
  <2>2. CASE walk' = [c \in Cancels |-> [walk[c] EXCEPT !.kept = FALSE, !.own = Detached(c)]]
    <3>1. \A c \in Cancels : Detached(c) \in Seq(Locks \cup {Nil})
      BY DEF Detached, WalkInv, LockTypeOK, Walks
    <3> QED BY <2>2, <3>1 DEF WalkInv, LockTypeOK, Walks
  <2> QED BY <2>1, <2>2 DEF ReadLock
<1>3. attached' \subseteq Locks
  BY DEF ReadLock, WalkInv, LockTypeOK
<1> QED BY <1>1, <1>2, <1>3 DEF ListInv, WalkInv, LockTypeOK, Ahead

(* A removal moves nothing into or out of the second place of a list of    *)
(* two, nor one that is held out of the list.                              *)
LEMMA WaitAndUnlockWalk ==
  ASSUME WalkInv, NEW l \in Locks, WaitAndUnlock(l)
  PROVE  WalkInv'
<1>1. ListInv /\ ListInv'
  BY WalkHasList, WaitAndUnlockKeeps
<1>2. PICK q \in 1..len :
        /\ array[q] = l
        /\ array' = [k \in DOMAIN array |->
             IF q <= k /\ k < len THEN array[k + 1] ELSE array[k]]
        /\ len' = len - 1
  BY DEF WaitAndUnlock
<1>3. /\ lock[l] = "done"
      /\ lock' = [lock EXCEPT ![l] = "removed"]
      /\ UNCHANGED <<attached, walk>>
  BY DEF WaitAndUnlock
<1>4. len \in Nat /\ Len(array) \in Nat /\ len <= Len(array) /\ DOMAIN array = 1..Len(array)
  BY <1>1 DEF ListInv
<1>5. ASSUME NEW c \in Cancels PROVE Ahead(c)'
  <2> SUFFICES ASSUME walk[c].at \in {"walking", "waiting"}, walk[c].kept, walk[c].n <= 2
               PROVE  /\ walk[c].own = Shared
                      /\ len' <= walk[c].n
                      /\ \A m \in walk[c].had : lock'[m] = "held" =>
                           walk[c].i < walk[c].n /\ (walk[c].i = 1 => array'[2] = m)
    BY <1>3 DEF Ahead
  <2>1. /\ walk[c].own = Shared /\ len <= walk[c].n
        /\ walk[c].n \in Nat /\ walk[c].had \subseteq Locks
        /\ \A m \in walk[c].had :
             lock[m] = "held" => walk[c].i < walk[c].n /\ (walk[c].i = 1 => array[2] = m)
    BY DEF WalkInv, LockTypeOK, Walks, Ahead
  <2>2. ASSUME NEW m \in walk[c].had, lock'[m] = "held"
        PROVE  walk[c].i < walk[c].n /\ (walk[c].i = 1 => array'[2] = m)
    <3>1. m \in Locks /\ m # l /\ lock[m] = "held"
      BY <1>1, <1>3, <2>1, <2>2 DEF ListInv
    <3>2. PICK p \in 1..len : array[p] = m
      BY <1>1, <3>1 DEF ListInv, ListHoldsTheHeld, Listed
    <3>3. len = 2 /\ 2 \in DOMAIN array
      BY <1>2, <1>4, <2>1, <3>1, <3>2
    <3>4. array'[2] = array[2]
      BY <1>2, <3>3
    <3> QED BY <2>1, <3>1, <3>4
  <2> QED BY <1>2, <1>4, <2>1, <2>2
<1> QED BY <1>1, <1>3, <1>5 DEF ListInv, WalkInv, LockTypeOK

(* A step that neither changes the list nor makes a lock held. *)
LEMMA OthersWalk ==
  ASSUME WalkInv, ListInv', attached' \subseteq Locks, UNCHANGED <<array, len, walk>>,
         \A l \in Locks : lock'[l] = "held" => lock[l] = "held"
  PROVE  WalkInv'
BY DEF WalkInv, ListInv, LockTypeOK, Walks, Ahead

LEMMA CancelBeginsWalk ==
  ASSUME WalkInv, ListInv', NEW c \in Cancels, CancelBegins(c)
  PROVE  WalkInv'
<1>1. /\ walk' = [walk EXCEPT ![c] =
           [NoWalk EXCEPT !.at = "walking", !.n = len, !.had = Listed]]
      /\ UNCHANGED <<lock, attached, array, len>>
  BY DEF CancelBegins
<1>2. Listed \subseteq Locks /\ len \in Nat
  BY DEF WalkInv, LockTypeOK, ListHoldsTheHeld
<1> DEFINE r == [NoWalk EXCEPT !.at = "walking", !.n = len, !.had = Listed]
<1>3. /\ r \in Walks
      /\ r.own = Shared /\ r.n = len /\ r.i = 0 /\ r.had = Listed
  <2>1. NoWalk \in Walks /\ NoWalk.own = Shared /\ NoWalk.i = 0
    <3>1. <<>> \in Seq(Locks \cup {Nil})
      OBVIOUS
    <3> QED BY <3>1 DEF NoWalk, Walks, Shared
  <2> QED BY <1>2, <2>1 DEF Walks
<1>4. walk' = [walk EXCEPT ![c] = r]
  BY <1>1
<1> HIDE DEF r
<1>5. LockTypeOK'
  BY <1>1, <1>3, <1>4 DEF WalkInv, LockTypeOK
<1>6. ASSUME NEW d \in Cancels, d # c PROVE Ahead(d)'
  BY <1>1, <1>4, <1>6 DEF WalkInv, LockTypeOK, Ahead
<1>7. Ahead(c)'
  <2>1. walk'[c] = r
    BY <1>4 DEF WalkInv, LockTypeOK
  <2>2. ASSUME NEW l \in Listed PROVE 0 < len
    BY <1>2 DEF Listed
  <2>3. /\ walk'[c].own = Shared /\ walk'[c].n = len /\ walk'[c].i = 0
        /\ \A l \in walk'[c].had : 0 < len
    BY <1>3, <2>1, <2>2
  <2>4. len' = len
    BY <1>1
  <2> QED BY <1>2, <2>3, <2>4 DEF Ahead
<1> QED BY <1>5, <1>6, <1>7 DEF WalkInv, ListInv

(* The lock that a call comes to is held no more; if it was the first of   *)
(* two, the other is the second.                                           *)
LEMMA CancelNextWalk ==
  ASSUME WalkInv, ListInv', NEW c \in Cancels, CancelNext(c)
  PROVE  WalkInv'
<1> DEFINE l == Walked(c)[walk[c].i + 1]
<1>1. /\ walk[c].at = "walking" /\ walk[c].i < walk[c].n
      /\ lock' = [lock EXCEPT ![l] = IF @ = "held" THEN "done" ELSE @]
      /\ walk' = [walk EXCEPT ![c].i = @ + 1,
                              ![c].at = IF l \in attached THEN "waiting" ELSE "walking"]
      /\ UNCHANGED <<attached, array, len>>
  BY DEF CancelNext, More
<1>2. /\ \A m \in Locks : lock'[m] = "held" => lock[m] = "held" /\ m # l
      /\ lock' \in [Locks -> {"new", "held", "done", "removed"}]
  <2> HIDE DEF l
  <2> QED BY <1>1 DEF WalkInv, LockTypeOK
<1>3. /\ walk'[c].i = walk[c].i + 1 /\ walk'[c].n = walk[c].n /\ walk'[c].own = walk[c].own
      /\ walk'[c].had = walk[c].had /\ walk'[c].kept = walk[c].kept
      /\ \A d \in Cancels : d # c => walk'[d] = walk[d]
      /\ walk' \in [Cancels -> Walks]
  <2> DEFINE at == IF l \in attached THEN "waiting" ELSE "walking"
             w == walk[c]
             i == walk[c].i + 1
             r == [w EXCEPT !.i = i, !.at = at]
  <2> HIDE DEF l
  <2>1. walk \in [Cancels -> Walks] /\ walk' = [walk EXCEPT ![c] = r]
    BY <1>1 DEF WalkInv, LockTypeOK
  <2>2. at \in {"waiting", "walking"}
    OBVIOUS
  <2>3. w \in Walks
    BY <2>1
  <2>4. i \in Nat
    BY <2>3 DEF Walks
  <2> HIDE DEF at, w, i
  <2>5. r \in Walks
    BY <2>2, <2>3, <2>4 DEF Walks
  <2>6. r.i = i /\ r.n = w.n /\ r.own = w.own /\ r.had = w.had /\ r.kept = w.kept
    BY <2>3 DEF Walks
  <2> HIDE DEF r
  <2> QED BY <2>1, <2>5, <2>6 DEF w, i
<1>4. ASSUME NEW d \in Cancels, d # c PROVE Ahead(d)'
  BY <1>1, <1>2, <1>3, <1>4 DEF WalkInv, LockTypeOK, Ahead
<1>5. Ahead(c)'
  <2> SUFFICES ASSUME walk[c].kept, walk[c].n <= 2
               PROVE  /\ walk[c].own = Shared /\ len <= walk[c].n
                      /\ \A m \in walk[c].had : lock'[m] = "held" =>
                           /\ walk[c].i + 1 < walk[c].n
                           /\ walk[c].i + 1 = 1 => array[2] = m
    BY <1>1, <1>3 DEF Ahead
  <2>1. /\ walk[c].own = Shared /\ len <= walk[c].n
        /\ walk[c].n \in Nat /\ walk[c].i \in Nat /\ len \in Nat
        /\ walk[c].had \subseteq Locks
        /\ \A m \in walk[c].had :
             lock[m] = "held" => walk[c].i < walk[c].n /\ (walk[c].i = 1 => array[2] = m)
    BY <1>1 DEF WalkInv, LockTypeOK, Walks, Ahead
  <2>2. l = array[walk[c].i + 1]
    BY <2>1 DEF Walked
  <2>3. ASSUME NEW m \in walk[c].had, lock'[m] = "held"
        PROVE  walk[c].i = 0 /\ walk[c].n = 2 /\ array[2] = m
    <3>1. m \in Locks /\ lock[m] = "held" /\ m # l
      BY <1>2, <2>1, <2>3
    <3>2. walk[c].i # 1
      BY <2>1, <2>2, <3>1
    <3>3. walk[c].i = 0
      BY <1>1, <2>1, <3>2
    <3>4. PICK p \in 1..len : array[p] = m
      BY <3>1 DEF WalkInv, ListHoldsTheHeld, Listed
    <3>5. p # 1
      BY <2>2, <3>1, <3>3, <3>4
    <3> QED BY <2>1, <3>3, <3>4, <3>5
  <2> QED BY <2>1, <2>3
<1>6. attached' \subseteq Locks
  BY <1>1 DEF WalkInv, LockTypeOK
<1> QED BY <1>1, <1>2, <1>3, <1>4, <1>5, <1>6 DEF WalkInv, ListInv, LockTypeOK

LEMMA CancelEndsWalk ==
  ASSUME WalkInv, ListInv', NEW c \in Cancels, StopWaiting(c) \/ CancelReturns(c)
  PROVE  WalkInv'
<1>1. UNCHANGED <<lock, attached, array, len>>
  BY DEF StopWaiting, CancelReturns
<1>2. CASE StopWaiting(c)
  <2>1. walk[c].at = "waiting" /\ walk' = [walk EXCEPT ![c].at = "walking"]
    BY <1>2 DEF StopWaiting
  <2>2. LockTypeOK'
    BY <1>1, <2>1 DEF WalkInv, LockTypeOK, Walks
  <2>3. \A d \in Cancels : Ahead(d)'
    BY <1>1, <2>1 DEF WalkInv, LockTypeOK, Ahead
  <2> QED BY <2>2, <2>3 DEF WalkInv, ListInv
<1>3. CASE CancelReturns(c)
  <2>1. walk' = [walk EXCEPT ![c] =
                   [walk[c] EXCEPT !.at = "returned", !.n = 0, !.i = 0, !.own = <<>>]]
    BY <1>3 DEF CancelReturns, Shared
  <2>2. LockTypeOK'
    <3> DEFINE r == [walk[c] EXCEPT !.at = "returned", !.n = 0, !.i = 0, !.own = <<>>]
    <3>1. r \in Walks
      <4>1. walk[c] \in Walks
        BY DEF WalkInv, LockTypeOK
      <4>2. <<>> \in Seq(Locks \cup {Nil})
        OBVIOUS
      <4> QED BY <4>1, <4>2 DEF Walks
    <3>2. walk' = [walk EXCEPT ![c] = r]
      BY <2>1
    <3> HIDE DEF r
    <3> QED BY <1>1, <3>1, <3>2 DEF WalkInv, LockTypeOK
  <2>3. \A d \in Cancels : Ahead(d)'
    BY <1>1, <2>1 DEF WalkInv, LockTypeOK, Ahead
  <2> QED BY <2>2, <2>3 DEF WalkInv, ListInv
<1> QED BY <1>2, <1>3

LEMMA WalkInvStep == WalkInv /\ [LockNext]_lockVars => WalkInv'
<1> SUFFICES ASSUME WalkInv, [LockNext]_lockVars PROVE WalkInv'
  OBVIOUS
<1>1. ListInv'
  BY WalkHasList, ListInvStep
<1>2. ASSUME NEW l \in Locks, AttachCommand(l) \/ Release(l) PROVE WalkInv'
  <2>1. /\ attached' \subseteq Locks
        /\ \A m \in Locks : lock'[m] = "held" => lock[m] = "held"
        /\ UNCHANGED <<array, len, walk>>
    BY <1>2 DEF AttachCommand, Release, WalkInv, LockTypeOK
  <2> QED BY <1>1, <2>1, OthersWalk
<1>3. ASSUME NEW l \in Locks, ReadLock(l) \/ WaitAndUnlock(l) PROVE WalkInv'
  BY <1>3, ReadLockWalk, WaitAndUnlockWalk
<1>4. ASSUME NEW c \in Cancels, CancelBegins(c) \/ CancelNext(c) PROVE WalkInv'
  BY <1>1, <1>4, CancelBeginsWalk, CancelNextWalk
<1>5. ASSUME NEW c \in Cancels, StopWaiting(c) \/ CancelReturns(c) PROVE WalkInv'
  BY <1>1, <1>5, CancelEndsWalk
<1>6. CASE UNCHANGED lockVars
  BY <1>1, <1>6, OthersWalk DEF lockVars, WalkInv, LockTypeOK
<1> QED BY <1>2, <1>3, <1>4, <1>5, <1>6 DEF LockNext

LEMMA WalkInvInit == LockInit => WalkInv
<1> SUFFICES ASSUME LockInit PROVE WalkInv
  OBVIOUS
<1>1. <<>> \in Seq(Locks \cup {Nil}) /\ Len(<<>>) = 0
  OBVIOUS
<1>2. LockTypeOK
  BY <1>1 DEF LockInit, LockTypeOK, Walks, NoWalk, Shared
<1>3. ListHoldsTheHeld
  BY DEF LockInit, ListHoldsTheHeld, Listed
<1>4. \A c \in Cancels : Ahead(c)
  BY DEF LockInit, Ahead, NoWalk
<1> QED BY <1>2, <1>3, <1>4 DEF WalkInv

(* A call returns when it is past all of the array it began with: none of  *)
(* the locks it is to cancel is ahead of it any more.                      *)
LEMMA ReturnStep ==
  ASSUME WalkInv, [LockNext]_lockVars
  PROVE  [\A c \in Cancels :
            walk[c].at = "walking" /\ walk'[c].at = "returned" /\ walk[c].n <= 2 /\ walk[c].kept
              => \A l \in walk[c].had : lock'[l] # "held"]_lockVars
<1> SUFFICES ASSUME NEW c \in Cancels, walk[c].at = "walking", walk'[c].at = "returned",
                    walk[c].n <= 2, walk[c].kept, NEW l \in walk[c].had
             PROVE  lock'[l] # "held"
  OBVIOUS
<1>1. CancelReturns(c)
  <2>1. ASSUME NEW m \in Locks, ReadLock(m) PROVE FALSE
    <3>1. walk'[c].at = walk[c].at
      <4>1. \/ walk' = [d \in Cancels |-> [walk[d] EXCEPT !.kept = FALSE]]
            \/ walk' = [d \in Cancels |-> [walk[d] EXCEPT !.kept = FALSE, !.own = Detached(d)]]
        BY <2>1 DEF ReadLock
      <4>2. walk[c] \in Walks
        BY DEF WalkInv, LockTypeOK
      <4>3. \/ walk'[c] = [walk[c] EXCEPT !.kept = FALSE]
            \/ walk'[c] = [walk[c] EXCEPT !.kept = FALSE, !.own = Detached(c)]
        BY <4>1
      <4> QED BY <4>2, <4>3 DEF Walks
    <3> QED BY <3>1
  <2>2. ASSUME NEW m \in Locks, AttachCommand(m) \/ Release(m) \/ WaitAndUnlock(m) PROVE FALSE
    BY <2>2 DEF AttachCommand, Release, WaitAndUnlock
  <2>3. ASSUME NEW d \in Cancels, CancelBegins(d) \/ StopWaiting(d) PROVE FALSE
    BY <2>3 DEF CancelBegins, StopWaiting, NoWalk, WalkInv, LockTypeOK
  <2>4. ASSUME NEW d \in Cancels, CancelNext(d) PROVE FALSE
    <3> DEFINE m == Walked(d)[walk[d].i + 1]
    <3>1. walk' = [walk EXCEPT ![d].i = @ + 1,
                               ![d].at = IF m \in attached THEN "waiting" ELSE "walking"]
      BY <2>4 DEF CancelNext
    <3> HIDE DEF m
    <3> QED BY <3>1 DEF WalkInv, LockTypeOK
  <2>5. ASSUME NEW d \in Cancels, CancelReturns(d), d # c PROVE FALSE
    BY <2>5 DEF CancelReturns, WalkInv, LockTypeOK
  <2>6. CASE UNCHANGED lockVars
    BY <2>6 DEF lockVars
  <2> QED BY <2>1, <2>2, <2>3, <2>4, <2>5, <2>6 DEF LockNext
<1>2. ~(walk[c].i < walk[c].n) /\ lock' = lock
  BY <1>1 DEF CancelReturns, More
<1>3. lock[l] # "held"
  BY <1>2 DEF WalkInv, Ahead
<1> QED BY <1>2, <1>3

(* Before a file that two read at most is deleted, both are told to stop:  *)
(* the removals that their ends cause in the array meanwhile hide neither. *)
THEOREM TwoAreReached == LockSpec => TwoReadersAreCancelled
<1>1. WalkInv /\ [LockNext]_lockVars
        => [\A c \in Cancels :
              walk[c].at = "walking" /\ walk'[c].at = "returned" /\ walk[c].n <= 2 /\ walk[c].kept
                => \A l \in walk[c].had : lock'[l] # "held"]_lockVars
  BY ReturnStep
<1> QED BY <1>1, WalkInvInit, WalkInvStep, PTL DEF LockSpec, TwoReadersAreCancelled

(* The array of the list and the calls that walk over it keep their types. *)
THEOREM LockTypes == LockSpec => []LockTypeOK
<1>1. WalkInv => LockTypeOK
  BY DEF WalkInv
<1> QED BY <1>1, WalkInvInit, WalkInvStep, PTL DEF LockSpec

-----------------------------------------------------------------------------
(* The sessions of the DLNA service *)

\* The inductive invariant: only a monitor that is saving has a expired, only
\* a Stop that is saving has a rest, so that neither is overwritten.
TrackerInv ==
  /\ DlnaTypeOK
  /\ SessionsSavedOnce
  /\ monitor # "saving" => expired = {}
  /\ stop.at # "saving" => rest = {}

\* What the service may do to the sessions without saving one.
TrackerKept ==
  /\ UNCHANGED <<monitor, sessions, expired, rest, begun, ended, linked>>
  /\ cancelled' \in BOOLEAN

LEMMA ServiceKeeps ==
  ASSUME TrackerInv, TrackerKept,
         running' \in BOOLEAN, down' \in BOOLEAN,
         server' \in {"none", "launched", "opening", "serving"},
         startTimer' \in Timers, stopTimer' \in Timers, due' \subseteq {"start", "stop"},
         stop' \in [at : {"none", "waiting", "saving", "stuck"},
                    timed : BOOLEAN, byTimer : BOOLEAN],
         stop'.at = stop.at \/ rest = {}
  PROVE  TrackerInv'
BY DEF TrackerInv, TrackerKept, DlnaTypeOK, SessionsSavedOnce, One

LEMMA StartKeeps ==
  ASSUME TrackerInv, NEW timed \in BOOLEAN, DoStart(timed), due' \subseteq {"start", "stop"}
  PROVE  TrackerInv'
<1>1. TrackerKept /\ stop' = stop /\ down' = down
  BY DEF DoStart, TrackerKept, trackerVars, TrackerInv, DlnaTypeOK
<1>2. /\ running' \in BOOLEAN
      /\ server' \in {"none", "launched", "opening", "serving"}
      /\ startTimer' \in Timers /\ stopTimer' \in Timers
  BY DEF DoStart, TrackerInv, DlnaTypeOK, SetOnce, Timers
<1> QED BY <1>1, <1>2, ServiceKeeps DEF TrackerInv, DlnaTypeOK

LEMMA StopKeeps ==
  ASSUME TrackerInv, NEW timed \in BOOLEAN, NEW byTimer \in BOOLEAN,
         StopIdle(timed) \/ StopRunning(timed, byTimer), due' \subseteq {"start", "stop"}
  PROVE  TrackerInv'
<1>1. CASE StopIdle(timed)
  <2>1. TrackerKept /\ UNCHANGED <<running, server, stopTimer, stop, down>>
    BY <1>1 DEF StopIdle, TrackerKept, trackerVars, TrackerInv, DlnaTypeOK
  <2>2. startTimer' \in Timers
    BY <1>1 DEF StopIdle, TrackerInv, DlnaTypeOK, SetOnce, Timers
  <2> QED BY <2>1, <2>2, ServiceKeeps DEF TrackerInv, DlnaTypeOK
<1>2. CASE StopRunning(timed, byTimer)
  <2>1. TrackerKept /\ UNCHANGED <<running, server, startTimer, stopTimer, down>>
    BY <1>2 DEF StopRunning, TrackerKept
  <2>2. /\ rest = {}
        /\ stop' = [at |-> "waiting", timed |-> timed, byTimer |-> byTimer]
    BY <1>2 DEF StopRunning, Unlocked, NoStop, TrackerInv
  <2> QED BY <2>1, <2>2, ServiceKeeps DEF TrackerInv, DlnaTypeOK
<1> QED BY <1>1, <1>2

(* The timers, and the server that opens. *)
LEMMA TimersKeep ==
  ASSUME TrackerInv,
         StartFails \/ StartTimerFires \/ StopTimerFires \/ ServerOpens \/ ServerPanics
  PROVE  TrackerInv'
<1>1. TrackerKept /\ stop' = stop /\ running' = running
  BY DEF StartFails, StartTimerFires, StopTimerFires, ServerOpens, ServerPanics, TrackerKept,
         trackerVars, serviceVars, TrackerInv, DlnaTypeOK
<1>2. /\ down' \in BOOLEAN /\ due' \subseteq {"start", "stop"}
      /\ server' \in {"none", "launched", "opening", "serving"}
      /\ startTimer' \in Timers /\ stopTimer' \in Timers
  BY DEF StartFails, StartTimerFires, StopTimerFires, ServerOpens, ServerPanics,
         trackerVars, serviceVars, TrackerInv, DlnaTypeOK, Timers
<1> QED BY <1>1, <1>2, ServiceKeeps DEF TrackerInv, DlnaTypeOK

(* The end of Stop: nothing is left to save. *)
LEMMA CloseKeeps ==
  ASSUME TrackerInv, CloseServer \/ CloseTooEarly
  PROVE  TrackerInv'
<1>1. TrackerKept /\ rest = {} /\ due' = due
  BY DEF CloseServer, CloseTooEarly, TrackerKept, trackerVars, TrackerInv, DlnaTypeOK
<1>2. /\ running' \in BOOLEAN /\ down' \in BOOLEAN
      /\ server' \in {"none", "launched", "opening", "serving"}
      /\ startTimer' \in Timers /\ stopTimer' \in Timers
  BY DEF CloseServer, CloseTooEarly, TrackerInv, DlnaTypeOK, SetOnce, Timers
<1>3. stop' \in [at : {"none", "waiting", "saving", "stuck"},
                 timed : BOOLEAN, byTimer : BOOLEAN]
  <2>1. stop' \in {NoStop, [stop EXCEPT !.at = "stuck"]}
    BY DEF CloseServer, CloseTooEarly
  <2>2. NoStop \in [at : {"none", "waiting", "saving", "stuck"}, timed : BOOLEAN, byTimer : BOOLEAN]
    BY DEF NoStop
  <2> QED BY <2>1, <2>2 DEF TrackerInv, DlnaTypeOK
<1> QED BY <1>1, <1>2, <1>3, ServiceKeeps DEF TrackerInv, DlnaTypeOK

(* Stop takes the sessions that have begun, each into the rest.            *)
LEMMA TakeRestKeeps ==
  ASSUME TrackerInv, TakeRest
  PROVE  TrackerInv'
<1>1. /\ rest = {} /\ stop.at = "waiting" /\ stop'.at = "saving"
      /\ rest' = {k \in Keys : sessions[k] # "none"}
      /\ sessions' = [k \in Keys |-> "none"]
      /\ UNCHANGED <<running, server, startTimer, stopTimer, due, monitor, cancelled, expired,
                     begun, ended, linked, down>>
  BY DEF TakeRest, TrackerInv, DlnaTypeOK
<1>2. SessionsSavedOnce'
  BY <1>1 DEF TrackerInv, DlnaTypeOK, SessionsSavedOnce, One
<1>3. DlnaTypeOK'
  BY <1>1 DEF TakeRest, TrackerInv, DlnaTypeOK
<1> QED BY <1>1, <1>2, <1>3 DEF TrackerInv

LEMMA SaveRestKeeps ==
  ASSUME TrackerInv, NEW k \in Keys, SaveRest(k)
  PROVE  TrackerInv'
<1>1. /\ stop.at = "saving" /\ k \in rest
      /\ rest' = rest \ {k}
      /\ \A j \in Keys : ended'[j] = IF j = k THEN ended[j] + 1 ELSE ended[j]
      /\ UNCHANGED <<serviceVars, monitor, cancelled, sessions, expired, begun, linked, down>>
  BY DEF SaveRest, TrackerInv, DlnaTypeOK
<1>2. DlnaTypeOK'
  BY <1>1 DEF SaveRest, serviceVars, TrackerInv, DlnaTypeOK
<1>3. SessionsSavedOnce'
  BY <1>1 DEF TrackerInv, DlnaTypeOK, SessionsSavedOnce, One
<1> QED BY <1>1, <1>2, <1>3 DEF TrackerInv, serviceVars

(* The monitor takes the sessions that have gone quiet, each into the expired. *)
LEMMA ExpireKeeps ==
  ASSUME TrackerInv, Expire
  PROVE  TrackerInv'
<1>1. /\ expired = {} /\ monitor' = "saving"
      /\ expired' = {k \in Keys : sessions[k] = "idle"}
      /\ sessions' = [k \in Keys |-> IF sessions[k] = "idle" THEN "none" ELSE sessions[k]]
      /\ UNCHANGED <<serviceVars, cancelled, rest, begun, ended, linked, down>>
  BY DEF Expire, TrackerInv
<1>2. DlnaTypeOK'
  BY <1>1 DEF serviceVars, TrackerInv, DlnaTypeOK
<1>3. SessionsSavedOnce'
  BY <1>1 DEF TrackerInv, DlnaTypeOK, SessionsSavedOnce, One
<1> QED BY <1>1, <1>2, <1>3 DEF TrackerInv, serviceVars

LEMMA SaveExpiredKeeps ==
  ASSUME TrackerInv, NEW k \in Keys, SaveExpired(k)
  PROVE  TrackerInv'
<1>1. /\ k \in expired
      /\ expired' = expired \ {k}
      /\ monitor' = IF expired' = {} THEN "waiting" ELSE "saving"
      /\ \A j \in Keys : ended'[j] = IF j = k THEN ended[j] + 1 ELSE ended[j]
      /\ UNCHANGED <<serviceVars, cancelled, sessions, rest, begun, linked, down>>
  BY DEF SaveExpired, TrackerInv, DlnaTypeOK
<1>2. DlnaTypeOK'
  BY <1>1 DEF SaveExpired, serviceVars, TrackerInv, DlnaTypeOK
<1>3. SessionsSavedOnce'
  BY <1>1 DEF TrackerInv, DlnaTypeOK, SessionsSavedOnce, One
<1> QED BY <1>1, <1>2, <1>3 DEF TrackerInv, serviceVars

LEMMA RequestKeeps ==
  ASSUME TrackerInv, NEW k \in Keys, RecordRequest(k)
  PROVE  TrackerInv'
<1>1. /\ linked' = linked \cup {k}
      /\ sessions' = [sessions EXCEPT ![k] = "active"]
      /\ UNCHANGED <<serviceVars, monitor, cancelled, expired, rest, ended, down>>
  BY DEF RecordRequest
<1>2. CASE sessions[k] = "none"
  <2>1. begun[k] < MaxSessions /\ begun' = [begun EXCEPT ![k] = @ + 1]
    BY <1>2 DEF RecordRequest
  <2>2. begun' \in [Keys -> 0..MaxSessions]
    BY <2>1, MaxSessionsAssumption DEF TrackerInv, DlnaTypeOK
  <2>3. DlnaTypeOK'
    BY <1>1, <2>2 DEF serviceVars, TrackerInv, DlnaTypeOK
  <2>4. \A q \in Keys : /\ begun'[q] = IF q = k THEN begun[k] + 1 ELSE begun[q]
                        /\ sessions'[q] = IF q = k THEN "active" ELSE sessions[q]
    BY <1>1, <2>1 DEF TrackerInv, DlnaTypeOK
  <2>5. SessionsSavedOnce'
    BY <1>1, <1>2, <2>4 DEF TrackerInv, DlnaTypeOK, SessionsSavedOnce, One
  <2> QED BY <1>1, <2>3, <2>5 DEF TrackerInv, serviceVars
<1>3. CASE sessions[k] # "none"
  <2>1. begun' = begun
    BY <1>3 DEF RecordRequest
  <2>2. DlnaTypeOK'
    BY <1>1, <2>1 DEF serviceVars, TrackerInv, DlnaTypeOK
  <2>3. SessionsSavedOnce'
    BY <1>1, <1>3, <2>1 DEF TrackerInv, DlnaTypeOK, SessionsSavedOnce, One
  <2> QED BY <1>1, <2>2, <2>3 DEF TrackerInv, serviceVars
<1> QED BY <1>2, <1>3

(* A session that goes quiet is one still, and no client's leaving ends it. *)
LEMMA QuietKeeps ==
  ASSUME TrackerInv, NEW k \in Keys, HangUp(k) \/ GoesQuiet(k)
  PROVE  TrackerInv'
<1>1. /\ linked' \subseteq Keys
      /\ \/ sessions' = sessions
         \/ sessions[k] = "active" /\ sessions' = [sessions EXCEPT ![k] = "idle"]
      /\ UNCHANGED <<serviceVars, monitor, cancelled, expired, rest, begun, ended, down>>
  BY DEF HangUp, GoesQuiet, trackerVars, TrackerInv, DlnaTypeOK
<1>2. DlnaTypeOK'
  BY <1>1 DEF serviceVars, TrackerInv, DlnaTypeOK
<1>3. SessionsSavedOnce'
  BY <1>1 DEF TrackerInv, DlnaTypeOK, SessionsSavedOnce, One
<1> QED BY <1>1, <1>2, <1>3 DEF TrackerInv, serviceVars

LEMMA TrackerInvInit == DlnaInit => TrackerInv
<1> SUFFICES ASSUME DlnaInit PROVE TrackerInv
  OBVIOUS
<1>1. DlnaTypeOK
  <2>1. begun \in [Keys -> 0..MaxSessions] /\ ended \in [Keys -> Nat]
    BY MaxSessionsAssumption DEF DlnaInit
  <2>2. stop \in [at : {"none", "waiting", "saving", "stuck"},
                  timed : BOOLEAN, byTimer : BOOLEAN]
    BY DEF DlnaInit, NoStop
  <2> QED BY <2>1, <2>2 DEF DlnaInit, DlnaTypeOK, Timers
<1>2. SessionsSavedOnce
  BY DEF DlnaInit, SessionsSavedOnce, One
<1> QED BY <1>1, <1>2 DEF DlnaInit, TrackerInv, NoStop

LEMMA TrackerInvStep == TrackerInv /\ [DlnaNext]_dlnaVars => TrackerInv'
<1> SUFFICES ASSUME TrackerInv, [DlnaNext]_dlnaVars PROVE TrackerInv'
  OBVIOUS
<1>1. ASSUME NEW timed \in BOOLEAN, Start(timed) \/ Stop(timed) PROVE TrackerInv'
  BY <1>1, StartKeeps, StopKeeps DEF Start, Stop, TrackerInv, DlnaTypeOK
<1>2. ASSUME StartDue \/ StopDue PROVE TrackerInv'
  <2>1. due' \subseteq {"start", "stop"}
    BY <1>2 DEF StartDue, StopDue, TrackerInv, DlnaTypeOK
  <2> QED BY <1>2, <2>1, StartKeeps, StopKeeps DEF StartDue, StopDue
<1>3. CASE StartFails \/ StartTimerFires \/ StopTimerFires \/ ServerOpens \/ ServerPanics
  BY <1>3, TimersKeep
<1>4. CASE CloseServer \/ CloseTooEarly
  BY <1>4, CloseKeeps
<1>5. CASE TakeRest
  BY <1>5, TakeRestKeeps
<1>6. ASSUME NEW k \in Keys, SaveRest(k) PROVE TrackerInv'
  BY <1>6, SaveRestKeeps
<1>7. CASE Monitor
  <2>1. CASE MonitorEnds
    <3>1. /\ monitor' = "gone" /\ expired = {}
          /\ UNCHANGED <<serviceVars, cancelled, sessions, expired, rest, begun, ended, linked, down>>
      BY <2>1 DEF MonitorEnds, TrackerInv
    <3> QED BY <3>1 DEF TrackerInv, DlnaTypeOK, serviceVars, SessionsSavedOnce, One
  <2> QED BY <1>7, <2>1, ExpireKeeps, SaveExpiredKeeps DEF Monitor
<1>8. ASSUME NEW k \in Keys, Client(k) PROVE TrackerInv'
  BY <1>8, RequestKeeps, QuietKeeps DEF Client
<1>9. CASE UNCHANGED dlnaVars
  BY <1>9, ServiceKeeps DEF dlnaVars, serviceVars, trackerVars, TrackerKept, TrackerInv, DlnaTypeOK
<1>10. CASE Service
  BY <1>1, <1>2, <1>3, <1>4, <1>5, <1>6, <1>10 DEF Service
<1> QED BY <1>7, <1>8, <1>9, <1>10 DEF DlnaNext

(* Whatever the timers, the calls of Stop and the rounds of the monitor do *)
(* between them, no session is saved by both and none by neither.          *)
THEOREM EachSessionIsSavedOnce == DlnaSpec => []SessionsSavedOnce
<1>1. TrackerInv => SessionsSavedOnce
  BY DEF TrackerInv
<1> QED BY <1>1, TrackerInvInit, TrackerInvStep, PTL DEF DlnaSpec

(* The service keeps its types. *)
THEOREM DlnaTypes == DlnaSpec => []DlnaTypeOK
<1>1. TrackerInv => DlnaTypeOK
  BY DEF TrackerInv
<1> QED BY <1>1, TrackerInvInit, TrackerInvStep, PTL DEF DlnaSpec
=============================================================================
