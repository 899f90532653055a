--------------------------- MODULE CatalogProofs ---------------------------
(***************************************************************************)
(* The hierarchies of groups and tags have no cycle but the one that the   *)
(* code lets pass, and names are unique: all follows from one lemma about  *)
(* the replacement of the parents and children of a node.  Sub-groups that *)
(* are moved end where they were to be: this follows from one lemma about  *)
(* a row of order indexes.                                                 *)
(***************************************************************************)
EXTENDS Tags, Groups, SequenceTheorems, WellFoundedInduction, TLAPS

-----------------------------------------------------------------------------
(* Hierarchies *)

(* What lies below a node is closed, and so is what lies above. *)
LEMMA DescendantsClosed ==
  ASSUME NEW N, NEW R \in SUBSET (N \X N), NEW n \in N
  PROVE /\ n \in Descendants(R, N, n)
        /\ Descendants(R, N, n) \subseteq N
        /\ DownClosed(R, Descendants(R, N, n))
BY DEF Descendants, DownClosed

LEMMA AncestorsClosed ==
  ASSUME NEW N, NEW R \in SUBSET (N \X N), NEW n \in N
  PROVE /\ n \in Ancestors(R, N, n)
        /\ Ancestors(R, N, n) \subseteq N
        /\ UpClosed(R, Ancestors(R, N, n))
BY DEF Ancestors, UpClosed

(* Relations without a cycle stay so when rows are removed. *)
LEMMA FewerAcyclic ==
  ASSUME NEW N, NEW R, NEW Q, Q \subseteq R, Acyclic(R, N)
  PROVE Acyclic(Q, N)
BY DEF Acyclic

(* When some closed set has the new children of g and none of its new      *)
(* parents, no path leads from a child to a parent: there is no cycle.     *)
LEMMA ReplacedAcyclic ==
  ASSUME NEW N, NEW R \in SUBSET (N \X N), Acyclic(R, N),
         NEW g \in N, NEW P \in SUBSET N, NEW C \in SUBSET N, g \notin P, g \notin C,
         NEW D \in SUBSET N, DownClosed(R, D), C \subseteq D, P \cap D = {}
  PROVE Acyclic(Replaced(R, g, P, C), N)
<1> DEFINE Q == Replaced(R, g, P, C)
<1> SUFFICES ASSUME NEW S \in SUBSET N, S # {},
                    \A n \in S : \E m \in S : <<n, m>> \in Q
             PROVE FALSE
  BY DEF Acyclic
<1>1. \A n, m \in N : n # g /\ m # g /\ <<n, m>> \in Q => <<n, m>> \in R
  BY DEF Replaced
<1>2. \A n \in N : <<n, g>> \in Q => n \in P
  BY DEF Replaced
<1>3. \A m \in N : <<g, m>> \in Q => m \in C
  BY DEF Replaced
<1>4. CASE g \notin S
  <2>1. \A n \in S : \E m \in S : <<n, m>> \in R
    BY <1>1, <1>4
  <2> QED BY <2>1 DEF Acyclic
<1>5. CASE g \in S
  <2> DEFINE X == (S \cap D) \ {g}
  <2>1. PICK c \in S : <<g, c>> \in Q
    BY <1>5
  <2>2. c \in X
    BY <1>3, <2>1
  <2>3. ASSUME NEW n \in X PROVE \E m \in X : <<n, m>> \in R
    <3>1. PICK m \in S : <<n, m>> \in Q
      BY <2>3
    <3>2. m # g
      BY <1>2, <2>3, <3>1
    <3>3. <<n, m>> \in R
      BY <1>1, <2>3, <3>1, <3>2
    <3>4. m \in D
      BY <2>3, <3>3 DEF DownClosed
    <3> QED BY <3>1, <3>2, <3>3, <3>4
  <2>4. X \in SUBSET N /\ X # {}
    BY <2>2
  <2> QED BY <2>3, <2>4 DEF Acyclic
<1> QED BY <1>4, <1>5

-----------------------------------------------------------------------------
(* Groups *)

(* The rows that an update of g leaves: those of other groups, and for g   *)
(* what ApplyTo says.                                                      *)
LEMMA ModifiedContainingRows ==
  ASSUME NEW o \in Orders, NEW g \in GroupIds, NEW u \in UpdateOfGroups,
         NEW c \in GroupIds, NEW s \in GroupIds, ModifiedContaining(o, g, u)[c][s] > 0
  PROVE IF s = g THEN c \in ApplyTo(u, ContainingOf(o, g)) ELSE o[c][s] > 0
<1> USE DEF ModifiedContaining, ApplyTo, ContainingOf, WithContaining, WithoutContaining, Orders
<1>1. CASE u.mode = "SET"
  BY <1>1
<1>2. CASE u.mode = "ADD"
  BY <1>2
<1>3. CASE u.mode = "REMOVE"
  BY <1>3
<1>4. CASE u.mode = "KEEP"
  BY <1>4
<1> QED BY <1>1, <1>2, <1>3, <1>4 DEF UpdateOfGroups

LEMMA ModifiedSubsRows ==
  ASSUME NEW o, NEW g \in GroupIds, NEW u \in UpdateOfGroups,
         \E p \in Orders, v \in UpdateOfGroups : o = ModifiedContaining(p, g, v),
         NEW c \in GroupIds, NEW s \in GroupIds, ModifiedSubs(o, g, u)[c][s] > 0
  PROVE IF c = g THEN s \in ApplyTo(u, SubsOf(o, g)) ELSE o[c][s] > 0
<1>1. DOMAIN o = GroupIds
  BY DEF ModifiedContaining, WithContaining, WithoutContaining, Orders, UpdateOfGroups
<1> USE <1>1 DEF ModifiedSubs, ApplyTo, SubsOf, WithSubs, WithoutSubs
<1>2. CASE u.mode = "SET"
  BY <1>2
<1>3. CASE u.mode = "ADD"
  BY <1>3
<1>4. CASE u.mode = "REMOVE"
  BY <1>4
<1>5. CASE u.mode = "KEEP"
  BY <1>5
<1> QED BY <1>2, <1>3, <1>4, <1>5 DEF UpdateOfGroups

LEMMA UpdatedRelation ==
  ASSUME NEW o \in Orders, NEW g \in GroupIds, NEW v \in GroupChangeType,
         g \notin ApplyTo(v.containing, ContainingOf(o, g))
  PROVE GroupRel(GroupUpdated(o, g, v)) \subseteq
          Replaced(GroupRel(o), g, ApplyTo(v.containing, ContainingOf(o, g)),
                   ApplyTo(v.subs, SubsOf(o, g)))
<1> DEFINE o1 == ModifiedContaining(o, g, v.containing)
           C == ApplyTo(v.containing, ContainingOf(o, g))
           S == ApplyTo(v.subs, SubsOf(o, g))
<1>0. v.containing \in UpdateOfGroups /\ v.subs \in UpdateOfGroups
  BY DEF GroupChangeType
<1> SUFFICES ASSUME NEW c \in GroupIds, NEW s \in GroupIds,
                    ModifiedSubs(o1, g, v.subs)[c][s] > 0
             PROVE <<c, s>> \in Replaced(GroupRel(o), g, C, S)
  BY DEF GroupUpdated, GroupRel
<1>1. IF c = g THEN s \in ApplyTo(v.subs, SubsOf(o1, g)) ELSE o1[c][s] > 0
  BY <1>0, ModifiedSubsRows
<1>2. \A d, t \in GroupIds : o1[d][t] > 0 => IF t = g THEN d \in C ELSE o[d][t] > 0
  BY <1>0, ModifiedContainingRows
<1>3. CASE c = g
  <2>1. SubsOf(o1, g) \subseteq SubsOf(o, g)
    BY <1>2 DEF SubsOf
  <2>2. s \in S
    BY <1>1, <1>3, <2>1 DEF ApplyTo
  <2> QED BY <1>3, <2>2 DEF Replaced
<1>4. CASE c # g /\ s = g
  BY <1>1, <1>2, <1>4 DEF Replaced
<1>5. CASE c # g /\ s # g
  BY <1>1, <1>2, <1>5 DEF Replaced, GroupRel
<1> QED BY <1>3, <1>4, <1>5

(* A relation in which g gets containing groups and sub-groups that        *)
(* validateGroupHierarchy accepts has no cycle.                            *)
LEMMA ValidIsAcyclic ==
  ASSUME NEW o, Acyclic(GroupRel(o), GroupIds), NEW g \in GroupIds,
         NEW C \in SUBSET GroupIds, NEW S \in SUBSET GroupIds, g \notin C, g \notin S,
         HierarchyValid(o, C, S)
  PROVE Acyclic(Replaced(GroupRel(o), g, C, S), GroupIds)
<1>0. GroupRel(o) \in SUBSET (GroupIds \X GroupIds)
  BY DEF GroupRel
<1>1. CASE S = {}
  <2>1. DownClosed(GroupRel(o), {})
    BY DEF DownClosed
  <2> QED BY <1>0, <1>1, <2>1, ReplacedAcyclic
<1>2. CASE S # {}
  <2> DEFINE D == {d \in GroupIds : \A c \in C : d \notin Ancestors(GroupRel(o), GroupIds, c)}
  <2>1. DownClosed(GroupRel(o), D)
    BY <1>0, AncestorsClosed DEF DownClosed, UpClosed
  <2>2. C \cap D = {}
    BY <1>0, AncestorsClosed
  <2>3. S \subseteq D
    BY <1>2 DEF HierarchyValid, InAncestors
  <2>4. D \in SUBSET GroupIds
    OBVIOUS
  <2> HIDE DEF D
  <2> QED BY <1>0, <2>1, <2>2, <2>3, <2>4, ReplacedAcyclic
<1> QED BY <1>1, <1>2

LEMMA UpdateKeepsAcyclic ==
  ASSUME NEW o \in Orders, Acyclic(GroupRel(o), GroupIds), NEW g \in GroupIds,
         NEW v \in GroupChangeType, ValidGroupUpdate(o, g, v), groups \subseteq GroupIds
  PROVE Acyclic(GroupRel(GroupUpdated(o, g, v)), GroupIds)
<1> DEFINE C == ApplyTo(v.containing, ContainingOf(o, g))
           S == ApplyTo(v.subs, SubsOf(o, g))
<1>1. CASE v.containing.mode = "KEEP" /\ v.subs.mode = "KEEP"
  BY <1>1 DEF GroupUpdated, ModifiedContaining, ModifiedSubs
<1>2. CASE v.containing.mode # "KEEP" \/ v.subs.mode # "KEEP"
  <2>1. g \notin C /\ g \notin S /\ HierarchyValid(o, C, S)
    BY <1>2 DEF ValidGroupUpdate
  <2>2. C \in SUBSET GroupIds /\ S \in SUBSET GroupIds
    BY DEF ValidGroupUpdate
  <2>3. Acyclic(Replaced(GroupRel(o), g, C, S), GroupIds)
    BY <2>1, <2>2, ValidIsAcyclic
  <2> QED BY <2>1, <2>3, UpdatedRelation, FewerAcyclic
<1> QED BY <1>1, <1>2

(* The rows are of groups that exist. *)
RowsExist(o) == GroupRel(o) \subseteq groups \X groups

LEMMA UpdateKeepsRows ==
  ASSUME NEW o \in Orders, NEW g \in GroupIds, NEW v \in GroupChangeType,
         ValidGroupUpdate(o, g, v), RowsExist(o)
  PROVE RowsExist(GroupUpdated(o, g, v))
<1> DEFINE C == ApplyTo(v.containing, ContainingOf(o, g))
           S == ApplyTo(v.subs, SubsOf(o, g))
<1>1. CASE v.containing.mode = "KEEP" /\ v.subs.mode = "KEEP"
  BY <1>1 DEF GroupUpdated, ModifiedContaining, ModifiedSubs
<1>2. CASE v.containing.mode # "KEEP" \/ v.subs.mode # "KEEP"
  <2>1. g \notin C /\ g \in groups /\ C \cup S \subseteq groups
    BY <1>2 DEF ValidGroupUpdate
  <2>2. Replaced(GroupRel(o), g, C, S) \subseteq groups \X groups
    BY <2>1 DEF Replaced, RowsExist
  <2> QED BY <2>1, <2>2, UpdatedRelation DEF RowsExist
<1> QED BY <1>1, <1>2

(* GroupsAcyclic with the relation that a call which fails puts back, and  *)
(* the foreign keys, which say that a new group has no rows yet.           *)
GroupInv ==
  /\ GroupTypeOK
  /\ GroupsAcyclic
  /\ RowsExist(order)
  /\ call.kind # "none" => Acyclic(GroupRel(call.saved), GroupIds) /\ RowsExist(call.saved)

LEMMA EmptyAcyclic == ASSUME NEW N PROVE Acyclic({}, N)
BY DEF Acyclic

LEMMA Bounded == ASSUME NEW o, WithinBounds(o) PROVE o \in Orders
BY LastIndexAssumption DEF WithinBounds, Orders

LEMMA CallKinds == ASSUME GroupTypeOK
                   PROVE /\ call = NoCall <=> call.kind = "none"
                         /\ call # NoCall => call \in CallType
BY DEF GroupTypeOK, CallType, NoCall

LEMMA GroupInvInit == GroupInit => GroupInv
<1> SUFFICES ASSUME GroupInit PROVE GroupInv
  OBVIOUS
<1>1. GroupRel(order) = {}
  BY DEF GroupInit, NoOrder, GroupRel
<1>2. order \in Orders
  BY DEF GroupInit, NoOrder, Orders
<1>3. call.kind = "none"
  BY DEF GroupInit, NoCall
<1> QED BY <1>1, <1>2, <1>3, EmptyAcyclic
        DEF GroupInit, GroupInv, GroupTypeOK, GroupsAcyclic, RowsExist

LEMMA GroupCreateKeeps ==
  ASSUME GroupInv, NEW g \in GroupIds, NEW C \in GroupLists, NEW S \in GroupLists,
         GroupCreate(g, C, S)
  PROVE GroupInv'
<1> DEFINE o1 == WithContaining(order, g, C)
           Q == Replaced(GroupRel(order), g, ToSet(C), ToSet(S))
<1>1. ToSet(C) \in SUBSET GroupIds /\ ToSet(S) \in SUBSET GroupIds
  BY ListsAssumption DEF ToSet
<1>2. g \notin ToSet(C) /\ g \notin ToSet(S)
  BY DEF GroupCreate
<1>3. Acyclic(Q, GroupIds)
  BY <1>1, <1>2, ValidIsAcyclic DEF GroupInv, GroupsAcyclic, GroupCreate
<1>4. order \in Orders /\ groups \subseteq GroupIds
  BY DEF GroupInv, GroupTypeOK
<1>5. GroupRel(order') \subseteq Q
  <2> SUFFICES ASSUME NEW c \in GroupIds, NEW s \in GroupIds, order'[c][s] > 0
               PROVE <<c, s>> \in Q
    BY DEF GroupRel
  <2>1. order' = WithSubs(o1, g, S)
    BY DEF GroupCreate
  <2>2. DOMAIN o1 = GroupIds
    BY DEF WithContaining
  <2>3. (c = g /\ s \in ToSet(S)) \/ o1[c][s] > 0
    BY <2>1, <2>2 DEF WithSubs
  <2>4. o1[c][s] > 0 => (c \in ToSet(C) /\ s = g) \/ order[c][s] > 0
    BY <1>4 DEF WithContaining, Orders
  <2>5. order[c][s] > 0 => <<c, s>> \in GroupRel(order) /\ c # g /\ s # g
    BY DEF GroupRel, GroupInv, RowsExist, GroupCreate
  <2> QED BY <2>3, <2>4, <2>5 DEF Replaced
<1>6. groups' = groups \cup {g} /\ ToSet(C) \cup ToSet(S) \subseteq groups /\ UNCHANGED call
  BY DEF GroupCreate
<1>7. RowsExist(order)'
  BY <1>5, <1>6 DEF RowsExist, GroupInv, Replaced
<1>8. order' \in Orders
  BY Bounded DEF GroupCreate
<1>9. Acyclic(GroupRel(order'), GroupIds)
  BY <1>3, <1>5, FewerAcyclic
<1>10. call = NoCall
  BY DEF GroupCreate, NoOneCalls
<1> QED BY <1>4, <1>6, <1>7, <1>8, <1>9, <1>10
        DEF GroupInv, GroupTypeOK, GroupsAcyclic, NoCall

(* A step of a call, or a mutation at once, that leaves fewer rows.        *)
LEMMA FewerRowsKeep ==
  ASSUME GroupInv, NEW o, RowsExist(o), Acyclic(GroupRel(o), GroupIds),
         order' \in Orders, GroupRel(order') \subseteq GroupRel(o), UNCHANGED groups,
         call' = NoCall \/ (call' \in CallType /\ call.kind # "none" /\ call'.saved = call.saved)
  PROVE GroupInv'
<1>1. Acyclic(GroupRel(order'), GroupIds)
  BY FewerAcyclic
<1> QED BY <1>1 DEF GroupInv, GroupTypeOK, GroupsAcyclic, RowsExist, NoCall

LEMMA GroupUpdateKeeps ==
  ASSUME GroupInv, NEW g \in GroupIds, NEW v \in GroupChanges, GroupUpdate(g, v)
  PROVE GroupInv'
<1>1. v \in GroupChangeType
  BY GroupChangesAssumption
<1>2. order \in Orders /\ groups \subseteq GroupIds /\ RowsExist(order)
  BY DEF GroupInv, GroupTypeOK
<1>3. Acyclic(GroupRel(order'), GroupIds) /\ RowsExist(order)'
  <2>1. order' = GroupUpdated(order, g, v) /\ groups' = groups
    BY DEF GroupUpdate
  <2> QED BY <1>1, <1>2, <2>1, UpdateKeepsAcyclic, UpdateKeepsRows
          DEF GroupUpdate, GroupInv, GroupsAcyclic, RowsExist
<1>4. order' \in Orders
  BY Bounded DEF GroupUpdate
<1>5. call = NoCall /\ call' = NoCall /\ UNCHANGED groups
  BY DEF GroupUpdate, NoOneCalls
<1> QED BY <1>2, <1>3, <1>4, <1>5 DEF GroupInv, GroupTypeOK, GroupsAcyclic, NoCall

LEMMA BulkGroupUpdateKeeps ==
  ASSUME GroupInv, NEW ids \in BulkGroups, NEW v \in BulkGroupChanges, BulkGroupUpdate(ids, v)
  PROVE GroupInv'
<1>1. v \in GroupChangeType /\ ids \in Seq(GroupIds)
  BY GroupChangesAssumption, ListsAssumption
<1>2. call' = [NoCall EXCEPT !.kind = "update", !.ids = ids, !.left = ids, !.change = v,
                             !.saved = order]
  BY DEF BulkGroupUpdate
<1>3. call' \in CallType /\ call'.saved = order
  BY <1>1, <1>2 DEF NoCall, CallType, GroupInv, GroupTypeOK
<1> QED BY <1>3 DEF BulkGroupUpdate, GroupInv, GroupTypeOK, GroupsAcyclic, RowsExist

LEMMA ReorderSubGroupsKeeps ==
  ASSUME GroupInv, NEW g \in GroupIds, NEW p \in GroupIds, NEW ids \in GroupLists,
         NEW after \in BOOLEAN, ReorderSubGroups(g, ids, p, after)
  PROVE GroupInv'
<1>1. ids \in Seq(GroupIds)
  BY ListsAssumption
<1>2. call' = [NoCall EXCEPT !.kind = "reorder", !.ids = ids, !.left = ids, !.group = {g},
                             !.at = {p}, !.after = after, !.saved = order]
  BY DEF ReorderSubGroups
<1>3. KeepAll \in UpdateOfGroups
  BY DEF KeepAll, UpdateOfGroups
<1>4. call' \in CallType /\ call'.saved = order
  BY <1>1, <1>2, <1>3 DEF NoCall, CallType, GroupChangeType, GroupInv, GroupTypeOK
<1> QED BY <1>4 DEF ReorderSubGroups, GroupInv, GroupTypeOK, GroupsAcyclic, RowsExist

LEMMA GroupsDestroyKeeps ==
  ASSUME GroupInv, NEW D \in SUBSET GroupIds, GroupsDestroy(D)
  PROVE GroupInv'
<1>1. order' = [c \in GroupIds |-> [s \in GroupIds |->
                  IF c \in D \/ s \in D THEN 0 ELSE order[c][s]]]
  BY DEF GroupsDestroy
<1>2. order \in Orders
  BY DEF GroupInv, GroupTypeOK
<1>3. order' \in Orders
  BY <1>1, <1>2 DEF Orders
<1>4. GroupRel(order') = {e \in GroupRel(order) : e[1] \notin D /\ e[2] \notin D}
  BY <1>1, <1>2 DEF GroupRel, Orders
<1>5. groups' = groups \ D /\ call = NoCall /\ call' = NoCall
  BY DEF GroupsDestroy, NoOneCalls
<1>6. Acyclic(GroupRel(order'), GroupIds)
  BY <1>4, FewerAcyclic DEF GroupInv, GroupsAcyclic
<1> QED BY <1>3, <1>4, <1>5, <1>6 DEF GroupInv, GroupTypeOK, GroupsAcyclic, RowsExist, NoCall

LEMMA AddGroupSubGroupsKeeps ==
  ASSUME GroupInv, NEW g \in GroupIds, NEW ids \in GroupLists, NEW insert \in 0..LastIndex,
         AddGroupSubGroups(g, ids, insert)
  PROVE GroupInv'
<1> DEFINE v == [containing |-> KeepAll, subs |-> [mode |-> "ADD", list |-> ids]]
           At == {s \in GroupIds : insert > 0 /\ WithSubs(order, g, ids)[g][s] = insert}
<1>1. ids \in Seq(GroupIds) /\ KeepAll \in UpdateOfGroups
  BY ListsAssumption DEF KeepAll, UpdateOfGroups
<1>2. v \in GroupChangeType
  BY <1>1 DEF GroupChangeType, UpdateOfGroups
<1>3. order \in Orders /\ groups \subseteq GroupIds
  BY DEF GroupInv, GroupTypeOK
<1>4. order' = GroupUpdated(order, g, v)
  <2>1. order' = WithSubs(order, g, ids)
    BY DEF AddGroupSubGroups
  <2> QED BY <2>1 DEF GroupUpdated, ModifiedContaining, ModifiedSubs, KeepAll
<1>5. ValidGroupUpdate(order, g, v)
  BY DEF AddGroupSubGroups
<1>6. Acyclic(GroupRel(order'), GroupIds)
  BY <1>2, <1>3, <1>4, <1>5, UpdateKeepsAcyclic DEF GroupInv, GroupsAcyclic
<1>7. RowsExist(order)'
  BY <1>2, <1>3, <1>4, <1>5, UpdateKeepsRows DEF GroupInv, RowsExist, AddGroupSubGroups
<1>8. order' \in Orders
  BY Bounded DEF AddGroupSubGroups
<1>9. \/ call' = NoCall
      \/ call' = [NoCall EXCEPT !.kind = "reorder", !.ids = ids, !.left = ids, !.group = {g},
                                !.at = At, !.saved = order]
  BY DEF AddGroupSubGroups
<1>10. call' = NoCall \/ (call' \in CallType /\ call'.saved = order)
  <2> HIDE DEF At
  <2>1. At \in SUBSET GroupIds
    BY DEF At
  <2>2. CASE call' = [NoCall EXCEPT !.kind = "reorder", !.ids = ids, !.left = ids,
                                    !.group = {g}, !.at = At, !.saved = order]
    BY <1>1, <1>3, <2>1, <2>2 DEF NoCall, CallType, GroupChangeType
  <2> QED BY <1>9, <2>2
<1>11. UNCHANGED groups
  BY DEF AddGroupSubGroups
<1> QED BY <1>3, <1>6, <1>7, <1>8, <1>10, <1>11
        DEF GroupInv, GroupTypeOK, GroupsAcyclic, RowsExist, NoCall

LEMMA RemoveGroupSubGroupsKeeps ==
  ASSUME GroupInv, NEW g \in GroupIds, NEW S \in SUBSET GroupIds, RemoveGroupSubGroups(g, S)
  PROVE GroupInv'
<1>1. order' = WithoutSubs(order, g, S) /\ UNCHANGED groups /\ call = NoCall /\ call' = NoCall
  BY DEF RemoveGroupSubGroups, NoOneCalls
<1>2. order \in Orders
  BY DEF GroupInv, GroupTypeOK
<1>3. order' \in Orders
  BY <1>1, <1>2 DEF WithoutSubs, Orders
<1>4. GroupRel(order') \subseteq GroupRel(order)
  BY <1>1, <1>2 DEF WithoutSubs, GroupRel, Orders
<1> QED BY <1>1, <1>3, <1>4, FewerRowsKeep DEF GroupInv, GroupsAcyclic

(* The call after one of its groups. *)
LEMMA CallGoesOn ==
  ASSUME GroupInv, call.kind # "none", call.left # <<>>, call' = [call EXCEPT !.left = Tail(@)]
  PROVE /\ call \in CallType /\ Head(call.left) \in GroupIds
        /\ call' \in CallType /\ call'.saved = call.saved
<1>1. call \in CallType
  BY CallKinds DEF GroupInv
<1>2. Head(call.left) \in GroupIds /\ Tail(call.left) \in Seq(GroupIds)
  BY <1>1 DEF CallType
<1> QED BY <1>1, <1>2 DEF CallType

LEMMA UpdateNextKeeps == ASSUME GroupInv, UpdateNext PROVE GroupInv'
<1> DEFINE g == Head(call.left)
<1>1. call.kind # "none" /\ call.left # <<>> /\ call' = [call EXCEPT !.left = Tail(@)]
  BY DEF UpdateNext
<1>2. call \in CallType /\ g \in GroupIds /\ call' \in CallType /\ call'.saved = call.saved
  BY <1>1, CallGoesOn
<1>3. call.change \in GroupChangeType
  BY <1>2 DEF CallType
<1>4. order \in Orders /\ groups \subseteq GroupIds
  BY DEF GroupInv, GroupTypeOK
<1>5. ValidGroupUpdate(order, g, call.change) /\ order' = GroupUpdated(order, g, call.change)
  BY DEF UpdateNext
<1> HIDE DEF g
<1>6. Acyclic(GroupRel(order'), GroupIds)
  BY <1>2, <1>3, <1>4, <1>5, UpdateKeepsAcyclic DEF GroupInv, GroupsAcyclic
<1>7. RowsExist(order')
  BY <1>2, <1>3, <1>4, <1>5, UpdateKeepsRows DEF GroupInv
<1>8. order' \in Orders /\ UNCHANGED groups
  BY Bounded DEF UpdateNext
<1> QED BY <1>1, <1>2, <1>6, <1>7, <1>8, FewerRowsKeep

LEMMA ReorderNextKeeps == ASSUME GroupInv, ReorderNext PROVE GroupInv'
<1>1. PICK g \in call.group, p \in call.at :
        /\ call.kind = "reorder" /\ call.left # <<>>
        /\ order' = [order EXCEPT ![g] = Reordered(order[g], Head(call.left), p, call.after)]
        /\ WithinBounds(order')
        /\ order[g][p] > 0
        /\ call' = [call EXCEPT !.left = Tail(@)]
        /\ UNCHANGED groups
  BY DEF ReorderNext
<1>2. call.kind # "none" /\ call.left # <<>>
  BY <1>1
<1>3. call \in CallType /\ Head(call.left) \in GroupIds
      /\ call' \in CallType /\ call'.saved = call.saved
  BY <1>1, <1>2, CallGoesOn
<1>4. order \in Orders /\ g \in GroupIds
  BY <1>3 DEF GroupInv, GroupTypeOK, CallType
<1>5. GroupRel(order') \subseteq GroupRel(order)
  <2> SUFFICES ASSUME NEW c \in GroupIds, NEW s \in GroupIds, order'[c][s] > 0
               PROVE order[c][s] > 0
    BY DEF GroupRel
  <2>1. CASE c # g
    BY <1>1, <1>4, <2>1 DEF Orders
  <2>2. CASE c = g
    <3> DEFINE row == order[g]
               n == Head(call.left)
               i == IF call.after THEN IndexAfter(row, row[p]) ELSE row[p]
               Shifted == Increment(row, i)
    <3>1. row \in [GroupIds -> Nat]
      BY <1>4 DEF Orders
    <3>2. order'[g] = IF row[n] > 0 THEN [Shifted EXCEPT ![n] = i] ELSE Shifted
      BY <1>1, <1>4 DEF Reordered, Orders
    <3>3. Shifted[s] = IF row[s] > 0 /\ row[s] >= i THEN row[s] + 1 ELSE row[s]
      BY DEF Increment
    <3>4. order'[c][s] > 0
      OBVIOUS
    <3> HIDE DEF row, n, i, Shifted
    <3>5. Shifted[s] > 0 => row[s] > 0
      BY <3>1, <3>3
    <3>6. row[s] > 0
      <4>1. CASE row[n] > 0 /\ s = n
        BY <4>1
      <4>2. CASE ~(row[n] > 0) \/ s # n
        <5>1. order'[g][s] = Shifted[s]
          BY <3>2, <4>2
        <5> QED BY <2>2, <3>4, <3>5, <5>1
      <4> QED BY <4>1, <4>2
    <3> QED BY <2>2, <3>6 DEF row
  <2> QED BY <2>1, <2>2
<1>6. order' \in Orders
  BY <1>1, Bounded
<1> QED BY <1>1, <1>2, <1>3, <1>5, <1>6, FewerRowsKeep DEF GroupInv, GroupsAcyclic

LEMMA CallEndsKeeps ==
  ASSUME GroupInv, CallReturns \/ CallFails
  PROVE GroupInv'
<1>1. CASE CallReturns
  BY <1>1, FewerRowsKeep DEF CallReturns, GroupInv, GroupTypeOK, GroupsAcyclic
<1>2. CASE CallFails
  <2>1. call \in CallType /\ call.kind # "none"
    BY <1>2, CallKinds DEF CallFails, NoOneCalls, GroupInv
  <2>2. order' = call.saved /\ call' = NoCall /\ UNCHANGED groups
    BY <1>2 DEF CallFails
  <2>3. order' \in Orders
    BY <2>1, <2>2 DEF CallType
  <2> QED BY <2>1, <2>2, <2>3, FewerRowsKeep DEF GroupInv
<1> QED BY <1>1, <1>2

LEMMA GroupInvNext == GroupInv /\ [GroupNext]_groupVars => GroupInv'
<1> SUFFICES ASSUME GroupInv, [GroupNext]_groupVars PROVE GroupInv'
  OBVIOUS
<1>1. CASE \E g \in GroupIds, C, S \in GroupLists : GroupCreate(g, C, S)
  BY <1>1, GroupCreateKeeps
<1>2. CASE \E g \in GroupIds, v \in GroupChanges : GroupUpdate(g, v)
  BY <1>2, GroupUpdateKeeps
<1>3. CASE \E ids \in BulkGroups, v \in BulkGroupChanges : BulkGroupUpdate(ids, v)
  BY <1>3, BulkGroupUpdateKeeps
<1>4. CASE \E D \in SUBSET GroupIds : GroupsDestroy(D)
  BY <1>4, GroupsDestroyKeeps
<1>5. CASE \E g, p \in GroupIds, ids \in GroupLists, after \in BOOLEAN :
             ReorderSubGroups(g, ids, p, after)
  BY <1>5, ReorderSubGroupsKeeps
<1>6. CASE \E g \in GroupIds, ids \in GroupLists, insert \in 0..LastIndex :
             AddGroupSubGroups(g, ids, insert)
  BY <1>6, AddGroupSubGroupsKeeps
<1>7. CASE \E g \in GroupIds, S \in SUBSET GroupIds : RemoveGroupSubGroups(g, S)
  BY <1>7, RemoveGroupSubGroupsKeeps
<1>8. CASE UpdateNext
  BY <1>8, UpdateNextKeeps
<1>9. CASE ReorderNext
  BY <1>9, ReorderNextKeeps
<1>10. CASE CallReturns \/ CallFails
  BY <1>10, CallEndsKeeps
<1>11. CASE UNCHANGED groupVars
  BY <1>11 DEF groupVars, GroupInv, GroupTypeOK, GroupsAcyclic, RowsExist
<1> QED BY <1>1, <1>2, <1>3, <1>4, <1>5, <1>6, <1>7, <1>8, <1>9, <1>10, <1>11 DEF GroupNext

(* The hierarchy of the groups has no cycle: what Service.Create, Update-  *)
(* Partial and AddSubGroups validate is enough, in single and bulk updates *)
(* and after those that were undone.                                       *)
THEOREM GroupsStayAcyclic == GroupSpec => []GroupsAcyclic
<1>1. GroupInv => GroupsAcyclic
  BY DEF GroupInv
<1> QED BY <1>1, GroupInvInit, GroupInvNext, PTL DEF GroupSpec

(* A row of groups_relations is of two groups that exist, in every state   *)
(* and in what is put back: a new group never finds old sub-groups.        *)
THEOREM GroupRowsExist == GroupSpec => []RowsExist(order)
<1>1. GroupInv => RowsExist(order)
  BY DEF GroupInv
<1> QED BY <1>1, GroupInvInit, GroupInvNext, PTL DEF GroupSpec

-----------------------------------------------------------------------------
(* The order of sub-groups.  Their indexes are a set of naturals with a    *)
(* bound, so MaxOrderIndex and IndexAfter find what they look for.         *)
Below == {e \in Nat \X Nat : e[1] < e[2]}

LEMMA LeastOf ==
  ASSUME NEW T \in SUBSET Nat, T # {}
  PROVE  \E x \in T : \A y \in T : x <= y
<1>1. IsWellFoundedOn(Below, Nat)
  BY NatLessThanWellFounded DEF OpToRel, Below
<1>2. PICK x \in T : \A y \in T : ~(<<y, x>> \in Below)
  BY <1>1, WFMin
<1>3. ASSUME NEW y \in T PROVE x <= y
  <2>1. x \in Nat /\ y \in Nat /\ ~(<<y, x>> \in Below)
    BY <1>2
  <2>2. <<y, x>> \in Below <=> y < x
    BY <2>1 DEF Below
  <2> QED BY <2>1, <2>2
<1> QED BY <1>3

LEMMA GreatestOf ==
  ASSUME NEW T \in SUBSET Nat, T # {}, NEW b \in Nat, \A y \in T : y <= b
  PROVE  \E x \in T : \A y \in T : y <= x
<1> DEFINE D == {d \in Nat : b - d \in T}
<1>1. D \in SUBSET Nat
  OBVIOUS
<1>2. D # {}
  <2>1. PICK y \in T : TRUE
    OBVIOUS
  <2>2. b - y \in Nat /\ b - (b - y) = y
    BY <2>1
  <2>3. b - y \in D
    BY <2>2
  <2> QED BY <2>3
<1> HIDE DEF D
<1>3. PICK d \in D : \A e \in D : d <= e
  BY <1>1, <1>2, LeastOf
<1>4. b - d \in T /\ d \in Nat
  BY <1>3 DEF D
<1>5. ASSUME NEW y \in T PROVE y <= b - d
  <2>1. b - y \in Nat /\ b - (b - y) = y
    OBVIOUS
  <2>2. b - y \in D
    BY <2>1 DEF D
  <2> QED BY <1>3, <1>4, <2>1, <2>2
<1> QED BY <1>4, <1>5

\* A row of the table: no two sub-groups have one index, none one above b.
RowOK(row) ==
  /\ row \in [GroupIds -> Nat]
  /\ \A s, t \in GroupIds : row[s] > 0 /\ row[s] = row[t] => s = t
  /\ \E b \in Nat : \A s \in GroupIds : row[s] <= b

LEMMA MaxOrderIndexIs ==
  ASSUME NEW row, RowOK(row)
  PROVE  MaxOrderIndex(row) \in Nat /\ \A s \in GroupIds : row[s] <= MaxOrderIndex(row)
<1> DEFINE T == {0} \cup {row[s] : s \in GroupIds}
<1>1. PICK b \in Nat : \A s \in GroupIds : row[s] <= b
  BY DEF RowOK
<1>2. T \in SUBSET Nat /\ T # {} /\ \A y \in T : y <= b
  BY <1>1 DEF RowOK
<1>3. \E x \in T : \A y \in T : y <= x
  <2> HIDE DEF T
  <2> QED BY <1>1, <1>2, GreatestOf
<1>4. \E x \in T : \A s \in GroupIds : row[s] <= x
  BY <1>3
<1>5. MaxOrderIndex(row) \in T /\ \A s \in GroupIds : row[s] <= MaxOrderIndex(row)
  BY <1>4 DEF MaxOrderIndex
<1> QED BY <1>2, <1>5

LEMMA PositionInIs ==
  ASSUME NEW list \in Seq(GroupIds), NEW s \in ToSet(list)
  PROVE  PositionIn(list, s) \in 1..Len(list) /\ list[PositionIn(list, s)] = s
<1>1. \E i \in DOMAIN list : list[i] = s
  BY DEF ToSet
<1>2. PositionIn(list, s) \in DOMAIN list /\ list[PositionIn(list, s)] = s
  BY <1>1 DEF PositionIn
<1> QED BY <1>2

LEMMA IndexAfterIs ==
  ASSUME NEW row \in [GroupIds -> Nat], NEW i \in Nat
  PROVE  /\ IndexAfter(row, i) \in Nat /\ i < IndexAfter(row, i)
         /\ \A s \in GroupIds : ~(i < row[s] /\ row[s] < IndexAfter(row, i))
<1> DEFINE Later == {row[s] : s \in {x \in GroupIds : row[x] > i}}
<1>1. CASE Later = {}
  <2>1. IndexAfter(row, i) = i + 1
    BY <1>1 DEF IndexAfter
  <2> QED BY <1>1, <2>1
<1>2. CASE Later # {}
  <2>1. Later \in SUBSET Nat
    OBVIOUS
  <2>2. \E j \in Later : \A k \in Later : j <= k
    <3> HIDE DEF Later
    <3> QED BY <1>2, <2>1, LeastOf
  <2>3. /\ IndexAfter(row, i) \in Later
        /\ \A k \in Later : IndexAfter(row, i) <= k
    BY <1>2, <2>2 DEF IndexAfter
  <2>4. \A x \in GroupIds : row[x] > i => row[x] \in Later
    OBVIOUS
  <2>5. IndexAfter(row, i) \in Nat /\ i < IndexAfter(row, i)
    BY <2>3
  <2> HIDE DEF Later
  <2>6. ASSUME NEW s \in GroupIds, i < row[s] PROVE ~(row[s] < IndexAfter(row, i))
    BY <2>1, <2>3, <2>4, <2>5, <2>6
  <2> QED BY <2>5, <2>6
<1> QED BY <1>1, <1>2

(* What the store does to one row keeps it in order. *)
LEMMA AppendedRow ==
  ASSUME NEW row, RowOK(row), NEW list \in Seq(GroupIds), NEW n,
         n = [s \in GroupIds |->
                IF s \in ToSet(list) THEN MaxOrderIndex(row) + PositionIn(list, s) ELSE row[s]]
  PROVE  RowOK(n) /\ \A s \in GroupIds : row[s] > 0 /\ s \notin ToSet(list) => n[s] = row[s]
<1> DEFINE m == MaxOrderIndex(row)
<1>1. m \in Nat /\ row \in [GroupIds -> Nat] /\ \A s \in GroupIds : row[s] <= m
  BY MaxOrderIndexIs DEF RowOK
<1>2. \A s \in ToSet(list) : PositionIn(list, s) \in 1..Len(list) /\ list[PositionIn(list, s)] = s
  BY PositionInIs
<1>3. \A s \in GroupIds :
        n[s] = IF s \in ToSet(list) THEN m + PositionIn(list, s) ELSE row[s]
  OBVIOUS
<1>4. Len(list) \in Nat
  OBVIOUS
<1> HIDE DEF m
<1>5. n \in [GroupIds -> Nat]
  <2>1. \A s \in GroupIds : n[s] \in Nat
    BY <1>1, <1>2, <1>3, <1>4
  <2> QED BY <2>1
<1>6. ASSUME NEW s \in GroupIds, NEW t \in GroupIds, n[s] > 0, n[s] = n[t] PROVE s = t
  <2>1. CASE s \in ToSet(list) /\ t \in ToSet(list)
    BY <1>1, <1>2, <1>3, <1>4, <1>6, <2>1
  <2>2. CASE s \notin ToSet(list) /\ t \notin ToSet(list)
    BY <1>3, <1>6, <2>2 DEF RowOK
  <2>3. CASE s \in ToSet(list) /\ t \notin ToSet(list)
    BY <1>1, <1>2, <1>3, <1>4, <1>6, <2>3
  <2>4. CASE s \notin ToSet(list) /\ t \in ToSet(list)
    BY <1>1, <1>2, <1>3, <1>4, <1>6, <2>4
  <2> QED BY <2>1, <2>2, <2>3, <2>4
<1>7. m + Len(list) \in Nat /\ \A s \in GroupIds : n[s] <= m + Len(list)
  BY <1>1, <1>2, <1>3, <1>4
<1> QED BY <1>3, <1>5, <1>6, <1>7 DEF RowOK

LEMMA LastRow ==
  ASSUME NEW row, RowOK(row), NEW g \in GroupIds
  PROVE  RowOK([row EXCEPT ![g] = MaxOrderIndex(row) + 1])
<1> DEFINE m == MaxOrderIndex(row)
           n == [row EXCEPT ![g] = m + 1]
<1>1. m \in Nat /\ row \in [GroupIds -> Nat] /\ \A s \in GroupIds : row[s] <= m
  BY MaxOrderIndexIs DEF RowOK
<1> HIDE DEF m
<1>2. n \in [GroupIds -> Nat] /\ \A s \in GroupIds : n[s] = IF s = g THEN m + 1 ELSE row[s]
  BY <1>1
<1> HIDE DEF n
<1>3. ASSUME NEW s \in GroupIds, NEW t \in GroupIds, n[s] > 0, n[s] = n[t] PROVE s = t
  BY <1>1, <1>2, <1>3 DEF RowOK
<1>4. m + 1 \in Nat /\ \A s \in GroupIds : n[s] <= m + 1
  BY <1>1, <1>2
<1>5. RowOK(n)
  BY <1>2, <1>3, <1>4 DEF RowOK
<1> QED BY <1>5 DEF m, n

LEMMA FewerRow ==
  ASSUME NEW row, RowOK(row), NEW n \in [GroupIds -> Nat],
         \A s \in GroupIds : n[s] \in {0, row[s]}
  PROVE  RowOK(n)
<1>1. \A s \in GroupIds : row[s] \in Nat
  BY DEF RowOK
<1>2. PICK b \in Nat : \A s \in GroupIds : row[s] <= b
  BY DEF RowOK
<1>3. \A s \in GroupIds : n[s] <= b
  BY <1>1, <1>2
<1>4. \A s, t \in GroupIds : n[s] > 0 /\ n[s] = n[t] => s = t
  BY <1>1 DEF RowOK
<1> QED BY <1>3, <1>4 DEF RowOK

(* The order of all: every row is. *)
RowsOK(o) == o \in Orders /\ \A c \in GroupIds : RowOK(o[c])

LEMMA WithSubsOK ==
  ASSUME NEW o, RowsOK(o), NEW c \in GroupIds, NEW list \in Seq(GroupIds)
  PROVE  RowsOK(WithSubs(o, c, list))
<1> DEFINE n == [s \in GroupIds |->
                   IF s \in ToSet(list) THEN MaxOrderIndex(o[c]) + PositionIn(list, s) ELSE o[c][s]]
<1>1. RowOK(n)
  <2>1. RowOK(o[c])
    BY DEF RowsOK
  <2> QED BY <2>1, AppendedRow
<1>2. WithSubs(o, c, list) = [o EXCEPT ![c] = n]
  BY DEF WithSubs
<1> HIDE DEF n
<1> QED BY <1>1, <1>2 DEF RowsOK, RowOK, Orders

LEMMA WithContainingOK ==
  ASSUME NEW o, RowsOK(o), NEW g \in GroupIds, NEW list
  PROVE  RowsOK(WithContaining(o, g, list))
<1>1. ASSUME NEW c \in GroupIds
      PROVE  RowOK(IF c \in ToSet(list) THEN [o[c] EXCEPT ![g] = MaxOrderIndex(o[c]) + 1] ELSE o[c])
  <2>1. RowOK(o[c])
    BY DEF RowsOK
  <2>2. RowOK([o[c] EXCEPT ![g] = MaxOrderIndex(o[c]) + 1])
    BY <2>1, LastRow
  <2> QED BY <2>1, <2>2
<1>2. \A c \in GroupIds : RowOK(WithContaining(o, g, list)[c])
  BY <1>1 DEF WithContaining
<1>3. \A c \in GroupIds : WithContaining(o, g, list)[c] \in [GroupIds -> Nat]
  BY <1>2 DEF RowOK
<1>4. WithContaining(o, g, list) \in Orders
  BY <1>3 DEF WithContaining, Orders
<1> QED BY <1>2, <1>4 DEF RowsOK

LEMMA FewerRowsOK ==
  ASSUME NEW o, RowsOK(o), NEW n \in Orders,
         \A c, s \in GroupIds : n[c][s] \in {0, o[c][s]}
  PROVE  RowsOK(n)
<1>1. ASSUME NEW c \in GroupIds PROVE RowOK(n[c])
  <2>1. RowOK(o[c]) /\ n[c] \in [GroupIds -> Nat]
    BY DEF RowsOK, Orders
  <2> QED BY <2>1, FewerRow
<1> QED BY <1>1 DEF RowsOK

LEMMA UpdatedOK ==
  ASSUME NEW o, RowsOK(o), NEW g \in GroupIds, NEW v \in GroupChangeType
  PROVE  RowsOK(GroupUpdated(o, g, v))
<1>1. ASSUME NEW q, RowsOK(q), NEW S PROVE RowsOK(WithoutSubs(q, g, S))
  <2>1. q \in Orders
    BY <1>1 DEF RowsOK
  <2>2. WithoutSubs(q, g, S) \in Orders
    BY <2>1 DEF WithoutSubs, Orders
  <2>3. \A c, s \in GroupIds : WithoutSubs(q, g, S)[c][s] \in {0, q[c][s]}
    BY <2>1 DEF WithoutSubs, Orders
  <2> QED BY <1>1, <2>2, <2>3, FewerRowsOK
<1>2. ASSUME NEW q, RowsOK(q), NEW C PROVE RowsOK(WithoutContaining(q, g, C))
  <2>1. q \in Orders
    BY <1>2 DEF RowsOK
  <2>2. WithoutContaining(q, g, C) \in Orders
    BY <2>1 DEF WithoutContaining, Orders
  <2>3. \A c, s \in GroupIds : WithoutContaining(q, g, C)[c][s] \in {0, q[c][s]}
    BY <2>1 DEF WithoutContaining, Orders
  <2> QED BY <1>2, <2>2, <2>3, FewerRowsOK
<1>3. v.containing.list \in Seq(GroupIds) /\ v.subs.list \in Seq(GroupIds)
  BY DEF GroupChangeType, UpdateOfGroups
<1>4. RowsOK(ModifiedContaining(o, g, v.containing))
  BY <1>2, WithContainingOK DEF ModifiedContaining
<1>5. ASSUME NEW q, RowsOK(q) PROVE RowsOK(ModifiedSubs(q, g, v.subs))
  BY <1>1, <1>3, <1>5, WithSubsOK DEF ModifiedSubs
<1> QED BY <1>4, <1>5 DEF GroupUpdated

(* Row n is row o with s moved right before p, or right after it: it is    *)
(* still a row of the table, and the others keep their order.              *)
Moved(o, n, s, p, after) ==
  /\ RowOK(n)
  /\ \A u \in GroupIds : n[u] > 0 <=> o[u] > 0
  /\ SameOrder(o, n, GroupIds \ {s})
  /\ ~after /\ s # p /\ o[s] > 0 =>
       /\ n[s] < n[p]
       /\ \A u \in GroupIds \ {s} : o[u] < o[p] => n[u] < n[s]
  /\ after /\ s # p /\ o[s] > 0 => Adjacent(n, p, s)

LEMMA ReorderedRow ==
  ASSUME NEW row, RowOK(row), NEW s \in GroupIds, NEW p \in GroupIds, row[p] > 0,
         NEW after \in BOOLEAN, NEW n, n = Reordered(row, s, p, after)
  PROVE  Moved(row, n, s, p, after)
<1> DEFINE i == IF after THEN IndexAfter(row, row[p]) ELSE row[p]
<1>1. row \in [GroupIds -> Nat]
  BY DEF RowOK
<1>2. /\ i \in Nat /\ i > 0
      /\ ~after => i = row[p]
      /\ after => row[p] < i /\ \A x \in GroupIds : ~(row[p] < row[x] /\ row[x] < i)
  <2>1. row[p] \in Nat
    BY <1>1
  <2>2. CASE after
    <3>1. /\ IndexAfter(row, row[p]) \in Nat /\ row[p] < IndexAfter(row, row[p])
          /\ \A x \in GroupIds : ~(row[p] < row[x] /\ row[x] < IndexAfter(row, row[p]))
      BY <1>1, <2>1, IndexAfterIs
    <3> QED BY <2>1, <2>2, <3>1
  <2>3. CASE ~after
    BY <2>1, <2>3
  <2> QED BY <2>2, <2>3
<1>3. /\ n = IF row[s] > 0 THEN [Increment(row, i) EXCEPT ![s] = i] ELSE Increment(row, i)
      /\ Increment(row, i) =
           [x \in GroupIds |-> IF row[x] > 0 /\ row[x] >= i THEN row[x] + 1 ELSE row[x]]
  BY DEF Reordered, Increment
<1> HIDE DEF i
<1>4. \A x \in GroupIds : row[x] >= i => row[x] > 0
  BY <1>1, <1>2
<1>5. /\ DOMAIN n = GroupIds /\ n = [x \in GroupIds |-> n[x]]
      /\ \A u \in GroupIds : n[u] = IF u = s /\ row[s] > 0 THEN i
                                    ELSE IF row[u] >= i THEN row[u] + 1 ELSE row[u]
  BY <1>3, <1>4
<1>6. RowOK(n)
  <2>1. n \in [GroupIds -> Nat]
    <3>1. \A u \in GroupIds : n[u] \in Nat
      BY <1>1, <1>2, <1>5
    <3> QED BY <1>5, <3>1
  <2>2. ASSUME NEW u \in GroupIds, NEW v \in GroupIds, n[u] > 0, n[u] = n[v] PROVE u = v
    <3>1. row[u] \in Nat /\ row[v] \in Nat /\ row[s] \in Nat
      BY <1>1
    <3>2. row[u] > 0 /\ row[u] = row[v] => u = v
      BY DEF RowOK
    <3> QED BY <1>2, <1>5, <2>2, <3>1, <3>2
  <2>3. PICK b \in Nat : \A u \in GroupIds : row[u] <= b
    BY DEF RowOK
  <2>4. b + 1 + i \in Nat /\ \A u \in GroupIds : n[u] <= b + 1 + i
    BY <1>1, <1>2, <1>5, <2>3
  <2> QED BY <2>1, <2>2, <2>4 DEF RowOK
<1>7. ASSUME NEW u \in GroupIds PROVE n[u] > 0 <=> row[u] > 0
  BY <1>1, <1>2, <1>5
<1>8. SameOrder(row, n, GroupIds \ {s})
  <2> SUFFICES ASSUME NEW u \in GroupIds \ {s}, NEW v \in GroupIds \ {s}
               PROVE  row[u] < row[v] <=> n[u] < n[v]
    BY DEF SameOrder
  <2>1. row[u] \in Nat /\ row[v] \in Nat
    BY <1>1
  <2> QED BY <1>2, <1>5, <2>1
<1>9. ASSUME ~after, s # p, row[s] > 0
      PROVE  /\ n[s] < n[p]
             /\ \A u \in GroupIds \ {s} : row[u] < row[p] => n[u] < n[s]
  BY <1>1, <1>2, <1>5, <1>9
<1>10. ASSUME after, s # p, row[s] > 0 PROVE Adjacent(n, p, s)
  <2>1. n[p] = row[p] /\ n[s] = i /\ row[p] < i
    <3>1. row[p] \in Nat /\ i \in Nat /\ row[p] < i
      BY <1>1, <1>2, <1>10
    <3>2. n[p] = IF row[p] >= i THEN row[p] + 1 ELSE row[p]
      BY <1>5, <1>10
    <3>3. n[s] = i
      BY <1>5, <1>10
    <3> QED BY <3>1, <3>2, <3>3
  <2>2. ASSUME NEW x \in GroupIds PROVE ~(n[p] < n[x] /\ n[x] < n[s])
    <3>1. /\ row[p] \in Nat /\ row[x] \in Nat /\ i \in Nat
          /\ ~(row[p] < row[x] /\ row[x] < i)
      BY <1>1, <1>2, <1>10
    <3>2. n[x] = IF x = s THEN i ELSE IF row[x] >= i THEN row[x] + 1 ELSE row[x]
      BY <1>5, <1>10
    <3> QED BY <2>1, <3>1, <3>2
  <2> QED BY <2>1, <2>2 DEF Adjacent
<1> QED BY <1>6, <1>7, <1>8, <1>9, <1>10 DEF Moved

\* What is done of a list of sub-groups, and what is left.
DoneOf == Len(call.ids) - Len(call.left)

LeftAgrees ==
  /\ Len(call.left) <= Len(call.ids)
  /\ \A j \in 1..Len(call.left) : call.left[j] = call.ids[DoneOf + j]

(* Where the sub-groups that are done stand in a row. *)
Placed(row, p) ==
  IF call.after
  THEN Len(call.ids) = 1 /\ DoneOf = 1 => Adjacent(row, p, call.ids[1])
  ELSE /\ \A j \in 1..DoneOf : row[call.ids[j]] < row[p]
       /\ \A j \in 1..(DoneOf - 1) : Adjacent(row, call.ids[j], call.ids[j + 1])
       /\ DoneOf > 0 => Adjacent(row, call.ids[DoneOf], p)

PlacedIn(g) ==
  \A p \in call.at :
    /\ p \notin ToSet(call.ids) /\ IsInjective(call.ids)
    /\ ToSet(call.ids) \subseteq SubsOf(order, g)
    => Placed(order[g], p)

OthersKeep(g) ==
  SameOrder(call.saved[g], order[g], SubsOf(call.saved, g) \ ToSet(call.ids))

ReorderAgrees ==
  call.kind = "reorder" =>
    /\ LeftAgrees
    /\ \A p, q \in call.at : p = q
    /\ \A g, h \in call.group : g = h
    /\ \A g \in call.group : OthersKeep(g) /\ PlacedIn(g)

(* ReordersAsAsked with what holds halfway, and after what is put back. *)
ReorderInv ==
  /\ RowsOK(order)
  /\ call.kind # "none" => RowsOK(call.saved)
  /\ ReorderAgrees

(* The other mutations: no sub-groups are being moved after them. *)
LEMMA NotReordering ==
  ASSUME RowsOK(order'), call'.kind # "reorder", call'.kind # "none" => RowsOK(call'.saved)
  PROVE  ReorderInv'
BY DEF ReorderInv, ReorderAgrees

LEMMA NoOrderOK == RowsOK(NoOrder)
<1>1. NoOrder \in Orders /\ \A c, s \in GroupIds : NoOrder[c][s] = 0
  BY DEF NoOrder, Orders
<1>2. \A c \in GroupIds : NoOrder[c] \in [GroupIds -> Nat]
  BY <1>1 DEF Orders
<1>3. \A c \in GroupIds : RowOK(NoOrder[c])
  BY <1>1, <1>2 DEF RowOK
<1> QED BY <1>1, <1>3 DEF RowsOK

(* The call that moves sub-groups, when it starts. *)
LEMMA ReorderStarts ==
  ASSUME NEW ids \in Seq(GroupIds), NEW g \in GroupIds, NEW At, \A p, q \in At : p = q,
         RowsOK(order), RowsOK(order'),
         \A s \in GroupIds : order[g][s] > 0 /\ s \notin ToSet(ids) => order'[g][s] = order[g][s],
         call'.kind = "reorder", call'.ids = ids, call'.left = ids, call'.group = {g},
         call'.at = At, call'.saved = order
  PROVE  ReorderInv'
<1>1. /\ call'.kind = "reorder" /\ call'.ids = ids /\ call'.left = ids /\ call'.group = {g}
      /\ call'.at = At /\ call'.saved = order
  OBVIOUS
<1>2. DoneOf' = 0
  BY <1>1 DEF DoneOf
<1>3. LeftAgrees'
  BY <1>1, <1>2 DEF LeftAgrees
<1>4. OthersKeep(g)'
  <2>1. ASSUME NEW s \in SubsOf(order, g) \ ToSet(ids) PROVE order'[g][s] = order[g][s]
    BY DEF SubsOf
  <2>2. SameOrder(order[g], order'[g], SubsOf(order, g) \ ToSet(ids))
    BY <2>1 DEF SameOrder
  <2> QED BY <1>1, <2>2 DEF OthersKeep
<1>5. ASSUME NEW p \in At PROVE Placed(order[g], p)'
  BY <1>1, <1>2 DEF Placed
<1>6. PlacedIn(g)'
  BY <1>1, <1>5 DEF PlacedIn
<1> QED BY <1>1, <1>3, <1>4, <1>6 DEF ReorderInv, ReorderAgrees

LEMMA ReorderSubGroupsOrder ==
  ASSUME GroupInv, ReorderInv, NEW g \in GroupIds, NEW p \in GroupIds, NEW ids \in GroupLists,
         NEW after \in BOOLEAN, ReorderSubGroups(g, ids, p, after)
  PROVE  ReorderInv'
<1>1. /\ ids \in Seq(GroupIds) /\ order' = order /\ RowsOK(order)
      /\ call'.kind = "reorder" /\ call'.ids = ids /\ call'.left = ids /\ call'.group = {g}
      /\ call'.at = {p} /\ call'.saved = order
  BY ListsAssumption DEF ReorderSubGroups, ReorderInv, NoCall
<1>2. \A q, r \in {p} : q = r
  OBVIOUS
<1> QED BY <1>1, <1>2, ReorderStarts

LEMMA AddGroupSubGroupsOrder ==
  ASSUME GroupInv, ReorderInv, NEW g \in GroupIds, NEW ids \in GroupLists,
         NEW insert \in 0..LastIndex, AddGroupSubGroups(g, ids, insert)
  PROVE  ReorderInv'
<1> DEFINE At == {s \in GroupIds : insert > 0 /\ WithSubs(order, g, ids)[g][s] = insert}
           n == [s \in GroupIds |-> IF s \in ToSet(ids)
                                    THEN MaxOrderIndex(order[g]) + PositionIn(ids, s)
                                    ELSE order[g][s]]
<1>1. ids \in Seq(GroupIds) /\ RowsOK(order) /\ order \in Orders
  BY ListsAssumption DEF AddGroupSubGroups, ReorderInv, RowsOK
<1>2. order' = WithSubs(order, g, ids) /\ RowsOK(order')
  BY <1>1, WithSubsOK DEF AddGroupSubGroups
<1>3. order'[g] = n
  BY <1>1, <1>2 DEF WithSubs, Orders
<1>4. \A s \in GroupIds : order[g][s] > 0 /\ s \notin ToSet(ids) => order'[g][s] = order[g][s]
  BY <1>3
<1>5. \A p, q \in At : p = q
  BY <1>2 DEF RowsOK, RowOK
<1>6. \/ call' = NoCall
      \/ call' = [NoCall EXCEPT !.kind = "reorder", !.ids = ids, !.left = ids, !.group = {g},
                                !.at = At, !.saved = order]
  BY DEF AddGroupSubGroups
<1> HIDE DEF At, n
<1>7. CASE call' = NoCall
  BY <1>2, <1>7, NotReordering DEF NoCall
<1>8. CASE call' = [NoCall EXCEPT !.kind = "reorder", !.ids = ids, !.left = ids, !.group = {g},
                                  !.at = At, !.saved = order]
  <2>1. /\ call'.kind = "reorder" /\ call'.ids = ids /\ call'.left = ids /\ call'.group = {g}
        /\ call'.at = At /\ call'.saved = order
    BY <1>8 DEF NoCall
  <2> QED BY <1>1, <1>2, <1>4, <1>5, <2>1, ReorderStarts
<1> QED BY <1>6, <1>7, <1>8

(* One sub-group more is where it was to be: it is put between the one     *)
(* before it in the list and the one that all stand before.                *)
LEMMA ReorderNextOrder ==
  ASSUME GroupInv, ReorderInv, ReorderNext
  PROVE  ReorderInv'
<1>1. PICK g \in call.group, p \in call.at :
        /\ call.kind = "reorder" /\ call.left # <<>>
        /\ order' = [order EXCEPT ![g] = Reordered(order[g], Head(call.left), p, call.after)]
        /\ order[g][p] > 0
        /\ call' = [call EXCEPT !.left = Tail(@)]
  BY DEF ReorderNext
<1> DEFINE s == Head(call.left)
           row == order[g]
           n == Reordered(row, s, p, call.after)
           d == DoneOf
<1>2. call \in CallType /\ s \in GroupIds
  BY <1>1, CallGoesOn DEF GroupInv
<1>3. /\ call.ids \in Seq(GroupIds) /\ call.left \in Seq(GroupIds)
      /\ g \in GroupIds /\ p \in GroupIds /\ call.after \in BOOLEAN
  BY <1>2 DEF CallType
<1>4. /\ call'.kind = "reorder" /\ call'.ids = call.ids /\ call'.left = Tail(call.left)
      /\ call'.group = call.group /\ call'.at = call.at /\ call'.after = call.after
      /\ call'.saved = call.saved
  BY <1>1, <1>2 DEF CallType
<1>5. LeftAgrees /\ OthersKeep(g) /\ PlacedIn(g) /\ call.group = {g} /\ call.at = {p}
  BY <1>1 DEF ReorderInv, ReorderAgrees
<1>6. RowsOK(order) /\ RowsOK(call.saved) /\ RowOK(row)
  BY <1>1, <1>3 DEF ReorderInv, RowsOK
<1>7. order'[g] = n /\ \A c \in GroupIds \ {g} : order'[c] = order[c]
  BY <1>1, <1>3, <1>6 DEF RowsOK, Orders
<1>8. /\ d \in Nat /\ d + 1 \in 1..Len(call.ids) /\ DoneOf' = d + 1 /\ s = call.ids[d + 1]
      /\ Len(Tail(call.left)) = Len(call.left) - 1
  <2> DEFINE l == Len(call.left)
             k == Len(call.ids)
             t == Len(Tail(call.left))
  <2>1. l \in Nat /\ l # 0 /\ k \in Nat /\ t = l - 1 /\ s = call.left[1]
    BY <1>1, <1>3
  <2>2. l <= k /\ (l # 0 => call.left[1] = call.ids[d + 1])
    BY <1>5, <2>1 DEF LeftAgrees
  <2>3. d = k - l /\ DoneOf' = k - t
    BY <1>4 DEF DoneOf
  <2> HIDE DEF s, d, l, k, t
  <2>4. d \in Nat /\ d + 1 \in 1..k /\ DoneOf' = d + 1 /\ s = call.ids[d + 1]
    BY <2>1, <2>2, <2>3
  <2> QED BY <2>1, <2>4 DEF k, l, t
<1>9. s \in ToSet(call.ids)
  BY <1>3, <1>8 DEF ToSet
<1>10. /\ RowOK(n)
       /\ \A u \in GroupIds : n[u] > 0 <=> row[u] > 0
       /\ SameOrder(row, n, GroupIds \ {s})
       /\ ~call.after /\ s # p /\ row[s] > 0 =>
            /\ n[s] < n[p]
            /\ \A u \in GroupIds \ {s} : row[u] < row[p] => n[u] < n[s]
       /\ call.after /\ s # p /\ row[s] > 0 => Adjacent(n, p, s)
  <2> DEFINE a == call.after
  <2>1. row[p] > 0 /\ a \in BOOLEAN /\ n = Reordered(row, s, p, a)
    BY <1>1, <1>3
  <2> HIDE DEF s, row, n, a
  <2>2. Moved(row, n, s, p, a)
    BY <1>2, <1>3, <1>6, <2>1, ReorderedRow
  <2> QED BY <2>2 DEF Moved, a
<1>11. call.saved \in Orders /\ order \in Orders /\ order' \in Orders
  BY <1>1, <1>6, Bounded DEF RowsOK, ReorderNext
<1> HIDE DEF s, row, n, d
<1>12. RowsOK(order')
  BY <1>6, <1>7, <1>10, <1>11 DEF RowsOK
<1>13. LeftAgrees'
  <2>1. Len(call'.left) <= Len(call'.ids)
    BY <1>3, <1>4, <1>5, <1>8 DEF LeftAgrees
  <2>2. ASSUME NEW j \in 1..Len(call'.left)
        PROVE  call'.left[j] = call'.ids[DoneOf' + j]
    <3>1. j + 1 \in 1..Len(call.left) /\ Tail(call.left)[j] = call.left[j + 1]
      BY <1>1, <1>3, <1>4
    <3>2. call.left[j + 1] = call.ids[DoneOf + (j + 1)]
      BY <1>5, <3>1 DEF LeftAgrees
    <3>3. DoneOf + (j + 1) = DoneOf' + j
      BY <1>8 DEF d
    <3> QED BY <1>4, <3>1, <3>2, <3>3
  <2> QED BY <2>1, <2>2 DEF LeftAgrees
<1>14. OthersKeep(g)'
  <2> DEFINE S == SubsOf(call.saved, g) \ ToSet(call.ids)
  <2>1. S \subseteq GroupIds \ {s}
    BY <1>9 DEF SubsOf
  <2>2. SameOrder(call.saved[g], row, S)
    BY <1>5 DEF OthersKeep, row
  <2>3. SameOrder(call.saved[g], n, S)
    BY <1>10, <2>1, <2>2 DEF SameOrder
  <2> QED BY <1>4, <1>7, <2>3 DEF OthersKeep
<1>15. PlacedIn(g)'
  <2> SUFFICES ASSUME p \notin ToSet(call.ids), IsInjective(call.ids),
                      ToSet(call.ids) \subseteq SubsOf(order', g)
               PROVE  Placed(order[g], p)'
    BY <1>4, <1>5 DEF PlacedIn
  <2>1. ToSet(call.ids) \subseteq SubsOf(order, g)
    BY <1>7, <1>10 DEF SubsOf, row
  <2>2. Placed(row, p)
    BY <1>5, <2>1 DEF PlacedIn, row
  <2>3. s # p /\ row[s] > 0
    BY <1>9, <2>1 DEF SubsOf, row
  <2>4. CASE call.after
    <3>1. Adjacent(n, p, s)
      BY <1>10, <2>3, <2>4
    <3>2. Len(call.ids) = 1 /\ d + 1 = 1 => s = call.ids[1]
      BY <1>8
    <3> QED BY <1>4, <1>7, <1>8, <2>4, <3>1, <3>2 DEF Placed
  <2>5. CASE ~call.after
    <3> DEFINE id(j) == call.ids[j]
    <3>1. /\ n[s] < n[p]
          /\ \A u \in GroupIds \ {s} : row[u] < row[p] => n[u] < n[s]
      BY <1>10, <2>3, <2>5
    <3>2. \A j \in 1..d : id(j) \in GroupIds \ {s}
      <4> SUFFICES ASSUME NEW j \in 1..d PROVE id(j) \in GroupIds \ {s}
        OBVIOUS
      <4>1. j \in 1..Len(call.ids) /\ j # d + 1
        BY <1>3, <1>8
      <4>2. DOMAIN call.ids = 1..Len(call.ids) /\ id(j) \in GroupIds
        BY <1>3, <4>1
      <4>3. id(j) # id(d + 1)
        BY <1>8, <4>1, <4>2 DEF IsInjective
      <4> QED BY <1>8, <4>2, <4>3
    <3>3. \A j \in 1..d : row[id(j)] < row[p]
      BY <2>2, <2>5 DEF Placed, d
    <3>4. \A j \in 1..d : n[id(j)] < n[s]
      BY <3>1, <3>2, <3>3
    <3>5. n \in [GroupIds -> Nat] /\ row \in [GroupIds -> Nat]
      BY <1>6, <1>10 DEF RowOK
    <3>6. ASSUME NEW j \in 1..(d + 1) PROVE n[id(j)] < n[p]
      <4>1. j \in 1..d \/ id(j) = s
        BY <1>8
      <4>2. CASE j \in 1..d
        <5>1. id(j) \in GroupIds /\ n[id(j)] < n[s]
          BY <3>2, <3>4, <4>2
        <5> QED BY <1>2, <1>3, <3>1, <3>5, <5>1
      <4> QED BY <3>1, <4>1, <4>2
    <3>7. ASSUME NEW j \in 1..d PROVE Adjacent(n, id(j), id(j + 1))
      <4>1. CASE j = d
        <5>1. Adjacent(row, id(j), p) /\ id(j) \in GroupIds \ {s} /\ n[id(j)] < n[s]
              /\ id(j + 1) = s
          BY <1>8, <2>2, <2>5, <3>2, <3>4, <4>1 DEF Placed, d
        <5>2. ASSUME NEW x \in GroupIds, n[id(j)] < n[x], n[x] < n[s] PROVE FALSE
          <6>1. x # s /\ n[x] < n[p]
            BY <1>2, <1>3, <3>1, <3>5, <5>2
          <6>2. row[id(j)] < row[x] /\ row[x] < row[p]
            BY <1>3, <1>10, <2>3, <5>1, <5>2, <6>1 DEF SameOrder
          <6> QED BY <5>1, <6>2 DEF Adjacent
        <5> QED BY <5>1, <5>2 DEF Adjacent
      <4>2. CASE j # d
        <5>1. j \in 1..(d - 1) /\ j + 1 \in 1..d
          BY <1>8, <4>2
        <5>2. Adjacent(row, id(j), id(j + 1))
          BY <2>2, <2>5, <5>1 DEF Placed, d
        <5>3. /\ id(j) \in GroupIds \ {s} /\ id(j + 1) \in GroupIds \ {s}
              /\ n[id(j + 1)] < n[s]
          BY <3>2, <3>4, <5>1
        <5>4. n[id(j)] < n[id(j + 1)]
          BY <1>10, <5>2, <5>3 DEF SameOrder, Adjacent
        <5>5. ASSUME NEW x \in GroupIds, n[id(j)] < n[x], n[x] < n[id(j + 1)] PROVE FALSE
          <6>1. x # s
            BY <1>2, <3>5, <5>3, <5>5
          <6>2. row[id(j)] < row[x] /\ row[x] < row[id(j + 1)]
            BY <1>10, <5>3, <5>5, <6>1 DEF SameOrder
          <6> QED BY <5>2, <6>2 DEF Adjacent
        <5> QED BY <5>4, <5>5 DEF Adjacent
      <4> QED BY <4>1, <4>2
    <3>8. Adjacent(n, id(d + 1), p)
      <4>1. id(d + 1) = s /\ n[s] < n[p]
        BY <1>8, <3>1
      <4>2. ASSUME NEW x \in GroupIds, n[s] < n[x], n[x] < n[p] PROVE FALSE
        <5>1. x # s
          BY <1>2, <3>5, <4>2
        <5>2. row[x] < row[p]
          BY <1>3, <1>10, <2>3, <4>2, <5>1 DEF SameOrder
        <5> QED BY <1>2, <3>1, <3>5, <4>2, <5>1, <5>2
      <4> QED BY <4>1, <4>2 DEF Adjacent
    <3>9. /\ DoneOf' = d + 1 /\ (d + 1) - 1 = d /\ ~call'.after /\ call'.ids = call.ids
          /\ order'[g] = n
      BY <1>4, <1>7, <1>8, <2>5
    <3> QED BY <3>6, <3>7, <3>8, <3>9 DEF Placed
  <2> QED BY <2>4, <2>5
<1> QED BY <1>4, <1>5, <1>6, <1>12, <1>13, <1>14, <1>15 DEF ReorderInv, ReorderAgrees

LEMMA CallEndsOrder ==
  ASSUME GroupInv, ReorderInv, CallReturns \/ CallFails
  PROVE  ReorderInv'
<1>1. call.kind # "none" /\ call' = NoCall /\ (order' = order \/ order' = call.saved)
  BY CallKinds DEF CallReturns, CallFails, NoOneCalls, GroupInv
<1>2. RowsOK(order')
  BY <1>1 DEF ReorderInv
<1> QED BY <1>1, <1>2, NotReordering DEF NoCall

LEMMA ReorderInvNext ==
  ASSUME GroupInv, ReorderInv, [GroupNext]_groupVars PROVE ReorderInv'
<1>1. order \in Orders /\ RowsOK(order) /\ (call.kind # "none" => RowsOK(call.saved))
  BY DEF ReorderInv, RowsOK
<1>2. CASE \E g \in GroupIds, C, S \in GroupLists : GroupCreate(g, C, S)
  <2>1. PICK g \in GroupIds, C \in GroupLists, S \in GroupLists : GroupCreate(g, C, S)
    BY <1>2
  <2>2. order' = WithSubs(WithContaining(order, g, C), g, S) /\ call = NoCall /\ call' = NoCall
    BY <2>1 DEF GroupCreate, NoOneCalls
  <2>3. RowsOK(order')
    BY <1>1, <2>2, ListsAssumption, WithContainingOK, WithSubsOK
  <2> QED BY <2>2, <2>3, NotReordering DEF NoCall
<1>3. CASE \E g \in GroupIds, v \in GroupChanges : GroupUpdate(g, v)
  <2>1. PICK g \in GroupIds, v \in GroupChanges : GroupUpdate(g, v)
    BY <1>3
  <2>2. order' = GroupUpdated(order, g, v) /\ call = NoCall /\ call' = NoCall
    BY <2>1 DEF GroupUpdate, NoOneCalls
  <2>3. RowsOK(order')
    BY <1>1, <2>2, GroupChangesAssumption, UpdatedOK
  <2> QED BY <2>2, <2>3, NotReordering DEF NoCall
<1>4. CASE \E ids \in BulkGroups, v \in BulkGroupChanges : BulkGroupUpdate(ids, v)
  <2>1. call'.kind = "update" /\ call'.saved = order /\ order' = order
    BY <1>4 DEF BulkGroupUpdate, NoCall
  <2> QED BY <1>1, <2>1, NotReordering
<1>5. CASE \E D \in SUBSET GroupIds : GroupsDestroy(D)
  <2>1. PICK D \in SUBSET GroupIds : GroupsDestroy(D)
    BY <1>5
  <2>2. /\ order' = [c \in GroupIds |-> [s \in GroupIds |->
                       IF c \in D \/ s \in D THEN 0 ELSE order[c][s]]]
        /\ call = NoCall /\ call' = NoCall
    BY <2>1 DEF GroupsDestroy, NoOneCalls
  <2>3. order' \in Orders /\ \A c, s \in GroupIds : order'[c][s] \in {0, order[c][s]}
    BY <1>1, <2>2 DEF Orders
  <2>4. RowsOK(order')
    BY <1>1, <2>3, FewerRowsOK
  <2> QED BY <2>2, <2>4, NotReordering DEF NoCall
<1>6. CASE \E g, p \in GroupIds, ids \in GroupLists, after \in BOOLEAN :
             ReorderSubGroups(g, ids, p, after)
  BY <1>6, ReorderSubGroupsOrder
<1>7. CASE \E g \in GroupIds, ids \in GroupLists, insert \in 0..LastIndex :
             AddGroupSubGroups(g, ids, insert)
  BY <1>7, AddGroupSubGroupsOrder
<1>8. CASE \E g \in GroupIds, S \in SUBSET GroupIds : RemoveGroupSubGroups(g, S)
  <2>1. PICK g \in GroupIds, S \in SUBSET GroupIds : RemoveGroupSubGroups(g, S)
    BY <1>8
  <2>2. order' = WithoutSubs(order, g, S) /\ call = NoCall /\ call' = NoCall
    BY <2>1 DEF RemoveGroupSubGroups, NoOneCalls
  <2>3. order' \in Orders /\ \A c, s \in GroupIds : order'[c][s] \in {0, order[c][s]}
    BY <1>1, <2>2 DEF WithoutSubs, Orders
  <2>4. RowsOK(order')
    BY <1>1, <2>3, FewerRowsOK
  <2> QED BY <2>2, <2>4, NotReordering DEF NoCall
<1>9. CASE UpdateNext
  <2> DEFINE g == Head(call.left)
  <2>1. /\ call.kind = "update" /\ call.left # <<>> /\ call' = [call EXCEPT !.left = Tail(@)]
        /\ order' = GroupUpdated(order, g, call.change)
    BY <1>9 DEF UpdateNext
  <2>2. call \in CallType /\ g \in GroupIds
    BY <2>1, CallGoesOn
  <2>3. call.change \in GroupChangeType /\ call'.kind = "update" /\ call'.saved = call.saved
    BY <2>1, <2>2 DEF CallType
  <2> HIDE DEF g
  <2>4. RowsOK(order')
    BY <1>1, <2>1, <2>2, <2>3, UpdatedOK
  <2> QED BY <1>1, <2>1, <2>3, <2>4, NotReordering
<1>10. CASE ReorderNext
  BY <1>10, ReorderNextOrder
<1>11. CASE CallReturns \/ CallFails
  BY <1>11, CallEndsOrder
<1>12. CASE UNCHANGED groupVars
  BY <1>12 DEF groupVars, ReorderInv, ReorderAgrees, RowsOK, RowOK, LeftAgrees, DoneOf,
               OthersKeep, PlacedIn, Placed, SubsOf
<1> QED BY <1>2, <1>3, <1>4, <1>5, <1>6, <1>7, <1>8, <1>9, <1>10, <1>11, <1>12 DEF GroupNext

LEMMA AllPlaced ==
  ASSUME GroupInv, ReorderInv, Reordering PROVE ReordersAsAsked
<1>1. call \in CallType /\ call.kind = "reorder" /\ call.left = <<>>
  BY CallKinds DEF Reordering, GroupInv, NoCall
<1>2. call.ids \in Seq(GroupIds) /\ call.group \subseteq GroupIds /\ call.at \subseteq GroupIds
  BY <1>1 DEF CallType
<1>3. DoneOf = Len(call.ids)
  BY <1>1, <1>2 DEF DoneOf
<1>4. ASSUME NEW g \in call.group, ~call.after \/ Len(call.ids) = 1, NEW p \in call.at
      PROVE  InOrderAt(g, p)
  <2> SUFFICES ASSUME p \notin ToSet(call.ids) /\ IsInjective(call.ids),
                      ToSet(call.ids) \subseteq SubsOf(order, g)
               PROVE  LET Wanted == IF call.after THEN <<p>> \o call.ids ELSE Append(call.ids, p)
                      IN \A i \in 1..(Len(Wanted) - 1) :
                           Adjacent(order[g], Wanted[i], Wanted[i + 1])
    BY DEF InOrderAt
  <2>1. Placed(order[g], p) /\ p \in GroupIds
    BY <1>1, <1>2 DEF ReorderInv, ReorderAgrees, PlacedIn
  <2> DEFINE k == Len(call.ids)
  <2>2. CASE call.after
    <3> DEFINE q == <<p>>
               w == q \o call.ids
    <3>1. Len(call.ids) = 1 /\ Adjacent(order[g], p, call.ids[1])
      <4>1. Len(call.ids) = 1
        BY <1>4, <2>2
      <4>2. DoneOf = 1
        BY <1>3, <4>1
      <4> QED BY <2>1, <2>2, <4>1, <4>2 DEF Placed
    <3>2. Len(w) = 2 /\ w[1] = p /\ w[2] = call.ids[1]
      <4>1. q \in Seq(GroupIds) /\ Len(q) = 1 /\ q[1] = p
        BY <2>1
      <4> HIDE DEF q
      <4>2. call.ids \in Seq(GroupIds) /\ Len(call.ids) = 1
        BY <1>2, <3>1
      <4>3. Len(w) = 2 /\ \A i \in 1..2 : w[i] = IF i <= 1 THEN q[i] ELSE call.ids[i - 1]
        BY <4>1, <4>2, ConcatProperties
      <4> QED BY <4>1, <4>3
    <3>3. ASSUME NEW i \in 1..(Len(w) - 1) PROVE Adjacent(order[g], w[i], w[i + 1])
      <4>1. i = 1
        BY <3>2
      <4> QED BY <3>1, <3>2, <4>1
    <3> QED BY <2>2, <3>3
  <2>3. CASE ~call.after
    <3> DEFINE w == Append(call.ids, p)
    <3>1. /\ \A j \in 1..(k - 1) : Adjacent(order[g], call.ids[j], call.ids[j + 1])
          /\ k > 0 => Adjacent(order[g], call.ids[k], p)
      BY <1>3, <2>1, <2>3 DEF Placed
    <3>2. /\ k \in Nat /\ Len(w) = k + 1 /\ w[k + 1] = p
          /\ \A j \in 1..k : w[j] = call.ids[j]
      BY <1>2, <2>1
    <3>3. ASSUME NEW i \in 1..(Len(w) - 1) PROVE Adjacent(order[g], w[i], w[i + 1])
      <4> HIDE DEF w, k
      <4>1. i \in 1..k
        BY <3>2
      <4>2. CASE i = k
        BY <3>1, <3>2, <4>1, <4>2
      <4>3. CASE i # k
        <5>1. i \in 1..(k - 1) /\ i + 1 \in 1..k
          BY <3>2, <4>1, <4>3
        <5> QED BY <3>1, <3>2, <4>1, <5>1
      <4> QED BY <4>2, <4>3
    <3> QED BY <2>3, <3>3
  <2> QED BY <2>2, <2>3
<1>5. ASSUME NEW g \in call.group
      PROVE  /\ SameOrder(call.saved[g], order[g], SubsOf(call.saved, g) \ ToSet(call.ids))
             /\ \A s, t \in SubsOf(order, g) : s # t => order[g][s] # order[g][t]
  <2>1. OthersKeep(g)
    BY <1>1 DEF ReorderInv, ReorderAgrees
  <2>2. RowOK(order[g])
    BY <1>2 DEF ReorderInv, RowsOK
  <2> QED BY <2>1, <2>2 DEF OthersKeep, RowOK, SubsOf
<1> QED BY <1>4, <1>5 DEF ReordersAsAsked

(* Sub-groups that are moved, one after the other, end where the client    *)
(* asked, with all others in the order they had and no index taken twice:  *)
(* what reorderSubGroup shifts and where getOrderIndexAfterOrderIndex puts *)
(* one is right for any row, with gaps and at its end.                     *)
THEOREM ReorderingIsExact == GroupSpec => []ReordersAsAsked
<1>1. GroupInit => ReorderInv
  BY NoOrderOK DEF GroupInit, ReorderInv, ReorderAgrees, NoCall
<1>2. GroupInv /\ ReorderInv /\ [GroupNext]_groupVars => ReorderInv'
  BY ReorderInvNext
<1>3. GroupInv /\ ReorderInv => ReordersAsAsked
  BY AllPlaced DEF ReordersAsAsked
<1> QED BY <1>1, <1>2, <1>3, GroupInvInit, GroupInvNext, PTL DEF GroupSpec

-----------------------------------------------------------------------------
(* Tags: types *)

LEMMA AfterTypes ==
  ASSUME NEW db \in TagDbs, NEW t \in TagIds, NEW v \in ChangeType
  PROVE /\ AliasesAfter(db, t, v) \subseteq Names
        /\ ParentsAfter(db, t, v) \subseteq TagIds
        /\ ChildrenAfter(db, t, v) \subseteq TagIds
<1>1. db.aliases[t] \subseteq Names
  BY DEF TagDbs
<1>2. ParentsIn(db.rel, t) \subseteq TagIds /\ ChildrenIn(db.rel, t) \subseteq TagIds
  BY DEF TagDbs, ParentsIn, ChildrenIn
<1>3. v.aliases.values \subseteq Names /\ v.parents.values \subseteq TagIds
      /\ v.children.values \subseteq TagIds
  BY DEF ChangeType, UpdateOf
<1> QED BY <1>1, <1>2, <1>3 DEF AliasesAfter, ParentsAfter, ChildrenAfter, Apply

LEMMA UpdatedFields ==
  ASSUME NEW db \in TagDbs, NEW t \in TagIds, NEW v \in ChangeType
  PROVE Updated(db, t, v) =
          [name |-> [db.name EXCEPT ![t] = IF v.name = NoName THEN @ ELSE v.name],
           aliases |-> [db.aliases EXCEPT ![t] = AliasesAfter(db, t, v)],
           rel |-> Replaced(db.rel, t, ParentsAfter(db, t, v), ChildrenAfter(db, t, v))]
<1> DEFINE A == AliasesAfter(db, t, v)
           Q == Replaced(db.rel, t, ParentsAfter(db, t, v), ChildrenAfter(db, t, v))
<1>1. db = [name |-> db.name, aliases |-> db.aliases, rel |-> db.rel]
  BY DEF TagDbs
<1>2. Updated(db, t, v) =
        [db EXCEPT !.name[t] = IF v.name = NoName THEN @ ELSE v.name,
                   !.aliases[t] = A, !.rel = Q]
  BY DEF Updated
<1> HIDE DEF A, Q
<1>3. Updated(db, t, v) =
        [name |-> [db.name EXCEPT ![t] = IF v.name = NoName THEN @ ELSE v.name],
         aliases |-> [db.aliases EXCEPT ![t] = A], rel |-> Q]
  BY <1>1, <1>2
<1> QED BY <1>3 DEF A, Q

LEMMA UpdatedType ==
  ASSUME NEW db \in TagDbs, NEW t \in TagIds, NEW v \in ChangeType
  PROVE Updated(db, t, v) \in TagDbs
<1> DEFINE A == AliasesAfter(db, t, v)
           Q == Replaced(db.rel, t, ParentsAfter(db, t, v), ChildrenAfter(db, t, v))
<1>1. A \subseteq Names
  BY AfterTypes
<1>2. Q \subseteq TagIds \X TagIds
  BY AfterTypes DEF Replaced, TagDbs
<1>3. v.name \in Names \cup {NoName}
  BY DEF ChangeType
<1>4. Updated(db, t, v) =
        [name |-> [db.name EXCEPT ![t] = IF v.name = NoName THEN @ ELSE v.name],
         aliases |-> [db.aliases EXCEPT ![t] = A], rel |-> Q]
  BY UpdatedFields
<1> HIDE DEF A, Q
<1> QED BY <1>1, <1>2, <1>3, <1>4 DEF TagDbs

LEMMA DestroyedType ==
  ASSUME NEW db \in TagDbs, NEW D \in SUBSET TagIds
  PROVE Destroyed(db, D) \in TagDbs
BY DEF Destroyed, TagDbs

LEMMA MergedType ==
  ASSUME NEW db \in TagDbs, NEW src \in SUBSET TagsOf(db), NEW dst \in TagIds
  PROVE Merged(db, src, dst) \in TagDbs
<1>1. Destroyed(db, src) \in TagDbs
  BY DestroyedType DEF TagsOf
<1>2. NamesOf(db, src) \subseteq Names
  BY DEF NamesOf, TagsOf, TagDbs
<1>3. AliasesOf(db, src) \subseteq Names
  BY DEF AliasesOf, TagsOf, TagDbs
<1> QED BY <1>1, <1>2, <1>3 DEF Merged, TagDbs

LEMMA SanitizedType ==
  ASSUME NEW db \in TagDbs, NEW t \in TagIds, NEW v \in ChangeType
  PROVE Sanitized(db, t, v) \in ChangeType
<1> DEFINE n == IF v.name = NoName THEN db.name[t] ELSE v.name
           u == [mode |-> "SET", values |-> AliasesAfter(db, t, v) \ {n}]
<1>1. u \in UpdateOf(Names)
  BY AfterTypes DEF UpdateOf
<1> HIDE DEF u
<1>2. [v EXCEPT !.aliases = u] \in ChangeType
  BY <1>1 DEF ChangeType
<1> QED BY <1>2 DEF Sanitized, u

LEMMA EmptyType == EmptyDb \in TagDbs /\ Idle.left = <<>> /\ Idle.saved = EmptyDb
BY DEF EmptyDb, TagDbs, Idle

LEMMA IdleType == Idle \in [left : Seq(TagIds), change : ChangeType, saved : TagDbs]
<1>1. Keep \in UpdateOf(Names) /\ Keep \in UpdateOf(TagIds)
  BY DEF Keep, UpdateOf
<1>2. Unchanged \in ChangeType
  BY <1>1 DEF Unchanged, ChangeType
<1> QED BY <1>2, EmptyType DEF Idle

LEMMA CreatedType ==
  ASSUME NEW db \in TagDbs, NEW t \in TagIds, NEW n \in Names, NEW A \in SUBSET Names,
         NEW P \in SUBSET TagIds, NEW C \in SUBSET TagIds
  PROVE [name |-> [db.name EXCEPT ![t] = n], aliases |-> [db.aliases EXCEPT ![t] = A \ {n}],
         rel |-> Replaced(db.rel, t, P, C)] \in TagDbs
BY DEF TagDbs, Replaced

-----------------------------------------------------------------------------
(* Tags: names *)

(* NamesUnique of any state of the tables. *)
UniqueNames(db) ==
  \A t, o \in TagsOf(db) :
    t # o => ({db.name[t]} \cup db.aliases[t]) \cap ({db.name[o]} \cup db.aliases[o]) = {}

LEMMA UpdateKeepsUnique ==
  ASSUME NEW db \in TagDbs, UniqueNames(db), NEW t \in TagIds, NEW v \in ChangeType,
         ValidUpdate(db, t, v)
  PROVE UniqueNames(Updated(db, t, v))
<1> DEFINE new == Updated(db, t, v)
           All(d, o) == {d.name[o]} \cup d.aliases[o]
<1>1. /\ new.name = [db.name EXCEPT ![t] = IF v.name = NoName THEN @ ELSE v.name]
      /\ new.aliases = [db.aliases EXCEPT ![t] = AliasesAfter(db, t, v)]
  BY UpdatedFields
<1>2. DOMAIN db.name = TagIds /\ DOMAIN db.aliases = TagIds
  BY DEF TagDbs
<1>3. t \in TagsOf(db)
  BY DEF ValidUpdate
<1> HIDE DEF new
<1>4. TagsOf(new) = TagsOf(db)
  BY <1>1, <1>2, <1>3 DEF TagsOf
<1>5. \A o \in TagsOf(db) : o # t => All(new, o) = All(db, o)
  BY <1>1, <1>2 DEF TagsOf
<1>6. \A x \in All(new, t), o \in TagsOf(db) : o # t => x \notin All(db, o)
  <2> SUFFICES ASSUME NEW x \in All(new, t), NEW o \in TagsOf(db), o # t
               PROVE x \notin All(db, o)
    OBVIOUS
  <2>1. x = (IF v.name = NoName THEN db.name[t] ELSE v.name) \/ x \in AliasesAfter(db, t, v)
    BY <1>1, <1>2
  <2>2. x \in All(db, t) => x \notin All(db, o)
    BY <1>3 DEF UniqueNames
  <2>3. NameFree(db, t, x) => x \notin All(db, o)
    BY DEF NameFree
  <2>4. x \in All(db, t) \/ NameFree(db, t, x)
    BY <2>1 DEF ValidUpdate, AliasesAfter, Apply
  <2> QED BY <2>2, <2>3, <2>4
<1> HIDE DEF All
<1>7. \A p, o \in TagsOf(db) : p # o => All(db, p) \cap All(db, o) = {}
  BY DEF UniqueNames, All
<1>8. \A p, o \in TagsOf(new) : p # o => All(new, p) \cap All(new, o) = {}
  BY <1>4, <1>5, <1>6, <1>7
<1> QED BY <1>8 DEF UniqueNames, All, new

LEMMA DestroyKeepsUnique ==
  ASSUME NEW db \in TagDbs, UniqueNames(db), NEW D \in SUBSET TagIds
  PROVE UniqueNames(Destroyed(db, D))
BY DEF UniqueNames, Destroyed, TagsOf, TagDbs

LEMMA MergeKeepsUnique ==
  ASSUME NEW db \in TagDbs, UniqueNames(db), NEW src \in SUBSET TagsOf(db),
         NEW dst \in TagsOf(db), dst \notin src
  PROVE UniqueNames(Merged(db, src, dst))
<1> DEFINE new == Merged(db, src, dst)
           All(d, o) == {d.name[o]} \cup d.aliases[o]
<1>1. /\ new.name = [t \in TagIds |-> IF t \in src THEN NoName ELSE db.name[t]]
      /\ new.aliases = [[t \in TagIds |-> IF t \in src THEN {} ELSE db.aliases[t]]
                         EXCEPT ![dst] = @ \cup NamesOf(db, src) \cup AliasesOf(db, src)]
  BY DEF Merged, Destroyed
<1> HIDE DEF new
<1>2. TagsOf(new) = TagsOf(db) \ src
  BY <1>1 DEF TagsOf
<1>3. \A o \in TagsOf(new) : o # dst => All(new, o) = All(db, o)
  BY <1>1, <1>2 DEF TagsOf
<1>4. \A x \in All(new, dst) : x \in All(db, dst) \/ \E s \in src : x \in All(db, s)
  BY <1>1 DEF NamesOf, AliasesOf, TagsOf
<1> HIDE DEF All
<1>5. \A p, o \in TagsOf(db) : p # o => All(db, p) \cap All(db, o) = {}
  BY DEF UniqueNames, All
<1>6. \A p, o \in TagsOf(new) : p # o => All(new, p) \cap All(new, o) = {}
  BY <1>2, <1>3, <1>4, <1>5
<1> QED BY <1>6 DEF UniqueNames, All, new

LEMMA CreateKeepsUnique ==
  ASSUME NEW db \in TagDbs, UniqueNames(db), NEW t \in TagIds \ TagsOf(db), NEW n \in Names,
         NEW A \in SUBSET Names, NEW R,
         NameFree(db, t, n), \A a \in A : NameFree(db, t, a)
  PROVE UniqueNames([name |-> [db.name EXCEPT ![t] = n],
                     aliases |-> [db.aliases EXCEPT ![t] = A \ {n}], rel |-> R])
BY DEF UniqueNames, NameFree, TagsOf, TagDbs

-----------------------------------------------------------------------------
(* Tags: the hierarchy *)

(* An update that adds on one side only makes no cycle. *)
LEMMA OneSideAcyclic ==
  ASSUME NEW db \in TagDbs, Acyclic(db.rel, TagIds), NEW t \in TagIds, NEW v \in ChangeType,
         ValidUpdate(db, t, v),
         \/ ParentsAfter(db, t, v) \subseteq ParentsIn(db.rel, t)
         \/ ChildrenAfter(db, t, v) \subseteq ChildrenIn(db.rel, t)
  PROVE Acyclic(Updated(db, t, v).rel, TagIds)
<1> DEFINE R == db.rel
           P == ParentsAfter(db, t, v)
           C == ChildrenAfter(db, t, v)
<1>1. R \in SUBSET (TagIds \X TagIds)
  BY DEF TagDbs
<1>2. P \in SUBSET TagIds /\ C \in SUBSET TagIds
  BY AfterTypes
<1>3. Updated(db, t, v).rel = Replaced(R, t, P, C)
  BY UpdatedFields
<1>4. CASE v.parents.mode = "KEEP" /\ v.children.mode = "KEEP"
  <2>1. P = ParentsIn(R, t) /\ C = ChildrenIn(R, t)
    BY <1>4 DEF ParentsAfter, ChildrenAfter, Apply
  <2>2. Replaced(R, t, P, C) \subseteq R
    BY <1>1, <2>1 DEF Replaced, ParentsIn, ChildrenIn
  <2> QED BY <1>3, <2>2, FewerAcyclic
<1>5. CASE v.parents.mode # "KEEP" \/ v.children.mode # "KEEP"
  <2>1. P \cap Descendants(R, TagIds, t) = {} /\ C \cap Ancestors(R, TagIds, t) = {}
    BY <1>5 DEF ValidUpdate, HierarchyOfExisting
  <2>2. t \notin P /\ t \notin C
    BY <1>1, <2>1, DescendantsClosed, AncestorsClosed
  <2>3. CASE P \subseteq ParentsIn(R, t)
    <3> DEFINE D == TagIds \ Ancestors(R, TagIds, t)
    <3>1. DownClosed(R, D)
      BY <1>1, AncestorsClosed DEF DownClosed, UpClosed
    <3>2. ParentsIn(R, t) \subseteq Ancestors(R, TagIds, t)
      BY <1>1, AncestorsClosed DEF UpClosed, ParentsIn
    <3>3. P \cap D = {} /\ C \subseteq D /\ D \in SUBSET TagIds
      BY <1>2, <2>1, <2>3, <3>2
    <3> HIDE DEF D, P, C, R
    <3> QED BY <1>1, <1>2, <1>3, <2>2, <3>1, <3>3, ReplacedAcyclic DEF R
  <2>4. CASE C \subseteq ChildrenIn(R, t)
    <3> DEFINE D == Descendants(R, TagIds, t)
    <3>1. DownClosed(R, D) /\ D \in SUBSET TagIds /\ t \in D
      BY <1>1, DescendantsClosed
    <3>2. C \subseteq D
      BY <1>1, <2>4, <3>1 DEF DownClosed, ChildrenIn
    <3> HIDE DEF D, P, C, R
    <3>3. P \cap D = {}
      BY <2>1 DEF D, P, R
    <3> QED BY <1>1, <1>2, <1>3, <2>2, <3>1, <3>2, <3>3, ReplacedAcyclic DEF R
  <2> QED BY <2>3, <2>4
<1> QED BY <1>4, <1>5

(* A new tag is put between parents and children that are not above them.  *)
LEMMA NewAcyclic ==
  ASSUME NEW db \in TagDbs, Acyclic(db.rel, TagIds), NEW t \in TagIds \ TagsOf(db),
         NEW P \in SUBSET TagsOf(db), NEW C \in SUBSET TagsOf(db),
         P \cup C # {} => HierarchyOfNew(db, P, C)
  PROVE Acyclic(Replaced(db.rel, t, P, C), TagIds)
<1> DEFINE R == db.rel
           D == UNION {Descendants(R, TagIds, c) : c \in C}
<1>1. R \in SUBSET (TagIds \X TagIds) /\ C \subseteq TagIds /\ P \subseteq TagIds
  BY DEF TagDbs, TagsOf
<1>2. D \in SUBSET TagIds /\ DownClosed(R, D) /\ C \subseteq D
  <2>1. \A c \in C : /\ c \in Descendants(R, TagIds, c)
                     /\ Descendants(R, TagIds, c) \subseteq TagIds
                     /\ DownClosed(R, Descendants(R, TagIds, c))
    BY <1>1, DescendantsClosed
  <2>2. DownClosed(R, D)
    BY <2>1 DEF DownClosed
  <2> QED BY <2>1, <2>2
<1>3. P \cap D = {}
  BY DEF HierarchyOfNew
<1>4. t \notin P /\ t \notin C
  OBVIOUS
<1> HIDE DEF D, R
<1>5. Acyclic(R, TagIds)
  BY DEF R
<1>6. Acyclic(Replaced(R, t, P, C), TagIds)
  BY <1>1, <1>2, <1>3, <1>4, <1>5, ReplacedAcyclic
<1> QED BY <1>6 DEF R

-----------------------------------------------------------------------------
(* Tags: the mutations *)

(* NamesUnique, also of what a bulk update that fails puts back. *)
TagInv ==
  /\ TagTypeOK
  /\ UniqueNames(tagDb)
  /\ UniqueNames(batch.saved)

(* What CyclesNeedBothSides says of a step. *)
NoCycleOtherwise ==
  Acyclic(tagDb.rel, TagIds) /\ ~Acyclic(tagDb'.rel, TagIds) => BothSides \/ tagDb' = batch.saved

LEMMA TagInvInit == TagInit => TagInv
<1>1. UniqueNames(EmptyDb)
  BY DEF UniqueNames, TagsOf, EmptyDb
<1> QED BY <1>1, IdleType, EmptyType DEF TagInit, TagInv, TagTypeOK

LEMMA SameBatchKeeps ==
  ASSUME TagInv, tagDb' \in TagDbs, UniqueNames(tagDb'), batch' = batch \/ batch' = Idle
  PROVE TagInv'
<1>1. UniqueNames(EmptyDb)
  BY DEF UniqueNames, TagsOf, EmptyDb
<1> QED BY <1>1, IdleType, EmptyType DEF TagInv, TagTypeOK, UniqueNames

LEMMA TagCreateKeeps ==
  ASSUME TagInv, NEW t \in TagIds, NEW n \in Names, NEW A \in SUBSET Names,
         NEW P \in SUBSET TagIds, NEW C \in SUBSET TagIds, TagCreate(t, n, A, P, C)
  PROVE TagInv' /\ NoCycleOtherwise
<1> DEFINE new == [name |-> [tagDb.name EXCEPT ![t] = n],
                   aliases |-> [tagDb.aliases EXCEPT ![t] = A \ {n}],
                   rel |-> Replaced(tagDb.rel, t, P, C)]
<1>1. tagDb \in TagDbs /\ UniqueNames(tagDb)
  BY DEF TagInv, TagTypeOK
<1>2. tagDb' = new /\ batch' = batch /\ t \in TagIds \ TagsOf(tagDb)
  BY DEF TagCreate
<1>3. new \in TagDbs
  BY <1>1, CreatedType
<1>4. UniqueNames(new)
  BY <1>1, <1>2, CreateKeepsUnique DEF TagCreate
<1>5. Acyclic(tagDb.rel, TagIds) => Acyclic(new.rel, TagIds)
  BY <1>1, <1>2, NewAcyclic DEF TagCreate
<1> HIDE DEF new
<1> QED BY <1>2, <1>3, <1>4, <1>5, SameBatchKeeps DEF NoCycleOtherwise

LEMMA RowsOf ==
  ASSUME NEW R, NEW p, NEW c, <<p, c>> \in R
  PROVE p \in ParentsIn(R, c) /\ c \in ChildrenIn(R, p)
<1> DEFINE e == <<p, c>>
<1>1. e[1] = p /\ e[2] = c /\ e \in R
  OBVIOUS
<1> HIDE DEF e
<1> QED BY <1>1 DEF ParentsIn, ChildrenIn

(* An update of tagDb, or of tagDb after a merge into t. *)
LEMMA UpdateStep ==
  ASSUME NEW db \in TagDbs, UniqueNames(db), db.rel \subseteq tagDb.rel,
         \A e \in tagDb.rel : e[1] \in TagsOf(db) /\ e[2] \in TagsOf(db) => e \in db.rel,
         NEW t \in TagsOf(tagDb), NEW v \in ChangeType, ValidUpdate(db, t, v),
         tagDb' = Updated(db, t, v)
  PROVE tagDb' \in TagDbs /\ UniqueNames(tagDb') /\ NoCycleOtherwise
<1> DEFINE P == ParentsAfter(db, t, v)
           C == ChildrenAfter(db, t, v)
<1>0. t \in TagIds
  BY DEF TagsOf
<1>1. tagDb' \in TagDbs /\ UniqueNames(tagDb')
  BY <1>0, UpdatedType, UpdateKeepsUnique
<1>2. tagDb'.rel = Replaced(db.rel, t, P, C)
  BY <1>0, UpdatedFields
<1>3. t \in TagsOf(db) /\ P \cup C \subseteq TagsOf(db)
  BY DEF ValidUpdate
<1>4. ASSUME Acyclic(tagDb.rel, TagIds), ~BothSides
      PROVE Acyclic(tagDb'.rel, TagIds)
  <2>1. Acyclic(db.rel, TagIds)
    BY <1>4, FewerAcyclic
  <2>2. \/ \A p \in TagIds : <<p, t>> \notin tagDb'.rel \ tagDb.rel
        \/ \A c \in TagIds : <<t, c>> \notin tagDb'.rel \ tagDb.rel
    BY <1>4 DEF BothSides
  <2> HIDE DEF P, C
  <2>3. \A p \in P : <<p, t>> \in tagDb'.rel
    BY <1>2 DEF Replaced
  <2>4. \A c \in C : <<t, c>> \in tagDb'.rel
    BY <1>2 DEF Replaced
  <2>5. TagsOf(db) \subseteq TagIds
    BY DEF TagsOf
  <2>6. \A x, y \in TagsOf(db) : <<x, y>> \in tagDb.rel => <<x, y>> \in db.rel
    OBVIOUS
  <2>7. P \subseteq ParentsIn(db.rel, t) \/ C \subseteq ChildrenIn(db.rel, t)
    <3>1. CASE \A p \in TagIds : <<p, t>> \notin tagDb'.rel \ tagDb.rel
      <4>1. ASSUME NEW p \in P PROVE <<p, t>> \in db.rel
        <5>1. p \in TagsOf(db) /\ p \in TagIds
          BY <1>3, <2>5
        <5>2. <<p, t>> \in tagDb.rel
          BY <2>3, <3>1, <5>1
        <5> QED BY <1>3, <2>6, <5>1, <5>2
      <4> QED BY <4>1, RowsOf
    <3>2. CASE \A c \in TagIds : <<t, c>> \notin tagDb'.rel \ tagDb.rel
      <4>1. ASSUME NEW c \in C PROVE <<t, c>> \in db.rel
        <5>1. c \in TagsOf(db) /\ c \in TagIds
          BY <1>3, <2>5
        <5>2. <<t, c>> \in tagDb.rel
          BY <2>4, <3>2, <5>1
        <5> QED BY <1>3, <2>6, <5>1, <5>2
      <4> QED BY <4>1, RowsOf
    <3> QED BY <2>2, <3>1, <3>2
  <2> QED BY <1>0, <2>1, <2>7, OneSideAcyclic DEF P, C
<1> QED BY <1>1, <1>4 DEF NoCycleOtherwise

LEMMA TagUpdateKeeps ==
  ASSUME TagInv, NEW t \in TagIds, NEW v \in TagChanges, TagUpdate(t, v)
  PROVE TagInv' /\ NoCycleOtherwise
<1>1. tagDb \in TagDbs /\ UniqueNames(tagDb) /\ v \in ChangeType
  BY ChangesAssumption DEF TagInv, TagTypeOK
<1>2. Sanitized(tagDb, t, v) \in ChangeType
  BY <1>1, SanitizedType
<1>3. /\ ValidUpdate(tagDb, t, Sanitized(tagDb, t, v))
      /\ tagDb' = Updated(tagDb, t, Sanitized(tagDb, t, v))
      /\ batch' = batch
  BY DEF TagUpdate
<1>4. t \in TagsOf(tagDb)
  BY <1>3 DEF ValidUpdate
<1>5. tagDb' \in TagDbs /\ UniqueNames(tagDb') /\ NoCycleOtherwise
  BY <1>1, <1>2, <1>3, <1>4, UpdateStep
<1> QED BY <1>3, <1>5, SameBatchKeeps

LEMMA BatchNextKeeps ==
  ASSUME TagInv, BatchNext
  PROVE TagInv' /\ NoCycleOtherwise
<1>1. tagDb \in TagDbs /\ UniqueNames(tagDb)
  BY DEF TagInv, TagTypeOK
<1>2. batch.left \in Seq(TagIds) /\ batch.left # <<>> /\ batch.change \in ChangeType
  BY DEF TagInv, TagTypeOK, BatchNext, NoBatch
<1>3. Head(batch.left) \in TagIds /\ Tail(batch.left) \in Seq(TagIds)
  BY <1>2
<1>4. /\ ValidUpdate(tagDb, Head(batch.left), batch.change)
      /\ tagDb' = Updated(tagDb, Head(batch.left), batch.change)
      /\ batch' = Idle \/ batch' = [batch EXCEPT !.left = Tail(@)]
  BY DEF BatchNext
<1>5. Head(batch.left) \in TagsOf(tagDb)
  BY <1>4 DEF ValidUpdate
<1>6. tagDb' \in TagDbs /\ UniqueNames(tagDb') /\ NoCycleOtherwise
  BY <1>1, <1>2, <1>4, <1>5, UpdateStep
<1>7. CASE batch' = Idle
  BY <1>6, <1>7, SameBatchKeeps
<1>8. CASE batch' = [batch EXCEPT !.left = Tail(@)]
  <2>1. batch' \in [left : Seq(TagIds), change : ChangeType, saved : TagDbs]
    BY <1>3, <1>8 DEF TagInv, TagTypeOK
  <2>2. batch'.saved = batch.saved
    BY <1>8 DEF TagInv, TagTypeOK
  <2> QED BY <1>6, <2>1, <2>2 DEF TagInv, TagTypeOK, UniqueNames
<1> QED BY <1>4, <1>6, <1>7, <1>8

LEMMA BulkTagUpdateKeeps ==
  ASSUME TagInv, NEW ids \in BulkTags, NEW v \in BulkChanges, BulkTagUpdate(ids, v)
  PROVE TagInv' /\ NoCycleOtherwise
<1>1. ids \in Seq(TagIds) /\ v \in ChangeType
  BY BulkAssumption, ChangesAssumption
<1>2. batch' = [left |-> ids, change |-> v, saved |-> tagDb] /\ tagDb' = tagDb
  BY DEF BulkTagUpdate
<1> QED BY <1>1, <1>2 DEF TagInv, TagTypeOK, UniqueNames, NoCycleOtherwise

LEMMA BatchFailsKeeps == ASSUME TagInv, BatchFails PROVE TagInv' /\ NoCycleOtherwise
<1>1. batch.saved \in TagDbs /\ UniqueNames(batch.saved)
  BY DEF TagInv, TagTypeOK
<1>2. tagDb' = batch.saved /\ batch' = Idle
  BY DEF BatchFails
<1>3. UniqueNames(tagDb')
  BY <1>1, <1>2
<1> QED BY <1>1, <1>2, <1>3, SameBatchKeeps DEF NoCycleOtherwise

LEMMA TagsDestroyKeeps ==
  ASSUME TagInv, NEW D \in SUBSET TagIds, TagsDestroy(D)
  PROVE TagInv' /\ NoCycleOtherwise
<1>1. tagDb \in TagDbs /\ UniqueNames(tagDb)
  BY DEF TagInv, TagTypeOK
<1>2. tagDb' = Destroyed(tagDb, D) /\ batch' = batch
  BY DEF TagsDestroy
<1>3. tagDb' \in TagDbs /\ UniqueNames(tagDb')
  BY <1>1, <1>2, DestroyedType, DestroyKeepsUnique
<1>4. tagDb'.rel \subseteq tagDb.rel
  BY <1>2 DEF Destroyed
<1> QED BY <1>2, <1>3, <1>4, FewerAcyclic, SameBatchKeeps DEF NoCycleOtherwise

LEMMA TagsMergeKeeps ==
  ASSUME TagInv, NEW src \in SUBSET TagIds, NEW dst \in TagIds, NEW v \in TagChanges,
         TagsMerge(src, dst, v)
  PROVE TagInv' /\ NoCycleOtherwise
<1> DEFINE db == Merged(tagDb, src, dst)
<1>1. tagDb \in TagDbs /\ UniqueNames(tagDb) /\ v \in ChangeType
  BY ChangesAssumption DEF TagInv, TagTypeOK
<1>2. /\ src \in SUBSET TagsOf(tagDb) /\ dst \in TagsOf(tagDb) /\ dst \notin src
      /\ ValidUpdate(db, dst, v) /\ tagDb' = Updated(db, dst, v) /\ batch' = batch
  BY DEF TagsMerge
<1>3. db \in TagDbs /\ UniqueNames(db)
  BY <1>1, <1>2, MergedType, MergeKeepsUnique
<1>4. db.rel = {e \in tagDb.rel : e[1] \notin src /\ e[2] \notin src}
  BY DEF Merged, Destroyed
<1>5. \A t \in TagsOf(db) : t \notin src
  BY DEF Merged, Destroyed, TagsOf
<1> HIDE DEF db
<1>6. tagDb' \in TagDbs /\ UniqueNames(tagDb') /\ NoCycleOtherwise
  BY <1>1, <1>2, <1>3, <1>4, <1>5, UpdateStep
<1> QED BY <1>2, <1>6, SameBatchKeeps

LEMMA TagInvNext ==
  ASSUME TagInv, [TagNext]_tagVars
  PROVE TagInv' /\ [NoCycleOtherwise]_tagVars
<1>1. CASE \E t \in TagIds, n \in Names, A \in SUBSET Names, P, C \in SUBSET TagIds :
             TagCreate(t, n, A, P, C)
  BY <1>1, TagCreateKeeps
<1>2. CASE \E t \in TagIds, v \in TagChanges : TagUpdate(t, v)
  BY <1>2, TagUpdateKeeps
<1>3. CASE \E ids \in BulkTags, v \in BulkChanges : BulkTagUpdate(ids, v)
  BY <1>3, BulkTagUpdateKeeps
<1>4. CASE BatchNext
  BY <1>4, BatchNextKeeps
<1>5. CASE BatchFails
  BY <1>5, BatchFailsKeeps
<1>6. CASE \E D \in SUBSET TagIds : TagsDestroy(D)
  BY <1>6, TagsDestroyKeeps
<1>7. CASE \E src \in SUBSET TagIds, dst \in TagIds, v \in TagChanges : TagsMerge(src, dst, v)
  BY <1>7, TagsMergeKeeps
<1>8. CASE UNCHANGED tagVars
  BY <1>8 DEF tagVars, TagInv, TagTypeOK, UniqueNames, TagsOf
<1> QED BY <1>1, <1>2, <1>3, <1>4, <1>5, <1>6, <1>7, <1>8 DEF TagNext

(* A name or an alias leads to one tag, whatever is created, renamed,      *)
(* merged, updated in bulk or undone.                                      *)
THEOREM TagNamesUnique == TagSpec => []NamesUnique
<1>1. TagInv => NamesUnique
  BY DEF TagInv, UniqueNames, NamesUnique
<1>2. TagInv /\ [TagNext]_tagVars => TagInv'
  BY TagInvNext
<1> QED BY <1>1, <1>2, TagInvInit, PTL DEF TagSpec

(* The hierarchy of the tags gets a cycle by nothing but an update that    *)
(* gives a tag new parents and new children at once.                       *)
THEOREM TagCyclesNeedBothSides == TagSpec => CyclesNeedBothSides
<1>1. TagInv /\ [TagNext]_tagVars => TagInv' /\ [NoCycleOtherwise]_tagVars
  BY TagInvNext
<1> QED BY <1>1, TagInvInit, PTL DEF TagSpec, CyclesNeedBothSides, NoCycleOtherwise
=============================================================================
