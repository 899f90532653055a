------------------------------- MODULE Groups -------------------------------
(***************************************************************************)
(* The groups and their sub-groups, in order, as the mutations of the API  *)
(* change them (internal/api/resolver_mutation_group.go, pkg/group,        *)
(* pkg/sqlite/group_relationships.go).                                     *)
(*                                                                         *)
(* A mutation is one transaction, which has the database to itself.  One   *)
(* that works through a list of groups is here a step for each; when one   *)
(* of them fails, all are undone.  Other mutations that fail are no step.  *)
(***************************************************************************)
EXTENDS Hierarchy, SequencesExt

CONSTANTS
  GroupIds,      \* the IDs a group may have
  GroupLists,    \* the lists of groups that a client may give
  BulkGroups,    \* those given to a bulk update
  GroupChanges,  \* the values of an update: what is done to its containing and sub-groups
  BulkGroupChanges, \* those of a bulk update
  LastIndex,     \* bound on order_index
  MaxRelations   \* bound on the rows of groups_relations

VARIABLES
  groups, \* the IDs in use
  order,  \* order[c][s]: the order_index of s in c, or 0 when it is not in c
  call    \* the mutation that works through a list

groupVars == <<groups, order, call>>

Orders == [GroupIds -> [GroupIds -> Nat]]

UpdateOfGroups == [mode : {"KEEP", "SET", "ADD", "REMOVE"}, list : Seq(GroupIds)]

GroupChangeType == [containing : UpdateOfGroups, subs : UpdateOfGroups]

ASSUME ListsAssumption ==
  GroupLists \subseteq Seq(GroupIds) /\ BulkGroups \subseteq Seq(GroupIds)
ASSUME GroupChangesAssumption ==
  GroupChanges \subseteq GroupChangeType /\ BulkGroupChanges \subseteq GroupChangeType
ASSUME LastIndexAssumption == LastIndex \in Nat

KeepAll == [mode |-> "KEEP", list |-> <<>>]

NoCall ==
  [kind |-> "none", ids |-> <<>>, left |-> <<>>, group |-> {}, at |-> {}, after |-> FALSE,
   change |-> [containing |-> KeepAll, subs |-> KeepAll], saved |-> <<>>]

(* A call that is under way; group and at are sets of at most one group.   *)
CallType ==
  [kind : {"update", "reorder"}, ids : Seq(GroupIds), left : Seq(GroupIds),
   group : SUBSET GroupIds, at : SUBSET GroupIds, after : BOOLEAN,
   change : GroupChangeType, saved : Orders]

NoOrder == [c \in GroupIds |-> [s \in GroupIds |-> 0]]

GroupTypeOK ==
  /\ groups \subseteq GroupIds
  /\ order \in Orders
  /\ call \in CallType \cup {NoCall}

GroupInit == groups = {} /\ order = NoOrder /\ call = NoCall

GroupRel(o) == {e \in GroupIds \X GroupIds : o[e[1]][e[2]] > 0}

SubsOf(o, c) == {s \in GroupIds : o[c][s] > 0}

ContainingOf(o, g) == {c \in GroupIds : o[c][g] > 0}

-----------------------------------------------------------------------------
(* The store: rows of one containing group *)

MaxOrderIndex(row) == CHOOSE i \in {0} \cup {row[s] : s \in GroupIds} :
                        \A s \in GroupIds : row[s] <= i

PositionIn(list, s) == CHOOSE i \in DOMAIN list : list[i] = s

(* addJoins and createRelationships, for the sub-groups of c: they come    *)
(* after those that are there.                                             *)
WithSubs(o, c, list) ==
  [o EXCEPT ![c] = [s \in GroupIds |->
     IF s \in ToSet(list) THEN MaxOrderIndex(o[c]) + PositionIn(list, s) ELSE o[c][s]]]

(* The same for the containing groups of g: it is put last in each.        *)
WithContaining(o, g, list) ==
  [c \in GroupIds |->
     IF c \in ToSet(list) THEN [o[c] EXCEPT ![g] = MaxOrderIndex(o[c]) + 1] ELSE o[c]]

WithoutSubs(o, c, S) ==
  [o EXCEPT ![c] = [s \in GroupIds |-> IF s \in S THEN 0 ELSE o[c][s]]]

WithoutContaining(o, g, C) ==
  [c \in GroupIds |-> IF c \in C THEN [o[c] EXCEPT ![g] = 0] ELSE o[c]]

(* modifyRelationships: what is inserted must not be there already (the    *)
(* primary key).                                                           *)
ModifiedSubs(o, g, u) ==
  CASE u.mode = "SET" -> WithSubs(WithoutSubs(o, g, GroupIds), g, u.list)
    [] u.mode = "ADD" -> WithSubs(o, g, u.list)
    [] u.mode = "REMOVE" -> WithoutSubs(o, g, ToSet(u.list))
    [] OTHER -> o

ModifiedContaining(o, g, u) ==
  CASE u.mode = "SET" -> WithContaining(WithoutContaining(o, g, GroupIds), g, u.list)
    [] u.mode = "ADD" -> WithContaining(o, g, u.list)
    [] u.mode = "REMOVE" -> WithoutContaining(o, g, ToSet(u.list))
    [] OTHER -> o

Insertable(u, existing) ==
  /\ u.mode \in {"SET", "ADD"} => IsInjective(u.list)
  /\ u.mode = "ADD" => ToSet(u.list) \cap existing = {}

(* getOrderIndexAfterOrderIndex *)
IndexAfter(row, i) ==
  LET Later == {row[s] : s \in {x \in GroupIds : row[x] > i}}
  IN IF Later = {} THEN i + 1 ELSE CHOOSE j \in Later : \A k \in Later : j <= k

IncrementLater(row, i) == \* mutant: the index itself is left occupied
  [s \in GroupIds |-> IF row[s] > 0 /\ row[s] > i THEN row[s] + 1 ELSE row[s]]

(* incrementOrderIndexes *)
Increment(row, i) ==
  [s \in GroupIds |-> IF row[s] > 0 /\ row[s] >= i THEN row[s] + 1 ELSE row[s]]

(* reorderSubGroup: s is put before or after the sub-group p. *)
Reordered(row, s, p, after) ==
  LET i == IF after THEN IndexAfter(row, row[p]) ELSE row[p]
      Shifted == Increment(row, i)
  IN IF row[s] > 0 THEN [Shifted EXCEPT ![s] = i] ELSE Shifted

-----------------------------------------------------------------------------
(* Validation *)

ApplyTo(u, existing) ==
  CASE u.mode = "SET" -> ToSet(u.list)
    [] u.mode = "ADD" -> existing \cup ToSet(u.list)
    [] u.mode = "REMOVE" -> existing \ ToSet(u.list)
    [] OTHER -> existing

(* FindInAncestors: the given groups count as their own ancestors.         *)
InAncestors(o, C, S) ==
  \E c \in C : S \cap Ancestors(GroupRel(o), GroupIds, c) # {}

HierarchyValidEither(o, C, S) == \* mutant: present sub-groups are not looked at
  \A c \in C : c \notin S

(* validateGroupHierarchy: if one of the lists is empty there is no check. *)
HierarchyValid(o, C, S) == C = {} \/ S = {} \/ ~InAncestors(o, C, S)

(* Service.validateUpdate, and the constraints of the table. *)
ValidGroupUpdate(o, g, v) ==
  LET C == ApplyTo(v.containing, ContainingOf(o, g))
      S == ApplyTo(v.subs, SubsOf(o, g)) IN
  /\ g \in groups
  /\ C \cup S \subseteq groups
  /\ v.containing.mode # "KEEP" \/ v.subs.mode # "KEEP" =>
       g \notin C \cup S /\ HierarchyValid(o, C, S)
  /\ Insertable(v.containing, ContainingOf(o, g))
  /\ Insertable(v.subs, SubsOf(o, g))

GroupUpdated(o, g, v) ==
  ModifiedSubs(ModifiedContaining(o, g, v.containing), g, v.subs)

-----------------------------------------------------------------------------
(* The mutations *)

NoOneCalls == call = NoCall

WithinBounds(o) ==
  /\ o \in [GroupIds -> [GroupIds -> 0..LastIndex]]
  /\ Cardinality(GroupRel(o)) <= MaxRelations

GroupCreate(g, C, S) ==
  /\ NoOneCalls
  /\ g \notin groups
  /\ ToSet(C) \cup ToSet(S) \subseteq groups
  /\ IsInjective(C) /\ IsInjective(S)
  /\ HierarchyValid(order, ToSet(C), ToSet(S))
  /\ groups' = groups \cup {g}
  /\ order' = WithSubs(WithContaining(order, g, C), g, S)
  /\ WithinBounds(order')
  /\ UNCHANGED call

GroupUpdate(g, v) ==
  /\ NoOneCalls
  /\ ValidGroupUpdate(order, g, v)
  /\ order' = GroupUpdated(order, g, v)
  /\ WithinBounds(order')
  /\ UNCHANGED <<groups, call>>

BulkGroupUpdate(ids, v) ==
  /\ NoOneCalls
  /\ ids # <<>>
  /\ call' = [NoCall EXCEPT !.kind = "update", !.ids = ids, !.left = ids, !.change = v, !.saved = order]
  /\ UNCHANGED <<groups, order>>

(* GroupDestroy and GroupsDestroy; the rows of the relation go with them.  *)
GroupsDestroy(D) ==
  /\ NoOneCalls
  /\ D # {} /\ D \subseteq groups
  /\ groups' = groups \ D
  /\ order' = [c \in GroupIds |-> [s \in GroupIds |->
                 IF c \in D \/ s \in D THEN 0 ELSE order[c][s]]]
  /\ UNCHANGED call

ReorderSubGroups(g, ids, p, after) ==
  /\ NoOneCalls
  /\ ids # <<>> /\ order[g][p] > 0
  /\ MaxOrderIndex(order[g]) + Len(ids) <= LastIndex
  /\ call' = [NoCall EXCEPT !.kind = "reorder", !.ids = ids, !.left = ids, !.group = {g},
                            !.at = {p}, !.after = after, !.saved = order]
  /\ UNCHANGED <<groups, order>>

(* AddGroupSubGroups: the sub-groups are added at the end and then put     *)
(* before the one that has the given index, if there is one.               *)
AddGroupSubGroups(g, ids, insert) ==
  LET Added == WithSubs(order, g, ids)
      At == {s \in GroupIds : insert > 0 /\ Added[g][s] = insert} IN
  /\ NoOneCalls
  /\ ids # <<>>
  /\ ValidGroupUpdate(order, g, [containing |-> KeepAll, subs |-> [mode |-> "ADD", list |-> ids]])
  /\ order' = Added
  /\ WithinBounds(order') /\ MaxOrderIndex(Added[g]) + Len(ids) <= LastIndex
  /\ call' = IF At = {} THEN NoCall
             ELSE [NoCall EXCEPT !.kind = "reorder", !.ids = ids, !.left = ids, !.group = {g},
                                 !.at = At, !.saved = order]
  /\ UNCHANGED groups

RemoveGroupSubGroups(g, S) ==
  /\ NoOneCalls
  /\ g \in groups
  /\ order' = WithoutSubs(order, g, S)
  /\ UNCHANGED <<groups, call>>

UpdateNext ==
  LET g == Head(call.left) IN
  /\ call.kind = "update" /\ call.left # <<>>
  /\ ValidGroupUpdate(order, g, call.change)
  /\ order' = GroupUpdated(order, g, call.change)
  /\ WithinBounds(order')
  /\ call' = [call EXCEPT !.left = Tail(@)]
  /\ UNCHANGED groups

ReorderNext ==
  \E g \in call.group, p \in call.at :
    /\ call.kind = "reorder" /\ call.left # <<>>
    /\ order[g][p] > 0
    /\ order' = [order EXCEPT ![g] = Reordered(order[g], Head(call.left), p, call.after)]
    /\ WithinBounds(order')
    /\ call' = [call EXCEPT !.left = Tail(@)]
    /\ UNCHANGED groups

CallReturns ==
  /\ ~NoOneCalls /\ call.left = <<>>
  /\ call' = NoCall
  /\ UNCHANGED <<groups, order>>

CallFails ==
  /\ ~NoOneCalls /\ call.left # <<>>
  /\ IF call.kind = "update"
     THEN \/ ~ValidGroupUpdate(order, Head(call.left), call.change)
          \/ ~WithinBounds(GroupUpdated(order, Head(call.left), call.change)) \* bound
     ELSE \E g \in call.group, p \in call.at : order[g][p] = 0
  /\ order' = call.saved
  /\ call' = NoCall
  /\ UNCHANGED groups

GroupNext ==
  \/ \E g \in GroupIds, C, S \in GroupLists : GroupCreate(g, C, S)
  \/ \E g \in GroupIds, v \in GroupChanges : GroupUpdate(g, v)
  \/ \E ids \in BulkGroups, v \in BulkGroupChanges : BulkGroupUpdate(ids, v)
  \/ \E D \in SUBSET GroupIds : GroupsDestroy(D)
  \/ \E g, p \in GroupIds, ids \in GroupLists, after \in BOOLEAN :
       ReorderSubGroups(g, ids, p, after)
  \/ \E g \in GroupIds, ids \in GroupLists, insert \in 0..LastIndex :
       AddGroupSubGroups(g, ids, insert)
  \/ \E g \in GroupIds, S \in SUBSET GroupIds : RemoveGroupSubGroups(g, S)
  \/ UpdateNext \/ ReorderNext \/ CallReturns \/ CallFails

GroupSpec == GroupInit /\ [][GroupNext]_groupVars

-----------------------------------------------------------------------------
(* Properties *)

(* "a group cannot be contained by one of its subgroups", directly or by   *)
(* others in between, whatever is added from above and from below in       *)
(* single and in bulk updates, and whatever is undone.                     *)
GroupsAcyclic == Acyclic(GroupRel(order), GroupIds)

Reordering == call.kind = "reorder" /\ call.left = <<>>

(* Row o before the call and row n after it, of sub-groups S. *)
SameOrder(o, n, S) == \A s, t \in S : o[s] < o[t] <=> n[s] < n[t]

(* s and t stand one right after the other. *)
Adjacent(row, s, t) ==
  /\ row[s] < row[t]
  /\ \A x \in GroupIds : ~(row[s] < row[x] /\ row[x] < row[t])

(* The given sub-groups, which do not include p and are not given twice,   *)
(* stand together right before p, or right after it, in the order given.   *)
InOrderAt(g, p) ==
  LET Wanted == IF call.after THEN <<p>> \o call.ids ELSE Append(call.ids, p)
  IN /\ p \notin ToSet(call.ids) /\ IsInjective(call.ids)
     /\ ToSet(call.ids) \subseteq SubsOf(order, g)
     => \A i \in 1..(Len(Wanted) - 1) : Adjacent(order[g], Wanted[i], Wanted[i + 1])

(* When sub-groups have been put before another one, or one after another, *)
(* they are where they were to be ("inserted in this order at the insert_  *)
(* index"), all others are still in their order, and no two have one       *)
(* index, whatever gaps and ends the indexes have.  Several that are put   *)
(* after another come out in reverse order: each is put right after it.    *)
ReordersAsAsked ==
  Reordering =>
    \A g \in call.group :
      /\ ~call.after \/ Len(call.ids) = 1 => \A p \in call.at : InOrderAt(g, p)
      /\ SameOrder(call.saved[g], order[g], SubsOf(call.saved, g) \ ToSet(call.ids))
      /\ \A s, t \in SubsOf(order, g) : s # t => order[g][s] # order[g][t]
=============================================================================
