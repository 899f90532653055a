------------------------------ MODULE MCCatalog ------------------------------
(***************************************************************************)
(* The module TLC checks: tags, groups, and the deletion of objects with   *)
(* their files.  The three share no table and no mutation, so a behaviour  *)
(* is about one of them.                                                   *)
(***************************************************************************)
EXTENDS Tags, Groups, SafeDelete, TLC

CONSTANTS t1, t2, t3, g1, g2, g3, g4, n1, n2, n3, p1, p2, f1, f2, f3

VARIABLE edited \* "tags", "groups" or "files"

SetTo(S) == {[mode |-> "SET", values |-> S]}

Modes(S) == {[mode |-> m, values |-> S] : m \in {"SET", "ADD", "REMOVE"}}

RenamesOnly ==
  {[Unchanged EXCEPT !.name = n, !.aliases = a] :
     n \in Names \cup {NoName}, a \in {Keep} \cup UNION {SetTo(A) : A \in SUBSET Names}}

RelationsOnly ==
  {[Unchanged EXCEPT !.parents = p, !.children = c] :
     p, c \in {Keep} \cup UNION {SetTo(S) : S \in SUBSET TagIds}}

SomeChanges == RenamesOnly \cup RelationsOnly

SomeBulkChanges ==
  {[Unchanged EXCEPT !.aliases = a] : a \in UNION {Modes({n}) : n \in Names}}
    \cup {[Unchanged EXCEPT !.parents = p] : p \in UNION {Modes({t}) : t \in TagIds}}
    \cup {[Unchanged EXCEPT !.children = p] : p \in UNION {Modes({t}) : t \in TagIds}}

Pairs(S) == {<<x, y>> : x, y \in S} \ {<<x, x>> : x \in S}

TwoTags == Pairs(TagIds)

TwoGroups == Pairs(GroupIds)

ShortLists == {<<>>} \cup {<<g>> : g \in GroupIds} \cup TwoGroups

One(m) == {[mode |-> m, list |-> <<g>>] : g \in GroupIds}

BothAdded == [containing : {KeepAll} \cup One("ADD"), subs : {KeepAll} \cup One("ADD")]

SomeGroupChanges ==
  BothAdded
    \cup [containing : One("SET") \cup One("REMOVE"), subs : {KeepAll}]
    \cup [containing : {KeepAll}, subs : One("SET") \cup One("REMOVE")]

SomeBulkGroupChanges == [containing : One("ADD"), subs : {KeepAll}]

\* Two groups that are reordered together are sub-groups.
ReorderedAreSubGroups ==
  call.kind = "reorder" /\ Len(call.ids) = 2 =>
    \A g \in call.group : ToSet(call.ids) \subseteq SubsOf(order, g)

Symmetric ==
  Permutations(TagIds) \cup Permutations(Names) \cup Permutations(GroupIds)

\* Two callers that share an object; the Deleter of the second moves its
\* files to the trash.
Callers == {p1, p2}
WorkShared == (p1 :> <<f1, f2>>) @@ (p2 :> <<f1, f3>>)
OwnDeleter == [p \in Callers |-> p]
TrashSecond == [d \in Callers |-> d = p2]

CatalogInit == edited \in {"tags", "groups", "files"} /\ TagInit /\ GroupInit /\ DelInit

CatalogNext ==
  \/ edited = "tags" /\ TagNext /\ UNCHANGED <<edited, groupVars, vars>>
  \/ edited = "groups" /\ GroupNext /\ UNCHANGED <<edited, tagVars, vars>>
  \/ edited = "files" /\ DelNext /\ UNCHANGED <<edited, tagVars, groupVars>>

CatalogSpec == CatalogInit /\ [][CatalogNext]_<<edited, tagVars, groupVars, vars>>
=============================================================================
