-------------------------------- MODULE Tags --------------------------------
(***************************************************************************)
(* The tags: their names, aliases and hierarchy, as the mutations of the   *)
(* API change them (internal/api/resolver_mutation_tag.go), with the       *)
(* validation of pkg/tag and the constraints of the tables.                *)
(*                                                                         *)
(* A mutation is one transaction, which has the database to itself; what   *)
(* fails changes nothing and is no step, except for a bulk update, which   *)
(* may have updated some tags before it fails.  Names are compared without *)
(* regard to case: a name stands for all its spellings.                    *)
(***************************************************************************)
EXTENDS Hierarchy, Sequences

CONSTANTS
  TagIds,       \* the IDs a tag may have
  Names,        \* names and aliases
  NoName,       \* the name of an ID that is not in use
  TagChanges,   \* the values of an update
  BulkChanges,  \* the values of a bulk update, which has modes
  BulkTags      \* the IDs given to a bulk update

ASSUME NoNameAssumption == NoName \notin Names

VARIABLES
  tagDb, \* the tables tags, tag_aliases and tags_relations
  batch  \* the bulk update that is under way: tags to come, values, the database before

tagVars == <<tagDb, batch>>

TagDbs ==
  [name : [TagIds -> Names \cup {NoName}], aliases : [TagIds -> SUBSET Names],
   rel : SUBSET (TagIds \X TagIds)]

(* A field that is not in the input is kept. *)
Keep == [mode |-> "KEEP", values |-> {}]

UpdateOf(S) == [mode : {"KEEP", "SET", "ADD", "REMOVE"}, values : SUBSET S]

ChangeType ==
  [name : Names \cup {NoName}, aliases : UpdateOf(Names),
   parents : UpdateOf(TagIds), children : UpdateOf(TagIds)]

ASSUME ChangesAssumption ==
  TagChanges \subseteq ChangeType /\ BulkChanges \subseteq ChangeType

ASSUME BulkAssumption == BulkTags \subseteq Seq(TagIds)

EmptyDb ==
  [name |-> [t \in TagIds |-> NoName], aliases |-> [t \in TagIds |-> {}], rel |-> {}]

Unchanged == [name |-> NoName, aliases |-> Keep, parents |-> Keep, children |-> Keep]

Idle == [left |-> <<>>, change |-> Unchanged, saved |-> EmptyDb]

TagTypeOK ==
  /\ tagDb \in TagDbs
  /\ batch \in [left : Seq(TagIds), change : ChangeType, saved : TagDbs]

TagInit == tagDb = EmptyDb /\ batch = Idle

TagsOf(db) == {t \in TagIds : db.name[t] # NoName}

-----------------------------------------------------------------------------
(* Validation *)

Apply(u, existing) ==
  CASE u.mode = "SET" -> u.values
    [] u.mode = "ADD" -> existing \cup u.values
    [] u.mode = "REMOVE" -> existing \ u.values
    [] OTHER -> existing

(* EnsureTagNameUnique and EnsureAliasesUnique *)
NameFree(db, t, n) ==
  \A o \in TagsOf(db) : o # t => db.name[o] # n /\ n \notin db.aliases[o]

(* The queries follow all paths and keep the text of each: on a cycle that *)
(* does not go through t itself they do not end.                           *)
QueriesEnd(db, t) ==
  Acyclic({e \in db.rel : e[1] # t /\ e[2] # t},
          Ancestors(db.rel, TagIds, t) \cup Descendants(db.rel, TagIds, t))

(* ValidateHierarchyNew *)
HierarchyOfNew(db, P, C) ==
  /\ \A n \in P \cup C : QueriesEnd(db, n)
  /\ \A c \in C : P \cap Descendants(db.rel, TagIds, c) = {}
  /\ \A p \in P : C \cap Ancestors(db.rel, TagIds, p) = {}

HierarchyOfExistingOneWay(db, t, P, C) == \* mutant: the children are not looked at
  /\ QueriesEnd(db, t)
  /\ P \cap Descendants(db.rel, TagIds, t) = {}

(* ValidateHierarchyExisting: the parents are compared with the present    *)
(* descendants and the children with the present ancestors, not the        *)
(* parents with the children.                                              *)
HierarchyOfExisting(db, t, P, C) ==
  /\ QueriesEnd(db, t)
  /\ P \cap Descendants(db.rel, TagIds, t) = {}
  /\ C \cap Ancestors(db.rel, TagIds, t) = {}

AliasesAfter(db, t, v) == Apply(v.aliases, db.aliases[t])
ParentsAfter(db, t, v) == Apply(v.parents, ParentsIn(db.rel, t))
ChildrenAfter(db, t, v) == Apply(v.children, ChildrenIn(db.rel, t))

(* ValidateUpdate, and the foreign keys. *)
ValidUpdate(db, t, v) ==
  /\ t \in TagsOf(db)
  /\ v.name # NoName => NameFree(db, t, v.name)
  /\ v.aliases.mode # "KEEP" =>
       \A a \in AliasesAfter(db, t, v) : NameFree(db, t, a)
  /\ v.parents.mode # "KEEP" \/ v.children.mode # "KEEP" =>
       HierarchyOfExisting(db, t, ParentsAfter(db, t, v), ChildrenAfter(db, t, v))
  /\ ParentsAfter(db, t, v) \cup ChildrenAfter(db, t, v) \subseteq TagsOf(db)

-----------------------------------------------------------------------------
(* The store *)

(* TagStore.UpdatePartial *)
Updated(db, t, v) ==
  [db EXCEPT !.name[t] = IF v.name = NoName THEN @ ELSE v.name,
             !.aliases[t] = AliasesAfter(db, t, v),
             !.rel = Replaced(db.rel, t, ParentsAfter(db, t, v), ChildrenAfter(db, t, v))]

(* A row of tags goes with its aliases and relations. *)
Destroyed(db, D) ==
  [name |-> [t \in TagIds |-> IF t \in D THEN NoName ELSE db.name[t]],
   aliases |-> [t \in TagIds |-> IF t \in D THEN {} ELSE db.aliases[t]],
   rel |-> {e \in db.rel : e[1] \notin D /\ e[2] \notin D}]

NamesOf(db, S) == {db.name[t] : t \in S}

AliasesOf(db, S) == UNION {db.aliases[t] : t \in S}

MergedKeepingSources(db, src, dst) == \* mutant: the sources are not destroyed
  [db EXCEPT !.aliases[dst] = @ \cup NamesOf(db, src) \cup AliasesOf(db, src)]

(* TagStore.Merge: the names and aliases of the sources become aliases of  *)
(* the destination.                                                        *)
Merged(db, src, dst) ==
  [Destroyed(db, src) EXCEPT
     !.aliases[dst] = @ \cup NamesOf(db, src) \cup AliasesOf(db, src)]

-----------------------------------------------------------------------------
(* The mutations *)

NoBatch == batch.left = <<>>

TagCreate(t, n, A, P, C) ==
  /\ NoBatch
  /\ t \notin TagsOf(tagDb)
  /\ NameFree(tagDb, t, n) /\ \A a \in A : NameFree(tagDb, t, a)
  /\ P \cup C # {} => HierarchyOfNew(tagDb, P, C)
  /\ P \cup C \subseteq TagsOf(tagDb)
  /\ tagDb' = [name |-> [tagDb.name EXCEPT ![t] = n],
               aliases |-> [tagDb.aliases EXCEPT ![t] = A \ {n}],
               rel |-> Replaced(tagDb.rel, t, P, C)]
  /\ UNCHANGED batch

(* The aliases are made to leave out the name. *)
Sanitized(db, t, v) ==
  LET n == IF v.name = NoName THEN db.name[t] ELSE v.name
  IN IF v.aliases.mode = "KEEP" THEN v
     ELSE [v EXCEPT !.aliases = [mode |-> "SET", values |-> AliasesAfter(db, t, v) \ {n}]]

TagUpdate(t, v) ==
  /\ NoBatch
  /\ ValidUpdate(tagDb, t, Sanitized(tagDb, t, v))
  /\ tagDb' = Updated(tagDb, t, Sanitized(tagDb, t, v))
  /\ UNCHANGED batch

BulkTagUpdate(ids, v) ==
  /\ NoBatch
  /\ batch' = [left |-> ids, change |-> v, saved |-> tagDb]
  /\ UNCHANGED tagDb

BatchNext ==
  /\ ~NoBatch
  /\ ValidUpdate(tagDb, Head(batch.left), batch.change)
  /\ tagDb' = Updated(tagDb, Head(batch.left), batch.change)
  /\ batch' = IF Len(batch.left) = 1 THEN Idle ELSE [batch EXCEPT !.left = Tail(@)]

BatchFails ==
  /\ ~NoBatch
  /\ ~ValidUpdate(tagDb, Head(batch.left), batch.change)
  /\ tagDb' = batch.saved
  /\ batch' = Idle

(* TagDestroy and TagsDestroy.  A tag that is the primary tag of a marker  *)
(* stays, and with it all others.                                          *)
TagsDestroy(D) ==
  /\ NoBatch
  /\ D # {} /\ D \subseteq TagsOf(tagDb)
  /\ tagDb' = Destroyed(tagDb, D)
  /\ UNCHANGED batch

(* The aliases of the table are unique: a source that has its own name as  *)
(* an alias cannot be merged.                                              *)
TagsMerge(src, dst, v) ==
  /\ NoBatch
  /\ src # {} /\ src \cup {dst} \subseteq TagsOf(tagDb) /\ dst \notin src
  /\ NamesOf(tagDb, src) \cap AliasesOf(tagDb, TagsOf(tagDb)) = {}
  /\ ValidUpdate(Merged(tagDb, src, dst), dst, v)
  /\ tagDb' = Updated(Merged(tagDb, src, dst), dst, v)
  /\ UNCHANGED batch

TagNext ==
  \/ \E t \in TagIds, n \in Names, A \in SUBSET Names, P, C \in SUBSET TagIds :
       TagCreate(t, n, A, P, C)
  \/ \E t \in TagIds, v \in TagChanges : TagUpdate(t, v)
  \/ \E ids \in BulkTags, v \in BulkChanges : BulkTagUpdate(ids, v)
  \/ BatchNext
  \/ BatchFails
  \/ \E D \in SUBSET TagIds : TagsDestroy(D)
  \/ \E src \in SUBSET TagIds, dst \in TagIds, v \in TagChanges : TagsMerge(src, dst, v)

TagSpec == TagInit /\ [][TagNext]_tagVars

-----------------------------------------------------------------------------
(* Properties *)

(* A name or alias leads to one tag: no tag has a name or an alias that is *)
(* the name or an alias of another, whatever is created, renamed, updated  *)
(* in bulk, merged or undone.  Only the validation sees to it between the  *)
(* table of the names and that of the aliases.                             *)
NamesUnique ==
  \A t, o \in TagsOf(tagDb) :
    t # o =>
      ({tagDb.name[t]} \cup tagDb.aliases[t]) \cap ({tagDb.name[o]} \cup tagDb.aliases[o]) = {}

(* A tag that exists gets a parent and a child in one update. *)
BothSides ==
  \E t \in TagsOf(tagDb) :
    /\ \E p \in TagIds : <<p, t>> \in tagDb'.rel \ tagDb.rel
    /\ \E c \in TagIds : <<t, c>> \in tagDb'.rel \ tagDb.rel

(* The hierarchy gets a cycle in one way only: by an update that gives a   *)
(* tag parents and children at once, which ValidateHierarchyExisting does  *)
(* not compare with each other.  (A bulk update that fails puts back a     *)
(* cycle that was there before.)                                           *)
CyclesNeedBothSides ==
  [][Acyclic(tagDb.rel, TagIds) /\ ~Acyclic(tagDb'.rel, TagIds)
       => BothSides \/ tagDb' = batch.saved]_tagVars
=============================================================================
