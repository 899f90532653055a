----------------------------- MODULE Hierarchy -----------------------------
(***************************************************************************)
(* Relations from parents to children, as the tables tags_relations and    *)
(* groups_relations keep them: what the recursive queries over them find.  *)
(* They are defined by closed sets, for the sake of the proofs.            *)
(***************************************************************************)
EXTENDS Naturals

(* A set of nodes with all children (all parents) of its nodes. *)
DownClosed(R, S) == \A e \in R : e[1] \in S => e[2] \in S

UpClosed(R, S) == \A e \in R : e[2] \in S => e[1] \in S

(* The descendants and the ancestors of a node, with the node itself. *)
Descendants(R, N, n) ==
  {m \in N : \A S \in SUBSET N : n \in S /\ DownClosed(R, S) => m \in S}

Ancestors(R, N, n) ==
  {m \in N : \A S \in SUBSET N : n \in S /\ UpClosed(R, S) => m \in S}

(* Every set of nodes has one without children in the set: a relation on   *)
(* finitely many nodes has no cycle.                                       *)
Acyclic(R, N) ==
  \A S \in SUBSET N : S # {} => \E n \in S : \A m \in S : <<n, m>> \notin R

(* The parents and the children of n replaced by P and C. *)
Replaced(R, n, P, C) ==
  {e \in R : e[1] # n /\ e[2] # n} \cup {<<p, n>> : p \in P} \cup {<<n, c>> : c \in C}

ParentsIn(R, n) == {e[1] : e \in {x \in R : x[2] = n}}

ChildrenIn(R, n) == {e[2] : e \in {x \in R : x[1] = n}}
=============================================================================
