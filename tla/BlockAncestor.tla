---------------------------- MODULE BlockAncestor ----------------------------
(***************************************************************************)
(* blockNode.ancestor (src/sqlchain/blockindex.go, lines 58-70) over the   *)
(* block index's nodes, and the reference it is checked against.  The walk *)
(* is a recursive operator, so it is kept apart from BlockIndex, whose     *)
(* state machine BlockIndexProofs reasons about.                           *)
(***************************************************************************)
EXTENDS BlockIndex

(***************************************************************************)
(* ancestor (lines 58-70): nil outside 0..height, else walk the parents   *)
(* until a node of the wanted height (or nil) is reached.                  *)
(***************************************************************************)
RECURSIVE Walk(_, _)
Walk(a, ht) ==
    IF a = Nil \/ nodes[a].height = ht THEN a ELSE Walk(nodes[a].parent, ht)

\* Mutant of Ancestor: the upper bound excludes the node's own height.
AncestorBelowOwn(n, ht) ==
    IF ht < 0 \/ ht >= nodes[n].height THEN Nil ELSE Walk(n, ht)

Ancestor(n, ht) ==
    IF ht < 0 \/ ht > nodes[n].height THEN Nil ELSE Walk(n, ht)

\* Reference: the node k parent links above n.
RECURSIVE KthParent(_, _)
KthParent(n, k) == IF k = 0 \/ n = Nil THEN n ELSE KthParent(nodes[n].parent, k - 1)

RefAncestor(n, ht) ==
    IF ht \in 0..nodes[n].height THEN KthParent(n, nodes[n].height - ht) ELSE Nil

(***************************************************************************)
(* Spec 8: for every indexed node n and every height h, ancestor(n, h) is  *)
(* nil outside 0..n.height and otherwise the node n.height-h parent links  *)
(* above n, which has height h.  It rests on the heights newBlockNode and  *)
(* initBlockNode assign along parent links, through every order of node    *)
(* creation, re-initialisation and insertion.                              *)
(***************************************************************************)
AncestorCorrect ==
    \A n \in Indexed, ht \in -1..MaxNodes :
        /\ Ancestor(n, ht) = RefAncestor(n, ht)
        /\ Ancestor(n, ht) # Nil => nodes[Ancestor(n, ht)].height = ht
=============================================================================
