-------------------------- MODULE BlockIndexProofs --------------------------
(***************************************************************************)
(* Proofs about the block index's node objects: the type invariant holds   *)
(* in every reachable state, for every set of hashes, every hash size and  *)
(* every bound on the nodes that satisfy BlockIndexAssumption.  Each step  *)
(* is proved one operation at a time.                                       *)
(***************************************************************************)
EXTENDS BlockIndex, SequenceTheorems, TLAPS

\* The parents a caller may hand to newBlockNode and initBlockNode.
Parents == {Nil} \cup NodeIDs

\* The fields newBlockNode and initBlockNode compute are a blockNode whose
\* parent is one of the existing nodes or nil.
LEMMA FieldsType ==
  ASSUME TypeOK, NEW h \in BlockHashes, NEW p \in Parents
  PROVE  /\ Fields(h, p) \in BlockNode
         /\ Fields(h, p).parent \in Parents
<1>1. p # Nil => nodes[p] \in BlockNode
  BY ElementOfSeq DEF TypeOK, Parents, NodeIDs, Nil
<1>2. Fields(h, p).height \in Nat
  BY <1>1 DEF Fields, BlockNode, Nil
<1>. QED
  BY <1>2 DEF Fields, BlockNode, Parents, NodeIDs, Nil

LEMMA TypeInit == Init => TypeOK
<1> SUFFICES ASSUME Init PROVE TypeOK
  OBVIOUS
<1>1. nodes \in Seq(BlockNode) /\ Len(nodes) = 0
  BY EmptySeq DEF Init
<1>2. NodeIDs = {}
  BY <1>1 DEF NodeIDs
<1>. QED
  BY <1>1, <1>2, BlockIndexAssumption DEF Init, TypeOK, Nil

(***************************************************************************)
(* newBlockNode appends a node; the nodes allocated before it keep their   *)
(* fields, and its own parent is one of them or nil.                       *)
(***************************************************************************)
LEMMA NewNodeFacts ==
  ASSUME TypeOK, NEW h \in BlockHashes, NEW p \in Parents, NewBlockNode(h, p)
  PROVE  /\ nodes' \in Seq(BlockNode)
         /\ Len(nodes') = Len(nodes) + 1
         /\ \A i \in NodeIDs : nodes'[i] = nodes[i]
         /\ nodes'[Len(nodes) + 1] = Fields(h, p)
         /\ NodeIDs' = NodeIDs \cup {Len(nodes) + 1}
<1>1. Fields(h, p) \in BlockNode
  BY FieldsType
<1>2. /\ Append(nodes, Fields(h, p)) \in Seq(BlockNode)
      /\ Len(Append(nodes, Fields(h, p))) = Len(nodes) + 1
      /\ \A i \in 1..Len(nodes) : Append(nodes, Fields(h, p))[i] = nodes[i]
      /\ Append(nodes, Fields(h, p))[Len(nodes) + 1] = Fields(h, p)
  BY <1>1, AppendProperties DEF TypeOK
<1>3. Len(nodes) \in Nat
  BY LenProperties DEF TypeOK
<1>. QED
  BY <1>2, <1>3 DEF NewBlockNode, NodeIDs

LEMMA TypeStep == TypeOK /\ [Next]_vars => TypeOK'
<1> SUFFICES ASSUME TypeOK, [Next]_vars PROVE TypeOK'
  OBVIOUS
<1>1. ASSUME NEW h \in BlockHashes, NEW p \in Parents, NewBlockNode(h, p)
      PROVE  TypeOK'
  <2>1. /\ nodes' \in Seq(BlockNode)
        /\ Len(nodes') = Len(nodes) + 1
        /\ \A i \in NodeIDs : nodes'[i] = nodes[i]
        /\ nodes'[Len(nodes) + 1] = Fields(h, p)
        /\ NodeIDs' = NodeIDs \cup {Len(nodes) + 1}
    BY <1>1, NewNodeFacts
  <2>2. Fields(h, p).parent \in Parents
    BY FieldsType
  <2>3. \A i \in NodeIDs' : nodes'[i].parent \in Parents'
    BY <2>1, <2>2 DEF TypeOK, Parents, NodeIDs
  <2>4. index' \in [BlockHashes -> Parents']
    BY <1>1, <2>1 DEF NewBlockNode, TypeOK, Parents
  <2>5. Len(nodes') <= MaxNodes
    <3>1. Len(nodes) \in Nat
      BY LenProperties DEF TypeOK
    <3>. QED
      BY <1>1, <2>1, <3>1, BlockIndexAssumption DEF NewBlockNode
  <2>. QED
    BY <2>1, <2>3, <2>4, <2>5 DEF TypeOK, Parents
<1>2. ASSUME NEW n \in NodeIDs, NEW h \in BlockHashes, NEW p \in Parents,
             InitBlockNode(n, h, p)
      PROVE  TypeOK'
  <2>1. Fields(h, p) \in BlockNode /\ Fields(h, p).parent \in Parents
    BY FieldsType
  <2>2. /\ nodes' \in Seq(BlockNode)
        /\ Len(nodes') = Len(nodes)
        /\ \A j \in NodeIDs : nodes'[j] = IF j = n THEN Fields(h, p)
                                                   ELSE nodes[j]
    BY <1>2, <2>1, ExceptSeq DEF InitBlockNode, TypeOK, NodeIDs
  <2>3. NodeIDs' = NodeIDs
    BY <2>2 DEF NodeIDs
  <2>. QED
    BY <1>2, <2>1, <2>2, <2>3 DEF TypeOK, InitBlockNode, Parents
<1>3. ASSUME NEW n \in NodeIDs, AddBlock(n) PROVE TypeOK'
  <2>0. nodes[n] \in BlockNode
    BY ElementOfSeq DEF TypeOK, NodeIDs
  <2>1. nodes[n].hash \in BlockHashes
    BY <2>0 DEF BlockNode
  <2>. QED
    BY <1>3, <2>1 DEF AddBlock, TypeOK, NodeIDs
<1>4. CASE UNCHANGED vars
  BY <1>4 DEF vars, TypeOK, NodeIDs
<1>. QED
  BY <1>1, <1>2, <1>3, <1>4 DEF Next, Parents

(***************************************************************************)
(* The block index's node objects are always well formed: a sequence of    *)
(* blockNodes whose parents are allocated nodes or nil, and an index that  *)
(* maps each hash to an allocated node or nil.                             *)
(***************************************************************************)
THEOREM TypeCorrect == Spec => []TypeOK
<1>1. Init => TypeOK
  BY TypeInit
<1>2. TypeOK /\ [Next]_vars => TypeOK'
  BY TypeStep
<1>. QED
  BY <1>1, <1>2, PTL DEF Spec
=============================================================================
