----------------------------- MODULE BlockIndex -----------------------------
(***************************************************************************)
(* The in-memory block index of the SQL chain (src/sqlchain/blockindex.go). *)
(* Block nodes are objects with a parent pointer; the index maps a hash to *)
(* the node last added under it.  AddBlock holds the write lock, so each   *)
(* operation is one step; HasBlock and LookupNode change nothing.          *)
(*                                                                         *)
(* Node objects are numbered in order of allocation (0 is nil).  A hash is *)
(* a sequence of HashSize bytes, so that indexKey can be computed as the   *)
(* code computes it.                                                       *)
(***************************************************************************)
EXTENDS Integers, Sequences

CONSTANTS
    BlockHashes,  \* the hashes of the blocks received
    HashSize,     \* hash.HashSize
    MaxNodes      \* bound on the node objects allocated

ASSUME BlockIndexAssumption ==
    /\ HashSize \in Nat /\ HashSize >= 4
    /\ BlockHashes \subseteq [1..HashSize -> 0..255]
    /\ MaxNodes \in Nat

Nil == 0

VARIABLES
    nodes,  \* the node objects: nodes[i] = [hash, parent, height]
    index   \* bi.index: hash -> node (Nil when absent)

vars == <<nodes, index>>

NodeIDs == 1..Len(nodes)

\* blockNode (lines 26-30): a parent pointer, a hash and an int32 height.
\* Heights stay below MaxNodes, far from the int32 bound.
BlockNode == [hash : BlockHashes, parent : {Nil} \cup Nat, height : Nat]

\* HasBlock (lines 101-106): under the read lock, whether the hash is a key.
HasBlock(h) == index[h] # Nil

\* LookupNode (lines 108-113): under the read lock, the node stored under
\* the hash, nil when there is none.
LookupNode(h) == index[h]

\* The nodes of blockIndex.index (lines 79-84): those LookupNode returns
\* for the hashes HasBlock reports.
Indexed == {LookupNode(h) : h \in {x \in BlockHashes : HasBlock(x)}}

\* newBlockIndex (lines 86-93): an empty map.
Init ==
    /\ nodes = <<>>
    /\ index = [h \in BlockHashes |-> Nil]

\* The fields a node gets from its header and its parent (lines 33-42 and
\* 48-55): height 0 and no parent, or the parent and its height plus one.
Fields(h, p) ==
    [hash |-> h, parent |-> p,
     height |-> IF p = Nil THEN 0 ELSE nodes[p].height + 1]

\* newBlockNode (lines 32-45): allocate a node; its parent is a node the
\* caller holds (from LookupNode or an earlier newBlockNode), or nil.
NewBlockNode(h, p) ==
    /\ Len(nodes) < MaxNodes
    /\ nodes' = Append(nodes, Fields(h, p))
    /\ UNCHANGED index

\* initBlockNode (lines 47-56) re-initialises a node in place.  Nodes are
\* never mutated once inserted (spec 3): it is applied to a node that is
\* not in the index, is nobody's parent, and does not become its own.
InitBlockNode(n, h, p) ==
    /\ n \notin Indexed
    /\ \A i \in NodeIDs : nodes[i].parent # n
    /\ p # n
    /\ nodes' = [nodes EXCEPT ![n] = Fields(h, p)]
    /\ UNCHANGED index

\* AddBlock (lines 95-99): last writer wins on a duplicate hash.
AddBlock(n) ==
    /\ index' = [index EXCEPT ![nodes[n].hash] = n]
    /\ UNCHANGED nodes

Next ==
    \/ \E h \in BlockHashes, p \in {Nil} \cup NodeIDs : NewBlockNode(h, p)
    \/ \E n \in NodeIDs, h \in BlockHashes, p \in {Nil} \cup NodeIDs :
          InitBlockNode(n, h, p)
    \/ \E n \in NodeIDs : AddBlock(n)

Spec == Init /\ [][Next]_vars

(***************************************************************************)
(* indexKey (lines 72-77): HashSize+4 bytes, the height as a big-endian    *)
(* uint32 in bytes 0..3, then copy(indexKey[4:HashSize], hash[:]), which   *)
(* copies only the first HashSize-4 bytes of the hash; the last 4 bytes    *)
(* stay 0.  Heights are non-negative int32 values, which uint32() keeps.  *)
(***************************************************************************)
BigEndian32(x) ==
    << (x \div 16777216) % 256, (x \div 65536) % 256, (x \div 256) % 256, x % 256 >>

ZeroBytes(k) == [i \in 1..k |-> 0]

IndexKey(n) ==
    BigEndian32(nodes[n].height)
        \o SubSeq(nodes[n].hash, 1, HashSize - 4)
        \o ZeroBytes(4)

-----------------------------------------------------------------------------
TypeOK ==
    /\ nodes \in Seq(BlockNode)
    /\ Len(nodes) <= MaxNodes
    /\ \A i \in NodeIDs : nodes[i].parent \in {Nil} \cup NodeIDs
    /\ index \in [BlockHashes -> {Nil} \cup NodeIDs]

(***************************************************************************)
(* The on-disk key identifies its block (spec 6): two blocks in the index  *)
(* never share an indexKey.                                                 *)
(***************************************************************************)
IndexKeyInjective ==
    \A m, n \in Indexed : m # n => IndexKey(m) # IndexKey(n)
=============================================================================
