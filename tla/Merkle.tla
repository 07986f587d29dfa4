------------------------------ MODULE Merkle ------------------------------
(***************************************************************************)
(* The padded Merkle tree (crypto/merkle) under prekey batches and the     *)
(* transparency log: building it, proving a leaf to be in it, verifying a  *)
(* proof.  It is checked for the tree of a caller who adds leaf after leaf.*)
(*                                                                         *)
(* Hashing is symbolic and free of collisions: a hash holds the bytes that *)
(* were hashed and their tag.  Bytes are what a caller makes of a key and  *)
(* its index (leafData), a padding leaf, or a pair of hashes.              *)
(* Positions count from zero, as in the code.                              *)
(***************************************************************************)
EXTENDS Integers, Sequences

CONSTANTS
  Key,       \* what the caller puts in leaves
  Domain,    \* the caller's
  MaxLeaves  \* bound: leaves of the tree

ASSUME MerkleAssumption == MaxLeaves \in Nat

VARIABLE leaves   \* the caller's leaf data, in order

\* leafData of crypto/prekey and of translog.
LeafData(key, index) == [key |-> key, index |-> index]

NoLeaves == leaves = <<>>

AddLeaf(key) ==
  /\ Len(leaves) < MaxLeaves
  /\ leaves' = Append(leaves, LeafData(key, Len(leaves)))

Grow == \E key \in Key : AddLeaf(key)

-----------------------------------------------------------------------------
Pair(left, right) == [left |-> left, right |-> right]

leafHash(data) == [tag |-> 0, of |-> data]

\* Mutant: nodes are hashed as leaves are.
nodeHashUntagged(left, right) == leafHash(Pair(left, right))
nodeHash(left, right) == [tag |-> 1, of |-> Pair(left, right)]

\* p of the two loops that count in powers of two, after k rounds from 1 up.
power[k \in Nat] == IF k = 0 THEN 1 ELSE 2 * power[k - 1]

\* Mutant: rounded down.
DepthBelow(n) == CHOOSE d \in 0 .. n : power[d] <= n /\ n < power[d + 1]

\* How often one loop doubles, and the other halves what the first one gave.
Depth(n) == CHOOSE d \in 0 .. n : n <= power[d] /\ (d = 0 \/ power[d - 1] < n)

nextPowerOfTwo(n) == power[Depth(n)]

paddingLeaf(data, i) == [domain |-> Domain, index |-> i]

\* levels[0] are the hashes of the leaves and the padding, levels[depth] the root.
BuildTree(data) ==
  LET n == IF data = <<>> THEN 1 ELSE Len(data)
      depth == Depth(n)
      level[k \in 0 .. depth] ==
        IF k = 0
        THEN [i \in 0 .. nextPowerOfTwo(n) - 1 |->
                leafHash(IF i < Len(data) THEN data[i + 1] ELSE paddingLeaf(data, i))]
        ELSE LET below == level[k - 1]
             IN [i \in 0 .. power[depth - k] - 1 |-> nodeHash(below[2 * i], below[2 * i + 1])]
  IN [n |-> Len(data), depth |-> depth, levels |-> level]

Root(tree) == tree.levels[tree.depth][0]

\* Mutant: the node itself in place of its sibling, on the right.
siblingLeftOnly(i) == IF i % 2 = 0 THEN i + 1 ELSE i

sibling(i) == IF i % 2 = 0 THEN i + 1 ELSE i - 1

\* idx of the loops along a path, after k rounds.
Shifted(index, k) ==
  LET idx[j \in Nat] == IF j = 0 THEN index ELSE idx[j - 1] \div 2 IN idx[k]

\* For index in 0 .. tree.n - 1; any other is ErrIndexOutOfRange.
InclusionProof(tree, index) ==
  [k \in 1 .. tree.depth |-> tree.levels[k - 1][sibling(Shifted(index, k - 1))]]

VerifyInclusionProof(data, index, size, path, root) ==
  LET h[k \in 0 .. Len(path)] ==
        IF k = 0 THEN leafHash(data)
        ELSE IF Shifted(index, k - 1) % 2 = 0
             THEN nodeHash(h[k - 1], path[k])
             ELSE nodeHash(path[k], h[k - 1])
  IN /\ index \in 0 .. size - 1
     /\ Len(path) = Depth(size)
     /\ h[Len(path)] = root

-----------------------------------------------------------------------------
(* Properties.                                                             *)

Tree == BuildTree(leaves)

\* Every leaf of a tree, and only those the tree has, is proved by the path
\* InclusionProof gives for it, at its index.
ProofsVerify ==
  LET tree == Tree
  IN \A i, j \in 0 .. Len(leaves) - 1 :
       VerifyInclusionProof(leaves[i + 1], j, Len(leaves), InclusionProof(tree, i), Root(tree))
         <=> i = j

\* Bytes someone could try to pass for a leaf: other keys at other indices, and
\* the bytes of two hashes of the tree.  A padding leaf is not among them: a key
\* and its index have another length (kemhybrid.UnmarshalPublicKey looks).
Candidates(tree) ==
  {LeafData(key, i) : key \in Key, i \in 0 .. MaxLeaves}
    \cup {tree.levels[k][i].of : k \in 1 .. tree.depth, i \in {0}}

\* Paths of hashes of the tree, from each of its levels upwards.
PathsOfTree(tree) ==
  UNION {{[k \in 1 .. tree.depth - from |-> tree.levels[from + k - 1][pick[k]]] :
            pick \in [1 .. tree.depth - from -> 0 .. 1]} : from \in 0 .. tree.depth}

\* No key at an index verifies against the root but the caller's leaf at that
\* very index, and no inner node of the tree does, even when the number of
\* leaves is not to be trusted: a prekey bundle names its batch size, and only
\* the root is signed.
OnlyLeavesVerify ==
  LET tree == Tree
  IN \A data \in Candidates(tree), size \in 1 .. 2 * MaxLeaves, path \in PathsOfTree(tree) :
       \A index \in 0 .. size - 1 :
         VerifyInclusionProof(data, index, size, path, Root(tree)) =>
           index < Len(leaves) /\ leaves[index + 1] = data

\* The root of every sequence of leaves.
Roots ==
  UNION {{[leaves |-> data, root |-> Root(BuildTree(data))] :
            data \in {[k \in 1 .. n |-> LeafData(choice[k], k - 1)] : choice \in [1 .. n -> Key]}} :
         n \in 0 .. MaxLeaves}

\* Two sequences of leaves never have the same root, whatever their lengths, so
\* that a signed root stands for one batch, or one state of the log, and the
\* padding is never taken for leaves.
RootsDiffer == LET root == Root(Tree) IN \A r \in Roots : r.root = root => r.leaves = leaves
=============================================================================
