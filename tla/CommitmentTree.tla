------------------------- MODULE CommitmentTree -------------------------
(***************************************************************************)
(* The append-only commitment tree of research/src/ledger.rs and the       *)
(* guest's climb of a path, asm::emit_merkle_verify.  The tree keeps only  *)
(* its leaves and an index, and pads every level with that level's empty   *)
(* digest; it is compared with the full tree of 2^Depth leaves it stands   *)
(* for.  This is what ShieldedPool rests on when it takes a root to be the *)
(* number of leaves under it.  Hashes are free constructors: a node IS the *)
(* pair of its children, and no leaf is a node or the all-zero word.       *)
(***************************************************************************)
EXTENDS Integers, Sequences, SequencesExt, Functions

CONSTANTS
    Depth,          \* notes::DEPTH, 32 in the code
    Leaf,           \* commitments
    Zero,           \* the all-zero "no leaf" word, empty[0]
    MaxLeaves       \* bound on the appends

ASSUME TreeAssumption == Depth \in Nat \ {0} /\ Zero \notin Leaf /\ MaxLeaves \in Nat

VARIABLES
    leaves,         \* CommitmentTree::leaves
    index,          \* CommitmentTree::index: the leaf's position, from 0
    roots           \* every root the tree has had, oldest first

treeVars == <<leaves, index, roots>>

Node(l, r) == <<l, r>>

Pow2[d \in 0 .. Depth] == IF d = 0 THEN 1 ELSE 2 * Pow2[d - 1]

Capacity == Pow2[Depth]

(* new(): the digest of an empty subtree of each depth. *)
Empty[d \in 0 .. Depth] == IF d = 0 THEN Zero ELSE Node(Empty[d - 1], Empty[d - 1])

-----------------------------------------------------------------------------
(* The sparse tree. *)

(* Mutation: an odd tail is paired with itself. *)
Parents_TailTwice(nodes, level) ==
    IF nodes = <<>> THEN <<Empty[level + 1]>>
    ELSE [i \in 1 .. (Len(nodes) + 1) \div 2 |->
             Node(nodes[2 * i - 1], IF 2 * i <= Len(nodes) THEN nodes[2 * i] ELSE nodes[2 * i - 1])]

(* One level's nodes from those below: an odd tail is paired with the      *)
(* level's empty digest.                                                   *)
Parents(nodes, level) ==
    IF nodes = <<>> THEN <<Empty[level + 1]>>
    ELSE [i \in 1 .. (Len(nodes) + 1) \div 2 |->
             Node(nodes[2 * i - 1], IF 2 * i <= Len(nodes) THEN nodes[2 * i] ELSE Empty[level])]

(* levels(): the nodes over a sequence of leaves, level by level. *)
LevelsOf(s) ==
    LET nodes[d \in 0 .. Depth] == IF d = 0 THEN s ELSE Parents(nodes[d - 1], d - 1)
    IN  nodes

Levels == LevelsOf(leaves)

RootOf(s) == LevelsOf(s)[Depth][1]

Root == RootOf(leaves)

(* idx ^ 1 *)
Sibling(idx) == IF idx % 2 = 0 THEN idx + 1 ELSE idx - 1

(* An index after each round of a loop that shifts it by a bit: the place  *)
(* at each level of the node over that leaf.                               *)
Shifted(idx) ==
    LET at[level \in 0 .. Depth] == IF level = 0 THEN idx ELSE at[level - 1] \div 2
    IN  at

(* Mutation: a missing sibling is the all-zero word at every level. *)
Path_ZeroPad(idx) ==
    [level \in 0 .. Depth - 1 |->
        LET sib == Sibling(Shifted(idx)[level])
        IN  IF sib < Len(Levels[level]) THEN Levels[level][sib + 1] ELSE Zero]

(* The sibling path of the leaf at idx, leaf to root. *)
Path(idx) ==
    [level \in 0 .. Depth - 1 |->
        LET sib == Sibling(Shifted(idx)[level])
        IN  IF sib < Len(Levels[level]) THEN Levels[level][sib + 1] ELSE Empty[level]]

(* Mutation: the side is chosen by the index's lowest bit at every level. *)
MerkleVerify_NoShift(leaf, path, idx) ==
    LET Climb[level \in 0 .. Depth] ==
            IF level = 0 THEN leaf
            ELSE IF idx % 2 = 0
                 THEN Node(Climb[level - 1], path[level - 1])
                 ELSE Node(path[level - 1], Climb[level - 1])
    IN  Climb[Depth]

(* MERKLE_VERIFY: the root a leaf, a path and an index lead to, the bits   *)
(* of the index choosing the side of the running node at each level.       *)
MerkleVerify(leaf, path, idx) ==
    LET Climb[level \in 0 .. Depth] ==
            IF level = 0 THEN leaf
            ELSE IF Shifted(idx)[level - 1] % 2 = 0
                 THEN Node(Climb[level - 1], path[level - 1])
                 ELSE Node(path[level - 1], Climb[level - 1])
    IN  Climb[Depth]

-----------------------------------------------------------------------------

TreeInit ==
    /\ leaves = <<>> /\ index = [cm \in {} |-> 0]
    /\ roots = <<Root>>

(* append: unconditional, a repeated commitment moves its index entry. *)
AppendLeaf(cm) ==
    /\ Len(leaves) < MaxLeaves
    /\ leaves' = Append(leaves, cm)
    /\ index' = [c \in DOMAIN index \cup {cm} |-> IF c = cm THEN Len(leaves) ELSE index[c]]
    /\ roots' = Append(roots, Root')

TreeNext == \E cm \in Leaf : AppendLeaf(cm)

TreeSpec == TreeInit /\ [][TreeNext]_treeVars

-----------------------------------------------------------------------------
(* The full tree the sparse one stands for. *)

LeafAt(s, j) == IF j < Len(s) THEN s[j + 1] ELSE Zero

(* The tree of Capacity leaves over a sequence: its nodes by level, each   *)
(* level from left to right.                                               *)
FullOf(s) ==
    LET nodes[level \in 0 .. Depth] ==
            IF level = 0 THEN [j \in 0 .. Capacity - 1 |-> LeafAt(s, j)]
            ELSE [j \in 0 .. Pow2[Depth - level] - 1 |->
                     Node(nodes[level - 1][2 * j], nodes[level - 1][2 * j + 1])]
    IN  nodes

Full == FullOf(leaves)

Min2(a, b) == IF a < b THEN a ELSE b

(* Every node the sparse tree computes, the padding included, is the node  *)
(* of the full tree at that place, at every level and every fill.          *)
SparseIsFull ==
    /\ Root = Full[Depth][0]
    /\ \A level \in 0 .. Depth :
          \A j \in 0 .. Min2(Len(Levels[level]), Pow2[Depth - level]) - 1 :
              Levels[level][j + 1] = Full[level][j]

(* path_for gives a witness the guest accepts for every commitment ever    *)
(* appended, also after later appends and after the commitment was         *)
(* appended again; the index is the newest position.                       *)
IndexedPathsVerify ==
    \A cm \in ToSet(leaves) :
        /\ cm \in DOMAIN index
        /\ leaves[index[cm] + 1] = cm
        /\ \A i \in index[cm] + 2 .. Len(leaves) : leaves[i] # cm
        /\ index[cm] < Capacity => MerkleVerify(cm, Path(index[cm]), index[cm]) = Root

(* Every node and leaf there is to put in a path. *)
Digests == {Zero} \cup Leaf \cup UNION {ToSet(Levels[d]) : d \in 0 .. Depth} \cup {Empty[d] : d \in 0 .. Depth}

(* A path binds: whatever siblings a prover supplies, a climb that ends in *)
(* the root started at the leaf which really is at that index.             *)
PathsBind ==
    \A cm \in Leaf, idx \in 0 .. Capacity - 1, path \in [0 .. Depth - 1 -> Digests] :
        MerkleVerify(cm, path, idx) = Root => idx < Len(leaves) /\ leaves[idx + 1] = cm

(* Until the tree is full no root ever comes back, so a root names one     *)
(* prefix of the leaves; past its capacity the root no longer moves (the   *)
(* code has no guard there: later leaves are in no root).                  *)
RootsNamePrefixes ==
    /\ Len(roots) = Len(leaves) + 1
    /\ \A i, j \in 1 .. Min2(Len(roots), Capacity + 1) : roots[i] = roots[j] => i = j
    /\ \A i \in Capacity + 1 .. Len(roots) : roots[i] = roots[Capacity + 1]

=========================================================================
