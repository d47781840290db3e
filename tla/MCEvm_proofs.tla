---------------------------- MODULE MCEvm_proofs ----------------------------
(***************************************************************************)
(* The storage of a call is never out of step with its root, whatever the  *)
(* code, the gas and the witnesses: in the interpreter and in the program  *)
(* translated from it, a store refreshes every sibling it moves.  Hashes   *)
(* are symbols here, as in the model, so two different trees have two      *)
(* different roots.                                                        *)
(***************************************************************************)
EXTENDS MCEvm, SumTheorems, FiniteSetTheorems

-----------------------------------------------------------------------------
(* Paths of the storage tree. *)

(* g is a function on S; hash, joined with n siblings, climbs through g.   *)
FunctionOn(g, S) == g = [x \in S |-> g[x]]

Climbs(g, hash, i, siblings, n) ==
  \A k \in 0..n : g[k] = IF k = 0 THEN hash ELSE Joined(i[k - 1], g[k - 1], siblings[k - 1])

(* The recursion a path is hashed up by (storage.rs, verify) has a         *)
(* solution, and each node is the join of the one below it with its        *)
(* sibling.                                                                *)
LEMMA ClimbExists ==
    ASSUME NEW hash, NEW i, NEW siblings
    PROVE  \E g : FunctionOn(g, 0..Depth) /\ Climbs(g, hash, i, siblings, Depth)
<1> DEFINE T == {n \in Nat : \E g : FunctionOn(g, 0..n) /\ Climbs(g, hash, i, siblings, n)}
<1>1. 0 \in T
  <2> DEFINE g == [k \in 0..0 |-> hash]
  <2>1. FunctionOn(g, 0..0) /\ Climbs(g, hash, i, siblings, 0)
    BY DEF FunctionOn, Climbs
  <2> QED BY <2>1
<1>2. ASSUME NEW n \in Nat, n \in T PROVE n + 1 \in T
  <2>1. PICK g : FunctionOn(g, 0..n) /\ Climbs(g, hash, i, siblings, n)
    BY <1>2
  <2> DEFINE h == [k \in 0..(n + 1) |-> IF k \in 0..n THEN g[k]
                                         ELSE Joined(i[n], g[n], siblings[n])]
  <2>2. FunctionOn(h, 0..(n + 1))  BY DEF FunctionOn
  <2>3. Climbs(h, hash, i, siblings, n + 1)
    <3> SUFFICES ASSUME NEW k \in 0..(n + 1)
                 PROVE  h[k] = IF k = 0 THEN hash ELSE Joined(i[k - 1], h[k - 1], siblings[k - 1])
      BY DEF Climbs
    <3>1. CASE k = 0  BY <2>1, <3>1 DEF Climbs
    <3>2. CASE k \in 1..n
      <4>1. g[k] = Joined(i[k - 1], g[k - 1], siblings[k - 1])  BY <2>1, <3>2 DEF Climbs
      <4>2. h[k] = g[k] /\ h[k - 1] = g[k - 1]  BY <3>2
      <4> QED BY <3>2, <4>1, <4>2
    <3>3. CASE k = n + 1
      <4>1. h[k] = Joined(i[n], g[n], siblings[n]) /\ h[n] = g[n]  BY <3>3
      <4> QED BY <3>3, <4>1
    <3> QED BY <3>1, <3>2, <3>3
  <2> HIDE DEF h
  <2> QED BY <2>2, <2>3
<1>3. Depth \in T
  <2> HIDE DEF T
  <2> QED BY <1>1, <1>2, NatSetInduction, DepthAssumption
<1> QED BY <1>3

LEMMA UpIs ==
    ASSUME NEW hash, NEW i, NEW siblings
    PROVE  \E g : /\ g[0] = hash
                  /\ \A l \in Level : g[l + 1] = Joined(i[l], g[l], siblings[l])
                  /\ \A l : Up(hash, i, siblings, l) = g[l]
<1> DEFINE rec(g) == [k \in 0..Depth |->
                        IF k = 0 THEN hash ELSE Joined(i[k - 1], g[k - 1], siblings[k - 1])]
           node == CHOOSE g : g = rec(g)
<1>1. PICK g : FunctionOn(g, 0..Depth) /\ Climbs(g, hash, i, siblings, Depth)
  BY ClimbExists
<1>2. g = rec(g)
  BY <1>1 DEF FunctionOn, Climbs
<1>3. node = rec(node)
  BY <1>2
<1>4. \A l : Up(hash, i, siblings, l) = node[l]
  BY DEF Up
<1> HIDE DEF node
<1>5. node[0] = hash
  BY <1>3, DepthAssumption
<1>6. ASSUME NEW l \in Level PROVE node[l + 1] = Joined(i[l], node[l], siblings[l])
  <2>1. l + 1 \in 0..Depth /\ l + 1 # 0 /\ (l + 1) - 1 = l  BY DepthAssumption DEF Level
  <2>2. node[l + 1] = rec(node)[l + 1]  BY <1>3
  <2> QED BY <2>1, <2>2
<1> QED BY <1>4, <1>5, <1>6

LEMMA UpStart ==
    ASSUME NEW hash, NEW i, NEW siblings
    PROVE  Up(hash, i, siblings, 0) = hash
BY UpIs

LEMMA UpStep ==
    ASSUME NEW hash, NEW i, NEW siblings, NEW l \in Level
    PROVE  Up(hash, i, siblings, l + 1) = Joined(i[l], Up(hash, i, siblings, l), siblings[l])
BY UpIs

(* A whole tree, level by level. *)

Raised(below, l) == [p \in Leaf |-> NodeHash(below[[p EXCEPT ![l] = 0]], below[[p EXCEPT ![l] = 1]])]

Grows(g, full, n) == \A k \in 0..n : g[k] = IF k = 0 THEN full ELSE Raised(g[k - 1], k - 1)

(* A whole tree, hashed level by level, has a solution too: a node is the  *)
(* hash of the two nodes below it.                                         *)
LEMMA TreeExists ==
    ASSUME NEW full
    PROVE  \E g : FunctionOn(g, 0..Depth) /\ Grows(g, full, Depth)
<1> DEFINE T == {n \in Nat : \E g : FunctionOn(g, 0..n) /\ Grows(g, full, n)}
<1>1. 0 \in T
  <2> DEFINE g == [k \in 0..0 |-> full]
  <2>1. FunctionOn(g, 0..0) /\ Grows(g, full, 0)
    BY DEF FunctionOn, Grows
  <2> QED BY <2>1
<1>2. ASSUME NEW n \in Nat, n \in T PROVE n + 1 \in T
  <2>1. PICK g : FunctionOn(g, 0..n) /\ Grows(g, full, n)
    BY <1>2
  <2> DEFINE h == [k \in 0..(n + 1) |-> IF k \in 0..n THEN g[k] ELSE Raised(g[n], n)]
  <2>2. FunctionOn(h, 0..(n + 1))  BY DEF FunctionOn
  <2>3. Grows(h, full, n + 1)
    <3> SUFFICES ASSUME NEW k \in 0..(n + 1)
                 PROVE  h[k] = IF k = 0 THEN full ELSE Raised(h[k - 1], k - 1)
      BY DEF Grows
    <3>1. CASE k = 0  BY <2>1, <3>1 DEF Grows
    <3>2. CASE k \in 1..n
      <4>1. g[k] = Raised(g[k - 1], k - 1)  BY <2>1, <3>2 DEF Grows
      <4>2. h[k] = g[k] /\ h[k - 1] = g[k - 1]  BY <3>2
      <4> QED BY <3>2, <4>1, <4>2
    <3>3. CASE k = n + 1
      <4>1. h[k] = Raised(g[n], n) /\ h[n] = g[n]  BY <3>3
      <4> QED BY <3>3, <4>1
    <3> QED BY <3>1, <3>2, <3>3
  <2> HIDE DEF h
  <2> QED BY <2>2, <2>3
<1>3. Depth \in T
  <2> HIDE DEF T
  <2> QED BY <1>1, <1>2, NatSetInduction, DepthAssumption
<1> QED BY <1>3

(* Leaf i with the bit of level l turned to b; the leaf across from it     *)
(* there.                                                                  *)
Turned(i, l, b) == [i EXCEPT ![l] = b]

LEMMA NodeIs ==
    ASSUME NEW full, NEW i \in Leaf
    PROVE  /\ Node(full, 0, i) = full[i]
           /\ \A l \in Level :
                Node(full, l + 1, i)
                  = NodeHash(Node(full, l, Turned(i, l, 0)), Node(full, l, Turned(i, l, 1)))
<1> DEFINE rec(g) == [k \in 0..Depth |->
                        IF k = 0 THEN full
                        ELSE [p \in Leaf |-> NodeHash(g[k - 1][[p EXCEPT ![k - 1] = 0]],
                                                      g[k - 1][[p EXCEPT ![k - 1] = 1]])]]
           node == CHOOSE g : g = rec(g)
<1>1. PICK g : FunctionOn(g, 0..Depth) /\ Grows(g, full, Depth)
  BY TreeExists
<1>2. g = rec(g)
  <2>1. \A k \in 0..Depth : g[k] = rec(g)[k]  BY <1>1 DEF Grows, Raised
  <2>2. rec(g) = [k \in 0..Depth |-> rec(g)[k]]  OBVIOUS
  <2> HIDE DEF rec
  <2> QED BY <1>1, <2>1, <2>2 DEF FunctionOn
<1>3. node = rec(node)
  BY <1>2
<1>4. \A l, p : Node(full, l, p) = node[l][p]
  BY DEF Node
<1> HIDE DEF node
<1>5. node[0] = full
  BY <1>3, DepthAssumption
<1>6. ASSUME NEW l \in Level
      PROVE  node[l + 1][i] = NodeHash(node[l][[i EXCEPT ![l] = 0]], node[l][[i EXCEPT ![l] = 1]])
  <2>1. l + 1 \in 0..Depth /\ l + 1 # 0 /\ (l + 1) - 1 = l  BY DepthAssumption DEF Level
  <2>2. node[l + 1] = rec(node)[l + 1]  BY <1>3
  <2> QED BY <2>1, <2>2
<1> QED BY <1>4, <1>5, <1>6 DEF Turned

Across(i, l) == [i EXCEPT ![l] = 1 - @]

LEMMA AcrossIs ==
    ASSUME NEW i \in Leaf, NEW l \in Level
    PROVE  /\ Across(i, l) \in Leaf /\ Across(i, l)[l] = 1 - i[l] /\ i[l] \in {0, 1}
           /\ \A k \in Level : k # l => Across(i, l)[k] = i[k]
BY DEF Across, Leaf

(* So the node above another, and the sibling across from it, are joined   *)
(* to the node one level up.                                               *)
LEMMA NodeJoined ==
    ASSUME NEW full, NEW i \in Leaf, NEW l \in Level
    PROVE  Node(full, l + 1, i) = Joined(i[l], Node(full, l, i), Node(full, l, Across(i, l)))
<1>1. Node(full, l + 1, i)
        = NodeHash(Node(full, l, Turned(i, l, 0)), Node(full, l, Turned(i, l, 1)))
  BY NodeIs
<1>2. CASE i[l] = 0
  <2>1. Turned(i, l, 0) = i /\ Turned(i, l, 1) = Across(i, l)
    BY <1>2 DEF Turned, Across, Leaf
  <2> QED BY <1>1, <1>2, <2>1 DEF Joined
<1>3. CASE i[l] = 1
  <2>1. Turned(i, l, 1) = i /\ Turned(i, l, 0) = Across(i, l)
    BY <1>3 DEF Turned, Across, Leaf
  <2> QED BY <1>1, <1>3, <2>1 DEF Joined
<1> QED BY <1>2, <1>3 DEF Leaf

(* The leaves have the same bits from level l up.                          *)
AgreeFrom(i, j, l) == \A k \in Level : k >= l => i[k] = j[k]

(* A node is above every leaf with the same bits from its level on. *)
LEMMA NodeAbove ==
    ASSUME NEW full, NEW l \in 0..Depth, NEW i \in Leaf, NEW j \in Leaf, AgreeFrom(i, j, l)
    PROVE  Node(full, l, i) = Node(full, l, j)
<1> DEFINE T == {n \in Nat : n <= Depth => \A p, q \in Leaf :
                    AgreeFrom(p, q, n) => Node(full, n, p) = Node(full, n, q)}
<1>1. 0 \in T
  <2> SUFFICES ASSUME NEW p \in Leaf, NEW q \in Leaf, AgreeFrom(p, q, 0)
               PROVE  Node(full, 0, p) = Node(full, 0, q)
    OBVIOUS
  <2>1. \A k \in Level : p[k] = q[k]  BY DEF AgreeFrom, Level
  <2>2. p = q  BY <2>1 DEF Leaf
  <2> QED BY <2>2
<1>2. ASSUME NEW n \in Nat, n \in T PROVE n + 1 \in T
  <2> SUFFICES ASSUME n + 1 <= Depth, NEW p \in Leaf, NEW q \in Leaf, AgreeFrom(p, q, n + 1)
               PROVE  Node(full, n + 1, p) = Node(full, n + 1, q)
    OBVIOUS
  <2>1. n \in Level  BY DepthAssumption DEF Level
  <2>2. ASSUME NEW b \in {0, 1}
        PROVE  Node(full, n, Turned(p, n, b)) = Node(full, n, Turned(q, n, b))
    <3>1. Turned(p, n, b) \in Leaf /\ Turned(q, n, b) \in Leaf
      BY DEF Leaf, Turned
    <3>2. AgreeFrom(Turned(p, n, b), Turned(q, n, b), n)
      BY <2>1 DEF Leaf, AgreeFrom, Level, Turned
    <3> QED BY <1>2, <3>1, <3>2, DepthAssumption
  <2>3. \A x \in {p, q} :
          Node(full, n + 1, x) = NodeHash(Node(full, n, Turned(x, n, 0)), Node(full, n, Turned(x, n, 1)))
    BY <2>1, NodeIs
  <2> QED BY <2>2, <2>3
<1>3. \A n \in Nat : n \in T
  <2> HIDE DEF T
  <2> QED BY <1>1, <1>2, NatSetInduction
<1> QED BY <1>3, DepthAssumption

(* Trees that differ at one leaf only differ above it. *)
LEMMA NodeSame ==
    ASSUME NEW f, NEW g, NEW i \in Leaf, \A p \in Leaf : p # i => f[p] = g[p],
           NEW l \in 0..Depth, NEW j \in Leaf, ~AgreeFrom(i, j, l)
    PROVE  Node(f, l, j) = Node(g, l, j)
<1> DEFINE T == {n \in Nat : n <= Depth => \A p \in Leaf :
                    ~AgreeFrom(i, p, n) => Node(f, n, p) = Node(g, n, p)}
<1>1. 0 \in T
  <2> SUFFICES ASSUME NEW p \in Leaf, ~AgreeFrom(i, p, 0)
               PROVE  Node(f, 0, p) = Node(g, 0, p)
    OBVIOUS
  <2>1. p # i  BY DEF AgreeFrom
  <2> QED BY <2>1, NodeIs
<1>2. ASSUME NEW n \in Nat, n \in T PROVE n + 1 \in T
  <2> SUFFICES ASSUME n + 1 <= Depth, NEW p \in Leaf, ~AgreeFrom(i, p, n + 1)
               PROVE  Node(f, n + 1, p) = Node(g, n + 1, p)
    OBVIOUS
  <2>1. n \in Level  BY DepthAssumption DEF Level
  <2>2. ASSUME NEW b \in {0, 1} PROVE Node(f, n, Turned(p, n, b)) = Node(g, n, Turned(p, n, b))
    <3>1. PICK k \in Level : k >= n + 1 /\ i[k] # p[k]  BY DEF AgreeFrom
    <3>2. Turned(p, n, b) \in Leaf /\ Turned(p, n, b)[k] = p[k]
      BY <2>1, <3>1 DEF Leaf, Level, Turned
    <3>3. k >= n  BY <3>1 DEF Level
    <3>4. ~AgreeFrom(i, Turned(p, n, b), n)  BY <3>1, <3>2, <3>3 DEF AgreeFrom
    <3> QED BY <1>2, <3>2, <3>4, DepthAssumption
  <2>3. \A t \in {f, g} :
          Node(t, n + 1, p) = NodeHash(Node(t, n, Turned(p, n, 0)), Node(t, n, Turned(p, n, 1)))
    BY <2>1, NodeIs
  <2> QED BY <2>2, <2>3
<1>3. \A n \in Nat : n \in T
  <2> HIDE DEF T
  <2> QED BY <1>1, <1>2, NatSetInduction
<1> QED BY <1>3, DepthAssumption

(* The siblings of a path in a whole tree. *)
Siblings(siblings, full, i) == \A l \in Level : siblings[l] = Node(full, l, Across(i, l))

(* A path up through its siblings passes the nodes above its leaf. *)
LEMMA UpOfSiblings ==
    ASSUME NEW full, NEW i \in Leaf, NEW siblings, Siblings(siblings, full, i),
           NEW hash, hash = full[i], NEW l \in 0..Depth
    PROVE  Up(hash, i, siblings, l) = Node(full, l, i)
<1> DEFINE T == {n \in Nat : n <= Depth => Up(hash, i, siblings, n) = Node(full, n, i)}
<1>1. 0 \in T  BY UpStart, NodeIs
<1>2. ASSUME NEW n \in Nat, n \in T PROVE n + 1 \in T
  <2> SUFFICES ASSUME n + 1 <= Depth PROVE Up(hash, i, siblings, n + 1) = Node(full, n + 1, i)
    OBVIOUS
  <2>1. n \in Level  BY DepthAssumption DEF Level
  <2>2. Up(hash, i, siblings, n) = Node(full, n, i)  BY <1>2, DepthAssumption
  <2> HIDE DEF T
  <2>3. Up(hash, i, siblings, n + 1) = Joined(i[n], Up(hash, i, siblings, n), siblings[n])
    BY <2>1, UpStep
  <2>4. Node(full, n + 1, i) = Joined(i[n], Node(full, n, i), Node(full, n, Across(i, n)))
    BY <2>1, NodeJoined
  <2>5. siblings[n] = Node(full, n, Across(i, n))  BY <2>1 DEF Siblings
  <2> QED BY <2>2, <2>3, <2>4, <2>5
<1>3. \A n \in Nat : n \in T
  <2> HIDE DEF T
  <2> QED BY <1>1, <1>2, NatSetInduction
<1> QED BY <1>3, DepthAssumption

(* Hashes do not collide: a path that ends at the root is of the tree's own leaf. *)
LEMMA UpDetermines ==
    ASSUME NEW full, NEW i \in Leaf, NEW siblings, NEW hash,
           Up(hash, i, siblings, Depth) = Node(full, Depth, i)
    PROVE  hash = full[i] /\ Siblings(siblings, full, i)
<1> DEFINE Meets(l) == Up(hash, i, siblings, l) = Node(full, l, i)
           T == {n \in Nat : n <= Depth => Meets(Depth - n)}
<1>1. \A l \in Level : Meets(l + 1) => Meets(l) /\ siblings[l] = Node(full, l, Across(i, l))
  <2> SUFFICES ASSUME NEW l \in Level, Meets(l + 1)
               PROVE  Meets(l) /\ siblings[l] = Node(full, l, Across(i, l))
    OBVIOUS
  <2>1. Joined(i[l], Up(hash, i, siblings, l), siblings[l])
          = Joined(i[l], Node(full, l, i), Node(full, l, Across(i, l)))
    <3>1. Up(hash, i, siblings, l + 1) = Joined(i[l], Up(hash, i, siblings, l), siblings[l])
      BY UpStep
    <3>2. Node(full, l + 1, i) = Joined(i[l], Node(full, l, i), Node(full, l, Across(i, l)))
      BY NodeJoined
    <3> QED BY <3>1, <3>2
  <2> QED BY <2>1 DEF Joined, NodeHash
<1>2. 0 \in T  BY DepthAssumption
<1>3. ASSUME NEW n \in Nat, n \in T PROVE n + 1 \in T
  <2> HIDE DEF Meets
  <2> SUFFICES ASSUME n + 1 <= Depth PROVE Meets(Depth - (n + 1))
    OBVIOUS
  <2>1. Depth - (n + 1) \in Level /\ (Depth - (n + 1)) + 1 = Depth - n
    BY DepthAssumption DEF Level
  <2>2. Meets(Depth - n)  BY <1>3, DepthAssumption
  <2> QED BY <1>1, <2>1, <2>2
<1>4. \A n \in Nat : n \in T
  <2> HIDE DEF T
  <2> QED BY <1>2, <1>3, NatSetInduction
<1>5. \A l \in 0..Depth : Meets(l)
  <2> SUFFICES ASSUME NEW l \in 0..Depth PROVE Meets(l)
    OBVIOUS
  <2>1. Depth - l \in Nat /\ Depth - l <= Depth /\ Depth - (Depth - l) = l
    BY DepthAssumption
  <2>2. Depth - l \in T  BY <1>4, <2>1
  <2> HIDE DEF Meets
  <2> QED BY <2>1, <2>2
<1>6. hash = full[i]  BY <1>5, UpStart, NodeIs, DepthAssumption
<1>7. \A l \in Level : Meets(l + 1)  BY <1>5, DepthAssumption DEF Level
<1> QED BY <1>1, <1>6, <1>7 DEF Siblings

-----------------------------------------------------------------------------
(* The storage of a call. *)

(* A witness as decode_input makes it and load and store leave it; no two  *)
(* of them at one leaf.                                                    *)
IsWitness(w) ==
  /\ w = [slot |-> w.slot, value |-> w.value, siblings |-> w.siblings, verified |-> w.verified]
  /\ w.slot \in 0..(W - 1) /\ w.verified \in BOOLEAN

Apart(wits) ==
  \A j, k \in DOMAIN wits : SlotIndex(wits[j].slot) = SlotIndex(wits[k].slot) => j = k

(* What the call began with: the root of the contract's tree and           *)
(* unverified witnesses at leaves of their own.                            *)
PreOk ==
  /\ pre.root = Root(Before)
  /\ DOMAIN pre.wits \subseteq Nat
  /\ \A k \in DOMAIN pre.wits : IsWitness(pre.wits[k]) /\ ~pre.wits[k].verified
  /\ Apart(pre.wits)

(* The whole tree as it is now, leaf by leaf.                              *)
Now(tree) == [i \in Leaf |-> LeafNow(tree, i)]

\* What a witness that is or was good says of the whole tree.
Holds(full, w) ==
  /\ full[SlotIndex(w.slot)] = LeafHash(w.slot, w.value)
  /\ Siblings(w.siblings, full, SlotIndex(w.slot))

(* The k-th witness: its slot never changes, its value only once verified, *)
(* and it holds if it is verified or was good to begin with.               *)
WitnessOk(full, k, w) ==
  /\ IsWitness(w) /\ w.slot = pre.wits[k].slot
  /\ ~w.verified => w.value = pre.wits[k].value
  /\ w.verified \/ Verifies(pre, k) => Holds(full, w)

TreeShape(tree) ==
  /\ tree = [root |-> tree.root, wits |-> tree.wits]
  /\ tree.wits = [k \in DOMAIN pre.wits |-> tree.wits[k]]

(* The invariant of one storage: the root is of the values now, and every  *)
(* witness that counts is in step with it.                                 *)
TreeOk(tree) ==
  /\ TreeShape(tree)
  /\ \A k \in DOMAIN pre.wits : WitnessOk(Now(tree), k, tree.wits[k])
  /\ tree.root = Root(Now(tree))

LEMMA IndexIsLeaf ==
    ASSUME NEW w, IsWitness(w)
    PROVE  SlotIndex(w.slot) \in Leaf
BY SlotAssumption DEF IsWitness

LEMMA RootIsNode ==
    ASSUME NEW full, NEW i \in Leaf
    PROVE  Root(full) = Node(full, Depth, i)
<1> DEFINE j == CHOOSE x \in Leaf : TRUE
<1>1. j \in Leaf  OBVIOUS
<1> HIDE DEF j
<1>2. AgreeFrom(j, i, Depth)  BY DepthAssumption DEF AgreeFrom, Level
<1>3. Node(full, Depth, j) = Node(full, Depth, i)  BY <1>1, <1>2, NodeAbove, DepthAssumption
<1> USE DEF j
<1> QED BY <1>3 DEF Root

\* The witnesses are those of the call: their slots are on leaves of their own.
SameSlots(tree) ==
  /\ DOMAIN tree.wits = DOMAIN pre.wits
  /\ \A k \in DOMAIN pre.wits :
       IsWitness(tree.wits[k]) /\ tree.wits[k].slot = pre.wits[k].slot

LEMMA TreeOkSlots ==
    ASSUME PreOk, NEW tree, TreeOk(tree)
    PROVE  SameSlots(tree)
<1>1. DOMAIN tree.wits = DOMAIN pre.wits  BY DEF TreeOk, TreeShape
<1> QED BY <1>1 DEF TreeOk, WitnessOk, SameSlots

LEMMA SlotsApart ==
    ASSUME PreOk, NEW tree, SameSlots(tree)
    PROVE  Apart(tree.wits)
BY DEF PreOk, Apart, SameSlots

(* A leaf is that of its verified witness, there being one at most. *)
LEMMA LeafNowIs ==
    ASSUME PreOk, NEW tree, SameSlots(tree), NEW k \in DOMAIN pre.wits, tree.wits[k].verified
    PROVE  LeafNow(tree, SlotIndex(tree.wits[k].slot))
             = LeafHash(tree.wits[k].slot, tree.wits[k].value)
<1> DEFINE i == SlotIndex(tree.wits[k].slot)
           used == {w \in Range(tree.wits) : w.verified /\ SlotIndex(w.slot) = i}
<1>1. used = {tree.wits[k]}
  <2>1. tree.wits[k] \in used  BY DEF Range, SameSlots
  <2>2. ASSUME NEW w \in used PROVE w = tree.wits[k]
    <3>1. PICK j \in DOMAIN tree.wits : w = tree.wits[j]  BY DEF Range
    <3>2. j = k  BY <3>1, SlotsApart DEF Apart, SameSlots
    <3> QED BY <3>1, <3>2
  <2> QED BY <2>1, <2>2
<1> HIDE DEF used
<1>2. used # {} /\ (CHOOSE w \in used : TRUE) = tree.wits[k]
  BY <1>1
<1> USE DEF used
<1> QED BY <1>2 DEF LeafNow

LEMMA LeafNowUnused ==
    ASSUME NEW tree, NEW i,
           \A k \in DOMAIN tree.wits : tree.wits[k].verified => SlotIndex(tree.wits[k].slot) # i
    PROVE  LeafNow(tree, i) = Before[i]
<1> DEFINE used == {w \in Range(tree.wits) : w.verified /\ SlotIndex(w.slot) = i}
<1>1. used = {}  BY DEF Range
<1> QED BY <1>1 DEF LeafNow

(* The witness find returns (storage.rs, find).                            *)
Pick(tree, slot) == Min(Found(tree, slot))

(* At most one witness is of a slot, and what find returns is it.          *)
LEMMA FoundIs ==
    ASSUME PreOk, NEW tree, SameSlots(tree), NEW slot, Found(tree, slot) # {}
    PROVE  Pick(tree, slot) \in DOMAIN pre.wits /\ tree.wits[Pick(tree, slot)].slot = slot
<1>1. PICK k \in Found(tree, slot) : TRUE  OBVIOUS
<1>2. Found(tree, slot) = {k}
  <2> SUFFICES ASSUME NEW j \in Found(tree, slot) PROVE j = k
    BY <1>1
  <2> QED BY <1>1, SlotsApart DEF Found, Apart
<1>3. k \in Nat  BY <1>1 DEF Found, SameSlots, PreOk
<1>4. Min({k}) = k  BY <1>3 DEF Min
<1> QED BY <1>1, <1>2, <1>4 DEF Pick, Found, SameSlots

LEMMA NoFault ==
    ASSUME NEW tree, NEW slot, Fault(tree, slot) = "none"
    PROVE  Found(tree, slot) # {} /\ Verifies(tree, Pick(tree, slot))
BY DEF Fault, Pick

(* What a load leaves: the one witness verified and nothing else changed.  *)
LEMMA LoadedIs ==
    ASSUME PreOk, NEW tree, TreeOk(tree), NEW slot, Found(tree, slot) # {}
    PROVE  LET k == Pick(tree, slot)
               t == Loaded(tree, slot)
           IN  /\ t = [root |-> tree.root, wits |-> t.wits]
               /\ t.wits = [j \in DOMAIN pre.wits |-> t.wits[j]]
               /\ \A j \in DOMAIN pre.wits : j # k => t.wits[j] = tree.wits[j]
               /\ t.wits[k] = [tree.wits[k] EXCEPT !.verified = TRUE]
               /\ SameSlots(t)
<1> DEFINE k == Pick(tree, slot)
           t == Loaded(tree, slot)
<1>1. k \in DOMAIN pre.wits  BY FoundIs, TreeOkSlots
<1> HIDE DEF k
<1>2. t = [tree EXCEPT !.wits = [tree.wits EXCEPT ![k] = [tree.wits[k] EXCEPT !.verified = TRUE]]]
  BY DEF Loaded, Pick, k
<1>3. TreeShape(tree)  BY DEF TreeOk
<1> HIDE DEF t
<1>4. /\ t = [root |-> tree.root, wits |-> t.wits]
      /\ t.wits = [tree.wits EXCEPT ![k] = [tree.wits[k] EXCEPT !.verified = TRUE]]
  BY <1>2, <1>3 DEF TreeShape
<1>5. /\ t.wits = [j \in DOMAIN pre.wits |-> t.wits[j]]
      /\ \A j \in DOMAIN pre.wits : j # k => t.wits[j] = tree.wits[j]
      /\ t.wits[k] = [tree.wits[k] EXCEPT !.verified = TRUE]
  BY <1>1, <1>3, <1>4 DEF TreeShape
<1>6. SameSlots(t)
  <2>1. DOMAIN t.wits = DOMAIN pre.wits  BY <1>5
  <2>2. SameSlots(tree)  BY TreeOkSlots
  <2>3. IsWitness(t.wits[k]) /\ t.wits[k].slot = tree.wits[k].slot
    BY <1>1, <1>5, <2>2 DEF SameSlots, IsWitness
  <2> QED BY <1>5, <2>1, <2>2, <2>3 DEF SameSlots
<1> USE DEF k, t
<1> QED BY <1>4, <1>5, <1>6

(* A load leaves the whole tree as it was. *)
LEMMA LoadedOk ==
    ASSUME PreOk, NEW tree, TreeOk(tree), NEW slot, Fault(tree, slot) = "none"
    PROVE  /\ TreeOk(Loaded(tree, slot)) /\ Now(Loaded(tree, slot)) = Now(tree)
           /\ Found(Loaded(tree, slot), slot) = Found(tree, slot)
           /\ Found(tree, slot) # {}
           /\ Loaded(tree, slot).wits[Pick(tree, slot)].verified
<1> DEFINE k == Pick(tree, slot)
           t == Loaded(tree, slot)
           w == tree.wits[k]
           i == SlotIndex(w.slot)
<1>1. SameSlots(tree)  BY TreeOkSlots
<1>2. k \in DOMAIN pre.wits /\ w.slot = slot /\ Found(tree, slot) # {}
  BY <1>1, FoundIs, NoFault
<1>3. /\ t = [root |-> tree.root, wits |-> t.wits]
      /\ t.wits = [j \in DOMAIN pre.wits |-> t.wits[j]]
      /\ \A j \in DOMAIN pre.wits : j # k => t.wits[j] = tree.wits[j]
      /\ t.wits[k] = [w EXCEPT !.verified = TRUE]
      /\ SameSlots(t)
  BY <1>2, LoadedIs
<1>4. Verifies(tree, k)  BY NoFault
<1>5. WitnessOk(Now(tree), k, w) /\ IsWitness(w) /\ i \in Leaf
  BY <1>2, IndexIsLeaf DEF TreeOk, WitnessOk
<1>6. Holds(Now(tree), w)
  <2>1. CASE w.verified  BY <1>5, <2>1 DEF WitnessOk
  <2>2. CASE ~w.verified
    <3>1. Up(LeafHash(w.slot, w.value), i, w.siblings, Depth) = tree.root
      BY <1>4, <2>2 DEF Verifies, Index
    <3>2. tree.root = Node(Now(tree), Depth, i)  BY <1>5, RootIsNode DEF TreeOk
    <3> QED BY <1>5, <3>1, <3>2, UpDetermines DEF Holds
  <2> QED BY <2>1, <2>2
<1> HIDE DEF k, t, w
<1>7. t.wits[k].verified /\ t.wits[k].slot = w.slot /\ t.wits[k].value = w.value
      /\ t.wits[k].siblings = w.siblings /\ IsWitness(t.wits[k])
  BY <1>3, <1>5 DEF IsWitness
<1>8. ASSUME NEW p \in Leaf PROVE LeafNow(t, p) = LeafNow(tree, p)
  <2>1. CASE p = i
    <3>1. LeafNow(t, i) = LeafHash(w.slot, w.value)
      BY <1>2, <1>3, <1>7, LeafNowIs
    <3>2. LeafNow(tree, i) = LeafHash(w.slot, w.value)
      BY <1>5, <1>6 DEF Holds, Now
    <3> QED BY <2>1, <3>1, <3>2
  <2>2. CASE \E j \in DOMAIN pre.wits :
               j # k /\ tree.wits[j].verified /\ SlotIndex(tree.wits[j].slot) = p
    <3>1. PICK j \in DOMAIN pre.wits :
               j # k /\ tree.wits[j].verified /\ SlotIndex(tree.wits[j].slot) = p
      BY <2>2
    <3>2. t.wits[j] = tree.wits[j]  BY <1>3, <3>1
    <3> QED BY <1>1, <1>3, <3>1, <3>2, LeafNowIs
  <2>3. CASE p # i /\ ~(\E j \in DOMAIN pre.wits :
               j # k /\ tree.wits[j].verified /\ SlotIndex(tree.wits[j].slot) = p)
    <3>1. \A j \in DOMAIN tree.wits : tree.wits[j].verified => SlotIndex(tree.wits[j].slot) # p
      BY <1>1, <2>3 DEF SameSlots, w
    <3>2. \A j \in DOMAIN t.wits : t.wits[j].verified => SlotIndex(t.wits[j].slot) # p
      BY <1>3, <1>7, <2>3 DEF SameSlots
    <3> QED BY <3>1, <3>2, LeafNowUnused
  <2> QED BY <2>1, <2>2, <2>3
<1>9. Now(t) = Now(tree)  BY <1>8 DEF Now
<1>10. \A j \in DOMAIN pre.wits : WitnessOk(Now(t), j, t.wits[j])
  <2>1. WitnessOk(Now(t), k, t.wits[k])
    BY <1>5, <1>6, <1>7, <1>9 DEF WitnessOk, Holds
  <2> QED BY <1>3, <1>9, <2>1 DEF TreeOk
<1>11. TreeOk(t)  BY <1>3, <1>9, <1>10 DEF TreeOk, TreeShape
<1>12. Found(t, slot) = Found(tree, slot)
  BY <1>1, <1>3 DEF Found, SameSlots
<1> QED BY <1>2, <1>7, <1>9, <1>11, <1>12 DEF k, t

StoredFrom(tree, k, hash, value, t) ==
  LET i == SlotIndex(tree.wits[k].slot)
      up(l) == Up(hash, i, tree.wits[k].siblings, l)
  IN  /\ TreeShape(t) /\ SameSlots(t) /\ t.root = up(Depth)
      /\ \A j \in DOMAIN pre.wits :
           /\ t.wits[j].slot = tree.wits[j].slot
           /\ t.wits[j].value = IF j = k THEN value ELSE tree.wits[j].value
           /\ t.wits[j].verified = (tree.wits[j].verified \/ j = k)
           /\ \A l \in Level :
                t.wits[j].siblings[l]
                  = IF j # k /\ Diverges(i, SlotIndex(tree.wits[j].slot), l) THEN up(l)
                    ELSE tree.wits[j].siblings[l]

(* What a store leaves: the root of its own path, the value, and one       *)
(* sibling refreshed in each witness whose path parts from it.             *)
LEMMA StoredIs ==
    ASSUME PreOk, NEW tree, TreeOk(tree), NEW slot, NEW value, Found(tree, slot) # {}
    PROVE  StoredFrom(tree, Pick(tree, slot), LeafHash(slot, value), value,
                      Stored(tree, slot, value))
<1> DEFINE k == Pick(tree, slot)
           i == SlotIndex(tree.wits[k].slot)
           hash == LeafHash(slot, value)
           t == Stored(tree, slot, value)
           up(l) == Up(hash, i, tree.wits[k].siblings, l)
           sib(j) == [l \in Level |->
                        IF j # k /\ Diverges(i, SlotIndex(tree.wits[j].slot), l) THEN up(l)
                        ELSE tree.wits[j].siblings[l]]
           new(j) == [slot |-> tree.wits[j].slot,
                      value |-> IF j = k THEN value ELSE tree.wits[j].value,
                      siblings |-> sib(j),
                      verified |-> tree.wits[j].verified \/ j = k]
<1>1. t = [root |-> up(Depth), wits |-> [j \in DOMAIN tree.wits |-> new(j)]]
  BY DEF Stored, Pick, Index
<1>2. SameSlots(tree)  BY TreeOkSlots
<1> HIDE DEF sib, up, t, k, i, hash
<1>3. ASSUME NEW j \in DOMAIN pre.wits
      PROVE  /\ IsWitness(new(j)) /\ new(j).slot = tree.wits[j].slot
             /\ new(j).value = IF j = k THEN value ELSE tree.wits[j].value
             /\ new(j).verified = (tree.wits[j].verified \/ j = k)
             /\ new(j).siblings = sib(j)
  <2>1. IsWitness(tree.wits[j])  BY <1>2 DEF SameSlots
  <2> QED BY <2>1 DEF IsWitness
<1> HIDE DEF new
<1>4. /\ t = [root |-> t.root, wits |-> t.wits] /\ t.root = up(Depth)
      /\ t.wits = [j \in DOMAIN pre.wits |-> new(j)]
  BY <1>1, <1>2 DEF SameSlots
<1>5. \A j \in DOMAIN pre.wits : t.wits[j] = new(j)
  BY <1>4
<1>6. TreeShape(t)  BY <1>4 DEF TreeShape
<1>7. SameSlots(t)  BY <1>2, <1>3, <1>4, <1>5 DEF SameSlots
<1>8. \A j \in DOMAIN pre.wits : \A l \in Level :
        sib(j)[l] = IF j # k /\ Diverges(i, SlotIndex(tree.wits[j].slot), l) THEN up(l)
                    ELSE tree.wits[j].siblings[l]
  BY DEF sib
<1>9. \A j \in DOMAIN pre.wits :
        /\ t.wits[j].slot = tree.wits[j].slot
        /\ t.wits[j].value = IF j = k THEN value ELSE tree.wits[j].value
        /\ t.wits[j].verified = (tree.wits[j].verified \/ j = k)
        /\ \A l \in Level :
             t.wits[j].siblings[l]
               = IF j # k /\ Diverges(i, SlotIndex(tree.wits[j].slot), l) THEN up(l)
                 ELSE tree.wits[j].siblings[l]
  BY <1>3, <1>5, <1>8
<1>10. StoredFrom(tree, k, hash, value, t)
  BY <1>4, <1>6, <1>7, <1>9 DEF StoredFrom, up, i
<1> QED BY <1>10 DEF k, t, hash

\* Where two paths part: the highest level at which they differ.
(* Two leaves that differ part at one level, above which their bits agree. *)
LEMMA PathsPart ==
    ASSUME NEW i \in Leaf, NEW j \in Leaf, NEW l \in Level, Diverges(i, j, l)
    PROVE  AgreeFrom(i, Across(j, l), l)
<1> SUFFICES ASSUME NEW k \in Level, k >= l PROVE i[k] = Across(j, l)[k]
  BY DEF AgreeFrom
<1>1. CASE k = l
  <2>1. i[l] # j[l] /\ i[l] \in {0, 1} /\ j[l] \in {0, 1}  BY DEF Diverges, Leaf
  <2> QED BY <1>1, <2>1, AcrossIs
<1>2. CASE k # l
  <2>1. k \in (l + 1)..(Depth - 1)  BY <1>2, DepthAssumption DEF Level
  <2> QED BY <1>2, <2>1, AcrossIs DEF Diverges
<1> QED BY <1>1, <1>2

LEMMA PathsDoNotPart ==
    ASSUME NEW i \in Leaf, NEW j \in Leaf, i # j, NEW l \in Level, ~Diverges(i, j, l)
    PROVE  ~AgreeFrom(i, Across(j, l), l)
<1> SUFFICES ASSUME AgreeFrom(i, Across(j, l), l) PROVE FALSE
  OBVIOUS
<1>1. \A k \in (l + 1)..(Depth - 1) : i[k] = j[k]
  BY AcrossIs DEF AgreeFrom, Level
<1>2. i[l] # j[l]
  <2>1. i[l] = 1 - j[l] /\ j[l] \in {0, 1}  BY AcrossIs DEF AgreeFrom, Level
  <2> QED BY <2>1
<1> QED BY <1>1, <1>2 DEF Diverges

(* A store changes the one leaf of the whole tree, and every witness that  *)
(* was good for its leaf is good for it under the new root.                *)
LEMMA StoredOk ==
    ASSUME PreOk, NEW tree, TreeOk(tree), NEW slot, NEW value, Found(tree, slot) # {},
           tree.wits[Pick(tree, slot)].verified
    PROVE  TreeOk(Stored(tree, slot, value))
<1> DEFINE k == Pick(tree, slot)
           w == tree.wits[k]
           i == SlotIndex(w.slot)
           t == Stored(tree, slot, value)
           hash == LeafHash(slot, value)
           up(l) == Up(hash, i, w.siblings, l)
           full == [Now(tree) EXCEPT ![i] = hash]
<1>1. SameSlots(tree)  BY TreeOkSlots
<1>2. k \in DOMAIN pre.wits /\ w.slot = slot  BY <1>1, FoundIs
<1>3. StoredFrom(tree, k, hash, value, t)
  BY StoredIs
<1>4. WitnessOk(Now(tree), k, w) /\ IsWitness(w) /\ i \in Leaf
  BY <1>2, IndexIsLeaf DEF TreeOk, WitnessOk
<1>5. Holds(Now(tree), w)  BY <1>4 DEF WitnessOk
<1> HIDE DEF k, t, w, up, hash
<1>6. \A p \in Leaf : p # i => Now(tree)[p] = full[p]
  BY DEF Now
<1>7. full[i] = hash  BY <1>4 DEF Now
<1> HIDE DEF full
<1>8. Siblings(w.siblings, full, i)
  <2> SUFFICES ASSUME NEW l \in Level PROVE w.siblings[l] = Node(full, l, Across(i, l))
    BY DEF Siblings
  <2>1. Across(i, l) \in Leaf /\ ~AgreeFrom(i, Across(i, l), l) /\ l \in 0..Depth
    <3>1. Across(i, l) \in Leaf /\ Across(i, l)[l] = 1 - i[l] /\ i[l] \in {0, 1}
      BY <1>4, AcrossIs
    <3>2. Across(i, l)[l] # i[l] /\ l >= l  BY <3>1 DEF Level
    <3> QED BY <3>1, <3>2, DepthAssumption DEF AgreeFrom, Level
  <2>2. Node(Now(tree), l, Across(i, l)) = Node(full, l, Across(i, l))
    BY <1>4, <1>6, <2>1, NodeSame
  <2> QED BY <1>5, <2>2 DEF Holds, Siblings, w
<1>9. \A l \in 0..Depth : up(l) = Node(full, l, i)
  BY <1>4, <1>7, <1>8, UpOfSiblings DEF up
<1>10. TreeShape(t) /\ SameSlots(t) /\ t.root = up(Depth)
  BY <1>3 DEF StoredFrom, up, w
<1>11. \A j \in DOMAIN pre.wits :
         /\ t.wits[j].slot = tree.wits[j].slot /\ IsWitness(t.wits[j])
         /\ t.wits[j].value = IF j = k THEN value ELSE tree.wits[j].value
         /\ t.wits[j].verified = (tree.wits[j].verified \/ j = k)
         /\ \A l \in Level : t.wits[j].siblings[l]
              = IF j # k /\ Diverges(i, SlotIndex(tree.wits[j].slot), l) THEN up(l)
                ELSE tree.wits[j].siblings[l]
  BY <1>3 DEF StoredFrom, up, w, SameSlots
<1>12. ASSUME NEW p \in Leaf PROVE LeafNow(t, p) = full[p]
  <2>1. CASE p = i
    <3>1. t.wits[k].slot = slot /\ t.wits[k].value = value /\ t.wits[k].verified
      BY <1>2, <1>11 DEF w
    <3>2. LeafNow(t, i) = hash
      BY <1>2, <1>10, <3>1, LeafNowIs DEF hash
    <3> QED BY <1>7, <2>1, <3>2
  <2>2. CASE \E j \in DOMAIN pre.wits :
               j # k /\ tree.wits[j].verified /\ SlotIndex(tree.wits[j].slot) = p
    <3>1. PICK j \in DOMAIN pre.wits :
               j # k /\ tree.wits[j].verified /\ SlotIndex(tree.wits[j].slot) = p
      BY <2>2
    <3>2. LeafNow(t, p) = LeafHash(tree.wits[j].slot, tree.wits[j].value)
      <4>1. t.wits[j].slot = tree.wits[j].slot /\ t.wits[j].value = tree.wits[j].value
            /\ t.wits[j].verified
        BY <1>11, <3>1
      <4> QED BY <1>10, <3>1, <4>1, LeafNowIs
    <3>3. LeafNow(tree, p) = LeafHash(tree.wits[j].slot, tree.wits[j].value)
      BY <1>1, <3>1, LeafNowIs
    <3>4. p # i  BY <1>1, <1>2, <3>1, SlotsApart DEF Apart, SameSlots, w
    <3> QED BY <1>6, <3>2, <3>3, <3>4 DEF Now
  <2>3. CASE p # i /\ ~(\E j \in DOMAIN pre.wits :
               j # k /\ tree.wits[j].verified /\ SlotIndex(tree.wits[j].slot) = p)
    <3>1. \A j \in DOMAIN tree.wits : tree.wits[j].verified => SlotIndex(tree.wits[j].slot) # p
      BY <1>1, <2>3 DEF SameSlots, w
    <3>2. \A j \in DOMAIN t.wits : t.wits[j].verified => SlotIndex(t.wits[j].slot) # p
      BY <1>2, <1>10, <1>11, <2>3 DEF SameSlots, w
    <3>3. LeafNow(t, p) = LeafNow(tree, p)  BY <3>1, <3>2, LeafNowUnused
    <3> QED BY <1>6, <2>3, <3>3 DEF Now
  <2> QED BY <2>1, <2>2, <2>3
<1>13. Now(t) = full
  <2>1. full = [p \in Leaf |-> full[p]]  BY DEF full, Now
  <2> QED BY <1>12, <2>1 DEF Now
<1>14. ASSUME NEW j \in DOMAIN pre.wits PROVE WitnessOk(full, j, t.wits[j])
  <2> DEFINE x == tree.wits[j]
             q == SlotIndex(x.slot)
  <2>1. WitnessOk(Now(tree), j, x) /\ q \in Leaf
    BY <1>11, IndexIsLeaf DEF TreeOk
  <2>2. CASE j = k
    <3>1. t.wits[j].slot = slot /\ t.wits[j].value = value /\ x = w
          /\ \A l \in Level : t.wits[j].siblings[l] = w.siblings[l]
      BY <1>2, <1>11, <2>2 DEF w
    <3>2. Holds(full, t.wits[j])
      <4>1. full[SlotIndex(t.wits[j].slot)] = LeafHash(t.wits[j].slot, t.wits[j].value)
        BY <1>2, <1>7, <3>1 DEF hash
      <4>2. Siblings(t.wits[j].siblings, full, SlotIndex(t.wits[j].slot))
        BY <1>2, <1>8, <3>1 DEF Siblings
      <4> QED BY <4>1, <4>2 DEF Holds
    <3>3. t.wits[j].verified  BY <1>11, <2>2
    <3> QED BY <1>11, <2>1, <3>2, <3>3 DEF WitnessOk
  <2>3. CASE j # k
    <3>1. t.wits[j].slot = x.slot /\ t.wits[j].value = x.value
          /\ t.wits[j].verified = x.verified
      BY <1>11, <2>1, <2>3 DEF WitnessOk, IsWitness
    <3>2. q # i  BY <1>1, <1>2, <2>3, SlotsApart DEF Apart, SameSlots, w
    <3>3. ASSUME Holds(Now(tree), x) PROVE Holds(full, t.wits[j])
      <4>1. full[q] = LeafHash(x.slot, x.value)
        BY <1>6, <2>1, <3>2, <3>3 DEF Holds
      <4>2. ASSUME NEW l \in Level PROVE t.wits[j].siblings[l] = Node(full, l, Across(q, l))
        <5>1. Across(q, l) \in Leaf /\ l \in 0..Depth
          BY <2>1, AcrossIs, DepthAssumption DEF Level
        <5>2. CASE Diverges(i, q, l)
          <6>1. t.wits[j].siblings[l] = Node(full, l, i)
            BY <1>9, <1>11, <2>3, <5>1, <5>2
          <6>2. Node(full, l, i) = Node(full, l, Across(q, l))
            BY <1>4, <2>1, <5>1, <5>2, PathsPart, NodeAbove
          <6> QED BY <6>1, <6>2
        <5>3. CASE ~Diverges(i, q, l)
          <6>1. t.wits[j].siblings[l] = Node(Now(tree), l, Across(q, l))
            BY <1>11, <3>3, <5>3 DEF Holds, Siblings
          <6>2. ~AgreeFrom(i, Across(q, l), l)
            BY <1>4, <2>1, <3>2, <5>3, PathsDoNotPart
          <6>3. Node(Now(tree), l, Across(q, l)) = Node(full, l, Across(q, l))
            BY <1>4, <1>6, <5>1, <6>2, NodeSame
          <6> QED BY <6>1, <6>3
        <5> QED BY <5>2, <5>3
      <4> QED BY <3>1, <4>1, <4>2 DEF Holds, Siblings
    <3> QED BY <1>11, <2>1, <3>1, <3>3 DEF WitnessOk
  <2> QED BY <2>2, <2>3
<1>15. t.root = Root(full)
  <2>1. t.root = up(Depth)  BY <1>10
  <2> QED BY <1>4, <1>9, <2>1, RootIsNode, DepthAssumption
<1>16. TreeOk(t)  BY <1>10, <1>13, <1>14, <1>15 DEF TreeOk
<1> QED BY <1>16 DEF t

(* What is computed from equal leaves is equal. *)
LEMMA NodeOfLeaves ==
    ASSUME NEW f, NEW g, \A p \in Leaf : f[p] = g[p], NEW l \in 0..Depth, NEW i \in Leaf
    PROVE  Node(f, l, i) = Node(g, l, i)
<1> DEFINE T == {n \in Nat : n <= Depth => \A p \in Leaf : Node(f, n, p) = Node(g, n, p)}
<1>1. 0 \in T  BY NodeIs
<1>2. ASSUME NEW n \in Nat, n \in T PROVE n + 1 \in T
  <2> SUFFICES ASSUME n + 1 <= Depth, NEW p \in Leaf
               PROVE  Node(f, n + 1, p) = Node(g, n + 1, p)
    OBVIOUS
  <2>1. n \in Level  BY DepthAssumption DEF Level
  <2>2. ASSUME NEW b \in {0, 1} PROVE Node(f, n, Turned(p, n, b)) = Node(g, n, Turned(p, n, b))
    <3>1. Turned(p, n, b) \in Leaf  BY DEF Leaf, Turned
    <3> QED BY <1>2, <3>1, DepthAssumption
  <2>3. \A t \in {f, g} :
          Node(t, n + 1, p) = NodeHash(Node(t, n, Turned(p, n, 0)), Node(t, n, Turned(p, n, 1)))
    BY <2>1, NodeIs
  <2> QED BY <2>2, <2>3
<1>3. \A n \in Nat : n \in T
  <2> HIDE DEF T
  <2> QED BY <1>1, <1>2, NatSetInduction
<1> QED BY <1>3, DepthAssumption

(* Before the call no value is used: the tree is the contract's own, and   *)
(* by the hashes a witness that verifies against its root is good.         *)
LEMMA PreTreeOk ==
    ASSUME PreOk, TreeShape(pre)
    PROVE  TreeOk(pre)
<1>1. \A p \in Leaf : LeafNow(pre, p) = Before[p]
  BY LeafNowUnused DEF PreOk
<1>2. \A p \in Leaf : Now(pre)[p] = Before[p]
  BY <1>1 DEF Now
<1> DEFINE j == CHOOSE x \in Leaf : TRUE
<1>3. j \in Leaf
  <2>1. [l \in Level |-> 0] \in Leaf  BY DEF Leaf
  <2> QED BY <2>1
<1> HIDE DEF j
<1>4. pre.root = Root(Now(pre))
  <2>1. Node(Before, Depth, j) = Node(Now(pre), Depth, j)
    BY <1>2, <1>3, NodeOfLeaves, DepthAssumption
  <2> QED BY <1>3, <2>1, RootIsNode DEF PreOk
<1>5. ASSUME NEW k \in DOMAIN pre.wits PROVE WitnessOk(Now(pre), k, pre.wits[k])
  <2> DEFINE w == pre.wits[k]
             i == SlotIndex(w.slot)
  <2>1. IsWitness(w) /\ ~w.verified /\ i \in Leaf  BY IndexIsLeaf DEF PreOk
  <2>2. ASSUME Verifies(pre, k) PROVE Holds(Now(pre), w)
    <3>1. Up(LeafHash(w.slot, w.value), i, w.siblings, Depth) = pre.root
      BY <2>1, <2>2 DEF Verifies, Index
    <3>2. pre.root = Node(Now(pre), Depth, i)  BY <1>4, <2>1, RootIsNode
    <3> QED BY <2>1, <3>1, <3>2, UpDetermines DEF Holds
  <2> QED BY <2>1, <2>2 DEF WitnessOk
<1> QED BY <1>4, <1>5 DEF TreeOk

(* What the invariant of a tree says of it: the property the run checks. *)
LEMMA TreeOkIsOfValues ==
    ASSUME PreOk, NEW tree, TreeOk(tree)
    PROVE  TreeIsOfValues(tree)
<1>1. tree.root = Root([i \in Leaf |-> LeafNow(tree, i)])
  BY DEF TreeOk, Now
<1>2. ASSUME NEW k \in DOMAIN tree.wits, Verifies(pre, k)
      PROVE  Verifies([tree EXCEPT !.wits[k].verified = FALSE], k)
  <2> DEFINE w == tree.wits[k]
             i == SlotIndex(w.slot)
             t == [tree EXCEPT !.wits[k].verified = FALSE]
  <2>1. k \in DOMAIN pre.wits /\ IsWitness(w) /\ i \in Leaf
    BY TreeOkSlots, IndexIsLeaf DEF SameSlots
  <2>2. Holds(Now(tree), w)  BY <1>2, <2>1 DEF TreeOk, WitnessOk
  <2>3. Up(LeafHash(w.slot, w.value), i, w.siblings, Depth) = tree.root
    <3>1. Up(LeafHash(w.slot, w.value), i, w.siblings, Depth) = Node(Now(tree), Depth, i)
      BY <2>1, <2>2, UpOfSiblings, DepthAssumption DEF Holds
    <3>2. tree.root = Node(Now(tree), Depth, i)  BY <2>1, RootIsNode DEF TreeOk
    <3> QED BY <3>1, <3>2
  <2>4. /\ t.wits[k].slot = w.slot /\ t.wits[k].value = w.value
        /\ t.wits[k].siblings = w.siblings /\ t.root = tree.root
    BY <2>1 DEF TreeOk, TreeShape, IsWitness
  <2> HIDE DEF t, w
  <2>5. Verifies(t, k)  BY <2>3, <2>4 DEF Verifies, Index
  <2> QED BY <2>5 DEF t
<1> QED BY <1>1, <1>2 DEF TreeIsOfValues

-----------------------------------------------------------------------------
(* The interpreter. *)

(* A state with a storage; one with that storage still.                    *)
HasTree(s) == "tree" \in DOMAIN s
SameTree(s, t) == HasTree(t) /\ t.tree = s.tree

(* None of an arm's helpers touches the storage.                           *)
LEMMA HaltKeeps ==
    ASSUME NEW s, HasTree(s), NEW why PROVE SameTree(s, Halt(s, why))
BY DEF HasTree, SameTree, Halt

LEMMA ChargeKeeps ==
    ASSUME NEW s, HasTree(s), NEW cost PROVE SameTree(s, Charge(s, cost))
BY HaltKeeps DEF HasTree, SameTree, Charge

LEMMA PushKeeps ==
    ASSUME NEW s, HasTree(s), NEW v PROVE SameTree(s, PushWord(s, v))
BY HaltKeeps DEF HasTree, SameTree, PushWord

LEMMA ExpandedKeeps ==
    ASSUME NEW s, HasTree(s), NEW offset, NEW len PROVE SameTree(s, Expanded(s, offset, len))
<1> DEFINE t == Charge(s, Expansion(offset + len) - Expansion(s.msize))
<1>1. SameTree(s, t)  BY ChargeKeeps
<1> HIDE DEF t
<1>2. SameTree(s, Unless(t, LAMBDA u : [u EXCEPT !.msize = offset + len]))
  BY <1>1 DEF SameTree, HasTree, Unless
<1> USE DEF t
<1> QED BY <1>2, HaltKeeps DEF Expanded, SameTree

LEMMA LenArgKeeps ==
    ASSUME NEW s, HasTree(s), NEW v PROVE SameTree(s, LenArg(s, v))
BY HaltKeeps DEF LenArg, SameTree

LEMMA JumpToKeeps ==
    ASSUME NEW s, HasTree(s), NEW v PROVE SameTree(s, JumpTo(s, v))
BY HaltKeeps DEF JumpTo, SameTree, HasTree

(* The state and the words an arm works on.                                *)
Popped(s, n) == [s EXCEPT !.stack = SubSeq(@, 1, Len(@) - n)]
Words(s, n) == [k \in 1..n |-> s.stack[Len(s.stack) + 1 - k]]

LEMMA PoppedKeeps ==
    ASSUME NEW s, HasTree(s), NEW n PROVE SameTree(s, Popped(s, n))
BY DEF HasTree, SameTree, Popped

LEMMA CopyKeeps ==
    ASSUME NEW s, HasTree(s), NEW src, NEW v PROVE SameTree(s, CopyToMemory(s, src, v))
<1> DEFINE t == LenArg(s, v[3])
           u == Charge(t, 3 * v[3])
           x == Expanded(u, v[1], v[3])
<1>1. SameTree(s, t)  BY LenArgKeeps
<1>2. SameTree(s, u)  BY <1>1, ChargeKeeps DEF SameTree
<1>3. SameTree(s, x)  BY <1>2, ExpandedKeeps DEF SameTree
<1> HIDE DEF t, u, x
<1>4. SameTree(s, [x EXCEPT !.mem = [a \in DOMAIN @ |->
        IF v[3] # 0 /\ a \in v[1]..(v[1] + v[3] - 1) THEN Padded(src, v[2] + a - v[1]) ELSE @[a]]])
  BY <1>3 DEF SameTree, HasTree
<1>5. CopyToMemory(s, src, v)
        = IF ~Ran(t) THEN t ELSE IF ~Ran(u) THEN u ELSE IF ~Ran(x) THEN x
          ELSE [x EXCEPT !.mem = [a \in DOMAIN @ |->
            IF v[3] # 0 /\ a \in v[1]..(v[1] + v[3] - 1) THEN Padded(src, v[2] + a - v[1]) ELSE @[a]]]
  BY DEF CopyToMemory, Unless, t, u, x
<1> QED BY <1>1, <1>2, <1>3, <1>4, <1>5

LEMMA LogNKeeps ==
    ASSUME NEW s, HasTree(s), NEW n PROVE SameTree(s, LogN(s, n))
<1> DEFINE t == Charge(s, 375 + 375 * n)
           u == Popped(t, 2)
           v == Words(t, 2)
           x == LenArg(u, v[2])
           y == Charge(x, 8 * 32 * v[2])
           z == Expanded(y, v[1], v[2])
           e == [Popped(z, n) EXCEPT !.logs = Append(@, Words(z, n))]
<1>1. SameTree(s, t)  BY ChargeKeeps
<1>2. SameTree(s, u)  BY <1>1, PoppedKeeps DEF SameTree
<1>3. SameTree(s, x)  BY <1>2, LenArgKeeps DEF SameTree
<1>4. SameTree(s, y)  BY <1>3, ChargeKeeps DEF SameTree
<1>5. SameTree(s, z)  BY <1>4, ExpandedKeeps DEF SameTree
<1>6. SameTree(s, e)  BY <1>5, PoppedKeeps DEF SameTree, HasTree
<1> HIDE DEF t, u, v, x, y, z, e
<1>7. LogN(s, n)
        = Unless(t, LAMBDA t0 : Popping(t0, 2,
            LAMBDA u0, v0 : Unless(LenArg(u0, v0[2]), LAMBDA x0 : Unless(Charge(x0, 8 * 32 * v0[2]),
              LAMBDA y0 : Unless(Expanded(y0, v0[1], v0[2]), LAMBDA z0 :
                IF Len(z0.logs) = MaxLogs THEN Halt(z0, "outofbounds")
                ELSE Popping(z0, n, LAMBDA e0, topics : [e0 EXCEPT !.logs = Append(@, topics)]))))))
  BY DEF LogN, t
<1>8. LogN(s, n)
        = IF ~Ran(t) THEN t
          ELSE IF Len(t.stack) < 2 THEN Halt(t, "underflow")
          ELSE IF ~Ran(x) THEN x ELSE IF ~Ran(y) THEN y ELSE IF ~Ran(z) THEN z
          ELSE IF Len(z.logs) = MaxLogs THEN Halt(z, "outofbounds")
          ELSE IF Len(z.stack) < n THEN Halt(z, "underflow") ELSE e
  BY <1>7, Zenon DEF Unless, Popping, Popped, Words, u, v, x, y, z, e
<1> QED BY <1>1, <1>3, <1>4, <1>5, <1>6, <1>8, HaltKeeps DEF SameTree

LEMMA ReturningKeeps ==
    ASSUME NEW s, HasTree(s), NEW why, NEW v PROVE SameTree(s, Returning(s, why, v))
<1> DEFINE t == LenArg(s, v[2])
           u == Expanded(t, v[1], v[2])
           r == [u EXCEPT !.ret = Cells(u, Start(v[1], v[2]), v[2])]
<1>1. SameTree(s, t)  BY LenArgKeeps
<1>2. SameTree(s, u)  BY <1>1, ExpandedKeeps DEF SameTree
<1>3. SameTree(s, r)  BY <1>2 DEF SameTree, HasTree
<1>4. Returning(s, why, v)
        = IF ~Ran(t) THEN t
          ELSE IF v[2] > MaxReturn THEN Halt(t, "outofbounds")
          ELSE IF ~Ran(u) THEN u ELSE Halt(r, why)
  BY DEF Returning, Unless
<1> HIDE DEF t, u, r
<1> QED BY <1>1, <1>2, <1>3, <1>4, HaltKeeps DEF SameTree

(* What an arm over the state, or over the state less the words it pops,   *)
(* makes with the helpers of an arm, keeps its tree.                       *)
Keeper(s) ==
  /\ \A n : SameTree(s, Popped(s, n))
  /\ SameTree(s, s)
  /\ \A x : SameTree(s, x) =>
       /\ \A w : /\ SameTree(s, Halt(x, w)) /\ SameTree(s, Charge(x, w))
                /\ SameTree(s, PushWord(x, w)) /\ SameTree(s, LenArg(x, w))
                /\ SameTree(s, JumpTo(x, w))
       /\ \A w, z : /\ SameTree(s, Expanded(x, w, z)) /\ SameTree(s, CopyToMemory(x, w, z))
                   /\ SameTree(s, Returning(x, w, z))

LEMMA Kept ==
    ASSUME NEW s, HasTree(s) PROVE Keeper(s)
<1>1. \A n : SameTree(s, Popped(s, n))  BY PoppedKeeps
<1>2. SameTree(s, s)  BY DEF SameTree
<1>3. ASSUME NEW x, SameTree(s, x), NEW w, NEW z
      PROVE  /\ SameTree(s, Halt(x, w)) /\ SameTree(s, Charge(x, w))
             /\ SameTree(s, PushWord(x, w)) /\ SameTree(s, LenArg(x, w))
             /\ SameTree(s, JumpTo(x, w)) /\ SameTree(s, Expanded(x, w, z))
             /\ SameTree(s, CopyToMemory(x, w, z)) /\ SameTree(s, Returning(x, w, z))
  <2>1. HasTree(x) /\ \A y : SameTree(x, y) => SameTree(s, y)  BY <1>3 DEF SameTree
  <2> QED BY <2>1, HaltKeeps, ChargeKeeps, PushKeeps, LenArgKeeps, JumpToKeeps,
             ExpandedKeeps, CopyKeeps, ReturningKeeps
<1> QED BY <1>1, <1>2, <1>3 DEF Keeper

(* The arms but SLOAD and SSTORE leave the storage alone (interp.rs,       *)
(* step).                                                                  *)
LEMMA ComputingKeeps ==
    ASSUME NEW s, HasTree(s), NEW op \in {1, 3, 8, 10, 21, 27, 32}
    PROVE  SameTree(s, Computing(op, s))
<1> DEFINE t(n) == Popped(s, n)
           v(n) == Words(s, n)
           short(n) == Len(s.stack) < n
           under == Halt(s, "underflow")
<1>1. /\ \A n : SameTree(s, t(n))
      /\ SameTree(s, under) /\ SameTree(s, s)
  BY Kept DEF Keeper
<1>2. CASE op = 1
  <2>1. Computing(op, s)
          = IF short(2) THEN under ELSE PushWord(t(2), Binary(op, v(2)[1], v(2)[2]))
    BY <1>2 DEF Computing, Popping, Unless, Popped, Words
  <2> QED BY <1>1, <2>1, Kept DEF Keeper
<1>3. CASE op = 3
  <2>1. Computing(op, s)
          = IF short(2) THEN under ELSE PushWord(t(2), Binary(op, v(2)[1], v(2)[2]))
    BY <1>3 DEF Computing, Popping, Unless, Popped, Words
  <2> QED BY <1>1, <2>1, Kept DEF Keeper
<1>4. CASE op = 27
  <2>1. Computing(op, s)
          = IF short(2) THEN under ELSE PushWord(t(2), Binary(op, v(2)[1], v(2)[2]))
    BY <1>4 DEF Computing, Popping, Unless, Popped, Words
  <2> QED BY <1>1, <2>1, Kept DEF Keeper
<1>5. CASE op = 8
  <2>1. Computing(op, s)
          = IF short(3) THEN under ELSE PushWord(t(3), IF v(3)[3] = 0 THEN 0 ELSE (v(3)[1] + v(3)[2]) % v(3)[3])
    BY <1>5 DEF Computing, Popping, Unless, Popped, Words
  <2> QED BY <1>1, <2>1, Kept DEF Keeper
<1>6. CASE op = 10
  <2> DEFINE u == Charge(t(2), 10 + 50 * ByteLen(v(2)[2]))
  <2>1. Computing(op, s)
          = IF short(2) THEN under ELSE IF ~Ran(u) THEN u ELSE PushWord(u, Power(v(2)[1], v(2)[2]))
    BY <1>6 DEF Computing, Popping, Unless, Popped, Words
  <2>2. SameTree(s, u)  BY <1>1, Kept DEF Keeper
  <2> HIDE DEF u
  <2> QED BY <1>1, <2>1, <2>2, Kept DEF Keeper
<1>7. CASE op = 21
  <2>1. Computing(op, s) = IF short(1) THEN under ELSE PushWord(t(1), Bool(v(1)[1] = 0))
    BY <1>7 DEF Computing, Popping, Unless, Popped, Words
  <2> QED BY <1>1, <2>1, Kept DEF Keeper
<1>8. CASE op = 32
  <2> DEFINE u == LenArg(t(2), v(2)[2])
             x == Charge(u, 30 + 6 * v(2)[2])
             y == Expanded(x, v(2)[1], v(2)[2])
  <2>1. Computing(op, s)
          = IF short(2) THEN under ELSE IF ~Ran(u) THEN u ELSE IF ~Ran(x) THEN x ELSE IF ~Ran(y) THEN y
            ELSE PushWord(y, Keccak(Cells(y, Start(v(2)[1], v(2)[2]), v(2)[2])))
    BY <1>8 DEF Computing, Popping, Unless, Popped, Words
  <2>2. SameTree(s, u)  BY <1>1, Kept DEF Keeper
  <2>3. SameTree(s, x)  BY <2>2, Kept DEF Keeper
  <2>4. SameTree(s, y)  BY <2>3, Kept DEF Keeper
  <2> HIDE DEF u, x, y
  <2> QED BY <1>1, <2>1, <2>2, <2>3, <2>4, Kept DEF Keeper
<1> QED BY <1>2, <1>3, <1>4, <1>5, <1>6, <1>7, <1>8

LEMMA EnvironmentKeeps ==
    ASSUME NEW s, HasTree(s), NEW op \in {51, 53, 54, 55, 61, 62}
    PROVE  SameTree(s, Environment(op, s))
<1> DEFINE t(n) == Popped(s, n)
           v(n) == Words(s, n)
           short(n) == Len(s.stack) < n
           under == Halt(s, "underflow")
<1>1. /\ \A n : SameTree(s, t(n))
      /\ SameTree(s, under) /\ SameTree(s, s)
  BY Kept DEF Keeper
<1>2. CASE op = 51
  <2>1. Environment(op, s) = PushWord(s, Caller)
    BY <1>2 DEF Environment, Popping, Unless
  <2> QED BY <1>1, <2>1, Kept DEF Keeper
<1>3. CASE op = 53
  <2>1. Environment(op, s)
          = IF short(1) THEN under ELSE PushWord(t(1), Padded(Calldata, v(1)[1]))
    BY <1>3 DEF Environment, Popping, Unless, Popped, Words
  <2> QED BY <1>1, <2>1, Kept DEF Keeper
<1>4. CASE op = 54
  <2>1. Environment(op, s) = PushWord(s, Len(Calldata))
    BY <1>4 DEF Environment, Popping, Unless
  <2> QED BY <1>1, <2>1, Kept DEF Keeper
<1>5. CASE op = 55
  <2>1. Environment(op, s) = IF short(3) THEN under ELSE CopyToMemory(t(3), Calldata, v(3))
    BY <1>5 DEF Environment, Popping, Unless, Popped, Words
  <2> HIDE DEF v
  <2> QED BY <1>1, <2>1, Kept DEF Keeper
<1>6. CASE op = 61
  <2>1. Environment(op, s) = PushWord(s, 0)
    BY <1>6 DEF Environment, Popping, Unless
  <2> QED BY <1>1, <2>1, Kept DEF Keeper
<1>7. CASE op = 62
  <2>1. Environment(op, s)
          = IF short(3) THEN under ELSE IF v(3)[3] # 0 THEN Halt(t(3), "trap") ELSE t(3)
    BY <1>7 DEF Environment, Popping, Unless, Popped, Words
  <2> QED BY <1>1, <2>1, Kept DEF Keeper
<1> QED BY <1>2, <1>3, <1>4, <1>5, <1>6, <1>7

LEMMA MachineKeeps ==
    ASSUME NEW s, HasTree(s), NEW op \in 80..91, op # 84, op # 85, NEW pc
    PROVE  SameTree(s, Machine(op, pc, s))
<1> DEFINE t(n) == Popped(s, n)
           v(n) == Words(s, n)
           short(n) == Len(s.stack) < n
           under == Halt(s, "underflow")
<1>1. /\ \A n : SameTree(s, t(n))
      /\ SameTree(s, under) /\ SameTree(s, s)
  BY Kept DEF Keeper
<1>2. CASE op = 80
  <2>1. Machine(op, pc, s) = IF short(1) THEN under ELSE t(1)
    BY <1>2 DEF Machine, Popping, Unless, Popped, Words
  <2> QED BY <1>1, <2>1, Kept DEF Keeper
<1>3. CASE op = 81
  <2> DEFINE u == Expanded(t(1), v(1)[1], 1)
  <2>1. Machine(op, pc, s)
          = IF short(1) THEN under ELSE IF ~Ran(u) THEN u ELSE PushWord(u, u.mem[v(1)[1]])
    BY <1>3 DEF Machine, Popping, Unless, Popped, Words
  <2>2. SameTree(s, u)  BY <1>1, Kept DEF Keeper
  <2> HIDE DEF u
  <2> QED BY <1>1, <2>1, <2>2, Kept DEF Keeper
<1>4. CASE op = 82
  <2> DEFINE u == Expanded(t(2), v(2)[1], 1)
  <2>1. Machine(op, pc, s)
          = IF short(2) THEN under ELSE IF ~Ran(u) THEN u ELSE [u EXCEPT !.mem[v(2)[1]] = v(2)[2]]
    BY <1>4 DEF Machine, Popping, Unless, Popped, Words
  <2>2. SameTree(s, u)  BY <1>1, Kept DEF Keeper
  <2> HIDE DEF u
  <2> QED BY <1>1, <2>1, <2>2 DEF SameTree, HasTree
<1>5. CASE op = 83
  <2> DEFINE u == Expanded(t(2), v(2)[1], 1)
  <2>1. Machine(op, pc, s)
          = IF short(2) THEN under ELSE IF ~Ran(u) THEN u
            ELSE [u EXCEPT !.mem[v(2)[1]] = Low(v(2)[2]) % 256]
    BY <1>5 DEF Machine, Popping, Unless, Popped, Words
  <2>2. SameTree(s, u)  BY <1>1, Kept DEF Keeper
  <2> HIDE DEF u
  <2> QED BY <1>1, <2>1, <2>2 DEF SameTree, HasTree
<1>6. CASE op = 86
  <2>1. Machine(op, pc, s) = IF short(1) THEN under ELSE JumpTo(t(1), v(1)[1])
    BY <1>6 DEF Machine, Popping, Unless, Popped, Words
  <2> QED BY <1>1, <2>1, Kept DEF Keeper
<1>7. CASE op = 87
  <2>1. Machine(op, pc, s)
          = IF short(2) THEN under ELSE IF v(2)[2] # 0 THEN JumpTo(t(2), v(2)[1]) ELSE t(2)
    BY <1>7 DEF Machine, Popping, Unless, Popped, Words
  <2> QED BY <1>1, <2>1, Kept DEF Keeper
<1>8. CASE op = 88
  <2>1. Machine(op, pc, s) = PushWord(s, pc)
    BY <1>8 DEF Machine, Popping, Unless
  <2> QED BY <1>1, <2>1, Kept DEF Keeper
<1>9. CASE op = 89
  <2>1. Machine(op, pc, s) = PushWord(s, s.msize)
    BY <1>9 DEF Machine, Popping, Unless
  <2> QED BY <1>1, <2>1, Kept DEF Keeper
<1>10. CASE op = 90
  <2>1. Machine(op, pc, s) = PushWord(s, s.gas)
    BY <1>10 DEF Machine, Popping, Unless
  <2> QED BY <1>1, <2>1, Kept DEF Keeper
<1>11. CASE op = 91
  <2>1. Machine(op, pc, s) = s
    BY <1>11 DEF Machine, Popping, Unless
  <2> QED BY <1>1, <2>1, Kept DEF Keeper
<1> QED BY <1>2, <1>3, <1>4, <1>5, <1>6, <1>7, <1>8, <1>9, <1>10, <1>11

LEMMA EndingKeeps ==
    ASSUME NEW s, HasTree(s), NEW op \in {0, 243, 253, 254}
    PROVE  SameTree(s, Ending(op, s))
<1> DEFINE t(n) == Popped(s, n)
           v(n) == Words(s, n)
           short(n) == Len(s.stack) < n
           under == Halt(s, "underflow")
<1>1. /\ \A n : SameTree(s, t(n))
      /\ SameTree(s, under) /\ SameTree(s, s)
  BY Kept DEF Keeper
<1>2. CASE op = 0
  <2>1. Ending(op, s) = Halt(s, "stop")
    BY <1>2 DEF Ending, Popping, Unless
  <2> QED BY <1>1, <2>1, Kept DEF Keeper
<1>3. CASE op = 243
  <2>1. Ending(op, s) = IF short(2) THEN under ELSE Returning(t(2), "return", v(2))
    BY <1>3 DEF Ending, Popping, Unless, Popped, Words
  <2> HIDE DEF v
  <2> QED BY <1>1, <2>1, Kept DEF Keeper
<1>4. CASE op = 253
  <2>1. Ending(op, s) = IF short(2) THEN under ELSE Returning(t(2), "revert", v(2))
    BY <1>4 DEF Ending, Popping, Unless, Popped, Words
  <2> HIDE DEF v
  <2> QED BY <1>1, <2>1, Kept DEF Keeper
<1>5. CASE op = 254
  <2>1. Ending(op, s) = Halt(s, "invalid")
    BY <1>5 DEF Ending, Popping, Unless
  <2> QED BY <1>1, <2>1, Kept DEF Keeper
<1> QED BY <1>2, <1>3, <1>4, <1>5

LEMMA ArmKeeps ==
    ASSUME NEW s, HasTree(s), NEW op, op # 84, op # 85, NEW pc
    PROVE  SameTree(s, Arm(op, pc, s))
<1>1. CASE op \in {1, 3, 8, 10, 21, 27, 32}  BY <1>1, ComputingKeeps DEF Arm
<1>2. CASE op \in {51, 53, 54, 55, 61, 62}  BY <1>2, EnvironmentKeeps DEF Arm
<1>3. CASE op \in 80..91  BY <1>3, MachineKeeps DEF Arm
<1>4. CASE op \in 95..127
  <2> DEFINE t == PushWord(s, Immediate(pc))
  <2>1. Arm(op, pc, s) = IF Ran(t) THEN [t EXCEPT !.pc = pc + 1 + Pushed(op)] ELSE t
    BY <1>4 DEF Arm, PushImmediate, Unless
  <2>2. SameTree(s, t)  BY PushKeeps
  <2> HIDE DEF t
  <2> QED BY <2>1, <2>2 DEF SameTree, HasTree
<1>5. CASE op \in 128..143
  <2>1. SameTree(s, Dup(s, op - 127))  BY HaltKeeps, PushKeeps DEF Dup
  <2> QED BY <1>5, <2>1 DEF Arm
<1>6. CASE op \in 144..159
  <2>1. SameTree(s, Swap(s, op - 143))  BY HaltKeeps DEF Swap, SameTree, HasTree
  <2> QED BY <1>6, <2>1 DEF Arm
<1>7. CASE op \in 160..164  BY <1>7, LogNKeeps DEF Arm
<1>8. CASE op \in {0, 243, 253, 254}  BY <1>8, EndingKeeps DEF Arm
<1>9. CASE /\ op \notin {1, 3, 8, 10, 21, 27, 32} /\ op \notin {51, 53, 54, 55, 61, 62}
           /\ op \notin 80..91 /\ op \notin 95..164 /\ op \notin {0, 243, 253, 254}
  BY <1>9, HaltKeeps DEF Arm
<1> QED BY <1>1, <1>2, <1>3, <1>4, <1>5, <1>6, <1>7, <1>8, <1>9

-----------------------------------------------------------------------------
(* Loads and stores: the two runs read and write the same storage.         *)

SoundTree(s) == HasTree(s) /\ TreeOk(s.tree)

LEMMA SameIsSound ==
    ASSUME NEW s, SoundTree(s), NEW t, SameTree(s, t) PROVE SoundTree(t)
BY DEF SoundTree, SameTree

(* SLOAD reads a verified value; SSTORE verifies, charges and stores, and  *)
(* a charge that fails stores nothing.                                     *)
LEMMA SloadKeeps ==
    ASSUME PreOk, NEW s, SoundTree(s), NEW slot
    PROVE  SoundTree(Sload(s, slot))
<1>1. CASE Fault(s.tree, slot) # "none"
  <2>1. SameTree(s, Halt(s, Fault(s.tree, slot)))  BY HaltKeeps DEF SoundTree
  <2> QED BY <1>1, <2>1, SameIsSound DEF Sload
<1>2. CASE Fault(s.tree, slot) = "none"
  <2> DEFINE t == [s EXCEPT !.tree = Loaded(@, slot)]
  <2>1. HasTree(t) /\ t.tree = Loaded(s.tree, slot)  BY DEF SoundTree, HasTree
  <2>2. SoundTree(t)  BY <1>2, <2>1, LoadedOk DEF SoundTree
  <2>3. SameTree(t, PushWord(t, Held(s.tree, slot)))  BY <2>1, PushKeeps
  <2>4. Sload(s, slot) = PushWord(t, Held(s.tree, slot))  BY <1>2 DEF Sload
  <2> HIDE DEF t
  <2> QED BY <2>2, <2>3, <2>4, SameIsSound
<1> QED BY <1>1, <1>2

LEMMA SstoreKeeps ==
    ASSUME PreOk, NEW s, SoundTree(s), NEW slot, NEW value
    PROVE  SoundTree(Sstore(s, slot, value))
<1>1. CASE Fault(s.tree, slot) # "none"
  <2>1. SameTree(s, Halt(s, Fault(s.tree, slot)))  BY HaltKeeps DEF SoundTree
  <2> QED BY <1>1, <2>1, SameIsSound DEF Sstore
<1>2. CASE Fault(s.tree, slot) = "none"
  <2> DEFINE t == [s EXCEPT !.tree = Loaded(@, slot)]
             fresh == Held(s.tree, slot) = 0 /\ value # 0
             u == Charge(t, IF fresh THEN 20000 ELSE 2900)
             x == [u EXCEPT !.tree = Stored(@, slot, value)]
  <2>1. HasTree(t) /\ t.tree = Loaded(s.tree, slot)  BY DEF SoundTree, HasTree
  <2>2. SoundTree(t)  BY <1>2, <2>1, LoadedOk DEF SoundTree
  <2>3. SameTree(t, u)  BY <2>1, ChargeKeeps
  <2>4. Sstore(s, slot, value) = IF Ran(u) THEN x ELSE u  BY <1>2 DEF Sstore, Unless
  <2> HIDE DEF t, u
  <2>5. SoundTree(u) /\ u.tree = Loaded(s.tree, slot)
    BY <2>1, <2>2, <2>3, SameIsSound DEF SameTree
  <2>6. HasTree(x) /\ x.tree = Stored(u.tree, slot, value)
    BY <2>5 DEF SoundTree, HasTree
  <2>7. /\ Found(u.tree, slot) # {} /\ Pick(u.tree, slot) = Pick(s.tree, slot)
        /\ u.tree.wits[Pick(u.tree, slot)].verified
    <3>1. /\ Found(u.tree, slot) = Found(s.tree, slot) /\ Found(s.tree, slot) # {}
          /\ u.tree.wits[Pick(s.tree, slot)].verified
      BY <1>2, <2>5, LoadedOk DEF SoundTree
    <3> QED BY <3>1 DEF Pick
  <2>8. SoundTree(x)  BY <2>5, <2>6, <2>7, StoredOk DEF SoundTree
  <2> HIDE DEF x
  <2> QED BY <2>4, <2>5, <2>8
<1> QED BY <1>1, <1>2

(* Whatever the opcode, an arm keeps the invariant of its tree.            *)
LEMMA ArmIsSound ==
    ASSUME PreOk, NEW s, SoundTree(s), NEW op, NEW pc
    PROVE  SoundTree(Arm(op, pc, s))
<1> DEFINE t(n) == Popped(s, n)
           v(n) == Words(s, n)
           under == Halt(s, "underflow")
<1>1. (\A n : SoundTree(t(n))) /\ SoundTree(under)
  BY PoppedKeeps, HaltKeeps, SameIsSound DEF SoundTree
<1>2. CASE op = 84
  <2>1. Arm(op, pc, s) = Machine(op, pc, s)  BY <1>2 DEF Arm
  <2>2. Machine(op, pc, s) = IF Len(s.stack) < 1 THEN under ELSE Sload(t(1), v(1)[1])
    BY <1>2 DEF Machine, Popping, Unless, Popped, Words
  <2> QED BY <1>1, <2>1, <2>2, SloadKeeps
<1>3. CASE op = 85
  <2>1. Arm(op, pc, s) = Machine(op, pc, s)  BY <1>3 DEF Arm
  <2>2. Machine(op, pc, s)
          = IF Len(s.stack) < 2 THEN under ELSE Sstore(t(2), v(2)[1], v(2)[2])
    BY <1>3 DEF Machine, Popping, Unless, Popped, Words
  <2> QED BY <1>1, <2>1, <2>2, SstoreKeeps
<1>4. CASE op # 84 /\ op # 85
  BY <1>4, ArmKeeps, SameIsSound DEF SoundTree
<1> QED BY <1>2, <1>3, <1>4

(* One instruction of the interpreter. *)
LEMMA SteppedIsSound ==
    ASSUME PreOk, SoundTree(m)
    PROVE  SoundTree(Stepped)
<1> DEFINE op == code[m.pc + 1]
           t == [m EXCEPT !.pc = @ + 1]
           s == Charge(t, StaticGas(op))
<1>1. SoundTree(Halt(m, "stop"))  BY HaltKeeps, SameIsSound DEF SoundTree
<1>2. SameTree(m, t)  BY DEF SameTree, SoundTree, HasTree
<1>3. SameTree(m, s)  BY <1>2, ChargeKeeps DEF SameTree
<1>4. Stepped = IF m.pc >= Len(code) THEN Halt(m, "stop")
                ELSE IF Ran(s) THEN Arm(op, m.pc, s) ELSE s
  BY DEF Stepped, Unless
<1> HIDE DEF op, t, s
<1> QED BY <1>1, <1>3, <1>4, SameIsSound, ArmIsSound

-----------------------------------------------------------------------------
(* The runtime of the translated code. *)

LEMMA WriteKeeps ==
    ASSUME NEW s, HasTree(s), NEW to, NEW w PROVE SameTree(s, Write(s, to, w))
BY DEF Write, SameTree, HasTree

LEMMA EvmHaltKeeps ==
    ASSUME NEW s, HasTree(s), NEW why PROVE SameTree(s, EvmHalt(s, why))
BY DEF EvmHalt, SameTree, HasTree

LEMMA EvmChargeKeeps ==
    ASSUME NEW s, HasTree(s), NEW g PROVE SameTree(s, EvmCharge(s, g))
BY EvmHaltKeeps DEF EvmCharge, SameTree, HasTree

LEMMA EvmMexpandKeeps ==
    ASSUME NEW s, HasTree(s), NEW off, NEW len PROVE SameTree(s, EvmMexpand(s, off, len))
<1> DEFINE t == EvmCharge(s, Expansion(off + len) - Expansion(s.msize))
           u == [t EXCEPT !.msize = off + len]
<1>1. SameTree(s, t)  BY EvmChargeKeeps
<1>2. SameTree(s, u)  BY <1>1 DEF SameTree, HasTree
<1>3. SameTree(s, EvmHalt(s, "outofbounds")) /\ SameTree(s, s)
  BY EvmHaltKeeps DEF SameTree
<1>4. EvmMexpand(s, off, len) \in {s, EvmHalt(s, "outofbounds"), IF Alive(t) THEN u ELSE t}
  BY DEF EvmMexpand, Then
<1> HIDE DEF t, u
<1> QED BY <1>1, <1>2, <1>3, <1>4

LEMMA CheckedLenKeeps ==
    ASSUME NEW s, HasTree(s), NEW len PROVE SameTree(s, CheckedLen(s, len))
BY EvmHaltKeeps DEF CheckedLen, SameTree

LEMMA EvmCopyKeeps ==
    ASSUME NEW s, HasTree(s), NEW from, NEW dst, NEW src, NEW len
    PROVE  SameTree(s, EvmCopy(s, from, dst, src, len))
<1> DEFINE word(k) == IF src + k < Len(from) THEN from[src + k + 1] ELSE 0
           t == CheckedLen(s, len)
           u == EvmCharge(t, 3 * len)
           x == EvmMexpand(u, dst, len)
           y == [x EXCEPT !.mem = [a \in DOMAIN @ |->
                  IF a - dst \in 0..(len - 1) THEN word(a - dst) ELSE @[a]]]
<1>1. SameTree(s, t)  BY CheckedLenKeeps
<1>2. SameTree(s, u)  BY <1>1, EvmChargeKeeps DEF SameTree
<1>3. SameTree(s, x)  BY <1>2, EvmMexpandKeeps DEF SameTree
<1> HIDE DEF t, u, x
<1>4. SameTree(s, y)  BY <1>3 DEF SameTree, HasTree
<1>5. EvmCopy(s, from, dst, src, len)
        = IF ~Alive(t) THEN t ELSE IF ~Alive(u) THEN u ELSE IF ~Alive(x) THEN x ELSE y
  BY DEF EvmCopy, Then, t, u, x
<1> HIDE DEF y
<1> QED BY <1>1, <1>2, <1>3, <1>4, <1>5

LEMMA EvmKeccakKeeps ==
    ASSUME NEW s, HasTree(s), NEW off, NEW len, NEW to
    PROVE  SameTree(s, EvmKeccak(s, off, len, to))
<1> DEFINE t == CheckedLen(s, len)
           u == EvmCharge(t, 30 + 6 * len)
           x == EvmMexpand(u, off, len)
           y == Write(x, to, Keccak(Region(x, off, len)))
<1>1. SameTree(s, t)  BY CheckedLenKeeps
<1>2. SameTree(s, u)  BY <1>1, EvmChargeKeeps DEF SameTree
<1>3. SameTree(s, x)  BY <1>2, EvmMexpandKeeps DEF SameTree
<1>4. SameTree(s, y)  BY <1>3, WriteKeeps DEF SameTree
<1>5. EvmKeccak(s, off, len, to)
        = IF ~Alive(t) THEN t ELSE IF ~Alive(u) THEN u ELSE IF ~Alive(x) THEN x ELSE y
  BY DEF EvmKeccak, Then
<1> HIDE DEF t, u, x, y
<1> QED BY <1>1, <1>2, <1>3, <1>4, <1>5

LEMMA EvmLogKeeps ==
    ASSUME NEW s, HasTree(s), NEW n, NEW off, NEW len, NEW topics
    PROVE  SameTree(s, EvmLog(s, n, off, len, topics))
<1> DEFINE t == EvmCharge(s, 375 + 375 * n)
           u == CheckedLen(t, len)
           x == EvmCharge(u, 8 * 32 * len)
           y == EvmMexpand(x, off, len)
           z == [y EXCEPT !.logs = Append(@, [i \in 1..n |-> Read(y, Arr(topics + n - i))])]
<1>1. SameTree(s, t)  BY EvmChargeKeeps
<1>2. SameTree(s, u)  BY <1>1, CheckedLenKeeps DEF SameTree
<1>3. SameTree(s, x)  BY <1>2, EvmChargeKeeps DEF SameTree
<1>4. SameTree(s, y)  BY <1>3, EvmMexpandKeeps DEF SameTree
<1> HIDE DEF t, u, x, y
<1>5. SameTree(s, z)  BY <1>4 DEF SameTree, HasTree
<1>6. EvmLog(s, n, off, len, topics)
        = IF ~Alive(t) THEN t ELSE IF ~Alive(u) THEN u ELSE IF ~Alive(x) THEN x
          ELSE IF ~Alive(y) THEN y
          ELSE IF Len(y.logs) = MaxLogs THEN EvmHalt(y, "outofbounds") ELSE z
  BY DEF EvmLog, Then, t, u, x, y
<1> HIDE DEF z
<1> QED BY <1>1, <1>2, <1>3, <1>4, <1>5, <1>6, EvmHaltKeeps DEF SameTree

LEMMA EvmReturnKeeps ==
    ASSUME NEW s, HasTree(s), NEW why, NEW off, NEW len
    PROVE  SameTree(s, EvmReturn(s, why, off, len))
<1> DEFINE t == CheckedLen(s, len)
           u == EvmMexpand(t, off, len)
           x == [u EXCEPT !.ret = Region(u, off, len)]
<1>1. SameTree(s, t)  BY CheckedLenKeeps
<1>2. SameTree(s, u)  BY <1>1, EvmMexpandKeeps DEF SameTree
<1>3. SameTree(s, x)  BY <1>2 DEF SameTree, HasTree
<1>4. EvmReturn(s, why, off, len)
        = IF ~Alive(t) THEN t ELSE IF len > MaxReturn THEN EvmHalt(t, "outofbounds")
          ELSE IF ~Alive(u) THEN u ELSE EvmHalt(x, why)
  BY DEF EvmReturn, Then
<1> HIDE DEF t, u, x
<1> QED BY <1>1, <1>2, <1>3, <1>4, EvmHaltKeeps DEF SameTree

(* evm_storage_load and evm_storage_store, of which the same holds.        *)
LEMMA EvmStorageLoadKeeps ==
    ASSUME PreOk, NEW s, SoundTree(s), NEW slot, NEW to
    PROVE  SoundTree(EvmStorageLoad(s, slot, to))
<1> DEFINE t == [s EXCEPT !.tree = Loaded(@, slot)]
<1>1. CASE Fault(s.tree, slot) # "none"
  BY <1>1, EvmHaltKeeps, SameIsSound DEF EvmStorageLoad, SoundTree
<1>2. CASE Fault(s.tree, slot) = "none"
  <2>1. HasTree(t) /\ t.tree = Loaded(s.tree, slot)  BY DEF SoundTree, HasTree
  <2>2. SoundTree(t)  BY <1>2, <2>1, LoadedOk DEF SoundTree
  <2>3. EvmStorageLoad(s, slot, to) = Write(t, to, Held(s.tree, slot))
    BY <1>2 DEF EvmStorageLoad
  <2> HIDE DEF t
  <2> QED BY <2>1, <2>2, <2>3, WriteKeeps, SameIsSound
<1> QED BY <1>1, <1>2

LEMMA EvmStorageStoreKeeps ==
    ASSUME PreOk, NEW s, SoundTree(s), NEW slot, NEW value
    PROVE  SoundTree(EvmStorageStore(s, slot, value))
<1>1. CASE Fault(s.tree, slot) # "none"
  BY <1>1, EvmHaltKeeps, SameIsSound DEF EvmStorageStore, SoundTree
<1>2. CASE Fault(s.tree, slot) = "none"
  <2> DEFINE t == [s EXCEPT !.tree = Loaded(@, slot)]
             u == EvmCharge(t, IF Held(s.tree, slot) = 0 /\ value # 0 THEN 20000 ELSE 2900)
             x == [u EXCEPT !.tree = Stored(@, slot, value)]
  <2>1. HasTree(t) /\ t.tree = Loaded(s.tree, slot)  BY DEF SoundTree, HasTree
  <2>2. SoundTree(t)  BY <1>2, <2>1, LoadedOk DEF SoundTree
  <2>3. SameTree(t, u)  BY <2>1, EvmChargeKeeps
  <2>4. EvmStorageStore(s, slot, value) = IF Alive(u) THEN x ELSE u
    BY <1>2 DEF EvmStorageStore, Then
  <2> HIDE DEF t, u
  <2>5. SoundTree(u) /\ u.tree = Loaded(s.tree, slot)
    BY <2>1, <2>2, <2>3, SameIsSound DEF SameTree
  <2>6. HasTree(x) /\ x.tree = Stored(u.tree, slot, value)
    BY <2>5 DEF SoundTree, HasTree
  <2>7. /\ Found(u.tree, slot) # {} /\ Pick(u.tree, slot) = Pick(s.tree, slot)
        /\ u.tree.wits[Pick(u.tree, slot)].verified
    <3>1. /\ Found(u.tree, slot) = Found(s.tree, slot) /\ Found(s.tree, slot) # {}
          /\ u.tree.wits[Pick(s.tree, slot)].verified
      BY <1>2, <2>5, LoadedOk DEF SoundTree
    <3> QED BY <3>1 DEF Pick
  <2>8. SoundTree(x)  BY <2>5, <2>6, <2>7, StoredOk DEF SoundTree
  <2> HIDE DEF x
  <2> QED BY <2>4, <2>5, <2>8
<1> QED BY <1>1, <1>2

(* Whatever the call the translator emits, the runtime keeps it too.       *)
LEMMA RtCallKeeps ==
    ASSUME PreOk, NEW s, SoundTree(s), NEW op, NEW a, NEW to
    PROVE  SoundTree(RtCall(s, op, a, to))
<1>1. \A w : SoundTree(Write(s, to, w))
  BY WriteKeeps, SameIsSound DEF SoundTree
<1>2. CASE op \in {1, 3, 8, 21, 27, 53}
  BY <1>1, <1>2 DEF RtCall, Then
<1>3. CASE op = 10
  <2> DEFINE t == EvmCharge(s, 10 + 50 * ByteLen(a[2]))
             u == Write(t, to, Power(a[1], a[2]))
  <2>1. RtCall(s, op, a, to) = IF Alive(t) THEN u ELSE t  BY <1>3 DEF RtCall, Then
  <2>2. SameTree(s, t)  BY EvmChargeKeeps DEF SoundTree
  <2>3. SameTree(s, u)  BY <2>2, WriteKeeps DEF SameTree
  <2> HIDE DEF t, u
  <2> QED BY <2>1, <2>2, <2>3, SameIsSound
<1>4. CASE op = 32
  <2>1. RtCall(s, op, a, to) = EvmKeccak(s, a[1], a[2], to)  BY <1>4 DEF RtCall, Then
  <2> QED BY <2>1, EvmKeccakKeeps, SameIsSound DEF SoundTree
<1>5. CASE op = 55
  <2>1. RtCall(s, op, a, to) = EvmCopy(s, Calldata, a[1], a[2], a[3])
    BY <1>5 DEF RtCall, Then
  <2> QED BY <2>1, EvmCopyKeeps, SameIsSound DEF SoundTree
<1>6. CASE op = 62
  <2>1. RtCall(s, op, a, to) = IF a[3] # 0 THEN EvmHalt(s, "trap") ELSE s
    BY <1>6 DEF RtCall, Then
  <2> QED BY <2>1, EvmHaltKeeps, SameIsSound DEF SoundTree
<1>7. CASE op = 81
  <2> DEFINE t == EvmMexpand(s, a[1], 1)
             u == Write(t, to, t.mem[a[1]])
  <2>1. RtCall(s, op, a, to) = IF Alive(t) THEN u ELSE t  BY <1>7 DEF RtCall, Then
  <2>2. SameTree(s, t)  BY EvmMexpandKeeps DEF SoundTree
  <2>3. SameTree(s, u)  BY <2>2, WriteKeeps DEF SameTree
  <2> HIDE DEF t, u
  <2> QED BY <2>1, <2>2, <2>3, SameIsSound
<1>8. CASE op \in {82, 83}
  <2> DEFINE t == EvmMexpand(s, a[1], 1)
             u == [t EXCEPT !.mem[a[1]] = a[2]]
             x == [t EXCEPT !.mem[a[1]] = a[2] % 256]
  <2>1. RtCall(s, op, a, to) = IF Alive(t) THEN IF op = 82 THEN u ELSE x ELSE t
    <3>1. CASE op = 82  BY <3>1 DEF RtCall, Then
    <3>2. CASE op = 83  BY <3>2 DEF RtCall, Then
    <3> QED BY <1>8, <3>1, <3>2
  <2>2. SameTree(s, t)  BY EvmMexpandKeeps DEF SoundTree
  <2> HIDE DEF t
  <2>3. SameTree(s, u) /\ SameTree(s, x)  BY <2>2 DEF SameTree, HasTree
  <2> HIDE DEF u, x
  <2> QED BY <2>1, <2>2, <2>3, SameIsSound
<1>9. CASE op = 84
  <2>1. RtCall(s, op, a, to) = EvmStorageLoad(s, a[1], to)  BY <1>9 DEF RtCall, Then
  <2> QED BY <2>1, EvmStorageLoadKeeps
<1>10. CASE op = 85
  <2>1. RtCall(s, op, a, to) = EvmStorageStore(s, a[1], a[2])  BY <1>10 DEF RtCall, Then
  <2> QED BY <2>1, EvmStorageStoreKeeps
<1>11. CASE op \notin {1, 3, 8, 10, 21, 27, 32, 53, 55, 62} /\ op \notin {81, 82, 83, 84, 85}
  <2>1. \A why : SoundTree(EvmReturn(s, why, a[1], a[2]))
    BY EvmReturnKeeps, SameIsSound DEF SoundTree
  <2>2. RtCall(s, op, a, to) \in {EvmReturn(s, "return", a[1], a[2]),
                                  EvmReturn(s, "revert", a[1], a[2])}
    BY <1>11 DEF RtCall, Then
  <2> QED BY <2>1, <2>2
<1> QED BY <1>2, <1>3, <1>4, <1>5, <1>6, <1>7, <1>8, <1>9, <1>10, <1>11

LEMMA DispatchKeeps ==
    ASSUME NEW s, HasTree(s), NEW dest
    PROVE  SameTree(s, Dispatch(s, dest)) /\ SameTree(s, Goto(s, dest))
BY EvmHaltKeeps DEF Dispatch, Goto, SameTree, HasTree

(* One statement of the emitted C. *)
LEMMA ExecKeeps ==
    ASSUME PreOk, NEW s, SoundTree(s), NEW st
    PROVE  SoundTree(Exec(s, st))
<1> DEFINE arg(k) == Taken(st.args[k].use, Read(s, st.args[k].val))
           args == [k \in DOMAIN st.args |-> arg(k)]
           moved == [s EXCEPT !.sp = @ + st.by]
           tested == [s EXCEPT !.c = Read(s, st.from) # 0]
<1>1. SoundTree(moved) /\ SoundTree(tested)
  BY SameIsSound DEF SoundTree, SameTree, HasTree
<1>2. \A to, w : SoundTree(Write(s, to, w))
  BY WriteKeeps, SameIsSound DEF SoundTree
<1>3. \A why : SoundTree(EvmHalt(s, why))
  BY EvmHaltKeeps, SameIsSound DEF SoundTree
<1>4. \A dest : SoundTree(Dispatch(s, dest)) /\ SoundTree(Goto(s, dest))
  BY DispatchKeeps, SameIsSound DEF SoundTree
<1>5. \A n, off, len, topics : SoundTree(EvmLog(s, n, off, len, topics))
  BY EvmLogKeeps, SameIsSound DEF SoundTree
<1>6. SoundTree(RtCall(s, st.op, args, st.to))  BY RtCallKeeps
<1> HIDE DEF args, moved, tested
<1>7. Exec(s, st) \in
        {s, Write(s, st.to, Read(s, st.from)), moved, RtCall(s, st.op, args, st.to),
         EvmLog(s, st.n, arg(1), arg(2), st.topics), Write(s, st.to, s.msize),
         Write(s, st.to, Len(Calldata)), Write(s, st.to, s.gas + st.after),
         EvmHalt(s, st.why), tested, Goto(s, st.to), Dispatch(s, Read(s, st.from))}
  BY DEF Exec, args, moved, tested
<1> QED BY <1>1, <1>2, <1>3, <1>4, <1>5, <1>6, <1>7

(* A list of statements is the one before its last, and then the last. *)
Runs(g, s, stmts, n) ==
  \A k \in 0..n : g[k] = IF k = 0 THEN s ELSE Exec(g[k - 1], stmts[k])

(* The recursion a list of statements runs by has a solution.              *)
LEMMA RunExists ==
    ASSUME NEW s, NEW stmts, NEW len \in Nat
    PROVE  \E g : FunctionOn(g, 0..len) /\ Runs(g, s, stmts, len)
<1> DEFINE T == {n \in Nat : \E g : FunctionOn(g, 0..n) /\ Runs(g, s, stmts, n)}
<1>1. 0 \in T
  <2> DEFINE g == [k \in 0..0 |-> s]
  <2>1. FunctionOn(g, 0..0) /\ Runs(g, s, stmts, 0)
    BY DEF FunctionOn, Runs
  <2> QED BY <2>1
<1>2. ASSUME NEW n \in Nat, n \in T PROVE n + 1 \in T
  <2>1. PICK g : FunctionOn(g, 0..n) /\ Runs(g, s, stmts, n)
    BY <1>2
  <2> DEFINE h == [k \in 0..(n + 1) |-> IF k \in 0..n THEN g[k] ELSE Exec(g[n], stmts[n + 1])]
  <2>2. FunctionOn(h, 0..(n + 1))  BY DEF FunctionOn
  <2>3. Runs(h, s, stmts, n + 1)
    <3> SUFFICES ASSUME NEW k \in 0..(n + 1)
                 PROVE  h[k] = IF k = 0 THEN s ELSE Exec(h[k - 1], stmts[k])
      BY DEF Runs
    <3>1. CASE k = 0  BY <2>1, <3>1 DEF Runs
    <3>2. CASE k \in 1..n
      <4>1. g[k] = Exec(g[k - 1], stmts[k])  BY <2>1, <3>2 DEF Runs
      <4>2. h[k] = g[k] /\ h[k - 1] = g[k - 1]  BY <3>2
      <4> QED BY <3>2, <4>1, <4>2
    <3>3. CASE k = n + 1
      <4>1. h[k] = Exec(g[n], stmts[n + 1]) /\ h[n] = g[n]  BY <3>3
      <4> QED BY <3>3, <4>1
    <3> QED BY <3>1, <3>2, <3>3
  <2> HIDE DEF h
  <2> QED BY <2>2, <2>3
<1>3. \A n \in Nat : n \in T
  <2> HIDE DEF T
  <2> QED BY <1>1, <1>2, NatSetInduction
<1> QED BY <1>3

LEMMA ExecutedKeeps ==
    ASSUME PreOk, NEW s, SoundTree(s), NEW stmts, Len(stmts) \in Nat
    PROVE  SoundTree(Executed(s, stmts))
<1> DEFINE len == Len(stmts)
           rec(g) == [k \in 0..len |-> IF k = 0 THEN s ELSE Exec(g[k - 1], stmts[k])]
           after == CHOOSE g : g = rec(g)
           T == {n \in Nat : n <= len => SoundTree(after[n])}
<1>1. PICK g : FunctionOn(g, 0..len) /\ Runs(g, s, stmts, len)
  BY RunExists
<1>2. g = rec(g)  BY <1>1 DEF FunctionOn, Runs
<1>3. after = rec(after)  BY <1>2
<1>4. Executed(s, stmts) = after[len]  BY DEF Executed
<1> HIDE DEF after
<1>5. 0 \in T  BY <1>3
<1>6. ASSUME NEW n \in Nat, n \in T PROVE n + 1 \in T
  <2> SUFFICES ASSUME n + 1 <= len PROVE SoundTree(after[n + 1])
    OBVIOUS
  <2>1. after[n + 1] = Exec(after[n], stmts[n + 1])
    <3>1. n + 1 \in 0..len /\ n + 1 # 0 /\ (n + 1) - 1 = n  OBVIOUS
    <3>2. after[n + 1] = rec(after)[n + 1]  BY <1>3
    <3> QED BY <3>1, <3>2
  <2> QED BY <1>6, <2>1, ExecKeeps
<1>7. \A n \in Nat : n \in T
  <2> HIDE DEF T
  <2> QED BY <1>5, <1>6, NatSetInduction
<1> QED BY <1>4, <1>7

-----------------------------------------------------------------------------
(* The lift: whatever is on the symbolic stack, what it emits is a list.   *)

List(s) == \E S : s \in Seq(S)

(* A list can be extended, joined and counted, whatever its members.       *)
LEMMA ListFacts ==
    ASSUME NEW s, List(s)
    PROVE  /\ Len(s) \in Nat
           /\ \A v : List(Append(s, v)) /\ Len(Append(s, v)) = Len(s) + 1
           /\ \A t : List(t) => List(s \o t)
           /\ DOMAIN s = 1..Len(s)
<1>1. PICK S : s \in Seq(S)  BY DEF List
<1>2. ASSUME NEW v PROVE List(Append(s, v)) /\ Len(Append(s, v)) = Len(s) + 1
  <2>1. s \in Seq(S \cup {v}) /\ v \in S \cup {v}  BY <1>1
  <2>2. Append(s, v) \in Seq(S \cup {v}) /\ Len(Append(s, v)) = Len(s) + 1  BY <2>1
  <2> QED BY <2>2 DEF List
<1>3. ASSUME NEW t, List(t) PROVE List(s \o t)
  <2>1. PICK R : t \in Seq(R)  BY <1>3 DEF List
  <2>2. s \in Seq(S \cup R) /\ t \in Seq(S \cup R)  BY <1>1, <2>1
  <2>3. s \o t \in Seq(S \cup R)  BY <2>2
  <2> QED BY <2>3 DEF List
<1> QED BY <1>1, <1>2, <1>3

LEMMA ListOf ==
    ASSUME NEW n \in Nat, NEW s, s = [k \in 1..n |-> s[k]]
    PROVE  List(s) /\ Len(s) = n
<1> DEFINE S == {s[k] : k \in 1..n}
<1>1. s \in [1..n -> S]  OBVIOUS
<1>2. s \in Seq(S) /\ Len(s) = n  BY <1>1
<1> QED BY <1>2 DEF List

LEMMA ListHead ==
    ASSUME NEW s, List(s), NEW n \in Int, n <= Len(s)
    PROVE  List(SubSeq(s, 1, n)) /\ Len(SubSeq(s, 1, n)) = IF n >= 0 THEN n ELSE 0
<1>1. PICK S : s \in Seq(S)  BY DEF List
<1>2. CASE n >= 1
  <2>1. SubSeq(s, 1, n) \in Seq(S) /\ Len(SubSeq(s, 1, n)) = n  BY <1>1, <1>2
  <2> QED BY <1>2, <2>1 DEF List
<1>3. CASE n < 1
  <2>1. SubSeq(s, 1, n) = << >>  BY <1>1, <1>3
  <2>2. << >> \in Seq({}) /\ Len(<< >>) = 0  OBVIOUS
  <2> QED BY <1>3, <2>1, <2>2 DEF List
<1> QED BY <1>2, <1>3

(* A symbolic stack that is a list, from a position below it, with a list  *)
(* of statements; nothing is said of what they are.                        *)
LiftOk(l) ==
  /\ {"lo", "stack", "refs", "busy", "code"} \subseteq DOMAIN l
  /\ l.lo \in Int /\ List(l.stack) /\ List(l.code)

\* As deep as l.
AsDeep(l, x) == LiftOk(x) /\ x.lo = l.lo /\ Len(x.stack) = Len(l.stack)

(* Each step of the lift keeps a symbolic stack and a list of statements.  *)
LEMMA EmitOk ==
    ASSUME NEW l, LiftOk(l), NEW st
    PROVE  AsDeep(l, Emit(l, st)) /\ AsDeep(l, Rested(l))
<1>1. List(Append(l.code, st))  BY ListFacts DEF LiftOk
<1>2. /\ Emit(l, st).code = Append(l.code, st) /\ Emit(l, st).stack = l.stack
      /\ Emit(l, st).lo = l.lo
      /\ DOMAIN Emit(l, st) = DOMAIN l
  BY DEF Emit, LiftOk
<1>3. /\ Rested(l).code = l.code /\ Rested(l).stack = l.stack /\ Rested(l).lo = l.lo
      /\ DOMAIN Rested(l) = DOMAIN l
  BY DEF Rested, LiftOk
<1> QED BY <1>1, <1>2, <1>3 DEF LiftOk, AsDeep

LEMMA ReferOk ==
    ASSUME NEW l, LiftOk(l), NEW v, NEW by
    PROVE  AsDeep(l, Refer(l, v, by)) /\ Refer(l, v, by).stack = l.stack
<1> DEFINE x == Refer(l, v, by)
<1>1. /\ x.code = l.code /\ x.stack = l.stack /\ x.lo = l.lo /\ DOMAIN x = DOMAIN l
  BY DEF Refer, LiftOk
<1> QED BY <1>1 DEF LiftOk, AsDeep

LEMMA SetValOk ==
    ASSUME NEW l, LiftOk(l), NEW p, NEW v
    PROVE  AsDeep(l, SetVal(l, p, v))
<1> DEFINE x == Refer(l, ValAt(l, p), -1)
           y == Refer(x, v, 1)
           stack == [y.stack EXCEPT ![p - l.lo + 1] = v]
           z == SetVal(l, p, v)
<1>1. AsDeep(l, x)  BY ReferOk
<1>2. AsDeep(l, y)  BY <1>1, ReferOk DEF AsDeep
<1>3. z = [y EXCEPT !.stack = stack]  BY DEF SetVal
<1> HIDE DEF x, y, z
<1>4. List(stack) /\ Len(stack) = Len(l.stack)
  <2>1. DOMAIN stack = 1..Len(l.stack)  BY <1>2, ListFacts DEF AsDeep, LiftOk
  <2>2. stack = [k \in 1..Len(l.stack) |-> stack[k]]  BY <2>1
  <2> HIDE DEF stack
  <2> QED BY <2>2, ListOf, ListFacts DEF LiftOk
<1> HIDE DEF stack
<1>5. z.stack = stack /\ z.lo = y.lo /\ z.code = y.code /\ DOMAIN z = DOMAIN y
  BY <1>2, <1>3 DEF AsDeep, LiftOk
<1> QED BY <1>2, <1>4, <1>5 DEF AsDeep, LiftOk, z

LEMMA PushValOk ==
    ASSUME NEW l, LiftOk(l), NEW v
    PROVE  /\ LiftOk(PushVal(l, v)) /\ PushVal(l, v).lo = l.lo
           /\ Len(PushVal(l, v).stack) = Len(l.stack) + 1
<1> DEFINE x == Refer(l, v, 1)
           z == PushVal(l, v)
<1>1. AsDeep(l, x) /\ x.stack = l.stack  BY ReferOk
<1>2. z = [x EXCEPT !.stack = Append(@, v)]  BY DEF PushVal
<1> HIDE DEF x, z
<1>3. /\ z.stack = Append(x.stack, v) /\ z.lo = x.lo /\ z.code = x.code
      /\ DOMAIN z = DOMAIN x
  BY <1>1, <1>2 DEF AsDeep, LiftOk
<1>4. List(z.stack) /\ Len(z.stack) = Len(l.stack) + 1
  BY <1>1, <1>3, ListFacts DEF LiftOk
<1> QED BY <1>1, <1>3, <1>4 DEF AsDeep, LiftOk, z

LEMMA PopValsOk ==
    ASSUME NEW l, LiftOk(l), NEW n \in Nat
    PROVE  /\ LiftOk(PopVals(l, n)) /\ PopVals(l, n).lo = l.lo
           /\ Len(PopVals(l, n).stack) = IF Len(l.stack) >= n THEN Len(l.stack) - n ELSE 0
<1> DEFINE z == PopVals(l, n)
<1>1. /\ z.stack = SubSeq(l.stack, 1, Len(l.stack) - n) /\ z.lo = l.lo /\ z.code = l.code
      /\ DOMAIN z = DOMAIN l
  BY DEF PopVals, LiftOk
<1>2. Len(l.stack) \in Nat  BY ListFacts DEF LiftOk
<1>3. /\ List(z.stack)
      /\ Len(z.stack) = IF Len(l.stack) >= n THEN Len(l.stack) - n ELSE 0
  BY <1>1, <1>2, ListHead DEF LiftOk
<1> HIDE DEF z
<1> QED BY <1>1, <1>3 DEF LiftOk, z

(* A parallel move: one more step of it.                                   *)
MoveStep(last) ==
  LET left == last.left
      reads(d) == {e \in DOMAIN left : left[e] = Arr(d)}
      ready == {d \in DOMAIN left : reads(d) = {}}
      d == Min(IF ready # {} THEN ready ELSE DOMAIN left)
      from == [e \in DOMAIN left |-> IF left[e] = Arr(d) THEN Temp ELSE left[e]]
  IN  [left |-> [e \in DOMAIN left \ {d} |-> from[e]],
       code |-> last.code
                  \o (IF ready # {} THEN <<>> ELSE <<Move(Temp, Arr(d))>>)
                  \o <<Move(Arr(d), from[d])>>]

LEMMA MoveStepOk ==
    ASSUME NEW last, List(last.code)
    PROVE  List(MoveStep(last).code)
<1> DEFINE left == last.left
           reads(d) == {e \in DOMAIN left : left[e] = Arr(d)}
           ready == {d \in DOMAIN left : reads(d) = {}}
           d == Min(IF ready # {} THEN ready ELSE DOMAIN left)
           from == [e \in DOMAIN left |-> IF left[e] = Arr(d) THEN Temp ELSE left[e]]
           first == IF ready # {} THEN <<>> ELSE <<Move(Temp, Arr(d))>>
           then == <<Move(Arr(d), from[d])>>
<1>1. MoveStep(last).code = last.code \o first \o then  BY DEF MoveStep
<1>2. List(<< >>) /\ \A v : List(<<v>>)
  <2>1. << >> \in Seq({})  OBVIOUS
  <2>2. ASSUME NEW v PROVE <<v>> \in Seq({v})  OBVIOUS
  <2> QED BY <2>1, <2>2 DEF List
<1>3. List(first) /\ List(then)  BY <1>2
<1> HIDE DEF first, then
<1>4. List(last.code \o first)  BY <1>3, ListFacts
<1> QED BY <1>1, <1>3, <1>4, ListFacts

Moving(g, pending, n) ==
  \A k \in 0..n : g[k] = IF k = 0 THEN [left |-> pending, code |-> <<>>] ELSE MoveStep(g[k - 1])

LEMMA MovingExists ==
    ASSUME NEW pending, NEW len \in Nat
    PROVE  \E g : FunctionOn(g, 0..len) /\ Moving(g, pending, len)
<1> DEFINE base == [left |-> pending, code |-> <<>>]
           T == {n \in Nat : \E g : FunctionOn(g, 0..n) /\ Moving(g, pending, n)}
<1>1. 0 \in T
  <2> DEFINE g == [k \in 0..0 |-> base]
  <2>1. FunctionOn(g, 0..0) /\ Moving(g, pending, 0)
    BY DEF FunctionOn, Moving
  <2> QED BY <2>1
<1>2. ASSUME NEW n \in Nat, n \in T PROVE n + 1 \in T
  <2>1. PICK g : FunctionOn(g, 0..n) /\ Moving(g, pending, n)
    BY <1>2
  <2> DEFINE h == [k \in 0..(n + 1) |-> IF k \in 0..n THEN g[k] ELSE MoveStep(g[n])]
  <2>2. FunctionOn(h, 0..(n + 1))  BY DEF FunctionOn
  <2>3. Moving(h, pending, n + 1)
    <3> SUFFICES ASSUME NEW k \in 0..(n + 1)
                 PROVE  h[k] = IF k = 0 THEN base ELSE MoveStep(h[k - 1])
      BY DEF Moving
    <3>1. CASE k = 0  BY <2>1, <3>1 DEF Moving
    <3>2. CASE k \in 1..n
      <4>1. g[k] = MoveStep(g[k - 1])  BY <2>1, <3>2 DEF Moving
      <4>2. h[k] = g[k] /\ h[k - 1] = g[k - 1]  BY <3>2
      <4> QED BY <3>2, <4>1, <4>2
    <3>3. CASE k = n + 1
      <4>1. h[k] = MoveStep(g[n]) /\ h[n] = g[n]  BY <3>3
      <4> QED BY <3>3, <4>1
    <3> QED BY <3>1, <3>2, <3>3
  <2> HIDE DEF h
  <2> QED BY <2>2, <2>3
<1>3. \A n \in Nat : n \in T
  <2> HIDE DEF T
  <2> QED BY <1>1, <1>2, NatSetInduction
<1> QED BY <1>3

LEMMA MovesOk ==
    ASSUME NEW pending, IsFiniteSet(DOMAIN pending)
    PROVE  List(Moves(pending))
<1> DEFINE len == Cardinality(DOMAIN pending)
           base == [left |-> pending, code |-> <<>>]
           rec(g) == [k \in 0..len |-> IF k = 0 THEN base ELSE MoveStep(g[k - 1])]
           step == CHOOSE g : g = rec(g)
           T == {n \in Nat : n <= len => List(step[n].code)}
<1>1. len \in Nat  BY FS_CardinalityType
<1>2. PICK g : FunctionOn(g, 0..len) /\ Moving(g, pending, len)
  BY <1>1, MovingExists
<1>3. g = rec(g)  BY <1>2 DEF FunctionOn, Moving
<1>4. step = rec(step)  BY <1>3
<1>5. Moves(pending) = step[len].code
  BY DEF Moves, MoveStep
<1> HIDE DEF step
<1>6. 0 \in T
  <2>1. step[0] = base  BY <1>1, <1>4
  <2>2. << >> \in Seq({})  OBVIOUS
  <2>3. List(step[0].code)  BY <2>1, <2>2 DEF List
  <2> QED BY <2>3
<1>7. ASSUME NEW n \in Nat, n \in T PROVE n + 1 \in T
  <2> SUFFICES ASSUME n + 1 <= len PROVE List(step[n + 1].code)
    OBVIOUS
  <2>1. step[n + 1] = MoveStep(step[n])
    <3>1. n + 1 \in 0..len /\ n + 1 # 0 /\ (n + 1) - 1 = n  BY <1>1
    <3>2. step[n + 1] = rec(step)[n + 1]  BY <1>4
    <3> QED BY <3>1, <3>2
  <2>2. List(step[n].code)  BY <1>1, <1>7
  <2> QED BY <2>1, <2>2, MoveStepOk
<1>8. \A n \in Nat : n \in T
  <2> HIDE DEF T
  <2> QED BY <1>6, <1>7, NatSetInduction
<1> QED BY <1>1, <1>5, <1>8

LEMMA SpilledOk ==
    ASSUME NEW l, LiftOk(l), NEW dirty, IsFiniteSet(dirty)
    PROVE  AsDeep(l, Spilled(l, dirty))
<1> DEFINE z == Spilled(l, dirty)
           moves == Moves([p \in dirty |-> ValAt(l, p)])
           stack == [n \in DOMAIN l.stack |->
                       IF l.lo + n - 1 \in dirty THEN Arr(l.lo + n - 1) ELSE l.stack[n]]
<1>1. List(moves)  BY MovesOk
<1>2. List(stack) /\ Len(stack) = Len(l.stack)
  <2>1. stack = [k \in 1..Len(l.stack) |-> stack[k]]  BY ListFacts DEF LiftOk
  <2> HIDE DEF stack
  <2> QED BY <2>1, ListOf, ListFacts DEF LiftOk
<1>3. z.stack = stack /\ z.code = l.code \o moves /\ z.lo = l.lo /\ DOMAIN z = DOMAIN l
  BY DEF Spilled, LiftOk
<1> HIDE DEF z, moves, stack
<1>4. List(z.code)  BY <1>1, <1>3, ListFacts DEF LiftOk
<1> QED BY <1>2, <1>3, <1>4 DEF LiftOk, AsDeep, z

LEMMA CopiedOk ==
    ASSUME NEW l, LiftOk(l), NEW p
    PROVE  AsDeep(l, Copied(l, p))
<1> DEFINE t == Free(l)
           x == Emit(l, Move(Local(t), ValAt(l, p)))
           y == [x EXCEPT !.busy = @ \cup {t}]
<1>1. AsDeep(l, x)  BY EmitOk
<1>2. Copied(l, p) = SetVal(y, p, Local(t))  BY DEF Copied
<1> HIDE DEF t, x
<1>3. AsDeep(l, y)  BY <1>1 DEF AsDeep, LiftOk
<1> HIDE DEF y
<1>4. AsDeep(y, SetVal(y, p, Local(t)))  BY <1>3, SetValOk DEF AsDeep
<1> QED BY <1>2, <1>3, <1>4 DEF AsDeep

LEMMA AsDeepTrans ==
    ASSUME NEW l, NEW x, NEW y, AsDeep(l, x), AsDeep(x, y)
    PROVE  AsDeep(l, y)
BY DEF AsDeep

LEMMA HeightIs ==
    ASSUME NEW l, LiftOk(l)
    PROVE  /\ Height(l) \in Int /\ Height(l) = l.lo + Len(l.stack)
           /\ \A x : AsDeep(l, x) => Height(x) = Height(l)
BY ListFacts DEF Height, LiftOk, AsDeep

\* Position p of l copied out of the way in x, where what is written needs it.
Guarded(l, k, x, p) ==
  IF ValAt(l, p) \in {Arr(q) : q \in Dirty(l, k)} THEN Copied(x, p) ELSE x
Guarding(g, l, k, n) ==
  \A j \in 0..n : g[j] = IF j = 0 THEN l ELSE Guarded(l, k, g[j - 1], k + j - 1)

(* The words above a spill, copied one by one.                             *)
LEMMA GuardingExists ==
    ASSUME NEW l, NEW d, NEW len \in Nat
    PROVE  \E g : FunctionOn(g, 0..len) /\ Guarding(g, l, d, len)
<1> DEFINE T == {n \in Nat : \E g : FunctionOn(g, 0..n) /\ Guarding(g, l, d, n)}
<1>1. 0 \in T
  <2> DEFINE g == [k \in 0..0 |-> l]
  <2>1. FunctionOn(g, 0..0) /\ Guarding(g, l, d, 0)
    BY DEF FunctionOn, Guarding
  <2> QED BY <2>1
<1>2. ASSUME NEW n \in Nat, n \in T PROVE n + 1 \in T
  <2>1. PICK g : FunctionOn(g, 0..n) /\ Guarding(g, l, d, n)
    BY <1>2
  <2> DEFINE h == [k \in 0..(n + 1) |-> IF k \in 0..n THEN g[k]
                                         ELSE Guarded(l, d, g[n], d + (n + 1) - 1)]
  <2>2. FunctionOn(h, 0..(n + 1))  BY DEF FunctionOn
  <2>3. Guarding(h, l, d, n + 1)
    <3> SUFFICES ASSUME NEW k \in 0..(n + 1)
                 PROVE  h[k] = IF k = 0 THEN l ELSE Guarded(l, d, h[k - 1], d + k - 1)
      BY DEF Guarding
    <3>1. CASE k = 0  BY <2>1, <3>1 DEF Guarding
    <3>2. CASE k \in 1..n
      <4>1. g[k] = Guarded(l, d, g[k - 1], d + k - 1)  BY <2>1, <3>2 DEF Guarding
      <4>2. h[k] = g[k] /\ h[k - 1] = g[k - 1]  BY <3>2
      <4> QED BY <3>2, <4>1, <4>2
    <3>3. CASE k = n + 1
      <4>1. h[k] = Guarded(l, d, g[n], d + (n + 1) - 1) /\ h[n] = g[n]  BY <3>3
      <4> QED BY <3>3, <4>1
    <3> QED BY <3>1, <3>2, <3>3
  <2> HIDE DEF h
  <2> QED BY <2>2, <2>3
<1>3. \A n \in Nat : n \in T
  <2> HIDE DEF T
  <2> QED BY <1>1, <1>2, NatSetInduction
<1> QED BY <1>3

LEMMA ProtectedOk ==
    ASSUME NEW l, LiftOk(l), NEW d, Height(l) - d \in Nat
    PROVE  AsDeep(l, Protected(l, d))
<1> DEFINE len == Height(l) - d
           rec(g) == [j \in 0..len |->
                        IF j = 0 THEN l ELSE Guarded(l, d, g[j - 1], d + j - 1)]
           upto == CHOOSE g : g = rec(g)
           T == {n \in Nat : n <= len => AsDeep(l, upto[n])}
<1>1. PICK g : FunctionOn(g, 0..len) /\ Guarding(g, l, d, len)
  BY GuardingExists
<1>2. g = rec(g)  BY <1>1 DEF FunctionOn, Guarding
<1>3. upto = rec(upto)  BY <1>2
<1>4. Protected(l, d) = upto[len]
  BY DEF Protected, Guarded
<1> HIDE DEF upto
<1>5. 0 \in T
  <2>1. upto[0] = l  BY <1>3
  <2>2. AsDeep(l, upto[0])  BY <2>1 DEF AsDeep
  <2> QED BY <2>2
<1>6. ASSUME NEW n \in Nat, n \in T PROVE n + 1 \in T
  <2> SUFFICES ASSUME n + 1 <= len PROVE AsDeep(l, upto[n + 1])
    OBVIOUS
  <2>1. upto[n + 1] = Guarded(l, d, upto[n], d + (n + 1) - 1)
    <3>1. n + 1 \in 0..len /\ n + 1 # 0 /\ (n + 1) - 1 = n  OBVIOUS
    <3>2. upto[n + 1] = rec(upto)[n + 1]  BY <1>3
    <3> QED BY <3>1, <3>2
  <2>2. AsDeep(l, upto[n])  BY <1>6
  <2>3. AsDeep(upto[n], Copied(upto[n], d + (n + 1) - 1))
    BY <2>2, CopiedOk DEF AsDeep
  <2> QED BY <2>1, <2>2, <2>3, AsDeepTrans DEF Guarded
<1>7. \A n \in Nat : n \in T
  <2> HIDE DEF T
  <2> QED BY <1>5, <1>6, NatSetInduction
<1> QED BY <1>4, <1>7

(* A spill keeps the height, so does leaving a block, and a call of the    *)
(* runtime leaves its operands for its result.                             *)
LEMMA FlushOk ==
    ASSUME NEW l, LiftOk(l), NEW d \in Int, Height(l) - d \in Nat
    PROVE  AsDeep(l, Flush(l, d))
<1> DEFINE x == Protected(l, d)
           y == Rested(x)
           dirty == Dirty(l, d)
<1>1. IsFiniteSet(dirty)
  <2>1. IsFiniteSet(l.lo..(d - 1))  BY FS_Interval DEF LiftOk
  <2> QED BY <2>1, FS_Subset DEF Dirty
<1>2. AsDeep(l, x)  BY ProtectedOk
<1>3. AsDeep(x, y)  BY <1>2, EmitOk DEF AsDeep
<1>4. AsDeep(y, Spilled(y, dirty))  BY <1>1, <1>3, SpilledOk DEF AsDeep
<1>5. Flush(l, d) = IF dirty = {} THEN l ELSE Spilled(y, dirty)  BY DEF Flush
<1> HIDE DEF x, y, dirty
<1> QED BY <1>2, <1>3, <1>4, <1>5 DEF AsDeep

LEMMA ExitOk ==
    ASSUME NEW l, LiftOk(l), NEW d \in Int, Height(l) - d \in Nat
    PROVE  AsDeep(l, Exit(l, d))
<1>1. AsDeep(l, Flush(l, d))  BY FlushOk
<1>2. \A st : AsDeep(Flush(l, d), Emit(Flush(l, d), st))  BY <1>1, EmitOk DEF AsDeep
<1> QED BY <1>1, <1>2, AsDeepTrans DEF Exit

LEMMA CallOk ==
    ASSUME NEW l, LiftOk(l), NEW op, Len(Uses(op)) \in Nat
    PROVE  LiftOk(Call(l, op))
<1> DEFINE n == Len(Uses(op))
           vals == [k \in 1..n |-> Top(l, k)]
           args == [k \in 1..n |-> [use |-> Uses(op)[k], val |-> vals[k]]]
           popped == [PopVals(l, n) EXCEPT !.busy = {vals[k][2] : k \in Locals(vals)}]
           d == Dst(popped, vals)
           st(to) == [kind |-> "call", op |-> op, to |-> to,
                      args |-> IF ValueFirst(op) THEN <<args[2], args[1]>> ELSE args]
<1>1. Call(l, op) = Rested(IF HasResult(op) THEN PushVal(Emit(popped, st(Local(d))), Local(d))
                           ELSE Emit(popped, st(Temp)))
  BY DEF Call
<1>2. LiftOk(popped)  BY PopValsOk DEF LiftOk
<1> HIDE DEF popped, d, st
<1>3. \A s : LiftOk(Emit(popped, s))  BY <1>2, EmitOk DEF AsDeep
<1>4. LiftOk(PushVal(Emit(popped, st(Local(d))), Local(d)))  BY <1>3, PushValOk
<1> QED BY <1>1, <1>3, <1>4, EmitOk DEF AsDeep

LEMMA UsesIs ==
    ASSUME NEW op, op \in {1, 3, 8, 10, 21, 27, 32} \/ op \in {53, 55, 62, 243, 253} \/ op \in 81..85
    PROVE  Len(Uses(op)) \in Nat
<1>1. CASE op \in {21, 84}
  <2>1. Uses(op) = <<"ptr">>  BY <1>1 DEF Uses
  <2> QED BY <2>1
<1>2. CASE op \in {1, 3, 10, 27, 85}
  <2>1. Uses(op) = <<"ptr", "ptr">>  BY <1>2 DEF Uses
  <2> QED BY <2>1
<1>3. CASE op = 8
  <2>1. Uses(op) = <<"ptr", "ptr", "ptr">>  BY <1>3 DEF Uses
  <2> QED BY <2>1
<1>4. CASE op \in {53, 81}
  <2>1. Uses(op) = <<"sat">>  BY <1>4 DEF Uses
  <2> QED BY <2>1
<1>5. CASE op \in {32, 243, 253}
  <2>1. Uses(op) = <<"sat", "sat">>  BY <1>5 DEF Uses
  <2> QED BY <2>1
<1>6. CASE op \in {55, 62}
  <2>1. Uses(op) = <<"sat", "sat", "sat">>  BY <1>6 DEF Uses
  <2> QED BY <2>1
<1>7. CASE op = 82
  <2>1. Uses(op) = <<"sat", "ptr">>  BY <1>7 DEF Uses
  <2> QED BY <2>1
<1>8. CASE op = 83
  <2>1. Uses(op) = <<"sat", "low">>  BY <1>8 DEF Uses
  <2> QED BY <2>1
<1> QED BY <1>1, <1>2, <1>3, <1>4, <1>5, <1>6, <1>7, <1>8

LEMMA PureOk ==
    ASSUME NEW l, LiftOk(l), NEW op, Len(Uses(op)) \in Nat
    PROVE  LiftOk(Pure(l, op))
<1> DEFINE n == Len(Uses(op))
           folded == Const(Fold(op, [k \in 1..n |-> Top(l, k)[2]]))
<1>1. LiftOk(PushVal(PopVals(l, n), folded))  BY PopValsOk, PushValOk
<1>2. LiftOk(Call(l, op))  BY CallOk
<1> QED BY <1>1, <1>2 DEF Pure

LEMMA FreshOk ==
    ASSUME NEW l, LiftOk(l), NEW st
    PROVE  LiftOk(Fresh(l, st))
<1>1. \A s : LiftOk(Emit(l, s))  BY EmitOk DEF AsDeep
<1> QED BY <1>1, PushValOk DEF Fresh

LEMMA SwappedOk ==
    ASSUME NEW l, LiftOk(l), NEW n
    PROVE  LiftOk(Swapped(l, n))
<1> DEFINE top == Len(l.stack)
           stack == [[l.stack EXCEPT ![top] = l.stack[top - n]] EXCEPT ![top - n] = l.stack[top]]
           z == Swapped(l, n)
<1>1. z.stack = stack /\ z.lo = l.lo /\ z.code = l.code /\ DOMAIN z = DOMAIN l
  BY DEF Swapped, LiftOk
<1>2. List(stack)
  <2>1. DOMAIN stack = 1..Len(l.stack)  BY ListFacts DEF LiftOk
  <2>2. stack = [k \in 1..Len(l.stack) |-> stack[k]]  BY <2>1
  <2> HIDE DEF stack
  <2> QED BY <2>2, ListOf, ListFacts DEF LiftOk
<1> HIDE DEF stack, z
<1> QED BY <1>1, <1>2 DEF LiftOk, z

LEMMA LogOpOk ==
    ASSUME NEW l, LiftOk(l), NEW n \in Nat
    PROVE  LiftOk(LogOp(l, n))
<1> DEFINE s == Flush(l, Height(l) - 2)
           arg(k) == [use |-> "sat", val |-> Top(s, k)]
           st == [kind |-> "log", n |-> n, args |-> <<arg(1), arg(2)>>, topics |-> Height(l) - 2 - n]
<1>1. LiftOk(s)  BY HeightIs, FlushOk DEF AsDeep
<1>2. LogOp(l, n) = Emit(PopVals(s, n + 2), st)  BY DEF LogOp
<1> HIDE DEF s, st
<1>3. LiftOk(PopVals(s, n + 2))  BY <1>1, PopValsOk
<1> QED BY <1>2, <1>3, EmitOk DEF AsDeep

LEMMA JumpOk ==
    ASSUME NEW l, LiftOk(l)
    PROVE  LiftOk(Jump(l))
<1> DEFINE dest == Top(l, 1)
           out == Exit(l, Height(l) - 1)
           st == IF dest[1] = "const" THEN [kind |-> "goto", to |-> dest[2]]
                 ELSE [kind |-> "dispatch", from |-> Top(out, 1)]
<1>1. LiftOk(out)  BY HeightIs, ExitOk DEF AsDeep
<1>2. Jump(l) = IF dest[1] = "const" /\ ~Target(dest) THEN Emit(PopVals(l, 1), BadJump)
                ELSE Emit(PopVals(out, 1), st)
  BY DEF Jump
<1> HIDE DEF dest, out, st
<1>3. LiftOk(PopVals(l, 1)) /\ LiftOk(PopVals(out, 1))  BY <1>1, PopValsOk
<1> QED BY <1>2, <1>3, EmitOk DEF AsDeep

LEMMA JumpIOk ==
    ASSUME NEW l, LiftOk(l)
    PROVE  LiftOk(JumpI(l))
<1> DEFINE tested == Emit(PopVals(l, 2), [kind |-> "test", from |-> Top(l, 2)])
           pushed == PushVal(tested, Top(l, 1))
           out == Exit(pushed, Height(l) - 2)
           dest == Top(out, 1)
           st == IF dest[1] # "const" THEN [kind |-> "ifdispatch", from |-> dest]
                 ELSE IF Target(dest) THEN [kind |-> "ifgoto", to |-> dest[2]]
                 ELSE [BadJump EXCEPT !.kind = "ifhalt"]
<1>1. LiftOk(PopVals(l, 2)) /\ PopVals(l, 2).lo = l.lo
      /\ Len(PopVals(l, 2).stack) = IF Len(l.stack) >= 2 THEN Len(l.stack) - 2 ELSE 0
  BY PopValsOk
<1>2. AsDeep(PopVals(l, 2), tested)  BY <1>1, EmitOk
<1>3. JumpI(l) = Emit(PopVals(out, 1), st)  BY DEF JumpI
<1> HIDE DEF tested, st
<1>4. LiftOk(pushed) /\ pushed.lo = l.lo
      /\ Len(pushed.stack) = (IF Len(l.stack) >= 2 THEN Len(l.stack) - 2 ELSE 0) + 1
  BY <1>1, <1>2, PushValOk DEF AsDeep
<1> HIDE DEF pushed
<1>5. Height(pushed) - (Height(l) - 2) \in Nat
  BY <1>4, HeightIs, ListFacts DEF LiftOk
<1>6. LiftOk(out)  BY <1>4, <1>5, HeightIs, ExitOk DEF AsDeep
<1> HIDE DEF out
<1>7. LiftOk(PopVals(out, 1))  BY <1>6, PopValsOk
<1> QED BY <1>3, <1>7, EmitOk DEF AsDeep

LEMMA LiftedOk ==
    ASSUME NEW l, LiftOk(l), NEW o, NEW op, o.op = op
    PROVE  LiftOk(Lifted(l, o))
<1>1. CASE op \in {1, 3, 8, 21, 27}
  <2>1. Lifted(l, o) = Pure(l, op)  BY <1>1 DEF Lifted
  <2> QED BY <1>1, <2>1, UsesIs, PureOk
<1>2. CASE op \in {10, 32, 53, 55, 62, 243, 253} \/ op \in 81..85
  <2>1. Lifted(l, o) = Call(l, op)  BY <1>2 DEF Lifted
  <2> QED BY <1>2, <2>1, UsesIs, CallOk
<1>3. CASE op \in {54, 89}
  <2>1. Lifted(l, o) = Fresh(l, [kind |-> "size", op |-> op])  BY <1>3 DEF Lifted
  <2> QED BY <1>3, <2>1, FreshOk
<1>4. CASE op = 90
  <2>1. Lifted(l, o) = Fresh(l, [kind |-> "gas", after |-> o.gasAfter])  BY <1>4 DEF Lifted
  <2> QED BY <2>1, FreshOk
<1>5. CASE op = 51
  <2>1. Lifted(l, o) = PushVal(l, Env(op))  BY <1>5 DEF Lifted
  <2> QED BY <2>1, PushValOk
<1>6. CASE op = 88
  <2>1. Lifted(l, o) = PushVal(l, Const(o.pc))  BY <1>6 DEF Lifted
  <2> QED BY <2>1, PushValOk
<1>7. CASE op = 61 \/ op \in 95..127
  <2>1. Lifted(l, o) = PushVal(l, Const(o.imm))  BY <1>7 DEF Lifted
  <2> QED BY <1>7, <2>1, PushValOk
<1>8. CASE op = 80
  <2>1. Lifted(l, o) = PopVals(l, 1)  BY <1>8 DEF Lifted
  <2> QED BY <2>1, PopValsOk
<1>9. CASE op = 86
  <2>1. Lifted(l, o) = Jump(l)  BY <1>9 DEF Lifted
  <2> QED BY <2>1, JumpOk
<1>10. CASE op = 87
  <2>1. Lifted(l, o) = JumpI(l)  BY <1>10 DEF Lifted
  <2> QED BY <2>1, JumpIOk
<1>11. CASE op = 91
  <2>1. Lifted(l, o) = l  BY <1>11 DEF Lifted
  <2> QED BY <2>1
<1>12. CASE op \in 128..143
  <2>1. Lifted(l, o) = PushVal(l, Top(l, op - 127))  BY <1>12 DEF Lifted
  <2> QED BY <1>12, <2>1, PushValOk
<1>13. CASE op \in 144..159
  <2>1. Lifted(l, o) = Swapped(l, op - 143)  BY <1>13 DEF Lifted
  <2> QED BY <1>13, <2>1, SwappedOk
<1>14. CASE op \in 160..164
  <2>1. Lifted(l, o) = LogOp(l, op - 160)  BY <1>14 DEF Lifted
  <2> QED BY <1>14, <2>1, LogOpOk
<1>15. CASE /\ op \notin {1, 3, 8, 10, 21, 27, 32} /\ op \notin {51, 53, 54, 55, 61, 62, 243, 253}
            /\ op \notin 80..91 /\ op \notin 95..164
  <2>1. \A why : LiftOk(Emit(l, [kind |-> "halt", why |-> why]))
    BY EmitOk DEF AsDeep
  <2>2. Lifted(l, o) \in {Emit(l, [kind |-> "halt", why |-> "stop"]),
                           Emit(l, [kind |-> "halt", why |-> "invalid"]),
                           Emit(l, [kind |-> "halt", why |-> "trap"])}
    BY <1>15 DEF Lifted
  <2> QED BY <2>1, <2>2
<1> QED
  BY <1>1, <1>2, <1>3, <1>4, <1>5, <1>6, <1>7, <1>8, <1>9, <1>10, <1>11, <1>12, <1>13, <1>14, <1>15

(* One op lifted: what it emits is a list of statements. *)
LEMMA LiftOpOk ==
    ASSUME NEW l, LiftOk(l), NEW o
    PROVE  LiftOk(LiftOp(l, o)) /\ LiftOk([l EXCEPT !.code = <<>>])
<1> DEFINE blank == [l EXCEPT !.code = <<>>]
           x == IF Live(blank) + OpRoom > MaxLocals THEN Flush(blank, Height(blank)) ELSE blank
<1>1. LiftOk(blank)
  <2>1. << >> \in Seq({})  OBVIOUS
  <2>2. List(<< >>)  BY <2>1 DEF List
  <2>3. /\ blank.code = << >> /\ blank.lo = l.lo /\ blank.stack = l.stack
        /\ DOMAIN blank = DOMAIN l
    BY DEF LiftOk
  <2> HIDE DEF blank
  <2> QED BY <2>2, <2>3 DEF LiftOk
<1>2. LiftOk(x)
  <2>1. LiftOk(Flush(blank, Height(blank)))  BY <1>1, HeightIs, FlushOk DEF AsDeep
  <2> QED BY <1>1, <2>1
<1>3. LiftOp(l, o) = Lifted(x, o)  BY DEF LiftOp
<1> HIDE DEF x
<1> QED BY <1>1, <1>2, <1>3, LiftedOk

-----------------------------------------------------------------------------
(* The blocks: the stack a block needs is a number of words.               *)

LEMMA StackEffectInt ==
    ASSUME NEW op
    PROVE  StackEffect(op)[1] \in Int /\ StackEffect(op)[2] \in Int
<1>1. CASE op \in {1, 3, 10, 27, 32, 8, 62}
  <2>1. StackEffect(op) \in {<<2, -1>>, <<3, -2>>, <<3, -3>>}  BY <1>1 DEF StackEffect
  <2> QED BY <2>1
<1>2. CASE op \in {21, 53, 81, 84, 55, 80, 86}
  <2>1. StackEffect(op) \in {<<1, 0>>, <<3, -3>>, <<1, -1>>}  BY <1>2 DEF StackEffect
  <2> QED BY <2>1
<1>9. CASE op \in {82, 83, 85, 87, 243, 253} \/ op \in {51, 54, 61, 88, 89, 90}
  <2>1. StackEffect(op) \in {<<2, -2>>, <<0, 1>>}  BY <1>9 DEF StackEffect
  <2> QED BY <2>1
<1>3. CASE op \in 95..127
  <2>1. StackEffect(op) = <<0, 1>>  BY <1>3 DEF StackEffect
  <2> QED BY <2>1
<1>4. CASE op \in 128..143
  <2>1. StackEffect(op) = <<op - 127, 1>>  BY <1>4 DEF StackEffect
  <2> QED BY <1>4, <2>1
<1>5. CASE op \in 144..159
  <2>1. StackEffect(op) = <<op - 143 + 1, 0>>  BY <1>5 DEF StackEffect
  <2> QED BY <1>5, <2>1
<1>6. CASE op \in 160..164
  <2>1. StackEffect(op) = <<2 + op - 160, -(2 + op - 160)>>  BY <1>6 DEF StackEffect
  <2> QED BY <1>6, <2>1
<1>7. CASE /\ op \notin {1, 3, 8, 10, 21, 27, 32} /\ op \notin {51, 53, 54, 55, 61, 62, 243, 253}
           /\ op \notin 80..90 /\ op \notin 95..164
  <2>1. StackEffect(op) = <<0, 0>>  BY <1>7 DEF StackEffect
  <2> QED BY <2>1
<1>8. CASE op = 91
  <2>1. StackEffect(op) = <<0, 0>>  BY <1>8 DEF StackEffect
  <2> QED BY <2>1
<1> QED BY <1>1, <1>2, <1>3, <1>4, <1>5, <1>6, <1>7, <1>8, <1>9

\* The running sums of some numbers.
Sums(g, f, n) == \A k \in 0..n : g[k] = IF k = 0 THEN 0 ELSE g[k - 1] + f[k]

(* A sum over the ops of a block is a number at each of them.              *)
LEMMA SumsExist ==
    ASSUME NEW f, NEW len \in Nat
    PROVE  \E g : FunctionOn(g, 0..len) /\ Sums(g, f, len)
<1> DEFINE T == {n \in Nat : \E g : FunctionOn(g, 0..n) /\ Sums(g, f, n)}
<1>1. 0 \in T
  <2> DEFINE g == [k \in 0..0 |-> 0]
  <2>1. FunctionOn(g, 0..0) /\ Sums(g, f, 0)
    BY DEF FunctionOn, Sums
  <2> QED BY <2>1
<1>2. ASSUME NEW n \in Nat, n \in T PROVE n + 1 \in T
  <2>1. PICK g : FunctionOn(g, 0..n) /\ Sums(g, f, n)
    BY <1>2
  <2> DEFINE h == [k \in 0..(n + 1) |-> IF k \in 0..n THEN g[k] ELSE g[n] + f[n + 1]]
  <2>2. FunctionOn(h, 0..(n + 1))  BY DEF FunctionOn
  <2>3. Sums(h, f, n + 1)
    <3> SUFFICES ASSUME NEW k \in 0..(n + 1)
                 PROVE  h[k] = IF k = 0 THEN 0 ELSE h[k - 1] + f[k]
      BY DEF Sums
    <3>1. CASE k = 0  BY <2>1, <3>1 DEF Sums
    <3>2. CASE k \in 1..n
      <4>1. g[k] = g[k - 1] + f[k]  BY <2>1, <3>2 DEF Sums
      <4>2. h[k] = g[k] /\ h[k - 1] = g[k - 1]  BY <3>2
      <4> QED BY <3>2, <4>1, <4>2
    <3>3. CASE k = n + 1
      <4>1. h[k] = g[n] + f[n + 1] /\ h[n] = g[n]  BY <3>3
      <4> QED BY <3>3, <4>1
    <3> QED BY <3>1, <3>2, <3>3
  <2> HIDE DEF h
  <2> QED BY <2>2, <2>3
<1>3. \A n \in Nat : n \in T
  <2> HIDE DEF T
  <2> QED BY <1>1, <1>2, NatSetInduction
<1> QED BY <1>3

LEMMA Depth0Int ==
    ASSUME NEW ops, Len(ops) \in Nat, NEW d \in 0..Len(ops)
    PROVE  Depth0(ops, d) \in Int
<1> DEFINE len == Len(ops)
           f == [k \in 1..len |-> StackEffect(ops[k].op)[2]]
           rec(g) == [j \in 0..len |->
                        IF j = 0 THEN 0 ELSE g[j - 1] + StackEffect(ops[j].op)[2]]
           sum == CHOOSE g : g = rec(g)
           T == {n \in Nat : n <= len => sum[n] \in Int}
<1>8. \A k \in 1..len : f[k] = StackEffect(ops[k].op)[2]  OBVIOUS
<1> HIDE DEF f
<1>1. PICK g : FunctionOn(g, 0..len) /\ Sums(g, f, len)  BY SumsExist
<1>2. g = rec(g)
  <2>1. ASSUME NEW j \in 0..len
        PROVE  g[j] = IF j = 0 THEN 0 ELSE g[j - 1] + StackEffect(ops[j].op)[2]
    <3>1. g[j] = IF j = 0 THEN 0 ELSE g[j - 1] + f[j]  BY <1>1 DEF Sums
    <3>2. j # 0 => f[j] = StackEffect(ops[j].op)[2]  BY <1>8
    <3> QED BY <3>1, <3>2
  <2> QED BY <1>1, <2>1 DEF FunctionOn
<1>3. sum = rec(sum)  BY <1>2
<1>4. Depth0(ops, d) = sum[d]  BY DEF Depth0, Upto
<1> HIDE DEF sum
<1>5. 0 \in T  BY <1>3
<1>6. ASSUME NEW n \in Nat, n \in T PROVE n + 1 \in T
  <2> SUFFICES ASSUME n + 1 <= len PROVE sum[n + 1] \in Int
    OBVIOUS
  <2>1. sum[n + 1] = sum[n] + StackEffect(ops[n + 1].op)[2]
    <3>1. n + 1 \in 0..len /\ n + 1 # 0 /\ (n + 1) - 1 = n  OBVIOUS
    <3>2. sum[n + 1] = rec(sum)[n + 1]  BY <1>3
    <3> QED BY <3>1, <3>2
  <2> QED BY <1>6, <2>1, StackEffectInt
<1>7. \A n \in Nat : n \in T
  <2> HIDE DEF T
  <2> QED BY <1>5, <1>6, NatSetInduction
<1> QED BY <1>4, <1>7

(* Of zero and finitely many numbers, the largest is a natural number. *)
LEMMA MaxWithZero ==
    ASSUME NEW n \in Nat, NEW f, \A k \in 1..n : f[k] \in Int
    PROVE  Max({0} \cup {f[k] : k \in 1..n}) \in Nat
<1> DEFINE S(i) == {0} \cup {f[k] : k \in 1..i}
           T == {i \in Nat : i <= n => \E x \in S(i) : \A y \in S(i) : x >= y}
<1>1. 0 \in T  OBVIOUS
<1>2. ASSUME NEW i \in Nat, i \in T PROVE i + 1 \in T
  <2> SUFFICES ASSUME i + 1 <= n PROVE \E x \in S(i + 1) : \A y \in S(i + 1) : x >= y
    OBVIOUS
  <2>1. PICK x \in S(i) : \A y \in S(i) : x >= y  BY <1>2
  <2>2. x \in Int /\ f[i + 1] \in Int  OBVIOUS
  <2>3. S(i + 1) = S(i) \cup {f[i + 1]}  OBVIOUS
  <2> HIDE DEF S
  <2> DEFINE z == IF f[i + 1] > x THEN f[i + 1] ELSE x
  <2>4. z \in S(i + 1)  BY <2>1, <2>3
  <2>5. \A y \in S(i + 1) : z >= y
    <3>1. \A y \in S(i) : y \in Int  BY DEF S
    <3> QED BY <2>1, <2>2, <2>3, <3>1
  <2> QED BY <2>4, <2>5
<1>3. \A i \in Nat : i \in T
  <2> HIDE DEF T
  <2> QED BY <1>1, <1>2, NatSetInduction
<1>4. PICK x \in S(n) : \A y \in S(n) : x >= y  BY <1>3
<1>5. 0 \in S(n) /\ \A y \in S(n) : y \in Int  OBVIOUS
<1> HIDE DEF S
<1>6. Max(S(n)) \in S(n) /\ Max(S(n)) >= 0  BY <1>4, <1>5 DEF Max
<1>7. Max(S(n)) \in Nat  BY <1>5, <1>6
<1> QED BY <1>7 DEF S

(* A block has a length, and needs a number of words at its entry.         *)
LEMMA BlockOk ==
    ASSUME Len(code) \in Nat, Len(code) # 0, NEW start
    PROVE  BlockAt(start).minDepth \in Nat
<1> DEFINE pc == Places(start)
           S == {k \in 1..Len(code) : Closes(Decode(pc[k])) \/ k = Len(code)}
           n == Min(S)
           ops == [k \in 1..n |-> Decode(pc[k])]
           need(k) == StackEffect(ops[k].op)[1] - Depth0(ops, k - 1)
           f == [k \in 1..n |-> need(k)]
<1>1. BlockAt(start).minDepth = Max({0} \cup {need(k) : k \in 1..n})  BY DEF BlockAt
<1>2. n \in 1..Len(code)
  <2> DEFINE T == {i \in Nat : (\E k \in S : k <= i) => \E x \in S : \A y \in S : x <= y}
  <2>1. \A y \in S : y \in Nat /\ y >= 1  OBVIOUS
  <2>2. Len(code) \in S  OBVIOUS
  <2>3. S \subseteq 1..Len(code)  OBVIOUS
  <2> HIDE DEF S
  <2>4. 0 \in T  BY <2>1
  <2>5. ASSUME NEW i \in Nat, i \in T PROVE i + 1 \in T
    <3> SUFFICES ASSUME NEW k \in S, k <= i + 1 PROVE \E x \in S : \A y \in S : x <= y
      OBVIOUS
    <3>1. CASE \E z \in S : z <= i  BY <2>5, <3>1
    <3>2. CASE ~(\E z \in S : z <= i)  BY <2>1, <3>2
    <3> QED BY <3>1, <3>2
  <2>6. \A i \in Nat : i \in T
    <3> HIDE DEF T
    <3> QED BY <2>4, <2>5, NatSetInduction
  <2>7. PICK x \in S : \A y \in S : x <= y  BY <2>2, <2>6
  <2>8. n \in S  BY <2>7 DEF Min
  <2> QED BY <2>3, <2>8
<1> HIDE DEF n, pc
<1>3. Len(ops) = n /\ Len(ops) \in Nat  BY <1>2
<1> HIDE DEF ops
<1>4. \A k \in 1..n : need(k) \in Int
  <2> SUFFICES ASSUME NEW k \in 1..n PROVE need(k) \in Int
    OBVIOUS
  <2>1. k - 1 \in 0..Len(ops)  BY <1>2, <1>3
  <2>2. Depth0(ops, k - 1) \in Int  BY <1>3, <2>1, Depth0Int
  <2> QED BY <2>2, StackEffectInt
<1> HIDE DEF need
<1>5. {need(k) : k \in 1..n} = {f[k] : k \in 1..n} /\ \A k \in 1..n : f[k] \in Int
  BY <1>4
<1> HIDE DEF f
<1>6. n \in Nat  BY <1>2
<1>7. Max({0} \cup {f[k] : k \in 1..n}) \in Nat  BY <1>5, <1>6, MaxWithZero
<1> QED BY <1>1, <1>5, <1>7

LEMMA NewLiftOk ==
    ASSUME NEW d \in Nat
    PROVE  LiftOk(NewLift(d))
<1> DEFINE z == NewLift(d)
           stack == [k \in 1..d |-> Arr(k - 1 - d)]
<1>1. /\ z.stack = stack /\ z.code = << >> /\ z.lo = -d
      /\ DOMAIN z = {"lo", "stack", "refs", "busy", "code"}
  BY DEF NewLift
<1>2. List(stack)
  <2>1. stack = [k \in 1..d |-> stack[k]]  OBVIOUS
  <2> HIDE DEF stack
  <2> QED BY <2>1, ListOf
<1>3. List(<< >>)
  <2>1. << >> \in Seq({})  OBVIOUS
  <2> QED BY <2>1 DEF List
<1> HIDE DEF z
<1> QED BY <1>1, <1>2, <1>3 DEF LiftOk, z

-----------------------------------------------------------------------------
(* A call: any code, any gas and any witnesses the guest decodes, of which *)
(* the run's are a few.                                                    *)

AnyInit ==
  /\ code \in Seq(Int) /\ jumpdests = ScanJumpdests(code)
  /\ \E ws : /\ List(ws) /\ Decodes(ws)
             /\ \A k \in DOMAIN ws : ws[k].slot \in 0..(W - 1)
             /\ pre = Decoded(Root(Before), ws)
  /\ InterpInit(gasLimit, pre) /\ TranslatedInit(gasLimit, pre)
AnyCall == AnyInit /\ [][Next]_vars

(* The inductive invariant: both storages are sound, and the lift is of    *)
(* lists, so that what it emits runs through to its end.                   *)
Sound ==
  /\ Len(code) \in Nat
  /\ PreOk
  /\ SoundTree(m)
  /\ SoundTree(c) /\ LiftOk(lift)

(* A call begins sound.                                                    *)
LEMMA InitIsSound ==
    ASSUME AnyInit PROVE Sound
<1>1. PICK ws : /\ List(ws) /\ Decodes(ws)
                /\ \A k \in DOMAIN ws : ws[k].slot \in 0..(W - 1)
                /\ pre = Decoded(Root(Before), ws)
  BY DEF AnyInit
<1>2. DOMAIN ws = 1..Len(ws) /\ Len(ws) \in Nat  BY <1>1, ListFacts
<1>3. /\ pre.root = Root(Before) /\ DOMAIN pre.wits = DOMAIN ws
      /\ \A k \in DOMAIN ws :
           pre.wits[k] = [slot |-> ws[k].slot, value |-> ws[k].value,
                          siblings |-> ws[k].siblings, verified |-> FALSE]
      /\ TreeShape(pre)
  BY <1>1 DEF Decoded, TreeShape
<1>4. ASSUME NEW k \in DOMAIN ws
      PROVE  /\ IsWitness(pre.wits[k]) /\ ~pre.wits[k].verified
             /\ pre.wits[k].slot = ws[k].slot
  <2> DEFINE w == pre.wits[k]
  <2>1. w = [slot |-> ws[k].slot, value |-> ws[k].value,
             siblings |-> ws[k].siblings, verified |-> FALSE]
    BY <1>3
  <2> HIDE DEF w
  <2>2. /\ w.slot = ws[k].slot /\ w.value = ws[k].value
        /\ w.siblings = ws[k].siblings /\ w.verified = FALSE
    BY <2>1
  <2>3. IsWitness(w)  BY <1>1, <2>1, <2>2 DEF IsWitness
  <2> QED BY <2>2, <2>3 DEF w
<1>5. Apart(pre.wits)  BY <1>1, <1>3, <1>4 DEF Apart, Decodes
<1>6. PreOk  BY <1>2, <1>3, <1>4, <1>5 DEF PreOk
<1>7. TreeOk(pre)  BY <1>3, <1>6, PreTreeOk
<1>8. HasTree(m) /\ m.tree = pre  BY DEF AnyInit, InterpInit, HasTree
<1>9. HasTree(c) /\ c.tree = pre  BY DEF AnyInit, TranslatedInit, HasTree
<1>10. LiftOk(lift)  BY NewLiftOk DEF AnyInit, TranslatedInit
<1>11. Len(code) \in Nat  BY DEF AnyInit
<1> QED BY <1>6, <1>7, <1>8, <1>9, <1>10, <1>11 DEF Sound, SoundTree

(* Each step of the translated code keeps its storage sound: entering a    *)
(* block, an op, and falling into the next block.                          *)
LEMMA HeadIsSound ==
    ASSUME Sound, BlockHead
    PROVE  SoundTree(c') /\ LiftOk(lift')
<1> DEFINE b == BlockAt(c.pc)
           s == [c EXCEPT !.base = c.sp]
<1>1. b.minDepth \in Nat  BY BlockOk DEF Sound, BlockHead
<1>2. c' = Entered(b) /\ lift' = NewLift(b.minDepth)  BY DEF BlockHead
<1> HIDE DEF b
<1>3. SoundTree(s)  BY SameIsSound DEF Sound, SameTree, SoundTree, HasTree
<1>4. \A why, g : SoundTree(EvmHalt(c, why)) /\ SoundTree(EvmCharge(s, g))
  BY <1>3, EvmHaltKeeps, EvmChargeKeeps, SameIsSound DEF Sound, SoundTree
<1>5. SoundTree(Entered(b))  BY <1>4 DEF Entered
<1> QED BY <1>1, <1>2, <1>5, NewLiftOk

LEMMA OpIsSound ==
    ASSUME Sound, Op
    PROVE  SoundTree(c') /\ LiftOk(lift')
<1> DEFINE s == [c EXCEPT !.pc = block.next]
<1>1. LiftOk(lift')  BY LiftOpOk DEF Op, Sound
<1>2. SoundTree(s)  BY SameIsSound DEF Sound, SameTree, SoundTree, HasTree
<1>3. c' = Executed(s, lift'.code)  BY DEF Op
<1> HIDE DEF s
<1>4. Len(lift'.code) \in Nat  BY <1>1, ListFacts DEF LiftOk
<1> QED BY <1>1, <1>2, <1>3, <1>4, ExecutedKeeps DEF Sound

LEMMA FallIsSound ==
    ASSUME Sound, Fall
    PROVE  SoundTree(c') /\ LiftOk(lift')
<1> DEFINE blank == [lift EXCEPT !.code = <<>>]
<1>1. LiftOk(blank) /\ Height(lift) = Height(blank)
  BY LiftOpOk DEF Sound, Height, LiftOk
<1>2. LiftOk(lift')
  <2>1. Height(blank) \in Int /\ Height(blank) - Height(blank) \in Nat  BY <1>1, HeightIs
  <2>2. LiftOk(Exit(blank, Height(blank)))  BY <1>1, <2>1, ExitOk DEF AsDeep
  <2> QED BY <1>1, <2>2 DEF Fall, Sound
<1>3. Len(lift'.code) \in Nat  BY <1>2, ListFacts DEF LiftOk
<1>4. SoundTree(Executed(c, lift'.code))  BY <1>3, ExecutedKeeps DEF Sound
<1> QED BY <1>2, <1>4 DEF Fall, Sound

(* Every step of the two runs keeps the invariant.                         *)
LEMMA NextIsSound ==
    ASSUME Sound, [Next]_vars
    PROVE  Sound'
<1>1. pre' = pre /\ code' = code
  BY DEF Next, vars
<1>2. PreOk' /\ (Len(code) \in Nat)'  BY <1>1 DEF Sound, PreOk
<1>4. SoundTree(m')
  <2>1. m' = Stepped \/ m' = m
    BY DEF Next, vars, Between, Both, InterpAlone, TranslatedAlone, InterpStep
  <2> QED BY <2>1, SteppedIsSound DEF Sound
<1>5. SoundTree(c') /\ LiftOk(lift')
  <2>1. CASE BlockHead  BY <2>1, HeadIsSound
  <2>2. CASE OffTheEnd
    <3>1. SoundTree(EvmHalt(c, "stop"))  BY EvmHaltKeeps, SameIsSound DEF Sound, SoundTree
    <3> QED BY <2>2, <3>1 DEF OffTheEnd, Sound
  <2>3. CASE Fall  BY <2>3, FallIsSound
  <2>4. CASE Op  BY <2>4, OpIsSound
  <2>5. CASE UNCHANGED translated  BY <2>5 DEF translated, Sound
  <2> QED BY <2>1, <2>2, <2>3, <2>4, <2>5
          DEF Next, vars, translated, Between, Both, InterpAlone, TranslatedAlone
<1>6. SoundTree(m)'  BY <1>1, <1>4 DEF SoundTree, TreeOk, TreeShape, WitnessOk
<1>7. SoundTree(c)'  BY <1>1, <1>5 DEF SoundTree, TreeOk, TreeShape, WitnessOk
<1> QED BY <1>2, <1>5, <1>6, <1>7 DEF Sound

(* Throughout any call, interpreted and translated, the root is that of    *)
(* the whole tree with the values stored so far, and a witness that was    *)
(* good stays good for its slot's value: no store leaves a stale sibling.  *)
THEOREM AnyCallKeepsTheTree == AnyCall => []RootIsOfValues
<1>1. AnyInit => Sound  BY InitIsSound
<1>2. Sound /\ [Next]_vars => Sound'  BY NextIsSound
<1>3. Sound => RootIsOfValues
  BY TreeOkIsOfValues DEF Sound, SoundTree, RootIsOfValues, TreeIsOfValues
<1> QED BY <1>1, <1>2, <1>3, PTL DEF AnyCall

-----------------------------------------------------------------------------
(* The calls of the run are such calls. *)

LEMMA ShufflesAreCode == Shuffles \subseteq Seq(Int)
<1> SUFFICES ASSUME NEW b \in [1..BodyLength -> StackOps], NEW e \in Ends
             PROVE  Shuffled(b, e) \in Seq(Int)
  BY DEF Shuffles
<1> DEFINE head(t) == <<\h60, 2, \h60, t, \h60, 1, \h60, t, \h33, \h5f, \h60, t, \h5b>>
           tail == <<e, \h5f, \h5f, \ha2, \h00>>
           last == <<\h5b, \h5f, \h5f, \ha3, \h5f, \h55>>
           upto(t) == head(t) \o b \o tail
<1>1. b \in Seq(Int) /\ e \in Int  BY BodyAssumption DEF StackOps, Ends
<1>2. \A t \in Int : head(t) \in Seq(Int)  OBVIOUS
<1>3. tail \in Seq(Int) /\ last \in Seq(Int)  BY <1>1
<1> HIDE DEF head, tail, last
<1>4. \A t \in Int : upto(t) \in Seq(Int)  BY <1>1, <1>2, <1>3
<1>5. Shuffled(b, e) = upto(Len(upto(0))) \o last  BY DEF Shuffled, head, tail, last
<1> HIDE DEF upto
<1> QED BY <1>3, <1>4, <1>5

LEMMA CasesAreCode ==
    ASSUME NEW x \in Cases
    PROVE  x[1] \in Seq(Int)
<1>1. Flow \subseteq Seq(Int)  BY DEF Flow
<1>2. Dense \subseteq Seq(Int)  BY DEF Dense
<1>3. Memory \subseteq Seq(Int)  BY DEF Memory
<1>4. Storing \subseteq Seq(Int)  BY DEF Storing
<1> HIDE DEF Flow, Dense, Memory, Storing
<1> QED BY <1>1, <1>2, <1>3, <1>4, ShufflesAreCode DEF Cases

LEMMA VectorsAreLists ==
    ASSUME NEW ws \in Vectors
    PROVE  List(ws) /\ \A k \in DOMAIN ws : ws[k].slot \in 0..(W - 1)
<1> DEFINE S == {Witness(slot, value) : slot \in 0..5, value \in Int}
<1>1. \A slot \in 0..3 : Honest(slot) \in S
  <2> SUFFICES ASSUME NEW slot \in 0..3 PROVE Values[slot + 1] \in Int
    BY DEF Honest
  <2> QED BY DEF Values
<1>2. Witness(5, 0) \in S /\ Witness(2, 6) \in S
  <2>1. 5 \in 0..5 /\ 2 \in 0..5 /\ 0 \in Int /\ 6 \in Int  OBVIOUS
  <2> QED BY <2>1
<1>3. \A w \in S : w.slot \in 0..5
  <2> SUFFICES ASSUME NEW slot \in 0..5, NEW value \in Int PROVE Witness(slot, value).slot \in 0..5
    OBVIOUS
  <2> QED BY DEF Witness
<1> HIDE DEF S
<1>4. ws \in Seq(S)
  <2>1. \A x, y, z \in S : <<x, y, z>> \in Seq(S) /\ <<x, y>> \in Seq(S)  OBVIOUS
  <2>2. {Honest(0), Honest(1), Honest(2)} \subseteq S  BY <1>1
  <2> QED BY <1>2, <2>1, <2>2 DEF Vectors, Ample
<1>5. \A k \in DOMAIN ws : ws[k] \in S  BY <1>4
<1> QED BY <1>3, <1>4, <1>5, WordSizes DEF List

(* So does every run that is checked. *)
THEOREM RunsKeepTheTree == Spec => []RootIsOfValues
<1>1. Init => AnyInit
  BY CasesAreCode, VectorsAreLists DEF Init, AnyInit
<1>2. Spec => AnyCall
  BY <1>1, PTL DEF Spec, AnyCall
<1> QED BY <1>2, AnyCallKeepsTheTree, PTL
=============================================================================
