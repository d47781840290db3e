---------------------------- MODULE EvmStorage ----------------------------
(***************************************************************************)
(* The contract's storage as the guest holds it (evm-core's storage.rs): a *)
(* root and the witnesses of the slots the call touches, each a value and  *)
(* the siblings of its path.  A witness is verified against the root when  *)
(* it is first used, and a store refreshes the siblings of the others.     *)
(***************************************************************************)
EXTENDS Integers, Sequences, FiniteSetsExt, TLC

CONSTANTS Depth,          \* DEPTH
          MaxWitnesses,   \* MAX_WITNESSES
          SlotIndex(_)    \* the leaf of a slot: the bits of the head of its hash
ASSUME DepthAssumption == Depth \in Nat \ {0} /\ MaxWitnesses \in Nat

\* A leaf is a number in the code; here, its bits, one for each level.
Level == 0..(Depth - 1)
Leaf == [Level -> {0, 1}]

LeafHash(slot, value) == IF value = 0 THEN <<"leaf", 0, 0>> ELSE <<"leaf", slot, value>>
NodeHash(l, r) == <<"node", l, r>>
Joined(bit, cur, sib) == IF bit = 0 THEN NodeHash(cur, sib) ELSE NodeHash(sib, cur)

\* The node at level l of the path up from leaf i, hash, through the siblings.
Up(hash, i, siblings, l) ==
  LET node[k \in 0..Depth] ==
        IF k = 0 THEN hash ELSE Joined(i[k - 1], node[k - 1], siblings[k - 1])
  IN  node[l]

Index(tree, k) == SlotIndex(tree.wits[k].slot)

\* decode_input takes a vector of witnesses, none verified, no two at one leaf.
Decodes(ws) ==
  /\ Len(ws) <= MaxWitnesses
  /\ \A j, k \in DOMAIN ws : SlotIndex(ws[j].slot) = SlotIndex(ws[k].slot) => j = k
Decoded(root, ws) ==
  [root |-> root,
   wits |-> [k \in DOMAIN ws |->
              [slot |-> ws[k].slot, value |-> ws[k].value,
               siblings |-> ws[k].siblings, verified |-> FALSE]]]

Found(tree, slot) == {k \in DOMAIN tree.wits : tree.wits[k].slot = slot}
Verifies(tree, k) ==
  LET w == tree.wits[k]
  IN  w.verified
        \/ Up(LeafHash(w.slot, w.value), Index(tree, k), w.siblings, Depth) = tree.root

\* What a load or a store of the slot meets first.
Fault(tree, slot) ==
  CASE Found(tree, slot) = {} -> "nowitness"
    [] Found(tree, slot) # {} /\ ~Verifies(tree, Min(Found(tree, slot))) -> "badwitness"
    [] OTHER -> "none"

Held(tree, slot) == tree.wits[Min(Found(tree, slot))].value
Loaded(tree, slot) == [tree EXCEPT !.wits[Min(Found(tree, slot))].verified = TRUE]

\* Another witness whose path leaves this one's at level l has its node there.
Diverges(i, j, l) ==
  /\ \A k \in (l + 1)..(Depth - 1) : i[k] = j[k]
  /\ i[l] # j[l]

\* Mutation: the other witnesses keep the siblings they came with.
Stored_Stale(tree, slot, value) ==
  LET k == Min(Found(tree, slot))
  IN  [root |-> Up(LeafHash(slot, value), Index(tree, k), tree.wits[k].siblings, Depth),
       wits |-> [tree.wits EXCEPT ![k].value = value, ![k].verified = TRUE]]

Stored(tree, slot, value) ==
  LET k == Min(Found(tree, slot))
      i == Index(tree, k)
      node(l) == Up(LeafHash(slot, value), i, tree.wits[k].siblings, l)
      refreshed(j) ==
        [l \in Level |-> IF j # k /\ Diverges(i, Index(tree, j), l)
                         THEN node(l) ELSE tree.wits[j].siblings[l]]
  IN  [root |-> node(Depth),
       wits |-> [j \in DOMAIN tree.wits |->
                  [slot |-> tree.wits[j].slot,
                   value |-> IF j = k THEN value ELSE tree.wits[j].value,
                   siblings |-> refreshed(j),
                   verified |-> tree.wits[j].verified \/ j = k]]]
=============================================================================
