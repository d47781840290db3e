--------------------------- MODULE ZcashPool ----------------------------
(***************************************************************************)
(* The walkthrough ledger of zkp4: transparent balances, one shielded pool *)
(* (zkp4/src/ledger.rs) and the transfer circuit that guards it            *)
(* (zkp4/src/circuit.rs).                                                  *)
(*                                                                         *)
(* Hashes are free constructors, a root is the number of leaves under it, *)
(* a party's spending key and public key are the Party, and a note's r,    *)
(* which only blinds, is left out.  The program stops where it panics:     *)
(* inserting into a full tree, with what the call had done by then kept.   *)
(***************************************************************************)
EXTENDS Integers, FiniteSets, Sequences, SequencesExt

CONSTANTS
    Party, Rho,
    Holder,             \* the transparent accounts, the unnamed one included
    U64,                \* 2^VALUE_BITS
    Field,              \* the circuit's modulus
    TreeCapacity,       \* 2^TREE_DEPTH
    MaxMint,            \* bound on the money minted
    OutValues           \* what a prover tries as an output's value

ShieldedNote == [value : 0 .. Field - 1, pk : Party, rho : Rho]
Nullifier == [sk : Party, rho : Rho]

ASSUME ZcashAssumption ==
    /\ IsFiniteSet(Holder) /\ U64 \in Nat \ {0} /\ Field \in Nat /\ Field > 3 * U64
    /\ TreeCapacity \in Nat /\ MaxMint \in 0 .. U64 - 1
    /\ OutValues \subseteq 0 .. Field - 1

VARIABLES
    transparent, shielded,
    tree, origins,      \* the tree, and where each leaf came from
    anchors, nullifiers,
    minted,             \* how much there is in all
    halted              \* whether the program has panicked

ledgerVars == <<transparent, shielded, tree, origins, anchors, nullifiers>>
poolVars == <<ledgerVars, minted, halted>>

NullifierOf(n) == [sk |-> n.pk, rho |-> n.rho]

Room == TreeCapacity - Len(tree)

-----------------------------------------------------------------------------
(* The transfer circuit: the witnesses it is satisfied by. *)

(* Mutation: the outputs' values are not decomposed into bits. *)
EnforceU64_None(v) == TRUE

EnforceU64(v) == v < U64

(* Membership under the root, ownership, ranges, and conservation in the   *)
(* field.  The input's value and v_pub have no range check of their own.   *)
Satisfied(self, spent, root, outs, vPub) ==
    /\ \E i \in 1 .. root : tree[i] = [spent EXCEPT !.pk = self]
    /\ \A o \in ToSet(outs) : EnforceU64(o.value)
    /\ (outs[1].value + outs[2].value + vPub) % Field = spent.value

Publics(self, spent, root, outs, vPub) ==
    [root |-> root, nullifier |-> [sk |-> self, rho |-> spent.rho],
     cmOut |-> outs, vPub |-> vPub]

-----------------------------------------------------------------------------
(* The ledger. *)

PoolInit ==
    /\ transparent = [a \in Holder |-> 0] /\ shielded = 0
    /\ tree = <<>> /\ origins = <<>> /\ anchors = {0} /\ nullifiers = {}
    /\ minted = 0 /\ halted = FALSE

Mint(who, amount) ==
    /\ minted + amount <= MaxMint
    /\ transparent' = [transparent EXCEPT ![who] = @ + amount]
    /\ minted' = minted + amount
    /\ UNCHANGED <<shielded, tree, origins, anchors, nullifiers, halted>>

CanShield(from, note) == note.value < U64 /\ transparent[from] >= note.value

(* Into a full tree: the value has moved when the insertion panics. *)
Shield(from, note) ==
    /\ CanShield(from, note)
    /\ transparent' = [transparent EXCEPT ![from] = @ - note.value]
    /\ shielded' = shielded + note.value
    /\ IF Room > 0
       THEN /\ tree' = Append(tree, note)
            /\ origins' = Append(origins, [from |-> from, value |-> note.value])
            /\ anchors' = anchors \cup {Len(tree')}
            /\ UNCHANGED halted
       ELSE halted' = TRUE /\ UNCHANGED <<tree, origins, anchors>>
    /\ UNCHANGED <<nullifiers, minted>>

(* Mutation: the nullifier is not looked up. *)
Applicable_Again(proof, tx) == tx.root \in anchors /\ proof = tx

(* A proof verifies for exactly the public inputs it was made for. *)
Applicable(proof, tx) ==
    /\ tx.root \in anchors
    /\ tx.nullifier \notin nullifiers
    /\ proof = tx

(* Mutation: the payout is not taken out of the pool. *)
PayOut_Twice(vPub, to) ==
    /\ transparent' = [transparent EXCEPT ![to] = @ + vPub]
    /\ UNCHANGED shielded

PayOut(vPub, to) ==
    /\ shielded' = shielded - vPub
    /\ transparent' = [transparent EXCEPT ![to] = @ + vPub]

(* With room for one leaf or none, one of the two insertions panics, after *)
(* the nullifier was recorded and before the payout.  The account paid is  *)
(* a field of the submission, not a public input of the proof.             *)
Apply(proof, tx, to) ==
    /\ Applicable(proof, tx)
    /\ nullifiers' = nullifiers \cup {tx.nullifier}
    /\ tree' = tree \o SubSeq(tx.cmOut, 1, Min({2, Room}))
    /\ IF Room >= 2
       THEN /\ origins' = origins \o [i \in 1 .. 2 |-> [nullifier |-> tx.nullifier, which |-> i]]
            /\ anchors' = anchors \cup {Len(tree')}
            /\ PayOut(tx.vPub, to)
            /\ UNCHANGED halted
       ELSE halted' = TRUE /\ UNCHANGED <<origins, anchors, transparent, shielded>>
    /\ UNCHANGED minted

PoolNext ==
    /\ ~halted
    /\ \/ \E who \in Holder, amount \in 1 .. MaxMint : Mint(who, amount)
       \/ \E from \in Holder, note \in ShieldedNote : Shield(from, note)
       \/ \E self \in Party, spent \in ToSet(tree), root \in 0 .. Len(tree) :
              \E outs \in [1 .. 2 -> [value : OutValues, pk : Party, rho : Rho]],
                 vPub, claimed \in 0 .. U64 - 1, to \in Holder :
                  /\ Satisfied(self, spent, root, outs, vPub)
                  /\ LET proof == Publics(self, spent, root, outs, vPub)
                     IN  Apply(proof, [proof EXCEPT !.vPub = claimed], to)

PoolSpec == PoolInit /\ [][PoolNext]_poolVars

-----------------------------------------------------------------------------

(* What is minted is in the accounts and the pool, after a panic as well.  *)
ValueConserved == SumFunction(transparent) + shielded = minted

Unspent == {i \in DOMAIN tree : NullifierOf(tree[i]) \notin nullifiers}
UnspentValue == SumFunction([i \in Unspent |-> tree[i].value])

DistinctNullifiers ==
    \A i, j \in DOMAIN tree : NullifierOf(tree[i]) = NullifierOf(tree[j]) => i = j

(* The pool covers the notes that can still be spent, so the unchecked     *)
(* subtraction of apply never goes below zero; exactly, as long as no two  *)
(* notes share a nullifier and no insertion has panicked.                  *)
PoolBacksNotes ==
    /\ shielded >= UnspentValue
    /\ DistinctNullifiers /\ ~halted => shielded = UnspentValue

=========================================================================
