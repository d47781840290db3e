---------------------- MODULE ShieldedPool_proofs ----------------------
(***************************************************************************)
(* Proofs about ShieldedPool, for every value of its constants: types, the *)
(* tree, what honest spenders submit, spends, the window of roots, and     *)
(* value.                                                                  *)
(***************************************************************************)
EXTENDS ShieldedPool, SequenceTheorems, SumTheorems, TLAPS

-----------------------------------------------------------------------------
(* Sequences. *)

(* The elements of a sequence after one element is pushed. *)
LEMMA ToSetAppend ==
    ASSUME NEW S, NEW s \in Seq(S), NEW x \in S
    PROVE  /\ Append(s, x) \in Seq(S)
           /\ Len(Append(s, x)) = Len(s) + 1
           /\ Append(s, x)[Len(s) + 1] = x
           /\ \A i \in 1 .. Len(s) : Append(s, x)[i] = s[i]
           /\ ToSet(Append(s, x)) = ToSet(s) \cup {x}
<1>1. /\ Append(s, x) \in Seq(S) /\ Len(Append(s, x)) = Len(s) + 1
      /\ Append(s, x)[Len(s) + 1] = x
      /\ \A i \in 1 .. Len(s) : Append(s, x)[i] = s[i]
  OBVIOUS
<1>2. DOMAIN s = 1 .. Len(s) /\ DOMAIN Append(s, x) = 1 .. (Len(s) + 1) /\ Len(s) \in Nat
  BY <1>1
<1>3. ASSUME NEW y \in ToSet(Append(s, x)) PROVE y \in ToSet(s) \cup {x}
  BY <1>1, <1>2, <1>3 DEF ToSet
<1>4. ASSUME NEW y \in ToSet(s) PROVE y \in ToSet(Append(s, x))
  <2>1. PICK i \in 1 .. Len(s) : y = s[i]  BY <1>2, <1>4 DEF ToSet
  <2>2. i \in DOMAIN Append(s, x) /\ Append(s, x)[i] = y  BY <1>1, <1>2, <2>1
  <2> QED BY <2>2 DEF ToSet
<1>5. x \in ToSet(Append(s, x))
  BY <1>1, <1>2 DEF ToSet
<1> QED BY <1>1, <1>3, <1>4, <1>5

(* Membership in ToSet, by index. *)
LEMMA ToSetIndex ==
    ASSUME NEW S, NEW s \in Seq(S)
    PROVE  /\ ToSet(s) \subseteq S
           /\ \A x : x \in ToSet(s) <=> \E i \in 1 .. Len(s) : s[i] = x
BY DEF ToSet

(* Pushing a fresh element keeps a sequence without repetitions. *)
LEMMA FreshAppend ==
    ASSUME NEW S, NEW s \in Seq(S), NEW x \in S, IsInjective(s), x \notin ToSet(s)
    PROVE  IsInjective(Append(s, x))
<1>1. \A i \in 1 .. Len(s) : s[i] # x  BY ToSetIndex
<1>2. Len(s) \in Nat  OBVIOUS
<1>3. DOMAIN s = 1 .. Len(s)  OBVIOUS
<1> QED BY <1>1, <1>2, <1>3 DEF IsInjective

(* record_root keeps the window a sequence of roots; it adds the new root  *)
(* and no other.                                                           *)
LEMMA RecordRootWindow ==
    ASSUME NEW roots \in Seq(Nat), NEW root \in Nat
    PROVE  /\ RecordRoot(roots, root) \in Seq(Nat)
           /\ ToSet(RecordRoot(roots, root)) \subseteq ToSet(roots) \cup {root}
<1> DEFINE all == Append(roots, root)
           first == Len(all) - AnchorWindow + 1
<1>1. all \in Seq(Nat) /\ ToSet(all) = ToSet(roots) \cup {root} /\ Len(all) \in Nat
  BY ToSetAppend
<1>2. CASE Len(all) > AnchorWindow
  <2>1. AnchorWindow \in Nat \ {0}  BY PoolAssumption
  <2>2. first \in Int /\ first >= 1 /\ Len(all) \in Int  BY <1>1, <1>2, <2>1
  <2>3. \A i \in first .. Len(all) : all[i] \in Nat /\ all[i] \in ToSet(all)
    <3> TAKE i \in first .. Len(all)
    <3>1. i \in 1 .. Len(all)  BY <2>2
    <3> QED BY <1>1, <3>1, ElementOfSeq, ToSetIndex
  <2> HIDE DEF all, first
  <2>4. \A i \in first .. Len(all) : all[i] \in ToSet(all)  BY <2>3
  <2>5. SubSeq(all, first, Len(all)) \in Seq(ToSet(all))
    BY <2>2, <2>4, SubSeqProperties
  <2>6. SubSeq(all, first, Len(all)) \in Seq(Nat)
    BY <2>2, <2>3, SubSeqProperties
  <2>7. ToSet(SubSeq(all, first, Len(all))) \subseteq ToSet(all)
    BY <2>5, ToSetIndex
  <2>8. RecordRoot(roots, root) = SubSeq(all, first, Len(all))
    BY <1>2 DEF RecordRoot, all, first
  <2> QED BY <1>1, <2>6, <2>7, <2>8
<1>3. CASE ~(Len(all) > AnchorWindow)
  BY <1>1, <1>3 DEF RecordRoot
<1> QED BY <1>2, <1>3

-----------------------------------------------------------------------------
(* What an admission is, once the guest's run and the ledger's checks are  *)
(* put together: the facts about the admitted plaintext, and its effects.  *)

IsLeafUnder(cm, anchor) == \E i \in 1 .. anchor : leaves[i] = cm

MintStep(note) ==
    /\ note \in Note /\ note.amount < U63 /\ ~HasCommitment(note)
    /\ leaves' = Append(leaves, note)
    /\ recentRoots' = RecordRoot(recentRoots, Len(leaves'))
    /\ txs' = Append(txs, [anchor |-> None, nf |-> None, cmOut |-> note,
                           time |-> note.time])
    /\ UNCHANGED <<nullifiers, now, bundles, feesCollected, burned>>

TransferFacts(t) ==
    /\ t \in Tx /\ t.anchor \in Nat /\ t.nf \in Nullifier
    /\ KnownAnchor(t.anchor) /\ Unspent(t.nf) /\ ~HasCommitment(t.cmOut)
    /\ t.nf.nk = t.nf.cm.pk /\ IsLeafUnder(t.nf.cm, t.anchor)
    /\ t.cmOut.amount = t.nf.cm.amount /\ t.cmOut.asset = t.nf.cm.asset
    /\ t.cmOut.from = t.nf.nk

TransferStep(t) ==
    /\ TransferFacts(t)
    /\ nullifiers' = nullifiers \cup {t.nf}
    /\ leaves' = Append(leaves, t.cmOut)
    /\ recentRoots' = RecordRoot(recentRoots, Len(leaves'))
    /\ txs' = Append(txs, t)
    /\ UNCHANGED <<now, bundles, feesCollected, burned>>

BundleFacts(b) ==
    /\ b \in Bundle
    /\ KnownAnchor(b.anchor) /\ FeeIsNative(b)
    /\ b.nullifiers[1] # b.nullifiers[2] /\ b.commitments[1] # b.commitments[2]
    /\ b.nullifiers[1].nk = b.nullifiers[2].nk
    /\ \A s \in 1 .. 2 :
          /\ Unspent(b.nullifiers[s]) /\ ~HasCommitment(b.commitments[s])
          /\ b.nullifiers[s].nk = b.nullifiers[s].cm.pk
          /\ b.nullifiers[s].cm.amount # 0 =>
                 /\ IsLeafUnder(b.nullifiers[s].cm, b.anchor)
                 /\ b.nullifiers[s].cm.asset = b.asset
          /\ b.commitments[s].from = b.nullifiers[s].nk
          /\ b.commitments[s].asset = b.asset
          /\ b.commitments[s].amount < U63
    /\ b.nullifiers[1].cm.amount + b.nullifiers[2].cm.amount
         = b.commitments[1].amount + b.commitments[2].amount + b.fee + b.burn

BundleStep(b) ==
    /\ BundleFacts(b)
    /\ nullifiers' = nullifiers \cup {b.nullifiers[1], b.nullifiers[2]}
    /\ leaves' = Append(Append(leaves, b.commitments[1]), b.commitments[2])
    /\ recentRoots' = RecordRoot(recentRoots, Len(leaves'))
    /\ feesCollected' = SatAdd(feesCollected, b.fee)
    /\ burned' = SatAdd(burned, b.burn)
    /\ bundles' = Append(bundles, b)
    /\ UNCHANGED <<now, txs>>

AdvanceStep ==
    /\ now' \in Nat
    /\ UNCHANGED <<leaves, recentRoots, nullifiers, txs, bundles, feesCollected, burned>>

(* Amounts are natural numbers below twice U63. *)
LEMMA AmountFacts ==
    /\ U63 \in Nat /\ U63 > 0 /\ U64 \in Nat /\ U64 = U63 + U63
    /\ Amount \subseteq Nat
    /\ \A a \in Nat : a \in Amount <=> a < U64
BY PoolAssumption DEF U64, Amount

LEMMA RangeFacts == \A a \in Amount : ~RangeViolation(a) <=> a < U63
BY AmountFacts DEF RangeViolation

LEMMA NoteFacts == \A n \in Note : n.amount \in Amount
BY DEF Note

(* Notes a wallet may put in an input slot are notes, and a spender's view *)
(* of one names the spender as owner and changes nothing else.             *)
LEMMA InputIsNote ==
    ASSUME TypeOK, Len(leaves) <= MaxLeaves, NEW self \in Party, NEW n \in InputNotes
    PROVE  /\ OwnedBy(self, n) \in Note
           /\ OwnedBy(self, n).pk = self
           /\ OwnedBy(self, n).amount = n.amount
           /\ OwnedBy(self, n).asset = n.asset
<1>1. n \in Note
  <2>1. Len(leaves) \in 0 .. MaxLeaves  BY PoolAssumption DEF TypeOK
  <2>2. Spare(Len(leaves)) \subseteq Note  BY <2>1, PoolAssumption
  <2>3. ToSet(leaves) \subseteq Note  BY ToSetIndex DEF TypeOK
  <2> QED BY <2>2, <2>3 DEF InputNotes
<1> QED BY <1>1 DEF OwnedBy, Note

(* A path that verifies for a known root is of a leaf under that root. *)
LEMMA VerifiedIsLeaf ==
    ASSUME TypeOK, NEW cm, NEW k, KnownAnchor(MerkleVerify(cm, k))
    PROVE  MerkleVerify(cm, k) = k /\ IsLeafUnder(cm, k) /\ k \in Nat
<1>1. MerkleVerify(cm, k) \in Nat
  BY ToSetIndex DEF TypeOK, KnownAnchor
<1> QED BY <1>1 DEF MerkleVerify, NoRoot, IsLeafUnder

(* The randomness drawn for the next leaves is randomness. *)
LEMMA DrawIsRand ==
    ASSUME TypeOK, NEW k \in 1 .. 2, Len(leaves) + k <= MaxLeaves
    PROVE  Draw(Len(leaves) + k) \subseteq Rand
<1>1. Len(leaves) + k \in 0 .. MaxLeaves  BY PoolAssumption DEF TypeOK
<1> QED BY <1>1, PoolAssumption

(* An admitted mint is a fresh note in range. *)
LEMMA MintIsStep ==
    ASSUME TypeOK, NEW note \in MintNotes, Mint(note)
    PROVE  MintStep(note)
<1>1. Draw(Len(leaves) + 1) \subseteq Rand  BY DrawIsRand DEF Mint
<1>2. note \in Note
  BY <1>1, PoolAssumption DEF MintNotes, Note
<1>3. note.amount < U63 /\ ~HasCommitment(note)
  BY <1>2, NoteFacts, RangeFacts DEF Mint, MintAdmissible
<1> QED BY <1>2, <1>3 DEF Mint, MintStep

(* A proof that verifies is of a digest some run published. *)
LEMMA FaultyVerifies ==
    ASSUME NEW claimed, NEW run, NEW fault,
           VerifyPublic(FaultyProof(IF fault = "forged" THEN claimed ELSE run, fault))
    PROVE  FaultyProof(IF fault = "forged" THEN claimed ELSE run, fault).digest = run
<1>1. \A d : FaultyProof(d, fault).digest = d /\ FaultyProof(d, fault).genuine = (fault # "forged")
  BY DEF FaultyProof, Sound
<1>2. fault # "forged"  BY <1>1 DEF VerifyPublic
<1> QED BY <1>1, <1>2

(* An admitted transfer is what a run of the guest published: the spent    *)
(* note is the spender's and a leaf under the anchor.                      *)
LEMMA TransferIsStep ==
    ASSUME TypeOK, NEW w \in TransferWitness, NEW fault, SubmitTransfer(w, fault)
    PROVE  \E t : TransferStep(t)
<1> DEFINE run == TransferGuest(w)
           cmIn == OwnedBy(w.self, w.spent)
<1>1. /\ w.self \in Party /\ w.spent \in InputNotes /\ w.root \in Nat /\ w.outPk \in Party
      /\ w.outR \in Draw(Len(leaves) + 1) /\ w.time \in Nat
  BY PoolAssumption DEF TransferWitness, TypeOK
<1>2. PICK proof, t : /\ Apply(proof, t)
                      /\ proof.digest = t /\ VerifyPublic(proof) => t = run
  <2>1. PICK t : Apply(FaultyProof(IF fault = "forged" THEN t ELSE run, fault), t)
    BY DEF SubmitTransfer
  <2>2. VerifyPublic(FaultyProof(IF fault = "forged" THEN t ELSE run, fault))
          => FaultyProof(IF fault = "forged" THEN t ELSE run, fault).digest = run
    BY FaultyVerifies
  <2> QED BY <2>1, <2>2
<1>3. t = run /\ TransferAdmissible(proof, t) /\ Len(leaves) + 1 <= MaxLeaves
  BY <1>2 DEF Apply, TransferAdmissible
<1>4. w.outR \in Rand
  <2>1. Draw(Len(leaves) + 1) \subseteq Rand  BY <1>3, DrawIsRand
  <2> QED BY <1>1, <2>1
<1>5. /\ cmIn \in Note /\ cmIn.pk = w.self
  <2>1. Len(leaves) <= MaxLeaves  BY <1>3, PoolAssumption DEF TypeOK
  <2> QED BY <1>1, <2>1, InputIsNote
<1>6. KnownAnchor(MerkleVerify(cmIn, w.root))
  BY <1>3 DEF TransferAdmissible, TransferGuest
<1>7. MerkleVerify(cmIn, w.root) = w.root /\ IsLeafUnder(cmIn, w.root)
  BY <1>6, VerifiedIsLeaf
<1> HIDE DEF cmIn
<1>8. /\ t.anchor = w.root /\ t.nf = [nk |-> w.self, cm |-> cmIn] /\ t.time = w.time
      /\ t.cmOut = [pk |-> w.outPk, from |-> w.self, amount |-> cmIn.amount,
                    asset |-> cmIn.asset, time |-> w.time, r |-> w.outR]
      /\ t = [anchor |-> t.anchor, nf |-> t.nf, cmOut |-> t.cmOut, time |-> t.time]
  BY <1>3, <1>7 DEF TransferGuest, Nullify, cmIn
<1>9. t.nf \in Nullifier /\ t.cmOut \in Note
  BY <1>1, <1>4, <1>5, <1>8 DEF Nullifier, Note
<1>10. t \in Tx
  BY <1>1, <1>8, <1>9 DEF Tx
<1>11. TransferFacts(t)
  BY <1>1, <1>3, <1>5, <1>7, <1>8, <1>9, <1>10 DEF TransferFacts, TransferAdmissible
<1> QED BY <1>2, <1>11 DEF Apply, TransferStep

(* Sums that lose no carry are sums of natural numbers. *)
LEMMA NoCarry ==
    ASSUME NEW a \in Amount, NEW b \in Amount, ~Carry64(a, b)
    PROVE  Add64(a, b) = a + b /\ Add64(a, b) \in Amount
BY AmountFacts DEF Carry64, Add64

(* A balance check that passes balances over the natural numbers. *)
LEMMA BalanceIsExact ==
    ASSUME NEW w, w.in1.amount \in Amount, w.in2.amount \in Amount,
           w.out1.amount \in Amount, w.out2.amount \in Amount,
           w.fee \in Amount, w.burn \in Amount, ~BalanceViolation(w)
    PROVE  w.in1.amount + w.in2.amount
             = w.out1.amount + w.out2.amount + w.fee + w.burn
<1> DEFINE outs == Add64(w.out1.amount, w.out2.amount)
           outsFee == Add64(outs, w.fee)
<1>1. /\ ~Carry64(w.in1.amount, w.in2.amount) /\ ~Carry64(w.out1.amount, w.out2.amount)
      /\ ~Carry64(outs, w.fee) /\ ~Carry64(outsFee, w.burn)
      /\ Add64(w.in1.amount, w.in2.amount) = Add64(outsFee, w.burn)
  BY DEF BalanceViolation
<1>2. Add64(w.in1.amount, w.in2.amount) = w.in1.amount + w.in2.amount
  BY <1>1, NoCarry
<1>3. outs = w.out1.amount + w.out2.amount /\ outs \in Amount
  BY <1>1, NoCarry
<1>4. outsFee = outs + w.fee /\ outsFee \in Amount
  BY <1>1, <1>3, NoCarry
<1>5. Add64(outsFee, w.burn) = outsFee + w.burn
  BY <1>1, <1>4, NoCarry
<1> QED BY <1>1, <1>2, <1>3, <1>4, <1>5

(* What a clean run of the bundle guest attests to: everything BundleFacts *)
(* says of the plaintext except what only the ledger checks.               *)
LEMMA CleanRun ==
    ASSUME TypeOK, NEW w \in BundleWitness, Len(leaves) + 2 <= MaxLeaves,
           ~BundleGuest(w).bad, KnownAnchor(w.anchor),
           NEW b, b = BundleGuest(w).plain
    PROVE  /\ b \in Bundle /\ b.nullifiers[1].nk = b.nullifiers[2].nk
           /\ \A s \in 1 .. 2 :
                 /\ b.nullifiers[s].nk = b.nullifiers[s].cm.pk
                 /\ b.nullifiers[s].cm.amount # 0 =>
                        /\ IsLeafUnder(b.nullifiers[s].cm, b.anchor)
                        /\ b.nullifiers[s].cm.asset = b.asset
                 /\ b.commitments[s].from = b.nullifiers[s].nk
                 /\ b.commitments[s].asset = b.asset
                 /\ b.commitments[s].amount < U63
           /\ b.nullifiers[1].cm.amount + b.nullifiers[2].cm.amount
                = b.commitments[1].amount + b.commitments[2].amount + b.fee + b.burn
<1> DEFINE n1 == OwnedBy(w.self, w.in1)
           n2 == OwnedBy(w.self, w.in2)
           c1 == BundleOutput(w, w.out1)
           c2 == BundleOutput(w, w.out2)
           nf1 == Nullify(w.self, n1)
           nf2 == Nullify(w.self, n2)
<1>1. /\ w.self \in Party /\ w.in1 \in InputNotes /\ w.in2 \in InputNotes
      /\ w.anchor \in Nat /\ w.asset \in Asset /\ w.time \in Nat
      /\ w.fee \in Amount /\ w.burn \in Amount
      /\ w.out1 \in OutBody(Len(leaves) + 1) /\ w.out2 \in OutBody(Len(leaves) + 2)
  BY PoolAssumption DEF BundleWitness, TypeOK
<1>2. /\ w.out1.pk \in Party /\ w.out1.amount \in Amount /\ w.out1.r \in Rand
      /\ w.out2.pk \in Party /\ w.out2.amount \in Amount /\ w.out2.r \in Rand
  <2>1. Len(leaves) + 1 <= MaxLeaves  BY PoolAssumption DEF TypeOK
  <2>2. Draw(Len(leaves) + 1) \subseteq Rand /\ Draw(Len(leaves) + 2) \subseteq Rand
    BY <2>1, DrawIsRand
  <2> QED BY <1>1, <2>2, PoolAssumption DEF OutBody
<1>3. /\ n1 \in Note /\ n1.pk = w.self /\ n1.amount = w.in1.amount
      /\ n2 \in Note /\ n2.pk = w.self /\ n2.amount = w.in2.amount
  <2>1. Len(leaves) <= MaxLeaves  BY PoolAssumption DEF TypeOK
  <2> QED BY <1>1, <2>1, InputIsNote
<1>4. /\ c1 \in Note /\ c1.from = w.self /\ c1.asset = w.asset /\ c1.amount = w.out1.amount
      /\ c2 \in Note /\ c2.from = w.self /\ c2.asset = w.asset /\ c2.amount = w.out2.amount
  BY <1>1, <1>2 DEF BundleOutput, Note
<1>5. /\ nf1 \in Nullifier /\ nf1.nk = w.self /\ nf1.cm = n1
      /\ nf2 \in Nullifier /\ nf2.nk = w.self /\ nf2.cm = n2
  BY <1>1, <1>3 DEF Nullify, Nullifier
<1> HIDE DEF n1, n2, c1, c2, nf1, nf2
<1>6. b = [anchor |-> w.anchor, nullifiers |-> <<nf1, nf2>>, commitments |-> <<c1, c2>>,
           fee |-> w.fee, burn |-> w.burn, asset |-> w.asset, time |-> w.time]
  BY DEF BundleGuest, n1, n2, c1, c2, nf1, nf2
<1>7. ~Bad(w, nf1, nf2, c1, c2)
  BY DEF BundleGuest, n1, n2, c1, c2, nf1, nf2
<1>8. /\ n1.amount # 0 => IsLeafUnder(n1, w.anchor) /\ n1.asset = w.asset
      /\ n2.amount # 0 => IsLeafUnder(n2, w.anchor) /\ n2.asset = w.asset
  BY <1>1, <1>5, <1>7, VerifiedIsLeaf DEF Bad, InputViolation
<1>9. /\ w.out1.amount < U63 /\ w.out2.amount < U63
      /\ ~BalanceViolation(w)
  BY <1>2, <1>7, RangeFacts DEF Bad
<1>10. /\ w.in1.amount \in Amount /\ w.in2.amount \in Amount
  BY <1>3 DEF Note
<1>11. w.in1.amount + w.in2.amount = w.out1.amount + w.out2.amount + w.fee + w.burn
  BY <1>1, <1>2, <1>9, <1>10, BalanceIsExact
<1>12. b \in Bundle
  BY <1>1, <1>4, <1>5, <1>6 DEF Bundle
<1>13. /\ b.nullifiers[1] = nf1 /\ b.nullifiers[2] = nf2
       /\ b.commitments[1] = c1 /\ b.commitments[2] = c2
       /\ b.anchor = w.anchor /\ b.asset = w.asset /\ b.fee = w.fee /\ b.burn = w.burn
  BY <1>6
<1>14. ASSUME NEW s \in 1 .. 2
       PROVE  /\ b.nullifiers[s].nk = b.nullifiers[s].cm.pk
              /\ b.nullifiers[s].cm.amount # 0 =>
                     /\ IsLeafUnder(b.nullifiers[s].cm, b.anchor)
                     /\ b.nullifiers[s].cm.asset = b.asset
              /\ b.commitments[s].from = b.nullifiers[s].nk
              /\ b.commitments[s].asset = b.asset
              /\ b.commitments[s].amount < U63
  <2>1. CASE s = 1  BY <1>3, <1>4, <1>5, <1>8, <1>9, <1>13, <2>1
  <2>2. CASE s = 2  BY <1>3, <1>4, <1>5, <1>8, <1>9, <1>13, <2>2
  <2> QED BY <2>1, <2>2
<1>15. b.nullifiers[1].cm.amount + b.nullifiers[2].cm.amount
         = b.commitments[1].amount + b.commitments[2].amount + b.fee + b.burn
  BY <1>3, <1>4, <1>5, <1>11, <1>13
<1>16. b.nullifiers[1].nk = b.nullifiers[2].nk  BY <1>5, <1>13
<1> QED BY <1>12, <1>14, <1>15, <1>16

(* An admitted bundle is what a clean run of the guest published, and the  *)
(* ledger has checked what the guest cannot see.                           *)
LEMMA BundleIsStep ==
    ASSUME TypeOK, NEW w \in BundleWitness, NEW fault, SubmitBundle(w, fault)
    PROVE  \E b : BundleStep(b)
<1>1. PICK proof, b : /\ ApplyBundle(proof, b)
                      /\ VerifyPublic(proof) => proof.digest = BundleGuest(w)
  <2> DEFINE run == BundleGuest(w)
  <2>1. PICK b : ApplyBundle(FaultyProof(IF fault = "forged" THEN BundleDigest(b) ELSE run, fault), b)
    BY DEF SubmitBundle
  <2>2. VerifyPublic(FaultyProof(IF fault = "forged" THEN BundleDigest(b) ELSE run, fault))
          => FaultyProof(IF fault = "forged" THEN BundleDigest(b) ELSE run, fault).digest = run
    BY FaultyVerifies
  <2> QED BY <2>1, <2>2
<1>2. BundleAdmissible(proof, b) /\ Len(leaves) + 2 <= MaxLeaves
  BY <1>1 DEF ApplyBundle
<1>3. b = BundleGuest(w).plain /\ ~BundleGuest(w).bad
  BY <1>1, <1>2 DEF BundleAdmissible, BundleDigest
<1>4. KnownAnchor(w.anchor)
  BY <1>2, <1>3 DEF BundleAdmissible, BundleGuest
<1>5. BundleFacts(b)
  BY <1>2, <1>3, <1>4, CleanRun DEF BundleFacts, BundleAdmissible
<1> QED BY <1>1, <1>5 DEF ApplyBundle, BundleStep

(* Every step of the pool is one of four admissions' steps or a stutter. *)
LEMMA StepCases ==
    ASSUME TypeOK, [Next]_vars
    PROVE  \/ \E note : MintStep(note)
           \/ \E t : TransferStep(t)
           \/ \E b : BundleStep(b)
           \/ AdvanceStep
           \/ UNCHANGED vars
<1>1. ASSUME NEW seconds \in 1 .. MaxNow, Advance(seconds) PROVE AdvanceStep
  BY <1>1, PoolAssumption DEF Advance, AdvanceStep, TypeOK
<1> QED BY <1>1, MintIsStep, TransferIsStep, BundleIsStep DEF Next

-----------------------------------------------------------------------------
(* The inductive invariant. *)

LEMMA InitPoolInv == Init => PoolInv
<1> SUFFICES ASSUME Init PROVE PoolInv
  OBVIOUS
<1>1. TypeOK
  BY AmountFacts DEF Init, TypeOK
<1>2. ToSet(leaves) = {} /\ IsInjective(leaves) /\ ToSet(recentRoots) = {0}
  BY DEF Init, ToSet, IsInjective
<1>3. nullifiers = {} /\ Len(leaves) = 0
  BY DEF Init
<1> QED BY <1>1, <1>2, <1>3 DEF PoolInv, LeavesDistinct, EveryLeafSpendable

LEMMA SatAddInRange ==
    ASSUME NEW a \in Amount, NEW b \in Amount
    PROVE  SatAdd(a, b) \in Amount
BY AmountFacts DEF SatAdd

(* A fresh leaf in range keeps the tree's own invariants. *)
LEMMA FreshLeaf ==
    ASSUME NEW s \in Seq(Note), IsInjective(s), \A cm \in ToSet(s) : ~RangeViolation(cm.amount),
           NEW cm \in Note, cm \notin ToSet(s), cm.amount < U63
    PROVE  /\ Append(s, cm) \in Seq(Note)
           /\ IsInjective(Append(s, cm))
           /\ \A n \in ToSet(Append(s, cm)) : ~RangeViolation(n.amount)
           /\ ToSet(Append(s, cm)) = ToSet(s) \cup {cm}
           /\ Len(Append(s, cm)) = Len(s) + 1
<1>1. ~RangeViolation(cm.amount)  BY NoteFacts, RangeFacts
<1> QED BY <1>1, ToSetAppend, FreshAppend

(* An admission that appends to the tree and records its new root keeps    *)
(* the window covered by the tree.                                         *)
LEMMA WindowCovered ==
    ASSUME PoolInv, leaves' \in Seq(Note), Len(leaves) <= Len(leaves'),
           recentRoots' = RecordRoot(recentRoots, Len(leaves'))
    PROVE  /\ recentRoots' \in Seq(Nat)
           /\ \A k \in ToSet(recentRoots') : k <= Len(leaves')
<1>1. Len(leaves) \in Nat /\ Len(leaves') \in Nat /\ recentRoots \in Seq(Nat)
  BY DEF PoolInv, TypeOK
<1>2. /\ recentRoots' \in Seq(Nat)
      /\ ToSet(recentRoots') \subseteq ToSet(recentRoots) \cup {Len(leaves')}
  BY <1>1, RecordRootWindow
<1>3. \A k \in ToSet(recentRoots) : k \in Nat /\ k <= Len(leaves)
  BY <1>1, ToSetIndex DEF PoolInv
<1> QED BY <1>1, <1>2, <1>3

LEMMA MintKeepsInv ==
    ASSUME PoolInv, NEW note, MintStep(note)
    PROVE  PoolInv'
<1>1. /\ leaves' \in Seq(Note) /\ IsInjective(leaves') /\ EveryLeafSpendable'
      /\ ToSet(leaves') = ToSet(leaves) \cup {note} /\ Len(leaves') = Len(leaves) + 1
  BY FreshLeaf DEF PoolInv, TypeOK, LeavesDistinct, EveryLeafSpendable, MintStep, HasCommitment
<1>2. /\ recentRoots' \in Seq(Nat) /\ \A k \in ToSet(recentRoots') : k <= Len(leaves')
  <2>1. Len(leaves) <= Len(leaves')  BY <1>1 DEF PoolInv, TypeOK
  <2> QED BY <1>1, <2>1, WindowCovered DEF MintStep
<1>3. txs' \in Seq(Tx)
  <2>1. [anchor |-> None, nf |-> None, cmOut |-> note, time |-> note.time] \in Tx
    BY DEF MintStep, Tx, Note
  <2> QED BY <2>1, ToSetAppend DEF MintStep, PoolInv, TypeOK
<1>4. TypeOK'
  BY <1>1, <1>2, <1>3 DEF MintStep, PoolInv, TypeOK
<1>5. \A nf \in nullifiers' : nf.nk = nf.cm.pk /\ (nf.cm.amount > 0 => HasCommitment(nf.cm)')
  BY <1>1 DEF MintStep, PoolInv, HasCommitment
<1> QED BY <1>1, <1>2, <1>4, <1>5 DEF PoolInv, LeavesDistinct

LEMMA TransferKeepsInv ==
    ASSUME PoolInv, NEW t, TransferStep(t)
    PROVE  PoolInv'
<1>1. /\ t \in Tx /\ t.cmOut \in Note /\ t.nf \in Nullifier /\ t.nf.cm \in Note
      /\ HasCommitment(t.nf.cm) /\ t.nf.nk = t.nf.cm.pk
  <2>1. t \in Tx /\ t.cmOut \in Note /\ t.nf \in Nullifier /\ t.nf.cm \in Note
        /\ t.nf.nk = t.nf.cm.pk
    BY DEF TransferStep, TransferFacts, Tx, Nullifier
  <2>2. t.anchor <= Len(leaves) /\ t.anchor \in Nat
    BY DEF TransferStep, TransferFacts, KnownAnchor, PoolInv
  <2>3. HasCommitment(t.nf.cm)
    BY <2>2, ToSetIndex DEF TransferStep, TransferFacts, IsLeafUnder, HasCommitment, PoolInv, TypeOK
  <2> QED BY <2>1, <2>3
<1>2. t.cmOut.amount < U63
  BY <1>1, NoteFacts, RangeFacts DEF TransferStep, TransferFacts, PoolInv, EveryLeafSpendable,
     HasCommitment
<1>3. /\ leaves' \in Seq(Note) /\ IsInjective(leaves') /\ EveryLeafSpendable'
      /\ ToSet(leaves') = ToSet(leaves) \cup {t.cmOut} /\ Len(leaves') = Len(leaves) + 1
  BY <1>1, <1>2, FreshLeaf DEF PoolInv, TypeOK, LeavesDistinct, EveryLeafSpendable,
     TransferStep, TransferFacts, HasCommitment
<1>4. /\ recentRoots' \in Seq(Nat) /\ \A k \in ToSet(recentRoots') : k <= Len(leaves')
  <2>1. Len(leaves) <= Len(leaves')  BY <1>3 DEF PoolInv, TypeOK
  <2> QED BY <1>3, <2>1, WindowCovered DEF TransferStep
<1>5. txs' \in Seq(Tx)
  BY <1>1, ToSetAppend DEF TransferStep, PoolInv, TypeOK
<1>6. TypeOK'
  BY <1>1, <1>3, <1>4, <1>5 DEF TransferStep, PoolInv, TypeOK
<1>7. \A nf \in nullifiers' : nf.nk = nf.cm.pk /\ (nf.cm.amount > 0 => HasCommitment(nf.cm)')
  BY <1>1, <1>3 DEF TransferStep, PoolInv, HasCommitment
<1> QED BY <1>3, <1>4, <1>6, <1>7 DEF PoolInv, LeavesDistinct

LEMMA BundleKeepsInv ==
    ASSUME PoolInv, NEW b, BundleStep(b)
    PROVE  PoolInv'
<1> DEFINE c1 == b.commitments[1]
           c2 == b.commitments[2]
<1>1. /\ b \in Bundle /\ c1 \in Note /\ c2 \in Note
      /\ b.fee \in Amount /\ b.burn \in Amount
      /\ \A s \in 1 .. 2 : b.nullifiers[s] \in Nullifier /\ b.nullifiers[s].cm \in Note
  BY DEF BundleStep, BundleFacts, Bundle, Nullifier
<1>2. \A s \in 1 .. 2 : /\ b.nullifiers[s].nk = b.nullifiers[s].cm.pk
                        /\ b.nullifiers[s].cm.amount > 0 => HasCommitment(b.nullifiers[s].cm)
  <2>1. b.anchor <= Len(leaves) /\ b.anchor \in Nat
    BY <1>1 DEF BundleStep, BundleFacts, KnownAnchor, PoolInv, Bundle
  <2>2. ASSUME NEW cm, IsLeafUnder(cm, b.anchor) PROVE HasCommitment(cm)
    BY <2>1, <2>2, ToSetIndex DEF IsLeafUnder, HasCommitment, PoolInv, TypeOK
  <2>3. \A s \in 1 .. 2 : b.nullifiers[s].cm.amount \in Nat
    BY <1>1, AmountFacts DEF Note
  <2> QED BY <2>2, <2>3 DEF BundleStep, BundleFacts
<1>3. /\ c1 \notin ToSet(leaves) /\ c2 \notin ToSet(leaves) /\ c1 # c2
      /\ c1.amount < U63 /\ c2.amount < U63
  BY DEF BundleStep, BundleFacts, HasCommitment
<1> HIDE DEF c1, c2
<1>4. /\ leaves' \in Seq(Note) /\ IsInjective(leaves') /\ EveryLeafSpendable'
      /\ ToSet(leaves') = ToSet(leaves) \cup {c1, c2} /\ Len(leaves') = Len(leaves) + 2
  <2> DEFINE half == Append(leaves, c1)
  <2>1. /\ half \in Seq(Note) /\ IsInjective(half)
        /\ \A n \in ToSet(half) : ~RangeViolation(n.amount)
        /\ ToSet(half) = ToSet(leaves) \cup {c1} /\ Len(half) = Len(leaves) + 1
    BY <1>1, <1>3, FreshLeaf DEF PoolInv, TypeOK, LeavesDistinct, EveryLeafSpendable
  <2>2. c2 \notin ToSet(half)  BY <1>3, <2>1
  <2>3. leaves' = Append(half, c2)  BY DEF BundleStep, c1, c2
  <2>4. Len(leaves) \in Nat  BY DEF PoolInv, TypeOK
  <2> HIDE DEF half
  <2>5. /\ Append(half, c2) \in Seq(Note) /\ IsInjective(Append(half, c2))
        /\ \A n \in ToSet(Append(half, c2)) : ~RangeViolation(n.amount)
        /\ ToSet(Append(half, c2)) = ToSet(half) \cup {c2}
        /\ Len(Append(half, c2)) = Len(half) + 1
    BY <1>1, <1>3, <2>1, <2>2, FreshLeaf
  <2> QED BY <2>1, <2>3, <2>4, <2>5 DEF EveryLeafSpendable
<1>5. /\ recentRoots' \in Seq(Nat) /\ \A k \in ToSet(recentRoots') : k <= Len(leaves')
  <2>1. Len(leaves) <= Len(leaves')  BY <1>4 DEF PoolInv, TypeOK
  <2> QED BY <1>4, <2>1, WindowCovered DEF BundleStep
<1>6. bundles' \in Seq(Bundle)
  BY <1>1, ToSetAppend DEF BundleStep, PoolInv, TypeOK
<1>7. feesCollected' \in Amount /\ burned' \in Amount
  BY <1>1, SatAddInRange DEF BundleStep, PoolInv, TypeOK
<1>8. TypeOK'
  BY <1>1, <1>4, <1>5, <1>6, <1>7 DEF BundleStep, PoolInv, TypeOK
<1>9. \A nf \in nullifiers' : nf.nk = nf.cm.pk /\ (nf.cm.amount > 0 => HasCommitment(nf.cm)')
  BY <1>2, <1>4 DEF BundleStep, PoolInv, HasCommitment
<1> QED BY <1>4, <1>5, <1>8, <1>9 DEF PoolInv, LeavesDistinct

LEMMA NextKeepsInv == PoolInv /\ [Next]_vars => PoolInv'
<1> SUFFICES ASSUME PoolInv, [Next]_vars PROVE PoolInv'
  OBVIOUS
<1>1. CASE AdvanceStep
  BY <1>1 DEF AdvanceStep, PoolInv, TypeOK, LeavesDistinct, EveryLeafSpendable, HasCommitment
<1>2. CASE UNCHANGED vars
  BY <1>2 DEF vars, PoolInv, TypeOK, LeavesDistinct, EveryLeafSpendable, HasCommitment
<1>3. TypeOK  BY DEF PoolInv
<1> QED BY <1>1, <1>2, <1>3, StepCases, MintKeepsInv, TransferKeepsInv, BundleKeepsInv

(* The inductive invariant of the pool holds in every reachable state. *)
THEOREM PoolInvariant == Spec => []PoolInv
BY InitPoolInv, NextKeepsInv, PTL DEF Spec

(* Every component of the ledger keeps its Rust type. *)
THEOREM TypeCorrect == Spec => []TypeOK
<1>1. PoolInv => TypeOK  BY DEF PoolInv
<1> QED BY <1>1, PoolInvariant, PTL

(* No operation leaves a commitment in the tree twice. *)
THEOREM CommitmentsUnique == Spec => []LeavesDistinct
<1>1. PoolInv => LeavesDistinct  BY DEF PoolInv
<1> QED BY <1>1, PoolInvariant, PTL

(* The pool's global amount invariant: mint's range check, the transfer's  *)
(* conservation and the bundle's range bits together keep every leaf       *)
(* spendable.                                                              *)
THEOREM AmountsInRange == Spec => []EveryLeafSpendable
<1>1. PoolInv => EveryLeafSpendable  BY DEF PoolInv
<1> QED BY <1>1, PoolInvariant, PTL

-----------------------------------------------------------------------------
(* What honest spenders submit. *)

LEMMA SoundProof == \A d : /\ Sound(d).wellFormed = TRUE /\ Sound(d).digest = d
                           /\ VerifyPublic(Sound(d)) = TRUE
BY DEF Sound, VerifyPublic

(* The nullifier of a note its owner spends says whether it is spent. *)
LEMMA NfIsNote ==
    ASSUME NEW nf \in Nullifier, nf.nk = nf.cm.pk
    PROVE  Nullify(nf.cm.pk, nf.cm) = nf /\ (Unspent(nf) <=> IsUnspent(nf.cm))
BY DEF Nullifier, Nullify, IsUnspent

(* A live note is a leaf of value in range, under the root seen now, and   *)
(* its owner's view of it is the note itself.                              *)
LEMMA LiveFacts ==
    ASSUME PoolInv, NEW n \in Live
    PROVE  /\ n \in Note /\ n \in ToSet(leaves) /\ n.amount \in Nat /\ n.amount > 0 /\ n.amount < U63
           /\ n.pk \in Party /\ n.asset \in Asset
           /\ IsLeafUnder(n, Root) /\ MerkleVerify(n, Root) = Root
<1>1. n \in ToSet(leaves) /\ n.amount > 0 /\ n \in Note
  BY ToSetIndex DEF Live, Valued, PoolInv, TypeOK
<1>2. n.amount \in Amount /\ n.amount \in Nat /\ n.amount < U63
  BY <1>1, NoteFacts, RangeFacts, AmountFacts DEF PoolInv, EveryLeafSpendable
<1>3. IsLeafUnder(n, Root)
  BY <1>1, ToSetIndex DEF IsLeafUnder, Root, PoolInv, TypeOK
<1> QED BY <1>1, <1>2, <1>3 DEF Note, MerkleVerify, IsLeafUnder

LEMMA OwnerSees == \A n \in Note : OwnedBy(n.pk, n) = n
BY DEF OwnedBy, Note

HonestTransfer(n, p, r) ==
    [anchor |-> Root, nf |-> [nk |-> n.pk, cm |-> n],
     cmOut |-> [pk |-> p, from |-> n.pk, amount |-> n.amount, asset |-> n.asset,
                time |-> now, r |-> r],
     time |-> now]

(* A transfer of a live note, proved against the current root and clock. *)
LEMMA HonestTransferFacts ==
    ASSUME PoolInv, NEW n \in Live, NEW p \in Party, NEW r \in Rand,
           NEW t, t = TransferGuest([self |-> n.pk, spent |-> n, root |-> Root, outPk |-> p,
                                     outR |-> r, time |-> now])
    PROVE  /\ t = HonestTransfer(n, p, r) /\ t \in Tx
           /\ t.nf \in Nullifier /\ t.cmOut \in Note /\ t.anchor \in Nat
<1>1. /\ n \in Note /\ n.pk \in Party /\ n.asset \in Asset /\ n.amount \in Amount
      /\ MerkleVerify(n, Root) = Root /\ OwnedBy(n.pk, n) = n
  BY LiveFacts, OwnerSees, NoteFacts
<1>2. now \in Nat /\ Root \in Nat
  BY DEF PoolInv, TypeOK, Root
<1>3. t = HonestTransfer(n, p, r)
  BY <1>1 DEF TransferGuest, Nullify, HonestTransfer
<1>4. t.nf \in Nullifier /\ t.cmOut \in Note /\ t.anchor \in Nat
  BY <1>1, <1>2, <1>3 DEF HonestTransfer, Nullifier, Note
<1>5. t \in Tx
  BY <1>2, <1>3, <1>4 DEF HonestTransfer, Tx
<1> QED BY <1>3, <1>4, <1>5

-----------------------------------------------------------------------------
(* What the two sequences of admitted submissions say about spends: no     *)
(* double spend, no spend before its note exists, none by another party.   *)

(* What holds of a spend from its admission on. *)
CleanSpend(e) ==
    /\ AnchorOf(e) \in Nat /\ AnchorOf(e) <= Len(leaves)
    /\ NfOf(e).nk = NfOf(e).cm.pk
    /\ NfOf(e).cm.amount > 0 => IsLeafUnder(NfOf(e).cm, AnchorOf(e))
    /\ \A cm \in CreatedBy(e) :
          /\ ~IsLeafUnder(cm, AnchorOf(e))
          /\ cm.from = NfOf(e).nk
          /\ NfOf(e).cm.amount > 0 => cm.asset = NfOf(e).cm.asset

ChainInv == NoDoubleSpend /\ \A e \in Spends : CleanSpend(e)

(* A spend once admitted reads the same after the sequences have grown. *)
LEMMA SpendsKept ==
    ASSUME NEW e, NfOf(e)' = NfOf(e), AnchorOf(e)' = AnchorOf(e), CreatedBy(e)' = CreatedBy(e),
           Len(leaves) \in Nat, Len(leaves') \in Nat, Len(leaves) <= Len(leaves'),
           \A i \in 1 .. Len(leaves) : leaves'[i] = leaves[i],
           CleanSpend(e)
    PROVE  CleanSpend(e)'
<1>1. /\ AnchorOf(e) \in Nat /\ AnchorOf(e) <= Len(leaves)
  BY DEF CleanSpend
<1>2. ASSUME NEW cm PROVE IsLeafUnder(cm, AnchorOf(e))' <=> IsLeafUnder(cm, AnchorOf(e))
  BY <1>1 DEF IsLeafUnder
<1>3. AnchorOf(e)' \in Nat /\ AnchorOf(e)' <= Len(leaves')
  BY <1>1
<1> QED BY <1>2, <1>3 DEF CleanSpend

(* The invariant survives an admission that adds clean spends with fresh,  *)
(* distinct nullifiers and touches no earlier one.                         *)
LEMMA SpendsAdded ==
    ASSUME ChainInv, NEW Fresh,
           Spends' = Spends \cup Fresh,
           \A e \in Spends : /\ NfOf(e)' = NfOf(e) /\ AnchorOf(e)' = AnchorOf(e)
                             /\ CreatedBy(e)' = CreatedBy(e),
           Len(leaves) \in Nat, Len(leaves') \in Nat, Len(leaves) <= Len(leaves'),
           \A i \in 1 .. Len(leaves) : leaves'[i] = leaves[i],
           nullifiers' = nullifiers \cup {NfOf(e)' : e \in Fresh},
           \A e \in Fresh : NfOf(e)' \notin nullifiers /\ CleanSpend(e)',
           \A e, f \in Fresh : NfOf(e)' = NfOf(f)' => e = f
    PROVE  ChainInv'
<1>1. \A e \in Spends' : CleanSpend(e)'
  <2>1. \A e \in Spends : CleanSpend(e)'  BY SpendsKept DEF ChainInv
  <2> QED BY <2>1
<1>2. nullifiers = {NfOf(e) : e \in Spends}  BY DEF ChainInv, NoDoubleSpend
<1>3. \A e, f \in Spends' : NfOf(e)' = NfOf(f)' => e = f
  <2> SUFFICES ASSUME NEW e \in Spends', NEW f \in Spends', NfOf(e)' = NfOf(f)' PROVE e = f
    OBVIOUS
  <2>1. CASE e \in Spends /\ f \in Spends  BY <2>1 DEF ChainInv, NoDoubleSpend
  <2>2. CASE e \in Spends /\ f \in Fresh   BY <1>2, <2>2
  <2>3. CASE e \in Fresh /\ f \in Spends   BY <1>2, <2>3
  <2>4. CASE e \in Fresh /\ f \in Fresh    BY <2>4
  <2> QED BY <2>1, <2>2, <2>3, <2>4
<1>4. nullifiers' = {NfOf(e)' : e \in Spends'}
  <2>1. {NfOf(e)' : e \in Spends} = {NfOf(e) : e \in Spends}  OBVIOUS
  <2> QED BY <1>2, <2>1
<1> QED BY <1>1, <1>3, <1>4 DEF ChainInv, NoDoubleSpend

(* The spends of the two sequences after each kind of admission. *)
TxSpend(i) == [seq |-> "tx", at |-> i, slot |-> 1]
BundleSpend(i, s) == [seq |-> "bundle", at |-> i, slot |-> s]

IsSpend(e) ==
    \/ \E i \in 1 .. Len(txs) : txs[i].nf # None /\ e = TxSpend(i)
    \/ \E i \in 1 .. Len(bundles), s \in {1, 2} : e = BundleSpend(i, s)

LEMMA SpendsCases == TypeOK => \A e : e \in Spends <=> IsSpend(e)
<1> SUFFICES ASSUME TypeOK PROVE \A e : e \in Spends <=> IsSpend(e)
  OBVIOUS
<1>1. DOMAIN txs = 1 .. Len(txs) /\ DOMAIN bundles = 1 .. Len(bundles)
  BY DEF TypeOK
<1>2. ASSUME NEW e PROVE e \in [seq : {"tx"}, at : {i \in DOMAIN txs : txs[i].nf # None}, slot : {1}]
          <=> \E i \in 1 .. Len(txs) : txs[i].nf # None /\ e = TxSpend(i)
  BY <1>1 DEF TxSpend
<1>3. ASSUME NEW e PROVE e \in [seq : {"bundle"}, at : DOMAIN bundles, slot : {1, 2}]
          <=> \E i \in 1 .. Len(bundles), s \in {1, 2} : e = BundleSpend(i, s)
  BY <1>1 DEF BundleSpend
<1> QED BY <1>2, <1>3 DEF Spends, IsSpend

LEMMA SpendsCasesAfter == (TypeOK => \A e : e \in Spends <=> IsSpend(e))'
BY SpendsCases, PTL

LEMMA TxPushed ==
    ASSUME TypeOK, TypeOK', NEW t \in Tx, txs' = Append(txs, t), bundles' = bundles,
           NEW n \in Nat, n = Len(txs) + 1
    PROVE  /\ Spends' = Spends \cup {e \in {TxSpend(n)} : t.nf # None}
           /\ \A e \in Spends : /\ NfOf(e)' = NfOf(e) /\ AnchorOf(e)' = AnchorOf(e)
                                /\ CreatedBy(e)' = CreatedBy(e)
           /\ NfOf(TxSpend(n))' = t.nf /\ AnchorOf(TxSpend(n))' = t.anchor
           /\ CreatedBy(TxSpend(n))' = {t.cmOut}
<1>1. /\ Len(txs) \in Nat /\ Len(txs') = Len(txs) + 1 /\ txs'[Len(txs) + 1] = t
      /\ \A i \in 1 .. Len(txs) : txs'[i] = txs[i]
  BY ToSetAppend DEF TypeOK
<1>2. Spends' = Spends \cup {e \in {TxSpend(n)} : t.nf # None}
  BY <1>1, SpendsCases, SpendsCasesAfter DEF IsSpend
<1>3. ASSUME NEW e \in Spends
      PROVE  NfOf(e)' = NfOf(e) /\ AnchorOf(e)' = AnchorOf(e) /\ CreatedBy(e)' = CreatedBy(e)
  <2>1. CASE \E i \in 1 .. Len(txs) : e = TxSpend(i)
    BY <1>1, <2>1 DEF NfOf, AnchorOf, CreatedBy, TxSpend
  <2>2. CASE e.seq = "bundle"
    BY <2>2 DEF NfOf, AnchorOf, CreatedBy
  <2> QED BY <2>1, <2>2, SpendsCases DEF IsSpend, BundleSpend
<1>4. /\ NfOf(TxSpend(n))' = t.nf /\ AnchorOf(TxSpend(n))' = t.anchor
      /\ CreatedBy(TxSpend(n))' = {t.cmOut}
  BY <1>1 DEF NfOf, AnchorOf, CreatedBy, TxSpend
<1> QED BY <1>2, <1>3, <1>4

LEMMA BundlePushed ==
    ASSUME TypeOK, TypeOK', NEW b \in Bundle, bundles' = Append(bundles, b), txs' = txs,
           NEW n \in Nat, n = Len(bundles) + 1
    PROVE  /\ Spends' = Spends \cup {BundleSpend(n, s) : s \in {1, 2}}
           /\ \A e \in Spends : /\ NfOf(e)' = NfOf(e) /\ AnchorOf(e)' = AnchorOf(e)
                                /\ CreatedBy(e)' = CreatedBy(e)
           /\ \A s \in {1, 2} :
                 /\ NfOf(BundleSpend(n, s))' = b.nullifiers[s]
                 /\ AnchorOf(BundleSpend(n, s))' = b.anchor
                 /\ CreatedBy(BundleSpend(n, s))' = {b.commitments[1], b.commitments[2]}
<1>1. /\ Len(bundles) \in Nat /\ Len(bundles') = Len(bundles) + 1
      /\ bundles'[Len(bundles) + 1] = b
      /\ \A i \in 1 .. Len(bundles) : bundles'[i] = bundles[i]
  BY ToSetAppend DEF TypeOK
<1>2. Spends' = Spends \cup {BundleSpend(n, s) : s \in {1, 2}}
  BY <1>1, SpendsCases, SpendsCasesAfter DEF IsSpend
<1>3. ASSUME NEW e \in Spends
      PROVE  NfOf(e)' = NfOf(e) /\ AnchorOf(e)' = AnchorOf(e) /\ CreatedBy(e)' = CreatedBy(e)
  <2>1. CASE \E i \in 1 .. Len(bundles), s \in {1, 2} : e = BundleSpend(i, s)
    BY <1>1, <2>1 DEF NfOf, AnchorOf, CreatedBy, BundleSpend
  <2>2. CASE e.seq = "tx"
    BY <2>2 DEF NfOf, AnchorOf, CreatedBy
  <2> QED BY <2>1, <2>2, SpendsCases DEF IsSpend, TxSpend
<1>4. ToSet(b.commitments) = {b.commitments[1], b.commitments[2]}
  BY DEF Bundle, ToSet
<1>5. ASSUME NEW s \in {1, 2}
      PROVE  /\ NfOf(BundleSpend(n, s))' = b.nullifiers[s]
             /\ AnchorOf(BundleSpend(n, s))' = b.anchor
             /\ CreatedBy(BundleSpend(n, s))' = {b.commitments[1], b.commitments[2]}
  BY <1>1, <1>4 DEF NfOf, AnchorOf, CreatedBy, BundleSpend
<1> QED BY <1>2, <1>3, <1>5

LEMMA InitChainInv == Init => ChainInv
<1> SUFFICES ASSUME Init PROVE Spends = {} /\ nullifiers = {}
  BY DEF ChainInv, NoDoubleSpend
<1>1. TypeOK /\ Len(txs) = 0 /\ Len(bundles) = 0  BY InitPoolInv DEF Init, PoolInv
<1> QED BY <1>1, SpendsCases DEF IsSpend, Init

LEMMA MintKeepsChain ==
    ASSUME PoolInv, PoolInv', ChainInv, NEW note, MintStep(note)
    PROVE  ChainInv'
<1> DEFINE t == [anchor |-> None, nf |-> None, cmOut |-> note, time |-> note.time]
<1>1. /\ TypeOK /\ TypeOK' /\ t \in Tx /\ txs' = Append(txs, t) /\ bundles' = bundles
      /\ t.nf = None
  BY DEF PoolInv, MintStep, Tx, Note
<1>2. PICK n \in Nat : n = Len(txs) + 1  BY <1>1 DEF TypeOK
<1> HIDE DEF t
<1>3. /\ Spends' = Spends \cup {}
      /\ \A e \in Spends : /\ NfOf(e)' = NfOf(e) /\ AnchorOf(e)' = AnchorOf(e)
                           /\ CreatedBy(e)' = CreatedBy(e)
  BY <1>1, <1>2, TxPushed
<1>4. /\ Len(leaves) \in Nat /\ Len(leaves') \in Nat /\ Len(leaves) <= Len(leaves')
      /\ \A i \in 1 .. Len(leaves) : leaves'[i] = leaves[i]
  BY ToSetAppend DEF MintStep, PoolInv, TypeOK
<1>5. nullifiers' = nullifiers \cup {NfOf(e)' : e \in {}}  BY DEF MintStep
<1> QED BY <1>3, <1>4, <1>5, SpendsAdded

LEMMA TransferKeepsChain ==
    ASSUME PoolInv, PoolInv', ChainInv, NEW t, TransferStep(t)
    PROVE  ChainInv'
<1>1. /\ TypeOK /\ TypeOK' /\ t \in Tx /\ txs' = Append(txs, t) /\ bundles' = bundles
      /\ t.nf \in Nullifier /\ t.nf # None /\ t.cmOut \in Note
  BY PoolAssumption DEF PoolInv, TransferStep, TransferFacts, Tx
<1>2. PICK n \in Nat : n = Len(txs) + 1  BY <1>1 DEF TypeOK
<1> DEFINE e0 == TxSpend(n)
<1>3. /\ Spends' = Spends \cup {e0}
      /\ \A e \in Spends : /\ NfOf(e)' = NfOf(e) /\ AnchorOf(e)' = AnchorOf(e)
                           /\ CreatedBy(e)' = CreatedBy(e)
      /\ NfOf(e0)' = t.nf /\ AnchorOf(e0)' = t.anchor /\ CreatedBy(e0)' = {t.cmOut}
  BY <1>1, <1>2, TxPushed
<1>4. /\ Len(leaves) \in Nat /\ Len(leaves') \in Nat /\ Len(leaves) <= Len(leaves')
      /\ \A i \in 1 .. Len(leaves) : leaves'[i] = leaves[i]
  BY <1>1, ToSetAppend DEF TransferStep, PoolInv, TypeOK
<1>5. t.anchor \in Nat /\ t.anchor <= Len(leaves)
  BY DEF TransferStep, TransferFacts, KnownAnchor, PoolInv
<1>6. IsLeafUnder(t.nf.cm, t.anchor)' /\ ~IsLeafUnder(t.cmOut, t.anchor)'
  <2>1. IsLeafUnder(t.nf.cm, t.anchor) /\ ~IsLeafUnder(t.cmOut, t.anchor)
    <3>1. leaves \in Seq(Note) /\ t.cmOut \notin ToSet(leaves)
      BY <1>1 DEF TransferStep, TransferFacts, HasCommitment, TypeOK
    <3>2. \A i \in 1 .. t.anchor : leaves[i] \in ToSet(leaves)
      BY <1>4, <1>5, <3>1, ToSetIndex
    <3> QED BY <3>1, <3>2 DEF TransferStep, TransferFacts, IsLeafUnder
  <2> QED BY <1>4, <1>5, <2>1 DEF IsLeafUnder
<1>7. CleanSpend(e0)'
  <2>1. AnchorOf(e0)' \in Nat /\ AnchorOf(e0)' <= Len(leaves')  BY <1>3, <1>4, <1>5
  <2>2. IsLeafUnder(NfOf(e0).cm, AnchorOf(e0))'  BY <1>3, <1>6 DEF IsLeafUnder
  <2>3. \A cm \in CreatedBy(e0)' : cm = t.cmOut /\ ~IsLeafUnder(cm, AnchorOf(e0))'
    BY <1>3, <1>6 DEF IsLeafUnder
  <2> QED BY <1>3, <2>1, <2>2, <2>3 DEF CleanSpend, TransferStep, TransferFacts
<1>8. NfOf(e0)' \notin nullifiers /\ nullifiers' = nullifiers \cup {NfOf(e)' : e \in {e0}}
  BY <1>3 DEF TransferStep, TransferFacts, Unspent
<1> HIDE DEF e0
<1> DEFINE Fresh == {e0}
<1>9. /\ Spends' = Spends \cup Fresh /\ nullifiers' = nullifiers \cup {NfOf(e)' : e \in Fresh}
      /\ \A e \in Fresh : NfOf(e)' \notin nullifiers /\ CleanSpend(e)'
      /\ \A e, f \in Fresh : NfOf(e)' = NfOf(f)' => e = f
  BY <1>3, <1>7, <1>8
<1> HIDE DEF Fresh
<1> QED BY <1>3, <1>4, <1>9, SpendsAdded

LEMMA BundleKeepsChain ==
    ASSUME PoolInv, PoolInv', ChainInv, NEW b, BundleStep(b)
    PROVE  ChainInv'
<1>1. /\ TypeOK /\ TypeOK' /\ b \in Bundle /\ bundles' = Append(bundles, b) /\ txs' = txs
  BY DEF PoolInv, BundleStep, BundleFacts
<1>2. PICK n \in Nat : n = Len(bundles) + 1  BY <1>1 DEF TypeOK
<1> DEFINE Fresh == {BundleSpend(n, s) : s \in {1, 2}}
           c1 == b.commitments[1]
           c2 == b.commitments[2]
<1>3. /\ Spends' = Spends \cup Fresh
      /\ \A e \in Spends : /\ NfOf(e)' = NfOf(e) /\ AnchorOf(e)' = AnchorOf(e)
                           /\ CreatedBy(e)' = CreatedBy(e)
  BY <1>1, <1>2, BundlePushed
<1>4. \A s \in {1, 2} : /\ NfOf(BundleSpend(n, s))' = b.nullifiers[s]
                        /\ AnchorOf(BundleSpend(n, s))' = b.anchor
                        /\ CreatedBy(BundleSpend(n, s))' = {c1, c2}
  BY <1>1, <1>2, BundlePushed
<1>5. /\ Len(leaves) \in Nat /\ Len(leaves') \in Nat /\ Len(leaves) <= Len(leaves')
      /\ \A i \in 1 .. Len(leaves) : leaves'[i] = leaves[i]
  <2> DEFINE half == Append(leaves, c1)
  <2>1. leaves \in Seq(Note) /\ c1 \in Note /\ c2 \in Note  BY <1>1 DEF TypeOK, Bundle
  <2>2. /\ half \in Seq(Note) /\ Len(half) = Len(leaves) + 1
        /\ \A i \in 1 .. Len(leaves) : half[i] = leaves[i]
    BY <2>1, ToSetAppend
  <2>3. leaves' = Append(half, c2)  BY DEF BundleStep
  <2> HIDE DEF half
  <2>4. /\ Len(Append(half, c2)) = Len(half) + 1
        /\ \A i \in 1 .. Len(half) : Append(half, c2)[i] = half[i]
    BY <2>1, <2>2, ToSetAppend
  <2> QED BY <2>1, <2>2, <2>3, <2>4
<1>6. b.anchor \in Nat /\ b.anchor <= Len(leaves)
  BY DEF BundleStep, BundleFacts, KnownAnchor, PoolInv, Bundle
<1>7. \A cm : IsLeafUnder(cm, b.anchor)' <=> IsLeafUnder(cm, b.anchor)
  BY <1>5, <1>6 DEF IsLeafUnder
<1>8. ~IsLeafUnder(c1, b.anchor) /\ ~IsLeafUnder(c2, b.anchor)
  BY <1>1, <1>6, ToSetIndex DEF BundleStep, BundleFacts, HasCommitment, IsLeafUnder, TypeOK
<1>9. \A s \in {1, 2} :
         /\ b.nullifiers[s] \notin nullifiers /\ b.nullifiers[s].nk = b.nullifiers[s].cm.pk
         /\ b.nullifiers[s].cm.amount > 0 => /\ IsLeafUnder(b.nullifiers[s].cm, b.anchor)
                                             /\ b.nullifiers[s].cm.asset = b.asset
  <2>1. \A s \in {1, 2} : b.nullifiers[s].cm.amount \in Nat
    <3>1. \A s \in {1, 2} : b.nullifiers[s] \in Nullifier  BY <1>1 DEF Bundle
    <3> QED BY <3>1, NoteFacts, AmountFacts DEF Nullifier
  <2> QED BY <2>1 DEF BundleStep, BundleFacts, Unspent
<1>10. \A cm \in {c1, c2} : cm.asset = b.asset /\ cm.from = b.nullifiers[1].nk
                            /\ cm.from = b.nullifiers[2].nk
  BY DEF BundleStep, BundleFacts
<1> HIDE DEF c1, c2
<1>11. ASSUME NEW s \in {1, 2} PROVE CleanSpend(BundleSpend(n, s))'
  <2> DEFINE e == BundleSpend(n, s)
  <2>1. NfOf(e)' = b.nullifiers[s] /\ AnchorOf(e)' = b.anchor /\ CreatedBy(e)' = {c1, c2}
    BY <1>4
  <2>2. AnchorOf(e)' \in Nat /\ AnchorOf(e)' <= Len(leaves')  BY <1>5, <1>6, <2>1
  <2>3. \A cm : IsLeafUnder(cm, AnchorOf(e))' <=> IsLeafUnder(cm, b.anchor)
    BY <1>7, <2>1 DEF IsLeafUnder
  <2> HIDE DEF e
  <2>4. NfOf(e)'.cm.amount > 0 => IsLeafUnder(NfOf(e).cm, AnchorOf(e))'
    BY <1>9, <2>1, <2>3
  <2>5. \A cm \in CreatedBy(e)' :
            /\ ~IsLeafUnder(cm, AnchorOf(e))'
            /\ cm.from = NfOf(e)'.nk
            /\ NfOf(e)'.cm.amount > 0 => cm.asset = NfOf(e)'.cm.asset
    BY <1>8, <1>9, <1>10, <2>1, <2>3
  <2> QED BY <1>9, <2>1, <2>2, <2>4, <2>5 DEF CleanSpend, e
<1>12. nullifiers' = nullifiers \cup {NfOf(e)' : e \in Fresh}
  <2>1. {NfOf(e)' : e \in Fresh} = {b.nullifiers[1], b.nullifiers[2]}  BY <1>4
  <2> QED BY <2>1 DEF BundleStep
<1>13. \A e \in Fresh : NfOf(e)' \notin nullifiers /\ CleanSpend(e)'
  BY <1>4, <1>9, <1>11
<1>14. \A e, f \in Fresh : NfOf(e)' = NfOf(f)' => e = f
  <2>1. b.nullifiers[1] # b.nullifiers[2]  BY DEF BundleStep, BundleFacts
  <2> QED BY <1>4, <2>1
<1> HIDE DEF Fresh
<1> QED BY <1>3, <1>5, <1>12, <1>13, <1>14, SpendsAdded

LEMMA NextKeepsChain == PoolInv /\ PoolInv' /\ ChainInv /\ [Next]_vars => ChainInv'
<1> SUFFICES ASSUME PoolInv, PoolInv', ChainInv, [Next]_vars PROVE ChainInv'
  OBVIOUS
<1>1. CASE UNCHANGED <<leaves, nullifiers, txs, bundles>>
  BY <1>1 DEF ChainInv, NoDoubleSpend, Spends, NfOf, AnchorOf, CreatedBy, CleanSpend, IsLeafUnder
<1>2. TypeOK  BY DEF PoolInv
<1> QED BY <1>1, <1>2, StepCases, MintKeepsChain, TransferKeepsChain, BundleKeepsChain
        DEF AdvanceStep, vars

THEOREM ChainInvariant == Spec => []ChainInv
BY InitChainInv, PoolInvariant, NextKeepsChain, PTL DEF Spec

(* No nullifier is ever published twice, by transfers, by bundles, by one  *)
(* of each, or by the two slots of one bundle.                             *)
THEOREM SingleSpend == Spec => []NoDoubleSpend
<1>1. ChainInv => NoDoubleSpend  BY DEF ChainInv
<1> QED BY <1>1, ChainInvariant, PTL

(* Value is only ever spent out of a leaf that the claimed anchor covers,  *)
(* and never into one.                                                     *)
THEOREM SpendAfterCreation == Spec => []SpendsFollowCreation
<1>1. ChainInv => SpendsFollowCreation
  BY DEF ChainInv, CleanSpend, SpendsFollowCreation, IsLeafUnder
<1> QED BY <1>1, ChainInvariant, PTL

(* A spend is its owner's, and so are the sender fields of what it makes. *)
THEOREM OwnerSpends == Spec => []OwnerIsSpender
<1>1. ChainInv => OwnerIsSpender
  BY DEF ChainInv, CleanSpend, OwnerIsSpender
<1> QED BY <1>1, ChainInvariant, PTL


-----------------------------------------------------------------------------
(* The window of recent roots. *)

Increasing(s) == \A i \in 1 .. Len(s) - 1 : s[i] < s[i + 1]

LEMMA MinOfPair ==
    ASSUME NEW m \in Nat, NEW n \in Nat
    PROVE  Min({m, n}) = IF m <= n THEN m ELSE n
BY DEF Min

(* What record_root makes of a window that is not overfull: the new root   *)
(* last, the order kept, and one more root unless the window was full.     *)
LEMMA RecordRootExact ==
    ASSUME NEW roots \in Seq(Nat), NEW root \in Nat, Len(roots) <= AnchorWindow,
           Increasing(roots), \A i \in 1 .. Len(roots) : roots[i] < root
    PROVE  /\ Len(RecordRoot(roots, root)) =
                  IF Len(roots) + 1 <= AnchorWindow THEN Len(roots) + 1 ELSE AnchorWindow
           /\ RecordRoot(roots, root)[Len(RecordRoot(roots, root))] = root
           /\ Increasing(RecordRoot(roots, root))
<1> DEFINE all == Append(roots, root)
<1>1. /\ all \in Seq(Nat) /\ Len(all) = Len(roots) + 1 /\ all[Len(roots) + 1] = root
      /\ \A i \in 1 .. Len(roots) : all[i] = roots[i]
      /\ Len(roots) \in Nat /\ AnchorWindow \in Nat /\ AnchorWindow > 0
  BY ToSetAppend, PoolAssumption
<1>2. Increasing(all)
  BY <1>1 DEF Increasing
<1>3. CASE Len(all) <= AnchorWindow
  <2>1. RecordRoot(roots, root) = all  BY <1>1, <1>3 DEF RecordRoot
  <2> QED BY <1>1, <1>2, <1>3, <2>1
<1>4. CASE Len(all) > AnchorWindow
  <2>1. Len(roots) = AnchorWindow /\ Len(all) - AnchorWindow + 1 = 2  BY <1>1, <1>4
  <2>2. RecordRoot(roots, root) = SubSeq(all, 2, Len(all))
    BY <1>4, <2>1 DEF RecordRoot
  <2>3. \A i \in 2 .. Len(all) : all[i] \in Nat  BY <1>1
  <2> DEFINE kept == SubSeq(all, 2, Len(all))
  <2> HIDE DEF all
  <2>4. /\ Len(kept) = Len(all) - 1
        /\ \A i \in 1 .. Len(all) - 1 : kept[i] = all[i + 1]
    <3>1. /\ Len(kept) = IF 2 <= Len(all) THEN Len(all) - 2 + 1 ELSE 0
          /\ \A i \in 1 .. Len(all) - 2 + 1 : kept[i] = all[2 + i - 1]
      BY <1>1, <2>3, SubSeqProperties
    <3>2. 2 <= Len(all) /\ Len(all) - 2 + 1 = Len(all) - 1  BY <1>1, <2>1
    <3>3. \A i \in 1 .. Len(all) - 1 : 2 + i - 1 = i + 1  BY <1>1
    <3> QED BY <3>1, <3>2, <3>3
  <2> HIDE DEF kept
  <2>5. Len(kept) = AnchorWindow /\ kept[Len(kept)] = root
    BY <1>1, <2>1, <2>4
  <2>6. Increasing(kept)
    <3> SUFFICES ASSUME NEW i \in 1 .. Len(kept) - 1 PROVE kept[i] < kept[i + 1]
      BY DEF Increasing
    <3>1. i \in 1 .. Len(all) - 1 /\ i + 1 \in 1 .. Len(all) - 1  BY <1>1, <2>4
    <3>2. kept[i] = all[i + 1] /\ kept[i + 1] = all[i + 1 + 1]  BY <2>4, <3>1
    <3> QED BY <1>2, <3>1, <3>2 DEF Increasing
  <2> QED BY <1>1, <2>1, <2>2, <2>5, <2>6 DEF kept
<1> QED BY <1>1, <1>3, <1>4

(* The leaf a bundle appends first is in the tree: with PoolInv, what      *)
(* WindowIsRecent needs to be inductive.                                   *)
FirstLeavesKept == \A i \in DOMAIN bundles : HasCommitment(bundles[i].commitments[1])

WindowInv == WindowIsRecent /\ FirstLeavesKept

(* An admission that appends leaves, the last one fresh, and records one   *)
(* root.  A bundle it adds has its first leaf in the tree, but neither     *)
(* among the old leaves nor last.                                          *)
LEMMA WindowMoves ==
    ASSUME PoolInv, PoolInv', WindowInv,
           Len(leaves) < Len(leaves'), \A i \in 1 .. Len(leaves) : leaves'[i] = leaves[i],
           leaves'[Len(leaves')] \notin ToSet(leaves),
           recentRoots' = RecordRoot(recentRoots, Len(leaves')),
           Len(txs') + Len(bundles') = Len(txs) + Len(bundles) + 1,
           \A i \in DOMAIN bundles' :
               \/ i \in DOMAIN bundles /\ bundles'[i] = bundles[i]
               \/ /\ bundles'[i].commitments[1] \in ToSet(leaves') \ ToSet(leaves)
                  /\ bundles'[i].commitments[1] # leaves'[Len(leaves')]
    PROVE  WindowInv'
<1> DEFINE before == recentRoots
           top == Len(leaves')
           after == RecordRoot(before, top)
           count == Len(txs) + Len(bundles)
           W == AnchorWindow
<1>1. /\ leaves \in Seq(Note) /\ leaves' \in Seq(Note) /\ before \in Seq(Nat)
      /\ Len(leaves) \in Nat /\ top \in Nat /\ count \in Nat /\ Len(before) \in Nat
      /\ W \in Nat /\ W > 0 /\ DOMAIN before = 1 .. Len(before)
  BY PoolAssumption DEF PoolInv, TypeOK
<1>2. /\ Len(before) = Min({W, 1 + count}) /\ Increasing(before)
      /\ \A i \in DOMAIN bundles : \A k \in ToSet(before) \ {0} :
             leaves[k] # bundles[i].commitments[1]
  <2>1. WindowIsRecent  BY DEF WindowInv
  <2>2. Len(before) = Min({W, 1 + count})
    <3>1. Len(before) = Min({W, 1 + Len(txs) + Len(bundles)})  BY <2>1 DEF WindowIsRecent
    <3>2. 1 + Len(txs) + Len(bundles) = 1 + count
      <4>1. Len(txs) \in Nat /\ Len(bundles) \in Nat  BY DEF PoolInv, TypeOK
      <4> QED BY <4>1
    <3> QED BY <3>1, <3>2
  <2>3. Increasing(before)  BY <2>1 DEF WindowIsRecent, Increasing
  <2>4. \A i \in DOMAIN bundles : \A k \in ToSet(before) \ {0} :
            leaves[k] # bundles[i].commitments[1]
    BY ONLY <2>1 DEF WindowIsRecent
  <2> QED BY <2>2, <2>3, <2>4
<1>3. Len(before) = (IF W <= 1 + count THEN W ELSE 1 + count) /\ Len(before) <= W
  BY <1>1, <1>2, MinOfPair
<1>4. \A k \in ToSet(before) : k \in Nat /\ k <= Len(leaves) /\ k < top
  BY <1>1, ToSetIndex DEF PoolInv
<1>5. \A i \in 1 .. Len(before) : before[i] < top
  BY <1>1, <1>4, ToSetIndex
<1>6. /\ Len(after) = IF Len(before) + 1 <= W THEN Len(before) + 1 ELSE W
      /\ after[Len(after)] = top /\ Increasing(after)
      /\ ToSet(after) \subseteq ToSet(before) \cup {top}
  BY <1>1, <1>2, <1>3, <1>5, RecordRootExact, RecordRootWindow
<1>7. Len(after) = Min({W, 1 + (count + 1)})
  <2> DEFINE more == 1 + (count + 1)
  <2> HIDE DEF count, W, after
  <2>1. more \in Nat  BY <1>1
  <2>2. Len(after) = IF W <= more THEN W ELSE more  BY <1>1, <1>3, <1>6
  <2> HIDE DEF more
  <2>3. Min({W, more}) = IF W <= more THEN W ELSE more
    BY <1>1, <2>1, MinOfPair
  <2>4. Len(after) = Min({W, more})  BY <2>2, <2>3
  <2> QED BY <2>4 DEF more
<1>8. \A k \in 1 .. Len(leaves) : leaves[k] \in ToSet(leaves)
  BY <1>1, ToSetIndex
<1>9. ASSUME NEW i \in DOMAIN bundles', NEW k \in ToSet(after) \ {0}
      PROVE  leaves'[k] # bundles'[i].commitments[1]
  <2>1. CASE k \in ToSet(before)
    <3>1. k \in 1 .. Len(leaves) /\ leaves'[k] = leaves[k]  BY <1>4, <1>9, <2>1
    <3> QED BY <1>2, <1>8, <1>9, <2>1, <3>1
  <2>2. CASE k = top
    <3>1. CASE i \in DOMAIN bundles /\ bundles'[i] = bundles[i]
      BY <2>2, <3>1 DEF WindowInv, FirstLeavesKept, HasCommitment
    <3>2. CASE bundles'[i].commitments[1] # leaves'[Len(leaves')]
      BY <2>2, <3>2
    <3> QED BY <3>1, <3>2
  <2> QED BY <1>6, <1>9, <2>1, <2>2
<1>10. FirstLeavesKept'
  <2>1. ToSet(leaves) \subseteq ToSet(leaves')
    <3>1. ASSUME NEW cm \in ToSet(leaves) PROVE cm \in ToSet(leaves')
      <4>1. PICK k \in 1 .. Len(leaves) : leaves[k] = cm  BY <1>1, ToSetIndex
      <4>2. k \in 1 .. Len(leaves') /\ leaves'[k] = cm  BY <1>1, <4>1
      <4> QED BY <1>1, <4>2, ToSetIndex
    <3> QED BY <3>1
  <2> QED BY <2>1 DEF WindowInv, FirstLeavesKept, HasCommitment
<1>11. recentRoots' = after /\ Len(txs') + Len(bundles') = count + 1
  OBVIOUS
<1>12. 1 + Len(txs') + Len(bundles') = 1 + (count + 1)
  <2>1. Len(txs') \in Nat /\ Len(bundles') \in Nat  BY DEF PoolInv, TypeOK
  <2> QED BY <1>1, <1>11, <2>1
<1> HIDE DEF after, top, count, W
<1>13. WindowIsRecent'
  <2>1. /\ Len(recentRoots') = Min({AnchorWindow, 1 + Len(txs') + Len(bundles')})
        /\ recentRoots'[Len(recentRoots')] = Len(leaves')
    BY <1>6, <1>7, <1>11, <1>12 DEF W, top
  <2>2. \A i \in 1 .. Len(recentRoots') - 1 : recentRoots'[i] < recentRoots'[i + 1]
    BY <1>6, <1>11 DEF Increasing
  <2> QED BY <1>9, <1>11, <2>1, <2>2 DEF WindowIsRecent, Root
<1> QED BY <1>10, <1>13 DEF WindowInv

LEMMA InitWindow == Init => WindowInv
<1> SUFFICES ASSUME Init PROVE WindowInv
  OBVIOUS
<1>1. /\ leaves = <<>> /\ recentRoots = <<0>> /\ txs = <<>> /\ bundles = <<>>
      /\ Len(recentRoots) = 1 /\ recentRoots[1] = 0 /\ DOMAIN bundles = {}
  BY DEF Init
<1>2. Min({AnchorWindow, 1}) = 1  BY PoolAssumption, MinOfPair
<1>3. 1 + Len(txs) + Len(bundles) = 1  BY <1>1
<1> QED BY <1>1, <1>2, <1>3 DEF WindowInv, WindowIsRecent, FirstLeavesKept, Root

(* One leaf and one entry of txs: mints and transfers. *)
LEMMA LeafMovesWindow ==
    ASSUME PoolInv, PoolInv', WindowInv, NEW cm \in Note, cm \notin ToSet(leaves),
           leaves' = Append(leaves, cm), recentRoots' = RecordRoot(recentRoots, Len(leaves')),
           Len(txs') = Len(txs) + 1, UNCHANGED bundles
    PROVE  WindowInv'
<1>1. /\ Len(leaves) \in Nat /\ Len(leaves') = Len(leaves) + 1 /\ leaves'[Len(leaves')] = cm
      /\ \A i \in 1 .. Len(leaves) : leaves'[i] = leaves[i]
  BY ToSetAppend DEF PoolInv, TypeOK
<1>2. Len(txs') + Len(bundles') = Len(txs) + Len(bundles) + 1
  BY DEF PoolInv, TypeOK
<1>3. Len(leaves) < Len(leaves')  BY <1>1
<1> QED BY <1>1, <1>2, <1>3, WindowMoves

LEMMA BundleMovesWindow ==
    ASSUME PoolInv, PoolInv', WindowInv, NEW b, BundleStep(b)
    PROVE  WindowInv'
<1> DEFINE c1 == b.commitments[1]
           c2 == b.commitments[2]
           half == Append(leaves, c1)
<1>1. /\ b \in Bundle /\ c1 \in Note /\ c2 \in Note /\ c1 # c2
      /\ c1 \notin ToSet(leaves) /\ c2 \notin ToSet(leaves) /\ leaves' = Append(half, c2)
  BY DEF BundleStep, BundleFacts, Bundle, HasCommitment
<1>2. /\ leaves \in Seq(Note) /\ Len(leaves) \in Nat /\ half \in Seq(Note)
      /\ Len(half) = Len(leaves) + 1 /\ \A i \in 1 .. Len(leaves) : half[i] = leaves[i]
      /\ ToSet(half) = ToSet(leaves) \cup {c1}
  BY <1>1, ToSetAppend DEF PoolInv, TypeOK
<1> HIDE DEF c1, c2, half
<1>3. /\ Len(leaves') = Len(half) + 1 /\ leaves'[Len(leaves')] = c2
      /\ \A i \in 1 .. Len(half) : leaves'[i] = half[i]
      /\ ToSet(leaves') = ToSet(half) \cup {c2}
  BY <1>1, <1>2, ToSetAppend
<1>4. /\ Len(leaves) < Len(leaves') /\ \A i \in 1 .. Len(leaves) : leaves'[i] = leaves[i]
      /\ leaves'[Len(leaves')] \notin ToSet(leaves)
  BY <1>1, <1>2, <1>3
<1>5. /\ Len(bundles') = Len(bundles) + 1 /\ bundles'[Len(bundles) + 1] = b
      /\ \A i \in 1 .. Len(bundles) : bundles'[i] = bundles[i]
      /\ DOMAIN bundles = 1 .. Len(bundles) /\ DOMAIN bundles' = 1 .. Len(bundles')
      /\ Len(bundles) \in Nat /\ Len(txs) \in Nat /\ UNCHANGED txs
  BY <1>1, ToSetAppend DEF BundleStep, PoolInv, TypeOK
<1>6. c1 \in ToSet(leaves') \ ToSet(leaves) /\ c1 # leaves'[Len(leaves')]
  BY <1>1, <1>2, <1>3
<1>7. ASSUME NEW i \in DOMAIN bundles'
      PROVE  \/ i \in DOMAIN bundles /\ bundles'[i] = bundles[i]
             \/ /\ bundles'[i].commitments[1] \in ToSet(leaves') \ ToSet(leaves)
                /\ bundles'[i].commitments[1] # leaves'[Len(leaves')]
  <2>1. CASE i \in 1 .. Len(bundles)  BY <1>5, <2>1
  <2>2. CASE i = Len(bundles) + 1  BY <1>5, <1>6, <2>2 DEF c1
  <2> QED BY <1>5, <2>1, <2>2
<1>8. recentRoots' = RecordRoot(recentRoots, Len(leaves'))  BY DEF BundleStep
<1>9. Len(txs') + Len(bundles') = Len(txs) + Len(bundles) + 1  BY <1>5
<1> QED BY <1>4, <1>7, <1>8, <1>9, WindowMoves

LEMMA NextKeepsWindow == PoolInv /\ PoolInv' /\ WindowInv /\ [Next]_vars => WindowInv'
<1> SUFFICES ASSUME PoolInv, PoolInv', WindowInv, [Next]_vars PROVE WindowInv'
  OBVIOUS
<1>1. CASE AdvanceStep \/ UNCHANGED vars
  <2>1. UNCHANGED <<leaves, recentRoots, txs, bundles>>  BY <1>1 DEF AdvanceStep, vars
  <2> QED BY <2>1 DEF WindowInv, WindowIsRecent, FirstLeavesKept, Root, HasCommitment
<1>2. TypeOK  BY DEF PoolInv
<1>3. ASSUME NEW note, MintStep(note) PROVE WindowInv'
  <2>1. /\ note \in Note /\ note \notin ToSet(leaves) /\ Len(txs') = Len(txs) + 1
        /\ leaves' = Append(leaves, note) /\ recentRoots' = RecordRoot(recentRoots, Len(leaves'))
        /\ UNCHANGED bundles
    BY <1>2, <1>3 DEF MintStep, HasCommitment, TypeOK
  <2> QED BY <2>1, LeafMovesWindow
<1>4. ASSUME NEW t, TransferStep(t) PROVE WindowInv'
  <2>1. /\ t.cmOut \in Note /\ t.cmOut \notin ToSet(leaves) /\ Len(txs') = Len(txs) + 1
        /\ leaves' = Append(leaves, t.cmOut)
        /\ recentRoots' = RecordRoot(recentRoots, Len(leaves')) /\ UNCHANGED bundles
    BY <1>2, <1>4 DEF TransferStep, TransferFacts, Tx, HasCommitment, TypeOK
  <2> QED BY <2>1, LeafMovesWindow
<1> QED BY <1>1, <1>2, <1>3, <1>4, StepCases, BundleMovesWindow

(* The window is always the roots after the last AnchorWindow admissions,  *)
(* oldest first and strictly growing, with no root from between the two    *)
(* leaves of a bundle.                                                     *)
THEOREM WindowStaysRecent == Spec => []WindowIsRecent
<1>1. WindowInv => WindowIsRecent  BY DEF WindowInv
<1> QED BY <1>1, InitWindow, PoolInvariant, NextKeepsWindow, PTL DEF Spec

-----------------------------------------------------------------------------
(* Value.  The ledger implements the two-set pool of NotePool, for every   *)
(* value of the constants: every step of ShieldedPool is a deposit, a      *)
(* balanced spend of at most two notes, or a step that moves no value.     *)
(* And per asset, what was minted is still in the pool, was paid as a fee, *)
(* or was burnt; the ledger's two totals are those sums, saturated.        *)

(* Notes a slot of value zero carries are invisible in the abstract pool.  *)
Slot(n) == IF n.amount > 0 THEN n ELSE Abs!Nothing

(* How the two sets move when fresh notes join the tree and nullifiers of  *)
(* leaves (or of valueless notes) are published.                           *)
LEMMA LiveAfter ==
    ASSUME PoolInv, NEW C \in SUBSET Note, NEW N \in SUBSET Nullifier,
           ToSet(leaves') = ToSet(leaves) \cup C, C \cap ToSet(leaves) = {},
           nullifiers' = nullifiers \cup N,
           \A nf \in N : /\ nf.nk = nf.cm.pk
                         /\ nf.cm.amount > 0 => HasCommitment(nf.cm)
    PROVE  /\ Live' = (Live \ {nf.cm : nf \in N}) \cup Valued(C)
           /\ Dead' = Dead \cup Valued({nf.cm : nf \in N})
<1> DEFINE S == {nf.cm : nf \in N}
<1>1. ToSet(leaves) \subseteq Note  BY ToSetIndex DEF PoolInv, TypeOK
<1>2. ASSUME NEW n \in Note PROVE Nullify(n.pk, n) \in N <=> n \in S
  <2>1. ASSUME NEW nf \in N PROVE nf = Nullify(nf.cm.pk, nf.cm)
    BY DEF Nullify, Nullifier
  <2>2. Nullify(n.pk, n).cm = n  BY DEF Nullify
  <2> QED BY <2>1, <2>2
<1>3. ASSUME NEW n \in Note PROVE IsUnspent(n)' <=> IsUnspent(n) /\ n \notin S
  BY <1>2 DEF IsUnspent, Unspent, Nullify
<1>4. ASSUME NEW n \in C, n.amount > 0 PROVE IsUnspent(n)'
  <2>1. ~HasCommitment(n) /\ Nullify(n.pk, n).cm = n  BY DEF HasCommitment, Nullify
  <2>2. n \notin S  BY <1>4, <2>1
  <2>3. IsUnspent(n)  BY <1>4, <2>1 DEF PoolInv, IsUnspent, Unspent
  <2> QED BY <1>3, <2>2, <2>3
<1>5. \A n \in S : n.amount > 0 => n \in ToSet(leaves)
  BY DEF HasCommitment
<1> HIDE DEF S
<1>6. Live' = (Live \ S) \cup Valued(C)
  BY <1>1, <1>3, <1>4 DEF Live, Valued
<1>7. Dead' = Dead \cup Valued(S)
  BY <1>1, <1>3, <1>4, <1>5 DEF Live, Dead, Valued
<1> QED BY <1>6, <1>7 DEF S

(* A chain entry adds to the deposits exactly when it is a mint. *)
LEMMA DepositedAfter ==
    ASSUME txs \in Seq(Tx), NEW t \in Tx, txs' = Append(txs, t)
    PROVE  Deposited' = Deposited \cup (IF t.nf = None THEN Valued({t.cmOut}) ELSE {})
<1> DEFINE Of(s) == {s[i].cmOut : i \in {j \in DOMAIN s : s[j].nf = None}}
           more == IF t.nf = None THEN {t.cmOut} ELSE {}
<1>1. /\ DOMAIN Append(txs, t) = DOMAIN txs \cup {Len(txs) + 1}
      /\ Len(txs) + 1 \notin DOMAIN txs
      /\ \A i \in DOMAIN txs : Append(txs, t)[i] = txs[i]
      /\ Append(txs, t)[Len(txs) + 1] = t
  BY DEF Tx
<1>2. Of(Append(txs, t)) \subseteq Of(txs) \cup more
  BY <1>1
<1>3. Of(txs) \subseteq Of(Append(txs, t))
  BY <1>1
<1>4. more \subseteq Of(Append(txs, t))
  BY <1>1
<1>5. Of(Append(txs, t)) = Of(txs) \cup more
  BY <1>2, <1>3, <1>4
<1>6. Deposited = Valued(Of(txs)) /\ Deposited' = Valued(Of(Append(txs, t)))
  BY DEF Deposited, Valued
<1> QED BY <1>5, <1>6 DEF Valued

LEMMA InitRefines == Init => Abs!PoolInit
<1> SUFFICES ASSUME Init PROVE Abs!PoolInit
  OBVIOUS
<1>1. ToSet(leaves) = {}  BY DEF Init, ToSet
<1>2. Deposited = {}  BY DEF Init, Deposited, Valued
<1> QED BY <1>1, <1>2 DEF Init, Abs!PoolInit, Live, Dead, Valued

(* A mint puts its note into the pool, unless it carries no value. *)
LEMMA MintMoves ==
    ASSUME PoolInv, NEW note, MintStep(note)
    PROVE  /\ note \in Note /\ note.amount < U63 /\ note \notin ToSet(leaves)
           /\ Live' = Live \cup Valued({note}) /\ Dead' = Dead
<1>1. /\ note \in Note /\ note.amount < U63 /\ note \notin ToSet(leaves)
      /\ ToSet(leaves') = ToSet(leaves) \cup {note}
  BY ToSetAppend DEF MintStep, HasCommitment, PoolInv, TypeOK
<1> DEFINE N == {}
<1>2. /\ {note} \in SUBSET Note /\ {note} \cap ToSet(leaves) = {}
      /\ N \in SUBSET Nullifier /\ nullifiers' = nullifiers \cup N
  BY <1>1 DEF MintStep
<1>3. /\ Live' = (Live \ {nf.cm : nf \in N}) \cup Valued({note})
      /\ Dead' = Dead \cup Valued({nf.cm : nf \in N})
  BY <1>1, <1>2, LiveAfter
<1> QED BY <1>1, <1>3 DEF Valued

(* A mint deposits its note, or nothing when the note carries no value. *)
LEMMA MintRefines ==
    ASSUME PoolInv, NEW note, MintStep(note)
    PROVE  Abs!PoolNext \/ UNCHANGED Abs!poolVars
<1>1. note \in Note /\ note.amount < U63 /\ note \notin ToSet(leaves)
  BY MintMoves
<1>2. Live' = Live \cup Valued({note}) /\ Dead' = Dead
  BY MintMoves
<1>3. /\ feesCollected' = feesCollected /\ burned' = burned
      /\ Deposited' = Deposited \cup Valued({note})
  <2> DEFINE t == [anchor |-> None, nf |-> None, cmOut |-> note, time |-> note.time]
  <2>1. t \in Tx  BY <1>1 DEF Tx, Note
  <2>2. t.nf = None /\ t.cmOut = note /\ txs' = Append(txs, t)  BY DEF MintStep
  <2> HIDE DEF t
  <2>3. Deposited' = Deposited \cup Valued({note})
    BY <2>1, <2>2, DepositedAfter DEF PoolInv, TypeOK
  <2> QED BY <2>3 DEF MintStep
<1>4. CASE note.amount > 0
  <2>1. note \in Live' /\ Live' = Live \cup {note}  BY <1>2, <1>4 DEF Valued
  <2>2. note \notin Live /\ note \notin Dead  BY <1>1 DEF Live, Dead, Valued
  <2>3. note.amount + note.amount < U64
    <3>1. note.amount \in Nat  BY <1>1, NoteFacts, AmountFacts
    <3> QED BY <1>1, <3>1, AmountFacts
  <2>4. Deposited' = Deposited \cup {note}  BY <1>3, <1>4 DEF Valued
  <2>5. Abs!Deposit(note)
    BY <1>2, <1>3, <2>1, <2>2, <2>3, <2>4 DEF Abs!Deposit, Abs!Unused, Abs!InRange
  <2> QED BY <2>1, <2>2, <2>5 DEF Abs!PoolNext
<1>5. CASE ~(note.amount > 0)
  BY <1>2, <1>3, <1>5 DEF Valued, Abs!poolVars
<1> QED BY <1>4, <1>5

(* A balanced step over two slots of each kind is an abstract spend. *)
LEMMA SpendRefines ==
    ASSUME NEW i1 \in Live \cup {Abs!Nothing}, NEW i2 \in Live \cup {Abs!Nothing},
           NEW o1 \in Live' \cup {Abs!Nothing}, NEW o2 \in Live' \cup {Abs!Nothing},
           i1.amount \in Nat, i2.amount \in Nat, o1.amount \in Nat, o2.amount \in Nat,
           NEW fee \in Nat, NEW burn \in Nat,
           Abs!Spend(i1, i2, o1, o2, fee, burn)
    PROVE  Abs!PoolNext
<1>1. i1.amount + i2.amount = o1.amount + o2.amount + fee + burn
  BY DEF Abs!Spend
<1>2. fee \in 0 .. i1.amount + i2.amount /\ burn \in 0 .. i1.amount + i2.amount
  BY <1>1
<1>3. /\ \A n \in Live \cup Live' : n.amount > 0
      /\ Abs!Nothing.amount = 0
  BY DEF Live, Valued, Abs!Nothing
<1>4. /\ Live' = (Live \ {i1, i2}) \cup Abs!Valued({o1, o2})
      /\ \A n \in Abs!Valued({o1, o2}) : n \notin Live
      /\ \A n \in {o1, o2} : n.amount > 0 => n \in Abs!Valued({o1, o2})
  BY DEF Abs!Spend, Abs!Unused, Abs!Valued
<1>5. \A n \in {i1, i2} : n \in Live => n \notin Live'
  BY <1>4
<1>6. \A n \in {o1, o2} : n \in Live' => n \notin Live
  BY <1>3, <1>4
<1>7. /\ i1 \in (Live \ Live') \cup {Abs!Nothing} /\ i2 \in (Live \ Live') \cup {Abs!Nothing}
      /\ o1 \in (Live' \ Live) \cup {Abs!Nothing} /\ o2 \in (Live' \ Live) \cup {Abs!Nothing}
  BY <1>5, <1>6
<1> QED BY <1>2, <1>7 DEF Abs!PoolNext

(* What the slots of an admission contribute to the two sets. *)
LEMMA SlotFacts ==
    ASSUME NEW n \in Note
    PROVE  /\ Slot(n).amount = n.amount /\ n.amount \in Nat
           /\ n.amount > 0 => Slot(n) = n
           /\ n.amount = 0 => Slot(n) = Abs!Nothing
           /\ Slot(n) = Abs!Nothing => n.amount = 0
<1>1. n.amount \in Nat  BY NoteFacts, AmountFacts
<1>2. Abs!Nothing.amount = 0  BY DEF Abs!Nothing
<1> QED BY <1>1, <1>2 DEF Slot

(* A transfer replaces a note of the pool by one of the same worth. *)
LEMMA TransferMoves ==
    ASSUME PoolInv, NEW t, TransferStep(t)
    PROVE  /\ t.nf \in Nullifier /\ t.nf.cm \in Note /\ t.cmOut \in Note
           /\ t.cmOut.amount = t.nf.cm.amount /\ t.cmOut.asset = t.nf.cm.asset
           /\ t.cmOut \notin ToSet(leaves)
           /\ t.nf.cm.amount > 0 => t.nf.cm \in Live
           /\ Live' = (Live \ {t.nf.cm}) \cup Valued({t.cmOut})
           /\ Dead' = Dead \cup Valued({t.nf.cm})
<1> DEFINE i == t.nf.cm
           o == t.cmOut
<1>1. /\ t.nf \in Nullifier /\ i \in Note /\ o \in Note /\ t.nf.nk = i.pk
      /\ o.amount = i.amount /\ o.asset = i.asset /\ t.nf = Nullify(i.pk, i)
      /\ o \notin ToSet(leaves) /\ ToSet(leaves') = ToSet(leaves) \cup {o}
  BY ToSetAppend DEF TransferStep, TransferFacts, Tx, Nullifier, Nullify, HasCommitment, PoolInv, TypeOK
<1>2. i.amount > 0 => i \in Live
  <2>1. HasCommitment(i)
    <3>1. t.anchor <= Len(leaves) /\ t.anchor \in Nat
      BY DEF TransferStep, TransferFacts, KnownAnchor, PoolInv
    <3> QED BY <3>1, ToSetIndex DEF TransferStep, TransferFacts, IsLeafUnder, HasCommitment,
            PoolInv, TypeOK
  <2>2. IsUnspent(i)  BY <1>1 DEF IsUnspent, TransferStep, TransferFacts
  <2> QED BY <2>1, <2>2 DEF Live, Valued, HasCommitment
<1>3. /\ Live' = (Live \ {i}) \cup Valued({o})
      /\ Dead' = Dead \cup Valued({i})
  <2> DEFINE N == {t.nf}
  <2>1. /\ {o} \in SUBSET Note /\ {o} \cap ToSet(leaves) = {}
        /\ N \in SUBSET Nullifier /\ nullifiers' = nullifiers \cup N
    BY <1>1 DEF TransferStep
  <2>2. \A nf \in N : nf.nk = nf.cm.pk /\ (nf.cm.amount > 0 => HasCommitment(nf.cm))
    BY <1>1, <1>2 DEF Live, Valued, HasCommitment
  <2>3. /\ Live' = (Live \ {nf.cm : nf \in N}) \cup Valued({o})
        /\ Dead' = Dead \cup Valued({nf.cm : nf \in N})
    BY <1>1, <2>1, <2>2, LiveAfter
  <2>4. {nf.cm : nf \in N} = {i}  OBVIOUS
  <2> QED BY <2>3, <2>4
<1> QED BY <1>1, <1>2, <1>3

(* An admitted transfer spends its note for one of the same worth. *)
LEMMA TransferRefines ==
    ASSUME PoolInv, PoolInv', NEW t, TransferStep(t)
    PROVE  Abs!PoolNext
<1> DEFINE i == t.nf.cm
           o == t.cmOut
<1>1. /\ t.nf \in Nullifier /\ i \in Note /\ o \in Note
      /\ o.amount = i.amount /\ o.asset = i.asset /\ o \notin ToSet(leaves)
  BY TransferMoves
<1>2. i.amount > 0 => i \in Live
  BY TransferMoves
<1>3. /\ Live' = (Live \ {i}) \cup Valued({o})
      /\ Dead' = Dead \cup Valued({i})
  BY TransferMoves
<1>4a. o \in ToSet(leaves')
  BY ToSetAppend DEF TransferStep, TransferFacts, Tx, PoolInv, TypeOK
<1>4. /\ feesCollected' = SatAdd(feesCollected, 0) /\ burned' = SatAdd(burned, 0)
      /\ Deposited' = Deposited
  <2>1. t \in Tx /\ t.nf # None /\ txs' = Append(txs, t)
    BY PoolAssumption DEF TransferStep, TransferFacts
  <2>2. Deposited' = Deposited
    BY <2>1, DepositedAfter DEF PoolInv, TypeOK
  <2>3. feesCollected \in Amount /\ burned \in Amount
    BY DEF PoolInv, TypeOK
  <2>4. \A a \in Amount : SatAdd(a, 0) = a
    BY AmountFacts DEF SatAdd
  <2>5. feesCollected' = feesCollected /\ burned' = burned
    BY DEF TransferStep
  <2> QED BY <2>2, <2>3, <2>4, <2>5
<1>5. o.amount > 0 => o.amount < U63 /\ o \notin Live /\ o \notin Dead
  <2>1. o.amount < U63
    BY <1>1, <1>4a, NoteFacts, RangeFacts DEF PoolInv, EveryLeafSpendable
  <2> QED BY <1>1, <2>1 DEF Live, Dead, Valued
<1> HIDE DEF i, o
<1>6. /\ Slot(i) \in Live \cup {Abs!Nothing} /\ Slot(o) \in Live' \cup {Abs!Nothing}
      /\ Slot(i).amount = i.amount /\ Slot(o).amount = o.amount /\ i.amount \in Nat
      /\ Abs!Nothing.amount = 0
  BY <1>1, <1>2, <1>3, SlotFacts DEF Valued, Abs!Nothing
<1>7. Abs!Spend(Slot(i), Abs!Nothing, Slot(o), Abs!Nothing, 0, 0)
  <2>1. Slot(i).amount + Abs!Nothing.amount = Slot(o).amount + Abs!Nothing.amount + 0 + 0
    BY <1>1, <1>6
  <2>2. \A n \in Abs!Valued({Slot(o), Abs!Nothing}) : Abs!Unused(n) /\ Abs!InRange(n)
    BY <1>1, <1>5, <1>6, SlotFacts, AmountFacts DEF Abs!Valued, Abs!Unused, Abs!InRange
  <2>3. \A m, n \in Abs!Valued({Slot(i), Abs!Nothing, Slot(o)}) : m.asset = n.asset
    BY <1>1, <1>6, SlotFacts DEF Abs!Valued
  <2>4. Live' = (Live \ {Slot(i), Abs!Nothing}) \cup Abs!Valued({Slot(o), Abs!Nothing})
    BY <1>1, <1>3, <1>6, SlotFacts DEF Live, Valued, Abs!Valued
  <2>5. Dead' = Dead \cup Abs!Valued({Slot(i), Abs!Nothing})
    BY <1>1, <1>3, <1>6, SlotFacts DEF Valued, Abs!Valued
  <2> QED BY <1>4, <2>1, <2>2, <2>3, <2>4, <2>5 DEF Abs!Spend, Abs!SatAdd, SatAdd, Abs!Valued
<1> QED BY <1>1, <1>6, <1>7, SpendRefines

(* A bundle replaces its valued inputs by its valued outputs, all of one    *)
(* asset, and balances.                                                    *)
BundleMove(b, i1, i2, o1, o2) ==
    /\ b \in Bundle /\ b.fee \in Amount /\ b.burn \in Amount
    /\ i1 \in Note /\ i2 \in Note /\ o1 \in Note /\ o2 \in Note /\ i1 # i2 /\ o1 # o2
    /\ o1 \notin ToSet(leaves) /\ o2 \notin ToSet(leaves)
    /\ i1.amount > 0 => i1 \in Live /\ i1.asset = b.asset
    /\ i2.amount > 0 => i2 \in Live /\ i2.asset = b.asset
    /\ o1.asset = b.asset /\ o2.asset = b.asset /\ o1.amount < U63 /\ o2.amount < U63
    /\ i1.amount + i2.amount = o1.amount + o2.amount + b.fee + b.burn
    /\ b.asset # Native => b.fee = 0
    /\ Live' = (Live \ {i1, i2}) \cup Valued({o1, o2})
    /\ Dead' = Dead \cup Valued({i1, i2})

LEMMA BundleMoves ==
    ASSUME PoolInv, NEW b, BundleStep(b)
    PROVE  BundleMove(b, b.nullifiers[1].cm, b.nullifiers[2].cm, b.commitments[1], b.commitments[2])
<1> DEFINE nf1 == b.nullifiers[1]
           nf2 == b.nullifiers[2]
           i1 == nf1.cm
           i2 == nf2.cm
           o1 == b.commitments[1]
           o2 == b.commitments[2]
<1>1. /\ nf1 \in Nullifier /\ nf2 \in Nullifier /\ nf1.nk = i1.pk /\ nf2.nk = i2.pk /\ nf1 # nf2
      /\ i1 \in Note /\ i2 \in Note /\ o1 \in Note /\ o2 \in Note /\ o1 # o2
      /\ b.fee \in Amount /\ b.burn \in Amount
      /\ o1 \notin ToSet(leaves) /\ o2 \notin ToSet(leaves)
      /\ Unspent(nf1) /\ Unspent(nf2)
  BY DEF BundleStep, BundleFacts, Bundle, Nullifier, HasCommitment
<1>2. /\ nf1 = Nullify(i1.pk, i1) /\ nf2 = Nullify(i2.pk, i2) /\ i1 # i2
  <2>1. nf1 = Nullify(i1.pk, i1) /\ nf2 = Nullify(i2.pk, i2)
    BY <1>1 DEF Nullifier, Nullify
  <2> QED BY <1>1, <2>1
<1>3. ToSet(leaves') = ToSet(leaves) \cup {o1, o2}
  <2> DEFINE half == Append(leaves, o1)
  <2>1. leaves \in Seq(Note)  BY DEF PoolInv, TypeOK
  <2>2. half \in Seq(Note) /\ ToSet(half) = ToSet(leaves) \cup {o1}  BY <1>1, <2>1, ToSetAppend
  <2>3. leaves' = Append(half, o2)  BY DEF BundleStep
  <2> HIDE DEF half
  <2>4. ToSet(Append(half, o2)) = ToSet(half) \cup {o2}  BY <1>1, <2>2, ToSetAppend
  <2> QED BY <2>2, <2>3, <2>4
<1>4. \A s \in 1 .. 2 : b.nullifiers[s].cm.amount > 0 =>
          HasCommitment(b.nullifiers[s].cm) /\ b.nullifiers[s].cm.asset = b.asset
  <2>1. b.anchor <= Len(leaves) /\ b.anchor \in Nat
    BY DEF BundleStep, BundleFacts, KnownAnchor, PoolInv, Bundle
  <2>2. ASSUME NEW cm, IsLeafUnder(cm, b.anchor) PROVE HasCommitment(cm)
    BY <2>1, <2>2, ToSetIndex DEF IsLeafUnder, HasCommitment, PoolInv, TypeOK
  <2>3. \A s \in 1 .. 2 : b.nullifiers[s].cm.amount \in Nat
    <3>1. \A s \in 1 .. 2 : b.nullifiers[s] \in Nullifier
      BY DEF BundleStep, BundleFacts, Bundle
    <3> QED BY <3>1, NoteFacts, AmountFacts DEF Nullifier
  <2> QED BY <2>2, <2>3 DEF BundleStep, BundleFacts
<1>5. /\ i1.amount > 0 => i1 \in Live /\ i1.asset = b.asset
      /\ i2.amount > 0 => i2 \in Live /\ i2.asset = b.asset
  BY <1>1, <1>2, <1>4 DEF Live, Valued, IsUnspent, HasCommitment
<1>6. /\ o1.asset = b.asset /\ o2.asset = b.asset /\ o1.amount < U63 /\ o2.amount < U63
      /\ i1.amount + i2.amount = o1.amount + o2.amount + b.fee + b.burn
      /\ b.asset # Native => b.fee = 0
  BY DEF BundleStep, BundleFacts, FeeIsNative
<1>7. /\ Live' = (Live \ {i1, i2}) \cup Valued({o1, o2})
      /\ Dead' = Dead \cup Valued({i1, i2})
  <2> DEFINE N == {nf1, nf2}
             C == {o1, o2}
  <2>1. /\ C \in SUBSET Note /\ C \cap ToSet(leaves) = {} /\ ToSet(leaves') = ToSet(leaves) \cup C
        /\ N \in SUBSET Nullifier /\ nullifiers' = nullifiers \cup N
    BY <1>1, <1>3 DEF BundleStep
  <2>2. \A nf \in N : nf.nk = nf.cm.pk /\ (nf.cm.amount > 0 => HasCommitment(nf.cm))
    BY <1>1, <1>4
  <2>3. {nf.cm : nf \in N} = {i1, i2}  OBVIOUS
  <2> HIDE DEF N, C
  <2>4. /\ Live' = (Live \ {nf.cm : nf \in N}) \cup Valued(C)
        /\ Dead' = Dead \cup Valued({nf.cm : nf \in N})
    BY <2>1, <2>2, LiveAfter
  <2> QED BY <2>3, <2>4 DEF C
<1>8. b \in Bundle  BY DEF BundleStep, BundleFacts
<1> QED BY <1>1, <1>2, <1>5, <1>6, <1>7, <1>8 DEF BundleMove

(* An admitted bundle spends its valued inputs for its valued outputs.     *)
LEMMA BundleRefines ==
    ASSUME PoolInv, PoolInv', NEW b, BundleStep(b)
    PROVE  Abs!PoolNext
<1> DEFINE i1 == b.nullifiers[1].cm
           i2 == b.nullifiers[2].cm
           o1 == b.commitments[1]
           o2 == b.commitments[2]
<1>0. BundleMove(b, i1, i2, o1, o2)  BY BundleMoves
<1>1. /\ i1 \in Note /\ i2 \in Note /\ o1 \in Note /\ o2 \in Note /\ i1 # i2 /\ o1 # o2
      /\ b.fee \in Amount /\ b.burn \in Amount
      /\ o1 \notin ToSet(leaves) /\ o2 \notin ToSet(leaves)
  BY <1>0 DEF BundleMove
<1>5. /\ i1.amount > 0 => i1 \in Live /\ i1.asset = b.asset
      /\ i2.amount > 0 => i2 \in Live /\ i2.asset = b.asset
  BY <1>0 DEF BundleMove
<1>6. /\ o1.asset = b.asset /\ o2.asset = b.asset /\ o1.amount < U63 /\ o2.amount < U63
      /\ i1.amount + i2.amount = o1.amount + o2.amount + b.fee + b.burn
      /\ b.asset # Native => b.fee = 0
  BY <1>0 DEF BundleMove
<1>7. /\ Live' = (Live \ {i1, i2}) \cup Valued({o1, o2})
      /\ Dead' = Dead \cup Valued({i1, i2})
  BY <1>0 DEF BundleMove
<1>8. \A o \in {o1, o2} : o.amount > 0 => o \notin Live /\ o \notin Dead
  BY <1>1 DEF Live, Dead, Valued
<1>9. /\ feesCollected' = SatAdd(feesCollected, b.fee) /\ burned' = SatAdd(burned, b.burn)
      /\ Deposited' = Deposited
  BY DEF BundleStep, Deposited
<1> HIDE DEF i1, i2, o1, o2
<1>10. /\ Slot(i1) \in Live \cup {Abs!Nothing} /\ Slot(i2) \in Live \cup {Abs!Nothing}
       /\ Slot(o1) \in Live' \cup {Abs!Nothing} /\ Slot(o2) \in Live' \cup {Abs!Nothing}
       /\ \A n \in {i1, i2, o1, o2} : Slot(n).amount = n.amount /\ n.amount \in Nat
       /\ Abs!Nothing.amount = 0
  BY <1>1, <1>5, <1>7, SlotFacts DEF Valued, Abs!Nothing
<1>11. Abs!Spend(Slot(i1), Slot(i2), Slot(o1), Slot(o2), b.fee, b.burn)
  <2>1. /\ Slot(i1) = Slot(i2) => Slot(i1) = Abs!Nothing
        /\ Slot(o1) = Slot(o2) => Slot(o1) = Abs!Nothing
    BY <1>1 DEF Slot
  <2>2. \A o \in Abs!Valued({Slot(o1), Slot(o2)}) : Abs!Unused(o) /\ Abs!InRange(o)
    BY <1>1, <1>6, <1>8, <1>10, SlotFacts, AmountFacts DEF Abs!Valued, Abs!Unused, Abs!InRange
  <2>3. \A n \in Abs!Valued({Slot(i1), Slot(i2), Slot(o1), Slot(o2)}) : n.asset = b.asset
    BY <1>1, <1>5, <1>6, <1>10, SlotFacts DEF Abs!Valued
  <2>4. b.fee > 0 => \A n \in Abs!Valued({Slot(i1), Slot(i2)}) : n.asset = Native
    BY <1>6, <2>3 DEF Abs!Valued
  <2>5. Slot(i1).amount + Slot(i2).amount = Slot(o1).amount + Slot(o2).amount + b.fee + b.burn
    BY <1>6, <1>10
  <2>6. Live' = (Live \ {Slot(i1), Slot(i2)}) \cup Abs!Valued({Slot(o1), Slot(o2)})
    BY <1>1, <1>7, <1>10, SlotFacts DEF Live, Valued, Abs!Valued
  <2>7. Dead' = Dead \cup Abs!Valued({Slot(i1), Slot(i2)})
    BY <1>1, <1>7, <1>10, SlotFacts DEF Valued, Abs!Valued
  <2> QED BY <1>9, <2>1, <2>2, <2>3, <2>4, <2>5, <2>6, <2>7 DEF Abs!Spend, Abs!SatAdd, SatAdd
<1>12. b.fee \in Nat /\ b.burn \in Nat  BY <1>1, AmountFacts
<1> QED BY <1>10, <1>11, <1>12, SpendRefines

(* Every step of the ledger is a step of the two-set pool, or a stutter. *)
LEMMA StepRefines == PoolInv /\ PoolInv' /\ [Next]_vars => [Abs!PoolNext]_(Abs!poolVars)
<1> SUFFICES ASSUME PoolInv, PoolInv', [Next]_vars
             PROVE  Abs!PoolNext \/ UNCHANGED Abs!poolVars
  OBVIOUS
<1>1. CASE AdvanceStep
  BY <1>1 DEF AdvanceStep, Abs!poolVars, Live, Dead, Deposited, IsUnspent, Unspent
<1>2. CASE UNCHANGED vars
  BY <1>2 DEF vars, Abs!poolVars, Live, Dead, Deposited, IsUnspent, Unspent
<1>3. TypeOK  BY DEF PoolInv
<1> QED BY <1>1, <1>2, <1>3, StepCases, MintRefines, TransferRefines, BundleRefines

(* The ledger of trees, roots, nullifiers and proofs implements the pool   *)
(* of two sets: no note is spent twice or before it exists, and value is   *)
(* created by mints only.                                                  *)
THEOREM LedgerImplementsPool == Spec => ImplementsNotePool
BY InitRefines, PoolInvariant, StepRefines, PTL DEF Spec, ImplementsNotePool, Abs!PoolSpec


-----------------------------------------------------------------------------
(* Sums of amounts of notes. *)

AmountOf == [n \in Note |-> n.amount]
Worth(S) == SumFunctionOnSet(AmountOf, S)

LEMMA AmountOfNote == \A n \in Note : AmountOf[n] = n.amount /\ n.amount \in Nat
BY NoteFacts, AmountFacts DEF AmountOf

LEMMA WorthType ==
    ASSUME NEW S \in SUBSET Note, IsFiniteSet(S)
    PROVE  Worth(S) \in Nat
<1>1. \A n \in S : AmountOf[n] \in Nat  BY AmountOfNote
<1> QED BY <1>1, SumNat DEF Worth

(* A fresh note adds its amount, be it zero. *)
LEMMA WorthPut ==
    ASSUME NEW S \in SUBSET Note, IsFiniteSet(S), NEW n \in Note, n \notin S
    PROVE  /\ S \cup Valued({n}) \in SUBSET Note /\ IsFiniteSet(S \cup Valued({n}))
           /\ Worth(S \cup Valued({n})) = Worth(S) + n.amount
<1>1. n.amount \in Nat /\ AmountOf[n] = n.amount /\ Worth(S) \in Nat
  BY AmountOfNote, WorthType
<1> DEFINE T == S \cup Valued({n})
<1>2. CASE n.amount = 0
  <2>1. T = S  BY <1>2 DEF Valued
  <2> HIDE DEF T
  <2>2. Worth(T) = Worth(S)  BY <2>1
  <2>3. Worth(T) = Worth(S) + n.amount  BY <1>1, <1>2, <2>2
  <2>4. T \in SUBSET Note /\ IsFiniteSet(T)  BY <2>1
  <2> QED BY <2>3, <2>4 DEF T
<1>3. CASE n.amount > 0
  <2>1. T = S \cup {n}  BY <1>3 DEF Valued
  <2>2. \A m \in S \cup {n} : AmountOf[m] \in Int  BY AmountOfNote
  <2>3. Worth(S \cup {n}) = Worth(S) + AmountOf[n]  BY <2>2, SumAdd DEF Worth
  <2>4. IsFiniteSet(S \cup {n})  BY FS_AddElement
  <2> HIDE DEF T
  <2>5. Worth(T) = Worth(S) + n.amount  BY <1>1, <2>1, <2>3
  <2>6. T \in SUBSET Note /\ IsFiniteSet(T)  BY <2>1, <2>4
  <2> QED BY <2>5, <2>6 DEF T
<1>4. n.amount = 0 \/ n.amount > 0  BY <1>1
<1> QED BY <1>2, <1>3, <1>4

(* A note taken out takes its amount with it; one of amount zero need not  *)
(* have been there.                                                        *)
LEMMA WorthTake ==
    ASSUME NEW S \in SUBSET Note, IsFiniteSet(S), NEW n \in Note, n.amount > 0 => n \in S
    PROVE  /\ S \ {n} \in SUBSET Note /\ IsFiniteSet(S \ {n})
           /\ Worth(S) = Worth(S \ {n}) + n.amount
<1>1. n.amount \in Nat /\ AmountOf[n] = n.amount /\ Worth(S) \in Nat
  BY AmountOfNote, WorthType
<1>2. IsFiniteSet(S \ {n})  BY FS_RemoveElement
<1>3. CASE n \in S
  <2>1. \A m \in S : AmountOf[m] \in Int  BY AmountOfNote
  <2>2. Worth(S) = Worth(S \ {n}) + AmountOf[n]  BY <1>3, <2>1, SumRemove DEF Worth
  <2> QED BY <1>1, <1>2, <2>2
<1>4. CASE n \notin S
  <2>1. S \ {n} = S /\ n.amount = 0  BY <1>1, <1>4
  <2> QED BY <1>1, <1>2, <2>1
<1> QED BY <1>3, <1>4

-----------------------------------------------------------------------------
(* What is in the pool, by asset. *)

LiveOf(a) == {n \in Live : n.asset = a}

LEMMA LiveOfFinite ==
    ASSUME TypeOK
    PROVE  /\ IsFiniteSet(ToSet(leaves)) /\ ToSet(leaves) \in SUBSET Note
           /\ \A a : IsFiniteSet(LiveOf(a)) /\ LiveOf(a) \in SUBSET Note
<1>1. ToSet(leaves) \in SUBSET Note  BY ToSetIndex DEF TypeOK
<1>2. IsFiniteSet(ToSet(leaves))
  <2>1. Len(leaves) \in Nat /\ IsFiniteSet(1 .. Len(leaves))  BY FS_Interval DEF TypeOK
  <2>2. leaves \in [1 .. Len(leaves) -> ToSet(leaves)]  BY DEF TypeOK, ToSet
  <2>3. \A x \in ToSet(leaves) : \E i \in 1 .. Len(leaves) : leaves[i] = x
    BY ToSetIndex DEF TypeOK
  <2>4. leaves \in Surjection(1 .. Len(leaves), ToSet(leaves))
    BY <2>2, <2>3 DEF Surjection
  <2> QED BY <2>1, <2>4, FS_Surjection
<1>3. \A a : LiveOf(a) \subseteq ToSet(leaves)  BY DEF LiveOf, Live, Valued
<1> QED BY <1>1, <1>2, <1>3, FS_Subset

(* Notes of amount zero aside, what is in the pool is what is live. *)
LEMMA InPoolIsWorth ==
    ASSUME TypeOK, NEW a
    PROVE  InPool(a) = Worth(LiveOf(a))
<1> DEFINE held == {m \in ToSet(leaves) : m.asset = a /\ IsUnspent(m)}
           f == [n \in held |-> n.amount]
           idle == {m \in held : m.amount = 0}
<1>1. held \subseteq ToSet(leaves) /\ held \in SUBSET Note /\ IsFiniteSet(held)
  BY LiveOfFinite, FS_Subset
<1>2. InPool(a) = SumFunctionOnSet(f, held) /\ \A n \in held : f[n] = n.amount
  BY DEF InPool, SumFunction
<1>3. \A n : n \in LiveOf(a) <=> n \in held /\ n.amount > 0
  BY DEF LiveOf, Live, Valued
<1> HIDE DEF held, f
<1>4. ASSUME NEW n \in held PROVE n.amount \in Nat /\ AmountOf[n] = n.amount
  BY <1>1, AmountOfNote
<1>5. SumFunctionOnSet(f, held) = Worth(held)
  <2>1. \A n \in held : f[n] \in Int /\ f[n] = AmountOf[n]  BY <1>2, <1>4
  <2> QED BY <1>1, <2>1, SumSame DEF Worth
<1>6. Worth(held) = Worth(held \ idle)
  <2>1. idle \in SUBSET held /\ \A n \in idle : AmountOf[n] = 0  BY <1>4
  <2>2. \A n \in held : AmountOf[n] \in Int  BY <1>4
  <2> HIDE DEF idle
  <2> QED BY <1>1, <2>1, <2>2, SumZeros DEF Worth
<1>7. held \ idle = LiveOf(a)
  <2>1. ASSUME NEW n \in held PROVE n \in idle <=> ~(n.amount > 0)  BY <1>4
  <2> HIDE DEF idle
  <2> QED BY <1>3, <2>1
<1> QED BY <1>2, <1>5, <1>6, <1>7

-----------------------------------------------------------------------------
(* What the two sequences of admissions add up to. *)

LEMMA MintedAfter ==
    ASSUME TypeOK, NEW t \in Tx, txs' = Append(txs, t), NEW a
    PROVE  /\ Minted(a) \in Nat
           /\ Minted(a)' = Minted(a)
                  + IF t.nf = None /\ t.cmOut.asset = a THEN t.cmOut.amount ELSE 0
<1> DEFINE n == Len(txs)
           k == n + 1
           D == MintsOf(a)
           f == [i \in D |-> txs[i].cmOut.amount]
           e == [i \in D' |-> txs'[i].cmOut.amount]
           new == t.nf = None /\ t.cmOut.asset = a
           x == IF new THEN t.cmOut.amount ELSE 0
<1>1. /\ n \in Nat /\ Len(txs') = n + 1 /\ txs'[n + 1] = t /\ DOMAIN txs = 1 .. n
      /\ DOMAIN txs' = 1 .. n + 1 /\ \A i \in 1 .. n : txs'[i] = txs[i] /\ txs[i] \in Tx
  BY ToSetAppend DEF TypeOK
<1>2. /\ D \in SUBSET (1 .. n) /\ \A i \in D : f[i] = txs[i].cmOut.amount
      /\ \A i \in D' : e[i] = txs'[i].cmOut.amount
      /\ Minted(a) = SumFunctionOnSet(f, D) /\ Minted(a)' = SumFunctionOnSet(e, D')
  BY <1>1 DEF Minted, SumFunction, MintsOf
<1>3. D' = D \cup {i \in {n + 1} : new}
  BY <1>1 DEF MintsOf
<1>4. t.cmOut.amount \in Nat /\ \A i \in 1 .. n : txs[i].cmOut.amount \in Nat
  BY <1>1, AmountOfNote DEF Tx
<1> HIDE DEF D, n, new
<1>5. /\ x \in Nat /\ (new => x = t.cmOut.amount) /\ (~new => x = 0)
      /\ k = n + 1 /\ k \notin D /\ IsFiniteSet(D)
  <2>1. n \in Nat  BY <1>1
  <2>2. IsFiniteSet(1 .. n) /\ k \notin 1 .. n  BY <2>1, PlacesGrow
  <2> QED BY <1>2, <1>4, <2>2, FS_Subset
<1> HIDE DEF k
<1>6. (D' = D \cup {k} /\ new) \/ (D' = D /\ ~new)
  BY <1>3, <1>5
<1>7. /\ SumFunctionOnSet(f, D) \in Nat
      /\ SumFunctionOnSet(e, D') = SumFunctionOnSet(f, D) + x
  <2>1. \A i \in D : f[i] \in Nat /\ e[i] = f[i]  BY <1>1, <1>2, <1>3, <1>4
  <2>2. (D' = D \cup {k} /\ e[k] = x) \/ (D' = D /\ x = 0)  BY <1>1, <1>5, <1>6
  <2>3. x \in Nat /\ k \notin D /\ IsFiniteSet(D)  BY <1>5
  <2> HIDE DEF f, e, x
  <2> QED BY ONLY <2>1, <2>2, <2>3, SumStep
<1> QED BY <1>2, <1>7 DEF new

LEMMA BundlesAfter ==
    ASSUME TypeOK, NEW b \in Bundle, bundles' = Append(bundles, b), NEW a
    PROVE  /\ FeesPaid(a) \in Nat /\ Burnt(a) \in Nat /\ AllBurnt \in Nat
           /\ b.fee \in Nat /\ b.burn \in Nat
           /\ FeesPaid(a)' = FeesPaid(a) + IF b.asset = a THEN b.fee ELSE 0
           /\ Burnt(a)' = Burnt(a) + IF b.asset = a THEN b.burn ELSE 0
           /\ AllBurnt' = AllBurnt + b.burn
<1> DEFINE n == Len(bundles)
           k == n + 1
           D == OfAsset(a)
           new == b.asset = a
           fee == IF new THEN b.fee ELSE 0
           burn == IF new THEN b.burn ELSE 0
<1>1. /\ n \in Nat /\ Len(bundles') = n + 1 /\ bundles'[n + 1] = b /\ DOMAIN bundles = 1 .. n
      /\ DOMAIN bundles' = 1 .. n + 1
      /\ \A i \in 1 .. n : bundles'[i] = bundles[i] /\ bundles[i] \in Bundle
  BY ToSetAppend DEF TypeOK
<1>2. D \in SUBSET (1 .. n) /\ D' = D \cup {i \in {n + 1} : new}
  BY <1>1 DEF OfAsset
<1>3. /\ b.fee \in Nat /\ b.burn \in Nat
      /\ \A i \in 1 .. n : bundles[i].fee \in Nat /\ bundles[i].burn \in Nat
  BY <1>1, AmountFacts DEF Bundle
<1>4. /\ FeesPaid(a) = SumFunctionOnSet([i \in D |-> bundles[i].fee], D)
      /\ FeesPaid(a)' = SumFunctionOnSet([i \in D' |-> bundles'[i].fee], D')
      /\ Burnt(a) = SumFunctionOnSet([i \in D |-> bundles[i].burn], D)
      /\ Burnt(a)' = SumFunctionOnSet([i \in D' |-> bundles'[i].burn], D')
      /\ AllBurnt = SumFunctionOnSet([i \in 1 .. n |-> bundles[i].burn], 1 .. n)
      /\ AllBurnt' = SumFunctionOnSet([i \in 1 .. n + 1 |-> bundles'[i].burn], 1 .. n + 1)
  BY <1>1 DEF FeesPaid, Burnt, AllBurnt, SumFunction, OfAsset
<1> HIDE DEF D, n, new
<1>5. /\ fee \in Nat /\ burn \in Nat /\ k = n + 1 /\ k \notin D /\ k \notin 1 .. n
      /\ IsFiniteSet(D) /\ IsFiniteSet(1 .. n) /\ 1 .. n + 1 = (1 .. n) \cup {k}
  <2>0. n \in Nat  BY <1>1
  <2> HIDE DEF n
  <2>1. IsFiniteSet(1 .. n) /\ k \notin 1 .. n /\ 1 .. n + 1 = (1 .. n) \cup {k}
    BY <2>0, PlacesGrow
  <2> QED BY <1>2, <1>3, <2>1, FS_Subset
<1> HIDE DEF k
<1>6. (D' = D \cup {k} /\ new) \/ (D' = D /\ ~new)
  BY <1>2, <1>5
<1>7. FeesPaid(a) \in Nat /\ FeesPaid(a)' = FeesPaid(a) + fee
  <2> DEFINE f == [i \in D |-> bundles[i].fee]
             e == [i \in D' |-> bundles'[i].fee]
  <2>1. \A i \in D : f[i] \in Nat /\ e[i] = f[i]  BY <1>1, <1>2, <1>3
  <2>2. (D' = D \cup {k} /\ e[k] = fee) \/ (D' = D /\ fee = 0)  BY <1>1, <1>5, <1>6
  <2>3. fee \in Nat /\ k \notin D /\ IsFiniteSet(D)  BY <1>5
  <2> HIDE DEF f, e, fee
  <2>4. /\ SumFunctionOnSet(f, D) \in Nat
        /\ SumFunctionOnSet(e, D') = SumFunctionOnSet(f, D) + fee
    BY ONLY <2>1, <2>2, <2>3, SumStep
  <2> QED BY <1>4, <2>4 DEF f, e
<1>8. Burnt(a) \in Nat /\ Burnt(a)' = Burnt(a) + burn
  <2> DEFINE f == [i \in D |-> bundles[i].burn]
             e == [i \in D' |-> bundles'[i].burn]
  <2>1. \A i \in D : f[i] \in Nat /\ e[i] = f[i]  BY <1>1, <1>2, <1>3
  <2>2. (D' = D \cup {k} /\ e[k] = burn) \/ (D' = D /\ burn = 0)  BY <1>1, <1>5, <1>6
  <2>3. burn \in Nat /\ k \notin D /\ IsFiniteSet(D)  BY <1>5
  <2> HIDE DEF f, e, burn
  <2>4. /\ SumFunctionOnSet(f, D) \in Nat
        /\ SumFunctionOnSet(e, D') = SumFunctionOnSet(f, D) + burn
    BY ONLY <2>1, <2>2, <2>3, SumStep
  <2> QED BY <1>4, <2>4 DEF f, e
<1>9. AllBurnt \in Nat /\ AllBurnt' = AllBurnt + b.burn
  <2> DEFINE all == 1 .. n
             more == 1 .. n + 1
             x == b.burn
             f == [i \in all |-> bundles[i].burn]
             e == [i \in more |-> bundles'[i].burn]
  <2>1. \A i \in all : f[i] \in Nat /\ e[i] = f[i]  BY <1>1, <1>3
  <2>2. (more = all \cup {k} /\ e[k] = x) \/ (more = all /\ x = 0)  BY <1>1, <1>5
  <2>3. x \in Nat /\ k \notin all /\ IsFiniteSet(all)  BY <1>3, <1>5
  <2> HIDE DEF f, e, all, more, x
  <2>4. /\ SumFunctionOnSet(f, all) \in Nat
        /\ SumFunctionOnSet(e, more) = SumFunctionOnSet(f, all) + x
    BY ONLY <2>1, <2>2, <2>3, SumStep
  <2> QED BY <1>4, <2>4 DEF f, e, all, more, x
<1> QED BY <1>3, <1>7, <1>8, <1>9 DEF new

LEMMA SumsAreNat ==
    ASSUME TypeOK, NEW a
    PROVE  Minted(a) \in Nat /\ FeesPaid(a) \in Nat /\ Burnt(a) \in Nat /\ AllBurnt \in Nat
<1> DEFINE n == Len(txs)
           m == Len(bundles)
<1>1. /\ n \in Nat /\ DOMAIN txs = 1 .. n /\ \A i \in 1 .. n : txs[i].cmOut.amount \in Nat
  <2>1. n \in Nat /\ DOMAIN txs = 1 .. n /\ \A i \in 1 .. n : txs[i] \in Tx  BY DEF TypeOK
  <2> QED BY <2>1, AmountOfNote DEF Tx
<1>2. /\ m \in Nat /\ DOMAIN bundles = 1 .. m
      /\ \A i \in 1 .. m : bundles[i].fee \in Nat /\ bundles[i].burn \in Nat
  <2>1. m \in Nat /\ DOMAIN bundles = 1 .. m /\ \A i \in 1 .. m : bundles[i] \in Bundle
    BY DEF TypeOK
  <2> QED BY <2>1, AmountFacts DEF Bundle
<1>3. MintsOf(a) \in SUBSET (1 .. n) /\ OfAsset(a) \in SUBSET (1 .. m)
  BY <1>1, <1>2 DEF MintsOf, OfAsset
<1> HIDE DEF n, m
<1>4. IsFiniteSet(1 .. n) /\ IsFiniteSet(1 .. m)
  BY <1>1, <1>2, PlacesGrow
<1>5. IsFiniteSet(MintsOf(a)) /\ IsFiniteSet(OfAsset(a))
  BY <1>3, <1>4, FS_Subset
<1>6. Minted(a) \in Nat
  <2> DEFINE f == [i \in MintsOf(a) |-> txs[i].cmOut.amount]
  <2>1. \A i \in MintsOf(a) : f[i] \in Nat  BY <1>1, <1>3
  <2>2. Minted(a) = SumFunctionOnSet(f, MintsOf(a))  BY DEF Minted, SumFunction
  <2> HIDE DEF f
  <2> QED BY <1>5, <2>1, <2>2, SumNat
<1>7. FeesPaid(a) \in Nat
  <2> DEFINE f == [i \in OfAsset(a) |-> bundles[i].fee]
  <2>1. \A i \in OfAsset(a) : f[i] \in Nat  BY <1>2, <1>3
  <2>2. FeesPaid(a) = SumFunctionOnSet(f, OfAsset(a))  BY DEF FeesPaid, SumFunction
  <2> HIDE DEF f
  <2> QED BY <1>5, <2>1, <2>2, SumNat
<1>8. Burnt(a) \in Nat
  <2> DEFINE f == [i \in OfAsset(a) |-> bundles[i].burn]
  <2>1. \A i \in OfAsset(a) : f[i] \in Nat  BY <1>2, <1>3
  <2>2. Burnt(a) = SumFunctionOnSet(f, OfAsset(a))  BY DEF Burnt, SumFunction
  <2> HIDE DEF f
  <2> QED BY <1>5, <2>1, <2>2, SumNat
<1>9. AllBurnt \in Nat
  <2> DEFINE f == [i \in DOMAIN bundles |-> bundles[i].burn]
  <2>1. \A i \in DOMAIN bundles : f[i] \in Nat  BY <1>2
  <2>2. AllBurnt = SumFunctionOnSet(f, DOMAIN bundles)  BY DEF AllBurnt, SumFunction
  <2> HIDE DEF f
  <2> QED BY <1>2, <1>4, <2>1, <2>2, SumNat
<1> QED BY <1>6, <1>7, <1>8, <1>9

-----------------------------------------------------------------------------
(* Conservation. *)

(* ValueConserved with the pool's content read off the live notes; it is   *)
(* inductive next to PoolInv.                                              *)
Conserved(a) == Minted(a) = Worth(LiveOf(a)) + FeesPaid(a) + Burnt(a)

(* A mint adds its amount to both sides. *)
LEMMA MintConserves ==
    ASSUME PoolInv, NEW note, MintStep(note), NEW a, Conserved(a)
    PROVE  Conserved(a)'
<1> DEFINE t == [anchor |-> None, nf |-> None, cmOut |-> note, time |-> note.time]
<1>1. /\ note \in Note /\ note \notin ToSet(leaves) /\ Live' = Live \cup Valued({note})
      /\ note.amount \in Nat
  BY MintMoves, AmountOfNote
<1>2. TypeOK /\ IsFiniteSet(LiveOf(a)) /\ LiveOf(a) \in SUBSET Note
  BY LiveOfFinite DEF PoolInv
<1>3. /\ t \in Tx /\ txs' = Append(txs, t) /\ t.nf = None /\ t.cmOut = note
      /\ UNCHANGED bundles
  BY <1>1 DEF MintStep, Tx, Note
<1>4. FeesPaid(a)' = FeesPaid(a) /\ Burnt(a)' = Burnt(a)
  BY <1>3 DEF FeesPaid, Burnt, OfAsset
<1> HIDE DEF t
<1>5. Minted(a)' = Minted(a) + IF note.asset = a THEN note.amount ELSE 0
  BY <1>2, <1>3, MintedAfter
<1>6. /\ Minted(a) \in Nat /\ FeesPaid(a) \in Nat /\ Burnt(a) \in Nat /\ Worth(LiveOf(a)) \in Nat
  BY <1>2, SumsAreNat, WorthType
<1>7. CASE note.asset = a
  <2>1. LiveOf(a)' = LiveOf(a) \cup Valued({note})  BY <1>1, <1>7 DEF LiveOf, Valued
  <2>2. note \notin LiveOf(a)  BY <1>1 DEF LiveOf, Live, Valued
  <2>3. Worth(LiveOf(a) \cup Valued({note})) = Worth(LiveOf(a)) + note.amount
    BY <1>1, <1>2, <2>2, WorthPut
  <2>4. Worth(LiveOf(a)') = Worth(LiveOf(a)) + note.amount  BY <2>1, <2>3
  <2> QED BY <1>1, <1>4, <1>5, <1>6, <1>7, <2>4 DEF Conserved, Worth
<1>8. CASE note.asset # a
  <2>1. LiveOf(a)' = LiveOf(a)  BY <1>1, <1>8 DEF LiveOf, Valued
  <2> QED BY <1>4, <1>5, <1>6, <1>8, <2>1 DEF Conserved, Worth
<1> QED BY <1>7, <1>8

(* A transfer keeps what is in the pool, of every asset. *)
LEMMA TransferConserves ==
    ASSUME PoolInv, NEW t, TransferStep(t), NEW a, Conserved(a)
    PROVE  Conserved(a)'
<1> DEFINE i == t.nf.cm
           o == t.cmOut
           rest == LiveOf(a) \ {i}
<1>1. /\ i \in Note /\ o \in Note /\ o.amount = i.amount /\ o.asset = i.asset
      /\ o \notin ToSet(leaves)
      /\ i.amount > 0 => i \in Live
      /\ Live' = (Live \ {i}) \cup Valued({o})
  BY TransferMoves
<1>2. TypeOK /\ IsFiniteSet(LiveOf(a)) /\ LiveOf(a) \in SUBSET Note
  BY LiveOfFinite DEF PoolInv
<1>3. t \in Tx /\ t.nf # None /\ txs' = Append(txs, t) /\ UNCHANGED bundles
  BY PoolAssumption DEF TransferStep, TransferFacts
<1>4. FeesPaid(a)' = FeesPaid(a) /\ Burnt(a)' = Burnt(a)
  BY <1>3 DEF FeesPaid, Burnt, OfAsset
<1> HIDE DEF i, o
<1>5. Minted(a)' = Minted(a)
  <2>1. Minted(a) \in Nat /\ Minted(a)' = Minted(a) + 0  BY <1>2, <1>3, MintedAfter
  <2> QED BY <2>1
<1>6. CASE i.asset = a
  <2>1. LiveOf(a)' = rest \cup Valued({o})  BY <1>1, <1>6 DEF LiveOf, Valued
  <2>2. i.amount > 0 => i \in LiveOf(a)  BY <1>1, <1>6 DEF LiveOf
  <2>3. rest \in SUBSET Note /\ IsFiniteSet(rest) /\ Worth(LiveOf(a)) = Worth(rest) + i.amount
    BY <1>1, <1>2, <2>2, WorthTake
  <2>4. o \notin rest  BY <1>1 DEF LiveOf, Live, Valued
  <2> HIDE DEF rest
  <2>5. Worth(rest \cup Valued({o})) = Worth(rest) + o.amount
    BY <1>1, <2>3, <2>4, WorthPut
  <2>6. Worth(LiveOf(a)') = Worth(LiveOf(a))  BY <1>1, <2>1, <2>3, <2>5
  <2> QED BY <1>4, <1>5, <2>6 DEF Conserved, Worth
<1>7. CASE i.asset # a
  <2>1. LiveOf(a)' = LiveOf(a)  BY <1>1, <1>7 DEF LiveOf, Valued
  <2> QED BY <1>4, <1>5, <2>1 DEF Conserved, Worth
<1> QED BY <1>6, <1>7

LEMMA BalancedSums ==
    \A in1, in2, out1, out2, fee, burn, kept, before, after :
        /\ in1 \in Nat /\ in2 \in Nat /\ out1 \in Nat /\ out2 \in Nat /\ fee \in Nat
        /\ burn \in Nat /\ kept \in Nat
        /\ in1 + in2 = out1 + out2 + fee + burn
        /\ after = kept + out1 + out2 /\ before = kept + in1 + in2
        => after + fee + burn = before /\ after \in Nat
OBVIOUS

(* A bundle moves value out of the pool only as its fee and its burn. *)
LEMMA BundleConserves ==
    ASSUME PoolInv, NEW b, BundleStep(b), NEW a, Conserved(a)
    PROVE  Conserved(a)'
<1> DEFINE i1 == b.nullifiers[1].cm
           i2 == b.nullifiers[2].cm
           o1 == b.commitments[1]
           o2 == b.commitments[2]
<1>1. BundleMove(b, i1, i2, o1, o2)
  BY BundleMoves
<1>2. TypeOK /\ IsFiniteSet(LiveOf(a)) /\ LiveOf(a) \in SUBSET Note
  BY LiveOfFinite DEF PoolInv
<1>3. b \in Bundle /\ bundles' = Append(bundles, b) /\ UNCHANGED txs
  BY DEF BundleStep, BundleFacts
<1> HIDE DEF i1, i2, o1, o2
<1>4. /\ FeesPaid(a)' = FeesPaid(a) + IF b.asset = a THEN b.fee ELSE 0
      /\ Burnt(a)' = Burnt(a) + IF b.asset = a THEN b.burn ELSE 0
      /\ FeesPaid(a) \in Nat /\ Burnt(a) \in Nat /\ b.fee \in Nat /\ b.burn \in Nat
  BY <1>2, <1>3, BundlesAfter
<1>5. Minted(a)' = Minted(a) /\ Minted(a) \in Nat
  BY <1>2, <1>3, SumsAreNat DEF Minted, MintsOf
<1>6. /\ i1 \in Note /\ i2 \in Note /\ o1 \in Note /\ o2 \in Note /\ i1 # i2 /\ o1 # o2
      /\ i1.amount \in Nat /\ i2.amount \in Nat /\ o1.amount \in Nat /\ o2.amount \in Nat
      /\ i1.amount + i2.amount = o1.amount + o2.amount + b.fee + b.burn
  BY <1>1, AmountOfNote DEF BundleMove
<1>7. /\ i1.amount > 0 => i1 \in Live /\ i1.asset = b.asset
      /\ i2.amount > 0 => i2 \in Live /\ i2.asset = b.asset
      /\ o1.asset = b.asset /\ o2.asset = b.asset
      /\ o1 \notin ToSet(leaves) /\ o2 \notin ToSet(leaves)
      /\ Live' = (Live \ {i1, i2}) \cup Valued({o1, o2})
  BY <1>1 DEF BundleMove
<1>8. \A n \in LiveOf(a) : n \in ToSet(leaves) /\ n.amount > 0 /\ n \in Live /\ n.asset = a
  BY DEF LiveOf, Live, Valued
<1>9. CASE b.asset = a
  <2> DEFINE less == LiveOf(a) \ {i1}
             rest == less \ {i2}
             more == rest \cup Valued({o1})
  <2>1. LiveOf(a)' = more \cup Valued({o2})  BY <1>7, <1>9 DEF LiveOf, Valued
  <2>2. /\ i1.amount > 0 => i1 \in LiveOf(a)
        /\ i2.amount > 0 => i2 \in less
    BY <1>6, <1>7, <1>9 DEF LiveOf
  <2>3. o1 \notin rest /\ o2 \notin rest  BY <1>7, <1>8
  <2>4. less \in SUBSET Note /\ IsFiniteSet(less) /\ Worth(LiveOf(a)) = Worth(less) + i1.amount
    BY <1>2, <1>6, <2>2, WorthTake
  <2> HIDE DEF less
  <2>5. rest \in SUBSET Note /\ IsFiniteSet(rest) /\ Worth(less) = Worth(rest) + i2.amount
    BY <1>6, <2>2, <2>4, WorthTake
  <2>6. o2 \notin more  BY <1>6, <2>3 DEF Valued
  <2> HIDE DEF rest
  <2>7. more \in SUBSET Note /\ IsFiniteSet(more) /\ Worth(more) = Worth(rest) + o1.amount
    BY <1>6, <2>3, <2>5, WorthPut
  <2> HIDE DEF more
  <2>8. Worth(more \cup Valued({o2})) = Worth(more) + o2.amount
    BY <1>6, <2>6, <2>7, WorthPut
  <2>9. Worth(rest) \in Nat  BY <2>5, WorthType
  <2>10. Worth(LiveOf(a)') + b.fee + b.burn = Worth(LiveOf(a)) /\ Worth(LiveOf(a)') \in Nat
    <3>1. Worth(LiveOf(a)') = Worth(more) + o2.amount  BY <2>1, <2>8
    <3>2. Worth(LiveOf(a)') = Worth(rest) + o1.amount + o2.amount
      BY <1>6, <2>7, <2>9, <3>1
    <3>3. Worth(LiveOf(a)) = Worth(rest) + i1.amount + i2.amount
      BY <1>6, <2>4, <2>5, <2>9
    <3> DEFINE before == Worth(LiveOf(a))
               after == Worth(LiveOf(a)')
               kept == Worth(rest)
    <3>4. /\ after = kept + o1.amount + o2.amount /\ before = kept + i1.amount + i2.amount
          /\ kept \in Nat /\ b.fee \in Nat /\ b.burn \in Nat
      BY <1>4, <2>9, <3>2, <3>3
    <3> HIDE DEF before, after, kept
    <3>5. after + b.fee + b.burn = before /\ after \in Nat
      BY <1>6, <3>4, BalancedSums
    <3> QED BY <3>5 DEF before, after
  <2>11. FeesPaid(a)' = FeesPaid(a) + b.fee /\ Burnt(a)' = Burnt(a) + b.burn
    BY <1>4, <1>9
  <2> QED BY <1>4, <1>5, <2>10, <2>11 DEF Conserved, Worth
<1>10. CASE b.asset # a
  <2>1. LiveOf(a)' = LiveOf(a)  BY <1>6, <1>7, <1>8, <1>10 DEF LiveOf, Valued
  <2>2. FeesPaid(a)' = FeesPaid(a) /\ Burnt(a)' = Burnt(a)  BY <1>4, <1>10
  <2> QED BY <1>5, <2>1, <2>2 DEF Conserved, Worth
<1> QED BY <1>9, <1>10

LEMMA InitConserved == Init => \A a \in Asset : Conserved(a)
<1> SUFFICES ASSUME Init, NEW a \in Asset PROVE Conserved(a)
  OBVIOUS
<1>1. LiveOf(a) = {}  BY DEF Init, LiveOf, Live, Valued, ToSet
<1>2. MintsOf(a) = {} /\ OfAsset(a) = {}  BY DEF Init, MintsOf, OfAsset
<1>3. Minted(a) = 0 /\ FeesPaid(a) = 0 /\ Burnt(a) = 0
  BY <1>2, SumEmpty DEF Minted, FeesPaid, Burnt, SumFunction
<1>4. Worth(LiveOf(a)) = 0  BY <1>1, SumEmpty DEF Worth
<1> QED BY <1>3, <1>4 DEF Conserved

LEMMA NextConserves ==
    PoolInv /\ (\A a \in Asset : Conserved(a)) /\ [Next]_vars => (\A a \in Asset : Conserved(a))'
<1> SUFFICES ASSUME PoolInv, [Next]_vars, NEW a \in Asset, Conserved(a) PROVE Conserved(a)'
  OBVIOUS
<1>1. CASE AdvanceStep \/ UNCHANGED vars
  <2>1. UNCHANGED <<leaves, nullifiers, txs, bundles>>  BY <1>1 DEF AdvanceStep, vars
  <2>2. LiveOf(a)' = LiveOf(a) /\ MintsOf(a)' = MintsOf(a) /\ OfAsset(a)' = OfAsset(a)
    BY <2>1 DEF LiveOf, Live, IsUnspent, Unspent, MintsOf, OfAsset
  <2> QED BY <2>1, <2>2 DEF Conserved, Worth, Minted, FeesPaid, Burnt
<1>2. TypeOK  BY DEF PoolInv
<1> QED BY <1>1, <1>2, StepCases, MintConserves, TransferConserves, BundleConserves

(* What was minted of an asset is still in the pool, was paid as a fee, or *)
(* was burnt: over the natural numbers, for chains of any length.          *)
THEOREM ValueIsConserved == Spec => []ValueConserved
<1> DEFINE Inv == PoolInv /\ \A a \in Asset : Conserved(a)
<1>1. Init => Inv  BY InitPoolInv, InitConserved
<1>2. Inv /\ [Next]_vars => Inv'  BY NextKeepsInv, NextConserves
<1>3. Inv => ValueConserved
  BY InPoolIsWorth DEF ValueConserved, Conserved, PoolInv
<1> HIDE DEF Inv
<1> QED BY <1>1, <1>2, <1>3, PTL DEF Spec

-----------------------------------------------------------------------------
(* The totals. *)

LEMMA MinOfTwo ==
    ASSUME NEW m \in Nat, NEW n \in Nat
    PROVE  Min({m, n}) = IF m <= n THEN m ELSE n
BY DEF Min

LEMMA Saturates ==
    ASSUME NEW total \in Nat, NEW n \in Nat
    PROVE  SatAdd(Min({U64 - 1, total}), n) = Min({U64 - 1, total + n})
<1>1. U64 \in Nat /\ U64 > 0 /\ U64 - 1 \in Nat  BY AmountFacts
<1>2. Min({U64 - 1, total}) = IF U64 - 1 <= total THEN U64 - 1 ELSE total
  BY <1>1, MinOfTwo
<1>3. Min({U64 - 1, total + n}) = IF U64 - 1 <= total + n THEN U64 - 1 ELSE total + n
  BY <1>1, MinOfTwo
<1> QED BY <1>1, <1>2, <1>3 DEF SatAdd

LEMMA NextSaturates == PoolInv /\ TotalsSaturate /\ [Next]_vars => TotalsSaturate'
<1> SUFFICES ASSUME PoolInv, TotalsSaturate, [Next]_vars PROVE TotalsSaturate'
  OBVIOUS
<1>1. ASSUME UNCHANGED <<bundles, feesCollected, burned>> PROVE TotalsSaturate'
  BY <1>1 DEF TotalsSaturate, FeesPaid, OfAsset, AllBurnt
<1>2. ASSUME NEW b, BundleStep(b) PROVE TotalsSaturate'
  <2>1. /\ b \in Bundle /\ bundles' = Append(bundles, b) /\ TypeOK
        /\ b.asset # Native => b.fee = 0
        /\ feesCollected' = SatAdd(feesCollected, b.fee) /\ burned' = SatAdd(burned, b.burn)
    BY <1>2 DEF BundleStep, BundleFacts, FeeIsNative, PoolInv
  <2>2. /\ FeesPaid(Native) \in Nat /\ AllBurnt \in Nat /\ b.fee \in Nat /\ b.burn \in Nat
        /\ FeesPaid(Native)' = FeesPaid(Native) + b.fee
        /\ AllBurnt' = AllBurnt + b.burn
    BY <2>1, BundlesAfter
  <2> QED BY <2>1, <2>2, Saturates DEF TotalsSaturate
<1>3. TypeOK  BY DEF PoolInv
<1> QED BY <1>1, <1>2, <1>3, StepCases DEF MintStep, TransferStep, AdvanceStep, vars

(* The ledger's two totals are the fees of asset 0 and the burns of every  *)
(* asset, added up with saturation once and for all: saturating at each    *)
(* step loses nothing more.                                                *)
THEOREM TotalsAreSaturatedSums == Spec => []TotalsSaturate
<1>1. Init => TotalsSaturate
  <2> SUFFICES ASSUME Init PROVE TotalsSaturate
    OBVIOUS
  <2>1. FeesPaid(Native) = 0 /\ AllBurnt = 0
    <3>1. OfAsset(Native) = {} /\ DOMAIN bundles = {}  BY DEF Init, OfAsset
    <3> QED BY <3>1, SumEmpty DEF FeesPaid, AllBurnt, SumFunction
  <2>2. Min({U64 - 1, 0}) = 0  BY AmountFacts, MinOfTwo
  <2> QED BY <2>1, <2>2 DEF Init, TotalsSaturate
<1> QED BY <1>1, PoolInvariant, NextSaturates, PTL DEF Spec
=============================================================================
