----------------------- MODULE LedgerClients_proofs -----------------------
(***************************************************************************)
(* What those in front of the ledger may rely on, whatever the parties.    *)
(* Honest wallets, for any notes, builds, deliveries, window and clock: a  *)
(* submission is admissible exactly until something overtakes it, one of   *)
(* two rivals lands, and a refusal is final.  Holders of viewing keys, for *)
(* any chain and any envelopes: scans agree with the chain, verified rows  *)
(* are true, and a transaction key opens one place.                        *)
(***************************************************************************)
EXTENDS PoolWallets, Viewing, ShieldedPool_proofs

-----------------------------------------------------------------------------
(* Wallets (PoolWallets).                                                  *)

(* The inductive invariant. *)

Submission ==
    [kind : {"transfer", "bundle"}, run : Tx \cup [plain : Bundle, bad : BOOLEAN],
     inputs : SUBSET Note, time : Nat, built : Nat]

IsTransfer(f) == f.kind = "transfer"
AnchorIn(f) == IF IsTransfer(f) THEN f.run.anchor ELSE f.run.plain.anchor

(* The two random values of the i-th build that go into notes. *)
OwnRand(i) == {3 * (i - 1) + 1, 3 * (i - 1) + 2}

(* The i-th build, if it is a transfer: all the ledger checks of it but    *)
(* the window, the nullifier, the commitment and the clock.                *)
TransferBuilt(f, i) ==
    LET t == f.run
    IN  /\ t \in Tx /\ t.anchor \in Nat /\ t.nf \in Nullifier
        /\ f.inputs = {t.nf.cm} /\ f.time = t.time
        /\ t.nf.nk = t.nf.cm.pk /\ IsLeafUnder(t.nf.cm, t.anchor)
        /\ t.cmOut.amount = t.nf.cm.amount /\ t.cmOut.asset = t.nf.cm.asset
        /\ t.cmOut.from = t.nf.nk /\ t.cmOut.r \in OwnRand(i)

(* The same of a bundle: its run is clean, so the digest it publishes is   *)
(* the one the ledger computes.                                            *)
BundleBuilt(f, i) ==
    LET b == f.run.plain
    IN  /\ b \in Bundle /\ f.run = BundleDigest(b) /\ FeeIsNative(b)
        /\ f.inputs = {b.nullifiers[1].cm, b.nullifiers[2].cm} /\ f.time = b.time
        /\ b.nullifiers[1] # b.nullifiers[2] /\ b.commitments[1] # b.commitments[2]
        /\ b.nullifiers[1].nk = b.nullifiers[2].nk
        /\ \A s \in 1 .. 2 :
              /\ b.nullifiers[s].nk = b.nullifiers[s].cm.pk
              /\ b.nullifiers[s].cm.amount # 0 =>
                     /\ IsLeafUnder(b.nullifiers[s].cm, b.anchor)
                     /\ b.nullifiers[s].cm.asset = b.asset
              /\ b.commitments[s].from = b.nullifiers[s].nk
              /\ b.commitments[s].asset = b.asset
              /\ b.commitments[s].amount < U63
              /\ b.commitments[s].r \in OwnRand(i)
        /\ b.nullifiers[1].cm.amount + b.nullifiers[2].cm.amount
             = b.commitments[1].amount + b.commitments[2].amount + b.fee + b.burn

BuiltRight(f, i) ==
    /\ f.built <= Admissions /\ f.time <= now
    /\ IF IsTransfer(f) THEN TransferBuilt(f, i) ELSE BundleBuilt(f, i)

(* The window is sorted, and full or as long as the chain. *)
WindowSorted ==
    \A i, j \in 1 .. Len(recentRoots) : i < j => recentRoots[i] < recentRoots[j]

(* Where the anchor of a submission is: as many places from the window's   *)
(* end as there were admissions since, or below all of the window.         *)
AnchorPlace(anchor, age) ==
    IF age < Len(recentRoots) THEN recentRoots[Len(recentRoots) - age] = anchor
                              ELSE anchor < recentRoots[1]

AnchorsPlaced ==
    \A i \in 1 .. Len(flight) :
        AnchorPlace(AnchorIn(flight[i]), Admissions - flight[i].built)

AllSpent(f) == \A n \in f.inputs : ~IsUnspent(n)

(* A leaf with a wallet's randomness is an output of a build whose inputs  *)
(* are all spent: the only way in is that build's own admission.           *)
WalletLeaves ==
    \A cm \in ToSet(leaves) : cm.r \in WalletRand =>
        \E i \in 1 .. Len(flight) : cm.r \in OwnRand(i) /\ AllSpent(flight[i])

LandedOnce ==
    \A i \in 1 .. Len(flight) :
        /\ landed[i] \in {0, 1}
        /\ landed[i] = 1 => AllSpent(flight[i])

RivalsExclude ==
    \A i, j \in 1 .. Len(flight) :
        i # j /\ flight[i].inputs \cap flight[j].inputs # {} => landed[i] = 0 \/ landed[j] = 0

FlightInv ==
    /\ flight \in Seq(Submission) /\ landed \in Seq(Nat)
    /\ Len(landed) = Len(flight) /\ Len(flight) <= MaxBuilds
    /\ now <= MaxNow
    /\ \A i \in 1 .. Len(flight) : BuiltRight(flight[i], i)

WalletInv ==
    /\ PoolInv /\ WindowInv /\ WindowSorted
    /\ FlightInv /\ AnchorsPlaced /\ WalletLeaves /\ LandedOnce /\ RivalsExclude

-----------------------------------------------------------------------------
(* The window. *)

(* Where record_root leaves the roots it keeps. *)
LEMMA RecordRootPlaces ==
    ASSUME NEW roots \in Seq(Nat), NEW root \in Nat, Len(roots) <= AnchorWindow,
           NEW new, new = RecordRoot(roots, root)
    PROVE  /\ Len(new) \in Nat /\ Len(new) > 0
           /\ Len(new) = (IF Len(roots) + 1 <= AnchorWindow THEN Len(roots) + 1 ELSE AnchorWindow)
           /\ new[Len(new)] = root
           /\ \A p \in 1 .. Len(new) - 1 : new[p] = roots[p + (Len(roots) + 1 - Len(new))]
<1> DEFINE all == Append(roots, root)
<1>1. /\ all \in Seq(Nat) /\ Len(all) = Len(roots) + 1 /\ all[Len(roots) + 1] = root
      /\ \A i \in 1 .. Len(roots) : all[i] = roots[i]
      /\ Len(roots) \in Nat /\ AnchorWindow \in Nat /\ AnchorWindow > 0
  BY ToSetAppend, PoolAssumption
<1>2. CASE Len(all) <= AnchorWindow
  <2>1. new = all  BY <1>1, <1>2 DEF RecordRoot
  <2>2. Len(new) = Len(roots) + 1 /\ Len(roots) + 1 - Len(new) = 0 /\ new[Len(new)] = root
    BY <1>1, <2>1
  <2>3. ASSUME NEW p \in 1 .. Len(new) - 1
        PROVE  new[p] = roots[p + (Len(roots) + 1 - Len(new))]
    <3>1. p \in 1 .. Len(roots) /\ p + (Len(roots) + 1 - Len(new)) = p  BY <1>1, <2>2
    <3> QED BY <1>1, <2>1, <3>1
  <2>4. Len(roots) + 1 <= AnchorWindow  BY <1>1, <1>2
  <2> QED BY <1>1, <2>2, <2>3, <2>4
<1>3. CASE Len(all) > AnchorWindow
  <2>1. Len(roots) = AnchorWindow /\ Len(all) - AnchorWindow + 1 = 2  BY <1>1, <1>3
  <2>2. new = SubSeq(all, 2, Len(all))
    BY <1>3, <2>1 DEF RecordRoot
  <2>3. \A i \in 2 .. Len(all) : all[i] \in Nat  BY <1>1
  <2> HIDE DEF all
  <2>4. /\ Len(new) = Len(all) - 1
        /\ \A i \in 1 .. Len(all) - 1 : new[i] = all[i + 1]
    <3>1. /\ Len(new) = IF 2 <= Len(all) THEN Len(all) - 2 + 1 ELSE 0
          /\ \A i \in 1 .. Len(all) - 2 + 1 : new[i] = all[2 + i - 1]
      BY <1>1, <2>2, <2>3, SubSeqProperties
    <3>2. 2 <= Len(all) /\ Len(all) - 2 + 1 = Len(all) - 1  BY <1>1, <2>1
    <3>3. \A i \in 1 .. Len(all) - 1 : 2 + i - 1 = i + 1  BY <1>1
    <3> QED BY <3>1, <3>2, <3>3
  <2>5. new[Len(new)] = root  BY <1>1, <2>1, <2>4
  <2>6. ASSUME NEW p \in 1 .. Len(new) - 1
        PROVE  new[p] = roots[p + (Len(roots) + 1 - Len(new))]
    <3>1. Len(new) = Len(roots) /\ Len(roots) + 1 - Len(new) = 1  BY <1>1, <2>4
    <3>2. p + 1 \in 1 .. Len(roots) /\ p \in 1 .. Len(all) - 1  BY <1>1, <3>1
    <3>3. new[p] = all[p + 1] /\ all[p + 1] = roots[p + 1]  BY <1>1, <2>4, <3>2
    <3> QED BY <3>1, <3>3
  <2> QED BY <1>1, <2>1, <2>4, <2>5, <2>6
<1> QED BY <1>1, <1>2, <1>3

(* The arithmetic of one admission: a sorted window stays sorted, and      *)
(* every anchor moves one place away from its end.                         *)
LEMMA OneMoreRoot ==
    ASSUME NEW roots \in Seq(Nat), NEW new \in Seq(Nat), NEW root \in Nat, NEW W \in Nat,
           Len(roots) > 0, Len(new) > 0, Len(roots) <= W,
           Len(new) = (IF Len(roots) + 1 <= W THEN Len(roots) + 1 ELSE W),
           new[Len(new)] = root,
           \A p \in 1 .. Len(new) - 1 : new[p] = roots[p + (Len(roots) + 1 - Len(new))],
           \A i, j \in 1 .. Len(roots) : i < j => roots[i] < roots[j],
           \A i \in 1 .. Len(roots) : roots[i] < root
    PROVE  /\ \A i, j \in 1 .. Len(new) : i < j => new[i] < new[j]
           /\ \A anchor \in Nat, age \in Nat :
                 (IF age < Len(roots) THEN roots[Len(roots) - age] = anchor ELSE anchor < roots[1])
                 => (IF age + 1 < Len(new) THEN new[Len(new) - (age + 1)] = anchor
                                           ELSE anchor < new[1])
<1> DEFINE shift == Len(roots) + 1 - Len(new)
<1>1. /\ Len(roots) \in Nat /\ Len(new) \in Nat /\ shift \in {0, 1}
      /\ \A p \in 1 .. Len(new) - 1 : p + shift \in 1 .. Len(roots) /\ new[p] = roots[p + shift]
      /\ \A i \in 1 .. Len(roots) : roots[i] \in Nat
  <2>1. Len(roots) \in Nat /\ Len(new) \in Nat /\ \A i \in 1 .. Len(roots) : roots[i] \in Nat
    OBVIOUS
  <2>2. shift \in {0, 1}  BY <2>1
  <2>3. \A p \in 1 .. Len(new) - 1 : p + shift \in 1 .. Len(roots)  BY <2>1, <2>2
  <2> QED BY <2>1, <2>2, <2>3
<1>2. shift = 1 => Len(roots) = W /\ Len(new) = W  BY <1>1
<1>0. Len(roots) = Len(new) + shift - 1  BY <1>1
<1> HIDE DEF shift
<1>3. ASSUME NEW i \in 1 .. Len(new), NEW j \in 1 .. Len(new), i < j PROVE new[i] < new[j]
  <2>1. i \in 1 .. Len(new) - 1 /\ new[i] = roots[i + shift] /\ i + shift \in 1 .. Len(roots)
    BY <1>1, <1>3
  <2>2. CASE j = Len(new)  BY <2>1, <2>2
  <2>3. CASE j \in 1 .. Len(new) - 1
    <3>1. new[j] = roots[j + shift] /\ j + shift \in 1 .. Len(roots)  BY <1>1, <2>3
    <3>2. i + shift < j + shift  BY <1>1, <1>3
    <3> QED BY <2>1, <3>1, <3>2
  <2> QED BY <1>1, <2>2, <2>3
<1>4. ASSUME NEW anchor \in Nat, NEW age \in Nat,
             IF age < Len(roots) THEN roots[Len(roots) - age] = anchor ELSE anchor < roots[1]
      PROVE  IF age + 1 < Len(new) THEN new[Len(new) - (age + 1)] = anchor ELSE anchor < new[1]
  <2>1. CASE age + 1 < Len(new)
    <3>1. Len(new) - (age + 1) \in 1 .. Len(new) - 1  BY <1>1, <2>1
    <3>2. age < Len(roots) /\ Len(new) - (age + 1) + shift = Len(roots) - age
      BY <1>1, <1>0, <2>1
    <3> QED BY <1>1, <1>4, <2>1, <3>1, <3>2
  <2>2. CASE age + 1 >= Len(new) /\ age < Len(roots)
    <3>1. shift = 1 /\ age = Len(roots) - 1 /\ anchor = roots[1]
      <4>1. shift # 0  BY <1>0, <1>1, <2>2
      <4>2. shift = 1 /\ Len(roots) = Len(new)  BY <1>0, <1>1, <4>1
      <4>3. age = Len(roots) - 1 /\ Len(roots) - age = 1  BY <1>1, <2>2, <4>2
      <4> QED BY <1>4, <2>2, <4>2, <4>3
    <3>2. CASE Len(new) = 1  BY <1>1, <2>2, <3>1, <3>2
    <3>3. CASE Len(new) > 1
      <4>1. new[1] = roots[1 + 1] /\ 2 \in 1 .. Len(roots) /\ 1 \in 1 .. Len(roots)
        BY <1>1, <3>1, <3>3
      <4>2. roots[1] < roots[2]  BY <4>1
      <4> QED BY <2>2, <3>1, <4>1, <4>2
    <3> QED BY <1>1, <3>2, <3>3
  <2>3. CASE age + 1 >= Len(new) /\ age >= Len(roots)
    <3>1. anchor < roots[1]  BY <1>1, <1>4, <2>3
    <3>2. roots[1] <= new[1]
      <4>1. CASE Len(new) = 1
        <5>1. new[1] = root  BY ONLY <4>1, new[Len(new)] = root
        <5>2. 1 \in 1 .. Len(roots)  BY <1>1
        <5> QED BY <1>1, <5>1, <5>2
      <4>2. CASE Len(new) > 1
        <5>1. new[1] = roots[1 + shift] /\ 1 + shift \in 1 .. Len(roots)  BY <1>1, <4>2
        <5>2. CASE shift = 0  BY <1>1, <5>1, <5>2
        <5>3. CASE shift = 1
          <6>1. new[1] = roots[2] /\ 1 \in 1 .. Len(roots) /\ 2 \in 1 .. Len(roots)
            BY <1>1, <5>1, <5>3
          <6>2. roots[1] < roots[2]  BY <6>1
          <6> QED BY <1>1, <6>1, <6>2
        <5> QED BY <1>1, <5>2, <5>3
      <4> QED BY <1>1, <4>1, <4>2
    <3>3. new[1] \in Nat /\ roots[1] \in Nat
      <4>1. 1 \in 1 .. Len(roots) /\ 1 \in 1 .. Len(new)  BY <1>1
      <4> QED BY <4>1
    <3> QED BY <2>3, <3>1, <3>2, <3>3
  <2> QED BY <1>1, <2>1, <2>2, <2>3
<1> QED BY <1>3, <1>4

-----------------------------------------------------------------------------
(* What a build is: a submission that is right about the ledger it saw.    *)

BuildStep(f) ==
    /\ Len(flight) < MaxBuilds
    /\ flight' = Append(flight, f) /\ landed' = Append(landed, 0)
    /\ UNCHANGED vars
    /\ f \in Submission /\ f.built = Admissions /\ f.time = now /\ AnchorIn(f) = Root
    /\ BuiltRight(f, Len(flight) + 1)

LEMMA AdmissionsIsNat == TypeOK => Admissions \in Nat /\ Len(txs) \in Nat /\ Len(bundles) \in Nat
BY DEF TypeOK, Admissions

(* The randomness of the next build is its own, and a wallet's. *)
LEMMA FreshIsOwn ==
    ASSUME FlightInv, Len(flight) < MaxBuilds
    PROVE  /\ FreshR(1) \in OwnRand(Len(flight) + 1) /\ FreshR(2) \in OwnRand(Len(flight) + 1)
           /\ FreshR(1) # FreshR(2)
           /\ \A k \in 1 .. 3 : FreshR(k) \in Rand
<1>1. Len(flight) \in Nat /\ MaxBuilds \in Nat  BY WalletAssumption DEF FlightInv
<1>2. \A k \in 1 .. 3 : FreshR(k) \in WalletRand  BY <1>1 DEF FreshR, WalletRand
<1>3. 3 * (Len(flight) + 1 - 1) = 3 * Len(flight)  BY <1>1
<1> QED BY <1>1, <1>2, <1>3, WalletAssumption DEF FreshR, OwnRand

LEMMA BuildTransferIsStep ==
    ASSUME PoolInv, FlightInv, BuildTransfer
    PROVE  \E f : BuildStep(f)
<1>1. PICK n \in Live, p \in Party :
         Build("transfer",
               TransferGuest([self |-> n.pk, spent |-> n, root |-> Root, outPk |-> p,
                              outR |-> FreshR(1), time |-> now]),
               {n}, now)
  BY DEF BuildTransfer
<1> DEFINE t == TransferGuest([self |-> n.pk, spent |-> n, root |-> Root, outPk |-> p,
                               outR |-> FreshR(1), time |-> now])
           f == [kind |-> "transfer", run |-> t, inputs |-> {n}, time |-> now,
                 built |-> Admissions]
<1>2. n \in Note /\ n.pk \in Party /\ IsLeafUnder(n, Root)
  BY LiveFacts
<1>3. /\ Len(flight) < MaxBuilds /\ FreshR(1) \in Rand
      /\ FreshR(1) \in OwnRand(Len(flight) + 1)
  BY <1>1, FreshIsOwn DEF Build
<1>4. /\ now \in Nat /\ Admissions \in Nat /\ Root \in Nat
  BY AdmissionsIsNat DEF PoolInv, TypeOK, Root
<1>5. t = HonestTransfer(n, p, FreshR(1))
  BY <1>3, HonestTransferFacts
<1> HIDE DEF t
<1>6. /\ t.nf \in Nullifier /\ t.cmOut \in Note /\ t.anchor \in Nat /\ t \in Tx
  BY <1>3, <1>5, HonestTransferFacts
<1>7. f \in Submission
  BY <1>2, <1>4, <1>6 DEF Submission
<1>8. TransferBuilt(f, Len(flight) + 1)
  BY <1>2, <1>3, <1>5, <1>6 DEF TransferBuilt, HonestTransfer
<1>9. BuiltRight(f, Len(flight) + 1)
  BY <1>4, <1>8 DEF BuiltRight, IsTransfer
<1>10. AnchorIn(f) = Root
  BY <1>5 DEF AnchorIn, IsTransfer, HonestTransfer
<1>11. /\ flight' = Append(flight, f) /\ landed' = Append(landed, 0) /\ UNCHANGED vars
       /\ Len(flight) < MaxBuilds /\ f.built = Admissions /\ f.time = now
  BY <1>1 DEF Build, t
<1> HIDE DEF f
<1>12. BuildStep(f)  BY <1>7, <1>9, <1>10, <1>11 DEF BuildStep
<1> QED BY <1>12

(* The run of an honest bundle is clean. *)
LEMMA HonestRunIsClean ==
    ASSUME NEW w, NEW nf1, NEW nf2, NEW cm1, NEW cm2,
           w.in1.amount \in Nat, w.in2.amount \in Nat, w.out1.amount \in Nat,
           w.out2.amount \in Nat, w.fee \in Nat, w.burn = 0,
           w.in1.amount < U63, w.in2.amount < U63, w.out1.amount < U63,
           w.out2.amount < U63, w.fee < U63,
           w.in1.amount + w.in2.amount = w.out1.amount + w.out2.amount + w.fee,
           ~InputViolation(w, nf1.cm), ~InputViolation(w, nf2.cm), nf1 # nf2, cm1 # cm2
    PROVE  ~Bad(w, nf1, nf2, cm1, cm2)
<1>1. U63 \in Nat /\ U63 > 0 /\ U64 = U63 + U63  BY AmountFacts
<1>2. ~BalanceViolation(w)
  <2> DEFINE a == w.in1.amount
             b == w.in2.amount
             c == w.out1.amount
             d == w.out2.amount
             e == w.fee
  <2>1. /\ a \in Nat /\ b \in Nat /\ c \in Nat /\ d \in Nat /\ e \in Nat
        /\ a < U63 /\ b < U63 /\ a + b = c + d + e
    OBVIOUS
  <2> HIDE DEF a, b, c, d, e
  <2>2. a + b < U64 /\ c + d < U64 /\ c + d + e < U64 /\ c + d + e + 0 < U64
    BY <1>1, <2>1
  <2>3. /\ ~Carry64(a, b) /\ Add64(a, b) = a + b /\ ~Carry64(c, d) /\ Add64(c, d) = c + d
    BY <1>1, <2>1, <2>2 DEF Carry64, Add64
  <2>4. /\ ~Carry64(c + d, e) /\ Add64(c + d, e) = c + d + e
        /\ ~Carry64(c + d + e, 0) /\ Add64(c + d + e, 0) = c + d + e
    BY <1>1, <2>1, <2>2 DEF Carry64, Add64
  <2> QED BY <2>1, <2>3, <2>4 DEF BalanceViolation, a, b, c, d, e
<1>3. ASSUME NEW a \in {w.in1.amount, w.in2.amount, w.out1.amount, w.out2.amount, w.fee, w.burn}
      PROVE  ~RangeViolation(a)
  <2>1. a \in Nat /\ a < U63  BY <1>1
  <2> QED BY <1>1, <2>1 DEF RangeViolation
<1> QED BY <1>2, <1>3 DEF Bad

(* What a wallet may put in a bundle's slot next to the note n: a dummy of *)
(* amount zero, or another live note of the same owner and asset.          *)
LEMMA SecondSlot ==
    ASSUME PoolInv, FlightInv, Len(flight) < MaxBuilds, NEW n \in Live,
           NEW m \in {DummyOf(n.pk)} \cup {x \in Live : x.pk = n.pk /\ x.asset = n.asset /\ x # n}
    PROVE  /\ m \in Note /\ m.pk = n.pk /\ m # n /\ OwnedBy(n.pk, m) = m
           /\ m.amount \in Nat /\ m.amount < U63
           /\ m.amount # 0 => /\ IsLeafUnder(m, Root) /\ MerkleVerify(m, Root) = Root
                              /\ m.asset = n.asset
<1>1. n.pk \in Party /\ n \in Note /\ n.amount > 0  BY LiveFacts
<1>2. CASE m = DummyOf(n.pk)
  <2>1. /\ now \in Nat /\ FreshR(3) \in Rand /\ Native \in Asset /\ 0 \in Amount /\ 0 < U63
    BY FreshIsOwn, PoolAssumption, AmountFacts DEF PoolInv, TypeOK
  <2>2. m \in Note /\ m.pk = n.pk /\ m.amount = 0
    BY <1>1, <1>2, <2>1 DEF DummyOf, Note
  <2>3. OwnedBy(n.pk, m) = m  BY <2>2, OwnerSees
  <2> QED BY <1>1, <2>1, <2>2, <2>3
<1>3. CASE m \in Live /\ m.pk = n.pk /\ m.asset = n.asset /\ m # n
  <2>1. m \in Note /\ m.amount \in Nat /\ m.amount < U63 /\ IsLeafUnder(m, Root)
        /\ MerkleVerify(m, Root) = Root
    BY <1>3, LiveFacts
  <2>2. OwnedBy(n.pk, m) = m  BY <1>3, <2>1, OwnerSees
  <2> QED BY <1>3, <2>1, <2>2
<1> QED BY <1>2, <1>3

LEMMA BuildBundleIsStep ==
    ASSUME PoolInv, FlightInv, BuildBundle
    PROVE  \E f : BuildStep(f)
<1> DEFINE Witness(n, m, p, paid, fee) ==
              [self |-> n.pk, in1 |-> n, in2 |-> m, anchor |-> Root,
               out1 |-> [pk |-> p, amount |-> paid, r |-> FreshR(1)],
               out2 |-> [pk |-> n.pk, amount |-> n.amount + m.amount - paid - fee, r |-> FreshR(2)],
               fee |-> fee, burn |-> 0, asset |-> n.asset, time |-> now]
<1>1. PICK n \in Live :
        \E m \in {DummyOf(n.pk)} \cup {x \in Live : x.pk = n.pk /\ x.asset = n.asset /\ x # n} :
          \E p \in Party, paid \in OutAmounts, fee \in Fees :
            /\ paid + fee <= n.amount + m.amount
            /\ fee > 0 => n.asset = Native
            /\ \A a \in {paid, fee, n.amount + m.amount - paid - fee} : ~RangeViolation(a)
            /\ Build("bundle", BundleGuest(Witness(n, m, p, paid, fee)), {n, m}, now)
  BY DEF BuildBundle
<1>2. PICK m \in {DummyOf(n.pk)} \cup {x \in Live : x.pk = n.pk /\ x.asset = n.asset /\ x # n},
           p \in Party, paid \in OutAmounts, fee \in Fees :
            /\ paid + fee <= n.amount + m.amount
            /\ fee > 0 => n.asset = Native
            /\ \A a \in {paid, fee, n.amount + m.amount - paid - fee} : ~RangeViolation(a)
            /\ Build("bundle", BundleGuest(Witness(n, m, p, paid, fee)), {n, m}, now)
  BY <1>1
<1> DEFINE w == Witness(n, m, p, paid, fee)
           change == n.amount + m.amount - paid - fee
           nf1 == [nk |-> n.pk, cm |-> n]
           nf2 == [nk |-> n.pk, cm |-> m]
           cm1 == [pk |-> p, from |-> n.pk, amount |-> paid, asset |-> n.asset, time |-> now,
                   r |-> FreshR(1)]
           cm2 == [pk |-> n.pk, from |-> n.pk, amount |-> change, asset |-> n.asset,
                   time |-> now, r |-> FreshR(2)]
           run == BundleGuest(w)
           b == [anchor |-> Root, nullifiers |-> <<nf1, nf2>>, commitments |-> <<cm1, cm2>>,
                 fee |-> fee, burn |-> 0, asset |-> n.asset, time |-> now]
           f == [kind |-> "bundle", run |-> run, inputs |-> {n, m}, time |-> now,
                 built |-> Admissions]
<1>3. /\ Len(flight) < MaxBuilds /\ flight' = Append(flight, f) /\ landed' = Append(landed, 0)
      /\ UNCHANGED vars
  BY <1>2 DEF Build
<1>4. /\ n \in Note /\ n.pk \in Party /\ n.asset \in Asset /\ n.amount \in Nat /\ n.amount > 0
      /\ n.amount < U63 /\ IsLeafUnder(n, Root) /\ MerkleVerify(n, Root) = Root
      /\ OwnedBy(n.pk, n) = n
  BY LiveFacts, OwnerSees
<1>5. /\ m \in Note /\ m.pk = n.pk /\ m # n /\ OwnedBy(n.pk, m) = m
      /\ m.amount \in Nat /\ m.amount < U63
      /\ m.amount # 0 => /\ IsLeafUnder(m, Root) /\ MerkleVerify(m, Root) = Root
                         /\ m.asset = n.asset
  BY <1>3, SecondSlot
<1>6. /\ paid \in Nat /\ fee \in Nat /\ change \in Nat /\ paid < U63 /\ fee < U63 /\ change < U63
      /\ n.amount + m.amount = paid + change + fee
  <2>1. paid \in Nat /\ fee \in Nat /\ U63 \in Nat  BY PoolAssumption, AmountFacts
  <2>2. change \in Nat /\ n.amount + m.amount = paid + change + fee
    BY <1>2, <1>4, <1>5, <2>1
  <2>3. ~RangeViolation(paid) /\ ~RangeViolation(fee) /\ ~RangeViolation(change)
    BY <1>2
  <2> QED BY <2>1, <2>2, <2>3 DEF RangeViolation
<1>7. /\ FreshR(1) \in Rand /\ FreshR(2) \in Rand /\ FreshR(1) # FreshR(2)
      /\ FreshR(1) \in OwnRand(Len(flight) + 1) /\ FreshR(2) \in OwnRand(Len(flight) + 1)
  BY <1>3, FreshIsOwn
<1>8. /\ now \in Nat /\ Admissions \in Nat /\ Root \in Nat
  BY AdmissionsIsNat DEF PoolInv, TypeOK, Root
<1>9. /\ w.in1 = n /\ w.in2 = m /\ w.self = n.pk /\ w.anchor = Root /\ w.fee = fee /\ w.burn = 0
      /\ w.asset = n.asset /\ w.time = now
      /\ w.out1 = [pk |-> p, amount |-> paid, r |-> FreshR(1)]
      /\ w.out2 = [pk |-> n.pk, amount |-> change, r |-> FreshR(2)]
  OBVIOUS
<1> HIDE DEF w, change
<1>10. /\ Nullify(w.self, OwnedBy(w.self, w.in1)) = nf1
       /\ Nullify(w.self, OwnedBy(w.self, w.in2)) = nf2
       /\ BundleOutput(w, w.out1) = cm1 /\ BundleOutput(w, w.out2) = cm2
  BY <1>4, <1>5, <1>9 DEF Nullify, BundleOutput
<1>11. ~Bad(w, nf1, nf2, cm1, cm2)
  <2>1. nf1 # nf2 /\ cm1 # cm2 /\ nf1.cm = n /\ nf2.cm = m
    BY <1>5, <1>7
  <2> HIDE DEF nf1, nf2, cm1, cm2
  <2>2. ~InputViolation(w, n) /\ ~InputViolation(w, m)
    BY <1>4, <1>5, <1>9 DEF InputViolation
  <2>3. /\ w.in1.amount = n.amount /\ w.in2.amount = m.amount /\ w.out1.amount = paid
        /\ w.out2.amount = change /\ w.fee = fee /\ w.burn = 0
    BY <1>9
  <2> QED BY <1>4, <1>5, <1>6, <2>1, <2>2, <2>3, HonestRunIsClean
<1>12. run = BundleDigest(b)
  <2>1. run.plain = b
    BY <1>9, <1>10 DEF BundleGuest
  <2>2. Bad(w, nf1, nf2, cm1, cm2) = FALSE
    BY <1>11 DEF Bad
  <2>3. run = [plain |-> b, bad |-> Bad(w, nf1, nf2, cm1, cm2)]
    BY <1>9, <1>10 DEF BundleGuest
  <2> QED BY <2>2, <2>3 DEF BundleDigest
<1> HIDE DEF run
<1>13. /\ nf1 \in Nullifier /\ nf2 \in Nullifier /\ nf1 # nf2
       /\ cm1 \in Note /\ cm2 \in Note /\ cm1 # cm2
  <2>1. paid \in Amount /\ change \in Amount  BY <1>6, AmountFacts
  <2> QED BY <1>4, <1>5, <1>7, <1>8, <2>1 DEF Nullifier, Note
<1>14. b \in Bundle
  <2>1. fee \in Amount /\ 0 \in Amount  BY <1>6, AmountFacts
  <2> HIDE DEF nf1, nf2, cm1, cm2
  <2> QED BY <1>4, <1>8, <1>13, <2>1 DEF Bundle
<1>15. f \in Submission
  <2>1. run \in [plain : Bundle, bad : BOOLEAN]  BY <1>12, <1>14 DEF BundleDigest
  <2> QED BY <1>4, <1>5, <1>8, <2>1 DEF Submission
<1>16. run.plain = b  BY <1>12 DEF BundleDigest
<1>17. /\ b.nullifiers[1] = nf1 /\ b.nullifiers[2] = nf2 /\ b.commitments[1] = cm1
       /\ b.commitments[2] = cm2 /\ b.anchor = Root /\ b.fee = fee /\ b.burn = 0
       /\ b.asset = n.asset /\ b.time = now
  OBVIOUS
<1>18. /\ nf1.nk = n.pk /\ nf1.cm = n /\ nf2.nk = n.pk /\ nf2.cm = m
       /\ cm1.from = n.pk /\ cm1.asset = n.asset /\ cm1.amount = paid /\ cm1.r = FreshR(1)
       /\ cm2.from = n.pk /\ cm2.asset = n.asset /\ cm2.amount = change /\ cm2.r = FreshR(2)
  OBVIOUS
<1> HIDE DEF nf1, nf2, cm1, cm2, b
<1>19. ASSUME NEW s \in 1 .. 2
       PROVE  /\ b.nullifiers[s].nk = b.nullifiers[s].cm.pk
              /\ b.nullifiers[s].cm.amount # 0 =>
                     /\ IsLeafUnder(b.nullifiers[s].cm, b.anchor)
                     /\ b.nullifiers[s].cm.asset = b.asset
              /\ b.commitments[s].from = b.nullifiers[s].nk
              /\ b.commitments[s].asset = b.asset
              /\ b.commitments[s].amount < U63
              /\ b.commitments[s].r \in OwnRand(Len(flight) + 1)
  <2>1. CASE s = 1  BY <1>4, <1>6, <1>7, <1>17, <1>18, <2>1
  <2>2. CASE s = 2  BY <1>5, <1>6, <1>7, <1>17, <1>18, <2>2
  <2> QED BY <2>1, <2>2
<1>20. FeeIsNative(b)
  BY <1>2, <1>6, <1>17 DEF FeeIsNative
<1>21. b.nullifiers[1].cm.amount + b.nullifiers[2].cm.amount
         = b.commitments[1].amount + b.commitments[2].amount + b.fee + b.burn
  BY <1>4, <1>5, <1>6, <1>17, <1>18
<1>22. BundleBuilt(f, Len(flight) + 1)
  <2>1. f.run.plain = b /\ f.run = BundleDigest(b) /\ f.inputs = {n, m} /\ f.time = now
    BY <1>12, <1>16
  <2>2. /\ b.nullifiers[1] # b.nullifiers[2] /\ b.commitments[1] # b.commitments[2]
        /\ b.nullifiers[1].nk = b.nullifiers[2].nk /\ b.time = now
        /\ b.nullifiers[1].cm = n /\ b.nullifiers[2].cm = m
    BY <1>13, <1>17, <1>18
  <2> HIDE DEF f
  <2> QED BY <1>14, <1>19, <1>20, <1>21, <2>1, <2>2 DEF BundleBuilt
<1>23. /\ ~IsTransfer(f) /\ f.built = Admissions /\ f.time = now /\ AnchorIn(f) = Root
  BY <1>16, <1>17 DEF IsTransfer, AnchorIn
<1> HIDE DEF f
<1>24. BuiltRight(f, Len(flight) + 1)
  BY <1>8, <1>22, <1>23 DEF BuiltRight
<1>25. BuildStep(f)
  BY <1>3, <1>15, <1>23, <1>24 DEF BuildStep
<1> QED BY <1>25

-----------------------------------------------------------------------------
(* The ledger's answer to a submission. *)

LEMMA FlightFacts ==
    ASSUME WalletInv, NEW i \in 1 .. Len(flight)
    PROVE  /\ flight[i] \in Submission /\ BuiltRight(flight[i], i)
           /\ flight[i].built \in Nat /\ flight[i].time \in Nat /\ flight[i].inputs # {}
           /\ AnchorIn(flight[i]) \in Nat /\ Admissions \in Nat /\ flight[i].built <= Admissions
           /\ Len(flight) \in Nat /\ i \in Nat /\ i <= MaxBuilds /\ MaxBuilds \in Nat
           /\ AnchorPlace(AnchorIn(flight[i]), Admissions - flight[i].built)
<1>1. /\ flight \in Seq(Submission) /\ Len(flight) <= MaxBuilds /\ MaxBuilds \in Nat
      /\ Len(flight) \in Nat /\ PoolInv /\ BuiltRight(flight[i], i)
  BY WalletAssumption DEF WalletInv, FlightInv
<1>2. flight[i] \in Submission  BY <1>1
<1>3. flight[i].built \in Nat /\ flight[i].time \in Nat  BY <1>2 DEF Submission
<1>4. AnchorIn(flight[i]) \in Nat
  BY <1>1 DEF AnchorIn, BuiltRight, TransferBuilt, BundleBuilt, Bundle
<1>5. flight[i].inputs # {}
  BY <1>1 DEF BuiltRight, TransferBuilt, BundleBuilt
<1>6. Admissions \in Nat  BY <1>1, AdmissionsIsNat DEF PoolInv
<1>7. AnchorPlace(AnchorIn(flight[i]), Admissions - flight[i].built)
  BY DEF WalletInv, AnchorsPlaced
<1>8. flight[i].built <= Admissions  BY <1>1 DEF BuiltRight
<1> QED BY <1>1, <1>2, <1>3, <1>4, <1>5, <1>6, <1>7, <1>8

LEMMA WindowFacts ==
    ASSUME WalletInv
    PROVE  /\ recentRoots \in Seq(Nat) /\ Len(recentRoots) \in Nat /\ Len(recentRoots) > 0
           /\ AnchorWindow \in Nat /\ Admissions \in Nat
           /\ Len(recentRoots) = (IF AnchorWindow <= 1 + Admissions THEN AnchorWindow
                                                                   ELSE 1 + Admissions)
           /\ recentRoots[Len(recentRoots)] = Root
           /\ \A k \in 1 .. Len(recentRoots) : recentRoots[k] \in Nat /\ recentRoots[k] <= Root
<1>1. /\ TypeOK /\ WindowIsRecent /\ recentRoots \in Seq(Nat) /\ Len(recentRoots) \in Nat
      /\ AnchorWindow \in Nat /\ AnchorWindow > 0
  BY PoolAssumption DEF WalletInv, PoolInv, TypeOK, WindowInv
<1>2. Admissions \in Nat /\ Len(txs) \in Nat /\ Len(bundles) \in Nat
  BY <1>1, AdmissionsIsNat
<1>3. Len(recentRoots) = Min({AnchorWindow, 1 + Admissions})
  <2>1. 1 + Len(txs) + Len(bundles) = 1 + Admissions  BY <1>2 DEF Admissions
  <2>2. Len(recentRoots) = Min({AnchorWindow, 1 + Len(txs) + Len(bundles)})
    BY <1>1 DEF WindowIsRecent
  <2> QED BY <2>1, <2>2
<1>4. Min({AnchorWindow, 1 + Admissions}) = IF AnchorWindow <= 1 + Admissions THEN AnchorWindow
                                                                          ELSE 1 + Admissions
  <2> DEFINE more == 1 + Admissions
  <2>1. more \in Nat  BY <1>2
  <2> HIDE DEF more
  <2>2. Min({AnchorWindow, more}) = IF AnchorWindow <= more THEN AnchorWindow ELSE more
    BY <1>1, <2>1, MinOfPair
  <2> QED BY <2>2 DEF more
<1>5. recentRoots[Len(recentRoots)] = Root  BY <1>1 DEF WindowIsRecent
<1>6. \A k \in 1 .. Len(recentRoots) : recentRoots[k] \in Nat /\ recentRoots[k] <= Root
  BY <1>1, ToSetIndex DEF WalletInv, PoolInv, Root
<1>7. Len(recentRoots) = (IF AnchorWindow <= 1 + Admissions THEN AnchorWindow
                                                         ELSE 1 + Admissions)
  BY ONLY <1>3, <1>4
<1>8. Len(recentRoots) > 0  BY <1>1, <1>2, <1>7
<1> QED BY <1>1, <1>2, <1>5, <1>6, <1>7, <1>8

(* An anchor is known exactly until AnchorWindow roots have followed it. *)
LEMMA KnownIffRecent ==
    ASSUME WalletInv, NEW i \in 1 .. Len(flight)
    PROVE  KnownAnchor(AnchorIn(flight[i])) <=> Admissions - flight[i].built < AnchorWindow
<1> DEFINE age == Admissions - flight[i].built
           anchor == AnchorIn(flight[i])
           L == Len(recentRoots)
           W == AnchorWindow
<1>1. /\ age \in Nat /\ age <= Admissions /\ anchor \in Nat /\ AnchorPlace(anchor, age)
  BY FlightFacts
<1>2. /\ recentRoots \in Seq(Nat) /\ L \in Nat /\ L > 0 /\ W \in Nat /\ Admissions \in Nat
      /\ L = (IF W <= 1 + Admissions THEN W ELSE 1 + Admissions)
      /\ \A k \in 1 .. L : recentRoots[k] \in Nat
  BY WindowFacts
<1> HIDE DEF age, anchor
<1>3. age < W <=> age < L
  BY <1>1, <1>2
<1>4. CASE age < L
  <2>1. L - age \in 1 .. L /\ recentRoots[L - age] = anchor
    BY <1>1, <1>2, <1>4 DEF AnchorPlace
  <2>2. anchor \in ToSet(recentRoots)  BY <1>2, <2>1, ToSetIndex
  <2> QED BY <1>3, <1>4, <2>2 DEF KnownAnchor, age, anchor
<1>5. CASE ~(age < L)
  <2>1. anchor < recentRoots[1]  BY <1>1, <1>5 DEF AnchorPlace
  <2>2. \A k \in 1 .. L : anchor < recentRoots[k]
    <3> TAKE k \in 1 .. L
    <3>1. CASE k = 1  BY <2>1, <3>1
    <3>2. CASE k # 1
      <4>1. recentRoots[1] < recentRoots[k]  BY <1>2, <3>2 DEF WalletInv, WindowSorted
      <4>2. recentRoots[1] \in Nat /\ recentRoots[k] \in Nat  BY <1>2
      <4> QED BY <1>1, <2>1, <4>1, <4>2
    <3> QED BY <3>1, <3>2
  <2>3. anchor \notin ToSet(recentRoots)
    <3>1. \A k \in 1 .. L : recentRoots[k] # anchor  BY <1>1, <1>2, <2>2
    <3> QED BY <1>2, <3>1, ToSetIndex
  <2> QED BY <1>3, <1>5, <2>3 DEF KnownAnchor, age, anchor
<1> QED BY <1>4, <1>5

LEMMA OwnRandFacts ==
    ASSUME WalletInv, NEW i \in 1 .. Len(flight)
    PROVE  /\ OwnRand(i) \subseteq WalletRand
           /\ \A j \in 1 .. Len(flight) : \A r : r \in OwnRand(i) /\ r \in OwnRand(j) => i = j
<1>1. /\ Len(flight) \in Nat /\ i \in Nat /\ i >= 1 /\ i <= MaxBuilds /\ MaxBuilds \in Nat
  BY FlightFacts
<1> QED BY <1>1 DEF OwnRand, WalletRand

(* While an input is unspent, no output of the build is in the tree. *)
LEMMA OutputsFresh ==
    ASSUME WalletInv, NEW i \in 1 .. Len(flight), NEW n \in flight[i].inputs, IsUnspent(n),
           NEW cm, cm.r \in OwnRand(i)
    PROVE  ~HasCommitment(cm)
<1> SUFFICES ASSUME HasCommitment(cm) PROVE FALSE
  OBVIOUS
<1>1. cm \in ToSet(leaves) /\ cm.r \in WalletRand
  BY OwnRandFacts DEF HasCommitment
<1>2. PICK j \in 1 .. Len(flight) : cm.r \in OwnRand(j) /\ AllSpent(flight[j])
  BY <1>1 DEF WalletInv, WalletLeaves
<1>3. i = j  BY <1>2, OwnRandFacts
<1> QED BY <1>2, <1>3 DEF AllSpent

(* The answer to a transfer, and to a bundle. *)
LEMMA TransferAnswer ==
    ASSUME WalletInv, NEW i \in 1 .. Len(flight), IsTransfer(flight[i])
    PROVE  /\ Admissible(flight[i]) <=> Timely(flight[i])
           /\ Admissible(flight[i]) => TransferFacts(flight[i].run)
<1> DEFINE f == flight[i]
           t == f.run
<1>1. TransferBuilt(f, i)  BY FlightFacts DEF BuiltRight
<1>2. /\ t \in Tx /\ t.anchor \in Nat /\ t.nf \in Nullifier
      /\ f.inputs = {t.nf.cm} /\ f.time = t.time
      /\ t.nf.nk = t.nf.cm.pk /\ IsLeafUnder(t.nf.cm, t.anchor)
      /\ t.cmOut.amount = t.nf.cm.amount /\ t.cmOut.asset = t.nf.cm.asset
      /\ t.cmOut.from = t.nf.nk /\ t.cmOut.r \in OwnRand(i)
  BY <1>1 DEF TransferBuilt
<1>3. KnownAnchor(t.anchor) <=> Admissions - f.built < AnchorWindow
  BY KnownIffRecent DEF AnchorIn
<1>4. Unspent(t.nf) <=> IsUnspent(t.nf.cm)
  BY <1>2, NfIsNote
<1>5. IsUnspent(t.nf.cm) => ~HasCommitment(t.cmOut)
  BY <1>2, OutputsFresh
<1>6. f.kind = "transfer"  BY DEF IsTransfer
<1> HIDE DEF f
<1>7. Timely(f) <=> /\ Admissions - f.built < AnchorWindow /\ now = f.time /\ IsUnspent(t.nf.cm)
  BY <1>2, <1>6 DEF Timely
<1>8. Admissible(f) <=> /\ KnownAnchor(t.anchor) /\ Unspent(t.nf) /\ ~HasCommitment(t.cmOut)
                        /\ t.time = now
  BY <1>6, SoundProof DEF Admissible, TransferAdmissible
<1>9. Admissible(f) => TransferFacts(t)
  BY <1>2, <1>8 DEF TransferFacts
<1> QED BY <1>2, <1>3, <1>4, <1>5, <1>7, <1>8, <1>9 DEF f

LEMMA BundleAnswer ==
    ASSUME WalletInv, NEW i \in 1 .. Len(flight), ~IsTransfer(flight[i])
    PROVE  /\ Admissible(flight[i]) <=> Timely(flight[i])
           /\ Admissible(flight[i]) => BundleFacts(flight[i].run.plain)
<1> DEFINE f == flight[i]
           b == f.run.plain
<1>1. BundleBuilt(f, i) /\ f.time <= now  BY FlightFacts DEF BuiltRight
<1>2. /\ b \in Bundle /\ f.run = BundleDigest(b) /\ FeeIsNative(b)
      /\ f.inputs = {b.nullifiers[1].cm, b.nullifiers[2].cm} /\ f.time = b.time
      /\ b.nullifiers[1] # b.nullifiers[2] /\ b.commitments[1] # b.commitments[2]
      /\ \A s \in 1 .. 2 : /\ b.nullifiers[s].nk = b.nullifiers[s].cm.pk
                           /\ b.commitments[s].r \in OwnRand(i)
  BY <1>1 DEF BundleBuilt
<1>3. KnownAnchor(b.anchor) <=> Admissions - f.built < AnchorWindow
  BY KnownIffRecent DEF AnchorIn
<1>4. \A s \in 1 .. 2 : Unspent(b.nullifiers[s]) <=> IsUnspent(b.nullifiers[s].cm)
  <2> TAKE s \in 1 .. 2
  <2>1. b.nullifiers[s] \in Nullifier
    <3>1. b.nullifiers \in Nullifier \X Nullifier  BY <1>2 DEF Bundle
    <3> QED BY <3>1
  <2> QED BY <1>2, <2>1, NfIsNote
<1>5. \A s \in 1 .. 2 : IsUnspent(b.nullifiers[1].cm) => ~HasCommitment(b.commitments[s])
  BY <1>2, OutputsFresh
<1>6. ~(f.kind = "transfer")  BY DEF IsTransfer
<1> HIDE DEF f
<1>7. Timely(f) <=> /\ Admissions - f.built < AnchorWindow /\ now - f.time <= TimeWindow
                    /\ \A s \in 1 .. 2 : IsUnspent(b.nullifiers[s].cm)
  BY <1>2, <1>6 DEF Timely
<1>8. Admissible(f) <=> /\ KnownAnchor(b.anchor) /\ InTimeWindow(b.time)
                        /\ \A s \in 1 .. 2 : Unspent(b.nullifiers[s])
                        /\ \A s \in 1 .. 2 : ~HasCommitment(b.commitments[s])
  BY <1>2, <1>6, SoundProof DEF Admissible, BundleAdmissible
<1>9. InTimeWindow(b.time) <=> now - f.time <= TimeWindow
  BY <1>1, <1>2 DEF InTimeWindow
<1>10. Admissible(f) => BundleFacts(b)
  <2> SUFFICES ASSUME Admissible(f) PROVE BundleFacts(b)
    OBVIOUS
  <2>1. \A s \in 1 .. 2 : Unspent(b.nullifiers[s]) /\ ~HasCommitment(b.commitments[s])
    BY <1>8
  <2>2. KnownAnchor(b.anchor)  BY <1>8
  <2> QED BY <1>1, <2>1, <2>2 DEF BundleBuilt, BundleFacts
<1>11. Admissible(f) <=> Timely(f)
  <2>1. ASSUME Timely(f) PROVE Admissible(f)
    <3>1. /\ KnownAnchor(b.anchor) /\ InTimeWindow(b.time) /\ IsUnspent(b.nullifiers[1].cm)
          /\ \A s \in 1 .. 2 : Unspent(b.nullifiers[s])
      BY <1>3, <1>4, <1>7, <1>9, <2>1
    <3> QED BY <1>5, <1>8, <3>1
  <2>2. ASSUME Admissible(f) PROVE Timely(f)
    BY <1>3, <1>4, <1>7, <1>8, <1>9, <2>2
  <2> QED BY <2>1, <2>2
<1> QED BY <1>10, <1>11 DEF f

-----------------------------------------------------------------------------
(* What any admission, a wallet's or another's, does to the submissions    *)
(* under way.                                                              *)

Admission ==
    /\ Len(leaves) < Len(leaves') /\ \A i \in 1 .. Len(leaves) : leaves'[i] = leaves[i]
    /\ recentRoots' = RecordRoot(recentRoots, Len(leaves'))
    /\ Admissions' = Admissions + 1
    /\ nullifiers \subseteq nullifiers' /\ UNCHANGED now

(* Spent stays spent, and a leaf under a root stays one. *)
LEMMA LeafKept ==
    ASSUME WalletInv, PoolInv', Admission, NEW cm, NEW k \in Nat, IsLeafUnder(cm, k),
           k <= Len(leaves)
    PROVE  IsLeafUnder(cm, k)'
<1>1. Len(leaves) \in Nat  BY DEF WalletInv, PoolInv, TypeOK
<1> QED BY <1>1 DEF Admission, IsLeafUnder

LEMMA SpentKept ==
    ASSUME nullifiers \subseteq nullifiers', NEW f, AllSpent(f)
    PROVE  AllSpent(f)'
BY DEF AllSpent, IsUnspent, Unspent, Nullify

(* What was built right stays so: its notes stay under its anchor. *)
LEMMA BuiltStays ==
    ASSUME WalletInv, PoolInv', NEW f, NEW i, BuiltRight(f, i), AnchorIn(f) <= Len(leaves),
           AnchorIn(f) \in Nat, Admissions' >= Admissions, Admissions' \in Nat, f.built \in Nat,
           f.time \in Nat, now' \in Nat, now <= now',
           \A cm : \A k \in Nat : IsLeafUnder(cm, k) /\ k <= Len(leaves) => IsLeafUnder(cm, k)'
    PROVE  BuiltRight(f, i)'
<1>1. Admissions \in Nat /\ now \in Nat
  BY AdmissionsIsNat DEF WalletInv, PoolInv, TypeOK
<1>2. f.built <= Admissions' /\ f.time <= now'  BY <1>1 DEF BuiltRight
<1>3. CASE IsTransfer(f)
  <2>1. IsLeafUnder(f.run.nf.cm, f.run.anchor)'
    BY <1>3 DEF BuiltRight, TransferBuilt, AnchorIn
  <2> QED BY <1>2, <1>3, <2>1 DEF BuiltRight, TransferBuilt, IsTransfer
<1>4. CASE ~IsTransfer(f)
  <2> DEFINE b == f.run.plain
  <2>1. \A s \in 1 .. 2 : b.nullifiers[s].cm.amount # 0
                              => IsLeafUnder(b.nullifiers[s].cm, b.anchor)'
    BY <1>4 DEF BuiltRight, BundleBuilt, AnchorIn
  <2>2. BundleBuilt(f, i)'
    BY <1>4, <2>1 DEF BuiltRight, BundleBuilt, FeeIsNative, BundleDigest
  <2> QED BY <1>2, <1>4, <2>2 DEF BuiltRight, IsTransfer
<1> QED BY <1>3, <1>4

(* The anchors of submissions are roots the tree has passed. *)
LEMMA AnchorBelowRoot ==
    ASSUME WalletInv, NEW i \in 1 .. Len(flight)
    PROVE  AnchorIn(flight[i]) <= Len(leaves)
<1> DEFINE age == Admissions - flight[i].built
           anchor == AnchorIn(flight[i])
           L == Len(recentRoots)
<1>1. age \in Nat /\ anchor \in Nat /\ AnchorPlace(anchor, age)
  BY FlightFacts
<1>2. L \in Nat /\ L > 0 /\ \A k \in 1 .. L : recentRoots[k] \in Nat /\ recentRoots[k] <= Root
  BY WindowFacts
<1>3. Root \in Nat  BY DEF WalletInv, PoolInv, TypeOK, Root
<1> HIDE DEF age, anchor
<1>4. CASE age < L
  <2>1. L - age \in 1 .. L /\ recentRoots[L - age] = anchor
    BY <1>1, <1>2, <1>4 DEF AnchorPlace
  <2> QED BY <1>2, <2>1 DEF Root, anchor
<1>5. CASE ~(age < L)
  <2>1. anchor < recentRoots[1]  BY <1>1, <1>5 DEF AnchorPlace
  <2>2. recentRoots[1] \in Nat /\ recentRoots[1] <= Root  BY <1>2
  <2> QED BY <1>1, <1>3, <2>1, <2>2 DEF Root, anchor
<1> QED BY <1>4, <1>5

(* An admission moves every anchor one place, whatever is admitted. *)
LEMMA AdmissionMoves ==
    ASSUME WalletInv, PoolInv', Admission, flight' = flight
    PROVE  /\ WindowSorted' /\ AnchorsPlaced'
           /\ \A i \in 1 .. Len(flight) : BuiltRight(flight[i], i)'
<1> DEFINE root == Len(leaves')
           new == RecordRoot(recentRoots, root)
<1>1. /\ recentRoots \in Seq(Nat) /\ Len(recentRoots) > 0 /\ Len(recentRoots) \in Nat
      /\ Admissions \in Nat /\ Len(leaves) \in Nat /\ root \in Nat /\ AnchorWindow \in Nat
      /\ Len(recentRoots) <= AnchorWindow
      /\ \A k \in 1 .. Len(recentRoots) : recentRoots[k] \in Nat /\ recentRoots[k] <= Root
  BY WindowFacts DEF WalletInv, PoolInv, TypeOK
<1>2. \A k \in 1 .. Len(recentRoots) : recentRoots[k] < root
  BY <1>1 DEF Admission, Root
<1>3. \A i, j \in 1 .. Len(recentRoots) : i < j => recentRoots[i] < recentRoots[j]
  BY DEF WalletInv, WindowSorted
<1>4. recentRoots' = new /\ new \in Seq(Nat)
  BY DEF Admission, PoolInv, TypeOK
<1> HIDE DEF root, new
<1>5. /\ Len(new) \in Nat /\ Len(new) > 0
      /\ Len(new) = (IF Len(recentRoots) + 1 <= AnchorWindow THEN Len(recentRoots) + 1
                                                             ELSE AnchorWindow)
      /\ new[Len(new)] = root
      /\ \A p \in 1 .. Len(new) - 1 : new[p] = recentRoots[p + (Len(recentRoots) + 1 - Len(new))]
  BY <1>1, RecordRootPlaces DEF new
<1>6. /\ \A i, j \in 1 .. Len(new) : i < j => new[i] < new[j]
      /\ \A anchor \in Nat, age \in Nat :
           (IF age < Len(recentRoots) THEN recentRoots[Len(recentRoots) - age] = anchor
                                      ELSE anchor < recentRoots[1])
           => (IF age + 1 < Len(new) THEN new[Len(new) - (age + 1)] = anchor
                                     ELSE anchor < new[1])
  <2> DEFINE roots == recentRoots
             W == AnchorWindow
  <2>1. /\ roots \in Seq(Nat) /\ new \in Seq(Nat) /\ root \in Nat /\ W \in Nat
        /\ Len(roots) > 0 /\ Len(new) > 0 /\ Len(roots) <= W
        /\ Len(new) = (IF Len(roots) + 1 <= W THEN Len(roots) + 1 ELSE W)
        /\ new[Len(new)] = root
        /\ \A p \in 1 .. Len(new) - 1 : new[p] = roots[p + (Len(roots) + 1 - Len(new))]
        /\ \A i, j \in 1 .. Len(roots) : i < j => roots[i] < roots[j]
        /\ \A i \in 1 .. Len(roots) : roots[i] < root
    BY <1>1, <1>2, <1>3, <1>4, <1>5
  <2> HIDE DEF roots, W
  <2>2. /\ \A i, j \in 1 .. Len(new) : i < j => new[i] < new[j]
        /\ \A anchor \in Nat, age \in Nat :
             (IF age < Len(roots) THEN roots[Len(roots) - age] = anchor ELSE anchor < roots[1])
             => (IF age + 1 < Len(new) THEN new[Len(new) - (age + 1)] = anchor
                                       ELSE anchor < new[1])
    BY <2>1, OneMoreRoot
  <2> QED BY <2>2 DEF roots
<1>7. WindowSorted'  BY <1>4, <1>6 DEF WindowSorted
<1>8. ASSUME NEW i \in 1 .. Len(flight)
      PROVE  AnchorPlace(AnchorIn(flight[i]), Admissions - flight[i].built)'
  <2> DEFINE age == Admissions - flight[i].built
             anchor == AnchorIn(flight[i])
  <2>1. age \in Nat /\ anchor \in Nat /\ AnchorPlace(anchor, age) /\ flight[i].built \in Nat
    BY FlightFacts
  <2>2. Admissions' - flight'[i].built = age + 1 /\ AnchorIn(flight[i])' = anchor
    <3>1. flight'[i] = flight[i] /\ Admissions' = Admissions + 1  BY DEF Admission
    <3>2. AnchorIn(flight[i])' = anchor  BY <3>1 DEF AnchorIn, IsTransfer
    <3>3. flight'[i].built = flight[i].built  BY <3>1
    <3>4. Admissions' - flight'[i].built = age + 1
      <4>1. PICK a, c : a = Admissions' /\ c = flight'[i].built  OBVIOUS
      <4>2. /\ a = Admissions + 1 /\ c = flight[i].built
            /\ Admissions \in Nat /\ flight[i].built \in Nat
        BY <1>1, <2>1, <3>1, <3>3, <4>1
      <4>3. a - c = age + 1  BY <4>2
      <4> QED BY <4>1, <4>3
    <3> QED BY <3>2, <3>4
  <2> HIDE DEF age, anchor
  <2>3. IF age + 1 < Len(new) THEN new[Len(new) - (age + 1)] = anchor ELSE anchor < new[1]
    BY <1>6, <2>1 DEF AnchorPlace
  <2> QED BY <1>4, <2>2, <2>3 DEF AnchorPlace
<1>9. AnchorsPlaced'
  BY <1>8 DEF AnchorsPlaced
<1>10. ASSUME NEW i \in 1 .. Len(flight) PROVE BuiltRight(flight[i], i)'
  <2> DEFINE f == flight[i]
  <2>1. /\ BuiltRight(f, i) /\ AnchorIn(f) <= Len(leaves) /\ AnchorIn(f) \in Nat
        /\ f.built \in Nat /\ f.time \in Nat
    BY FlightFacts, AnchorBelowRoot
  <2>2. Admissions' >= Admissions /\ Admissions' \in Nat  BY <1>1 DEF Admission
  <2>3. now' \in Nat /\ now <= now'  BY DEF Admission, PoolInv, TypeOK
  <2>4. ASSUME NEW cm, NEW k \in Nat, IsLeafUnder(cm, k), k <= Len(leaves)
        PROVE  IsLeafUnder(cm, k)'
    BY <2>4, LeafKept
  <2>5. f' = f  OBVIOUS
  <2> HIDE DEF f
  <2>6. ASSUME NEW g, g = f PROVE BuiltRight(g, i)'
    BY <2>1, <2>2, <2>3, <2>4, <2>6, BuiltStays
  <2>7. PICK g : g = f  OBVIOUS
  <2>8. BuiltRight(g, i)'  BY <2>6, <2>7
  <2>9. flight'[i] = g  BY <2>5, <2>7 DEF f
  <2> QED BY <2>8, <2>9 DEF BuiltRight, TransferBuilt, BundleBuilt, IsTransfer
<1> QED BY <1>7, <1>9, <1>10

LEMMA MintAdmits ==
    ASSUME WalletInv, NEW note, MintStep(note)
    PROVE  PoolInv' /\ WindowInv' /\ Admission /\ ToSet(leaves') = ToSet(leaves) \cup {note}
<1>1. PoolInv /\ PoolInv' /\ TypeOK /\ WindowInv
  BY MintKeepsInv DEF WalletInv, PoolInv
<1>2. /\ note \in Note /\ note \notin ToSet(leaves) /\ leaves' = Append(leaves, note)
      /\ leaves \in Seq(Note) /\ Len(leaves) \in Nat /\ UNCHANGED <<bundles, nullifiers, now>>
      /\ Len(txs') = Len(txs) + 1
  BY <1>1 DEF MintStep, HasCommitment, TypeOK
<1>3. /\ Len(leaves') = Len(leaves) + 1 /\ \A i \in 1 .. Len(leaves) : leaves'[i] = leaves[i]
      /\ ToSet(leaves') = ToSet(leaves) \cup {note}
  BY <1>2, ToSetAppend
<1>4. Admissions' = Admissions + 1  BY <1>1, <1>2, AdmissionsIsNat DEF Admissions
<1>5. WindowInv'  BY <1>1, <1>2, LeafMovesWindow DEF MintStep
<1>6. Len(leaves) < Len(leaves')  BY <1>2, <1>3
<1> QED BY <1>1, <1>2, <1>3, <1>4, <1>5, <1>6 DEF Admission, MintStep

LEMMA TransferAdmits ==
    ASSUME WalletInv, NEW t, TransferStep(t)
    PROVE  /\ PoolInv' /\ WindowInv' /\ Admission
           /\ ToSet(leaves') = ToSet(leaves) \cup {t.cmOut}
<1>1. PoolInv /\ PoolInv' /\ TypeOK /\ WindowInv
  BY TransferKeepsInv DEF WalletInv, PoolInv
<1>2. /\ t.cmOut \in Note /\ t.cmOut \notin ToSet(leaves) /\ leaves' = Append(leaves, t.cmOut)
      /\ leaves \in Seq(Note) /\ Len(leaves) \in Nat /\ UNCHANGED <<bundles, now>>
      /\ nullifiers \subseteq nullifiers' /\ Len(txs') = Len(txs) + 1
  BY <1>1 DEF TransferStep, TransferFacts, Tx, HasCommitment, TypeOK
<1>3. /\ Len(leaves') = Len(leaves) + 1 /\ \A i \in 1 .. Len(leaves) : leaves'[i] = leaves[i]
      /\ ToSet(leaves') = ToSet(leaves) \cup {t.cmOut}
  BY <1>2, ToSetAppend
<1>4. Admissions' = Admissions + 1  BY <1>1, <1>2, AdmissionsIsNat DEF Admissions
<1>5. WindowInv'  BY <1>1, <1>2, LeafMovesWindow DEF TransferStep
<1>6. Len(leaves) < Len(leaves')  BY <1>2, <1>3
<1> QED BY <1>1, <1>2, <1>3, <1>4, <1>5, <1>6 DEF Admission, TransferStep

LEMMA BundleAdmits ==
    ASSUME WalletInv, NEW b, BundleStep(b)
    PROVE  /\ PoolInv' /\ WindowInv' /\ Admission
           /\ ToSet(leaves') = ToSet(leaves) \cup {b.commitments[1], b.commitments[2]}
<1> DEFINE c1 == b.commitments[1]
           c2 == b.commitments[2]
           half == Append(leaves, c1)
<1>1. PoolInv /\ PoolInv' /\ TypeOK /\ WindowInv /\ WindowInv'
  <2>1. PoolInv /\ PoolInv' /\ TypeOK /\ WindowInv  BY BundleKeepsInv DEF WalletInv, PoolInv
  <2> QED BY <2>1, BundleMovesWindow
<1>2. /\ c1 \in Note /\ c2 \in Note /\ b \in Bundle /\ leaves' = Append(half, c2)
      /\ leaves \in Seq(Note) /\ Len(leaves) \in Nat /\ UNCHANGED <<txs, now>>
      /\ nullifiers \subseteq nullifiers' /\ Len(bundles') = Len(bundles) + 1
  BY <1>1 DEF BundleStep, BundleFacts, Bundle, TypeOK
<1>3. /\ half \in Seq(Note) /\ Len(half) = Len(leaves) + 1
      /\ \A i \in 1 .. Len(leaves) : half[i] = leaves[i]
      /\ ToSet(half) = ToSet(leaves) \cup {c1}
  BY <1>2, ToSetAppend
<1> HIDE DEF c1, c2, half
<1>4. /\ Len(leaves') = Len(half) + 1 /\ \A i \in 1 .. Len(half) : leaves'[i] = half[i]
      /\ ToSet(leaves') = ToSet(half) \cup {c2}
  BY <1>2, <1>3, ToSetAppend
<1>5. /\ Len(leaves) < Len(leaves') /\ \A i \in 1 .. Len(leaves) : leaves'[i] = leaves[i]
      /\ ToSet(leaves') = ToSet(leaves) \cup {c1, c2}
  BY <1>2, <1>3, <1>4
<1>6. Admissions' = Admissions + 1  BY <1>1, <1>2, AdmissionsIsNat DEF Admissions
<1> QED BY <1>1, <1>2, <1>5, <1>6 DEF Admission, BundleStep, c1, c2

(* A delivery the ledger admits is an admission of its plaintext, and was  *)
(* timely: all its inputs were unspent.                                    *)
LEMMA DeliverIsStep ==
    ASSUME WalletInv, NEW i \in DOMAIN flight, Deliver(i)
    PROVE  /\ i \in 1 .. Len(flight) /\ Timely(flight[i])
           /\ IF IsTransfer(flight[i]) THEN TransferStep(flight[i].run)
                                       ELSE BundleStep(flight[i].run.plain)
<1>1. i \in 1 .. Len(flight)  BY DEF WalletInv, FlightInv
<1>2. CASE IsTransfer(flight[i])
  <2>1. Apply(Sound(flight[i].run), flight[i].run)
    BY <1>2 DEF Deliver, IsTransfer
  <2>2. Admissible(flight[i])  BY <1>2, <2>1 DEF Apply, Admissible, IsTransfer
  <2>3. Timely(flight[i]) /\ TransferFacts(flight[i].run)
    BY <1>1, <1>2, <2>2, TransferAnswer
  <2> QED BY <1>1, <1>2, <2>1, <2>3 DEF Apply, TransferStep
<1>3. CASE ~IsTransfer(flight[i])
  <2>1. ApplyBundle(Sound(flight[i].run), flight[i].run.plain)
    BY <1>3 DEF Deliver, IsTransfer
  <2>2. Admissible(flight[i])  BY <1>3, <2>1 DEF ApplyBundle, Admissible, IsTransfer
  <2>3. Timely(flight[i]) /\ BundleFacts(flight[i].run.plain)
    BY <1>1, <1>3, <2>2, BundleAnswer
  <2> QED BY <1>1, <1>3, <2>1, <2>3 DEF ApplyBundle, BundleStep
<1> QED BY <1>2, <1>3

(* What a delivery adds to the ledger. *)
LEMMA DeliverAdmits ==
    ASSUME WalletInv, NEW i \in DOMAIN flight, Deliver(i)
    PROVE  /\ PoolInv' /\ WindowInv' /\ Admission /\ i \in 1 .. Len(flight)
           /\ \A n \in flight[i].inputs : IsUnspent(n)
           /\ AllSpent(flight[i])'
           /\ \A cm \in ToSet(leaves') : cm \in ToSet(leaves) \/ cm.r \in OwnRand(i)
<1> DEFINE f == flight[i]
<1>1. i \in 1 .. Len(flight) /\ Timely(f) /\ flight' = flight  BY DeliverIsStep DEF Deliver
<1>2. \A n \in f.inputs : IsUnspent(n)  BY <1>1 DEF Timely
<1>3. BuiltRight(f, i)  BY <1>1, FlightFacts
<1>4. CASE IsTransfer(f)
  <2> DEFINE t == f.run
  <2>1. TransferStep(t)  BY <1>4, DeliverIsStep
  <2>2. TransferBuilt(f, i)  BY <1>3, <1>4 DEF BuiltRight
  <2>3. /\ PoolInv' /\ WindowInv' /\ Admission /\ ToSet(leaves') = ToSet(leaves) \cup {t.cmOut}
    BY <2>1, TransferAdmits
  <2>4. t.cmOut.r \in OwnRand(i) /\ f.inputs = {t.nf.cm}
    BY <2>2 DEF TransferBuilt
  <2>5. Nullify(t.nf.cm.pk, t.nf.cm) \in nullifiers'
    <3>1. Nullify(t.nf.cm.pk, t.nf.cm) = t.nf
      BY <2>2, NfIsNote DEF TransferBuilt
    <3> QED BY <2>1, <3>1 DEF TransferStep
  <2>6. AllSpent(flight[i])'
    BY <1>1, <2>4, <2>5 DEF AllSpent, IsUnspent, Unspent, Nullify
  <2> QED BY <1>1, <1>2, <2>3, <2>4, <2>6
<1>5. CASE ~IsTransfer(f)
  <2> DEFINE b == f.run.plain
  <2>1. BundleStep(b)  BY <1>5, DeliverIsStep
  <2>2. BundleBuilt(f, i)  BY <1>3, <1>5 DEF BuiltRight
  <2>3. /\ PoolInv' /\ WindowInv' /\ Admission
        /\ ToSet(leaves') = ToSet(leaves) \cup {b.commitments[1], b.commitments[2]}
    BY <2>1, BundleAdmits
  <2>4. /\ b.commitments[1].r \in OwnRand(i) /\ b.commitments[2].r \in OwnRand(i)
        /\ f.inputs = {b.nullifiers[1].cm, b.nullifiers[2].cm}
    <3>1. \A s \in 1 .. 2 : b.commitments[s].r \in OwnRand(i)  BY <2>2 DEF BundleBuilt
    <3>2. f.inputs = {b.nullifiers[1].cm, b.nullifiers[2].cm}  BY <2>2 DEF BundleBuilt
    <3> QED BY <3>1, <3>2
  <2>5. \A s \in 1 .. 2 : Nullify(b.nullifiers[s].cm.pk, b.nullifiers[s].cm) \in nullifiers'
    <3> TAKE s \in 1 .. 2
    <3>1. b.nullifiers[s] \in Nullifier
      <4>1. b.nullifiers \in Nullifier \X Nullifier  BY <2>2 DEF BundleBuilt, Bundle
      <4> QED BY <4>1
    <3>2. Nullify(b.nullifiers[s].cm.pk, b.nullifiers[s].cm) = b.nullifiers[s]
      BY <2>2, <3>1, NfIsNote DEF BundleBuilt
    <3>3. nullifiers' = nullifiers \cup {b.nullifiers[1], b.nullifiers[2]}
      BY <2>1 DEF BundleStep
    <3> QED BY <3>2, <3>3
  <2>6. AllSpent(flight[i])'
    BY <1>1, <2>4, <2>5 DEF AllSpent, IsUnspent, Unspent, Nullify
  <2> QED BY <1>1, <1>2, <2>3, <2>4, <2>6
<1> QED BY <1>4, <1>5

-----------------------------------------------------------------------------
(* The invariant is inductive. *)

LEMMA InitWallets == WalletInit => WalletInv
<1> SUFFICES ASSUME WalletInit PROVE WalletInv
  OBVIOUS
<1>1. PoolInv /\ WindowInv  BY InitPoolInv, InitWindow DEF WalletInit
<1>2. /\ flight = <<>> /\ landed = <<>> /\ Len(flight) = 0 /\ now = 0 /\ leaves = <<>>
      /\ recentRoots = <<0>> /\ Len(recentRoots) = 1
  BY DEF WalletInit, Init
<1>3. WindowSorted  BY <1>2 DEF WindowSorted
<1>4. FlightInv  BY <1>2, PoolAssumption, WalletAssumption DEF FlightInv
<1>5. WalletLeaves
  <2>1. ToSet(leaves) = {}  BY <1>2 DEF ToSet
  <2> QED BY <2>1 DEF WalletLeaves
<1> QED BY <1>1, <1>2, <1>3, <1>4, <1>5 DEF WalletInv, AnchorsPlaced, LandedOnce, RivalsExclude

LEMMA BuildKeeps == ASSUME WalletInv, NEW f, BuildStep(f) PROVE WalletInv'
<1> DEFINE n == Len(flight)
<1>1. /\ flight \in Seq(Submission) /\ landed \in Seq(Nat) /\ Len(landed) = n /\ n \in Nat
      /\ f \in Submission /\ flight' = Append(flight, f) /\ landed' = Append(landed, 0)
      /\ n < MaxBuilds /\ MaxBuilds \in Nat
  BY WalletAssumption DEF WalletInv, FlightInv, BuildStep
<1>2. /\ flight' \in Seq(Submission) /\ Len(flight') = n + 1 /\ flight'[n + 1] = f
      /\ \A i \in 1 .. n : flight'[i] = flight[i]
      /\ landed' \in Seq(Nat) /\ Len(landed') = n + 1 /\ landed'[n + 1] = 0
      /\ \A i \in 1 .. n : landed'[i] = landed[i]
  <2>1. /\ Append(flight, f) \in Seq(Submission) /\ Len(Append(flight, f)) = n + 1
        /\ Append(flight, f)[n + 1] = f
        /\ \A i \in 1 .. n : Append(flight, f)[i] = flight[i]
    BY <1>1, ToSetAppend
  <2>2. /\ Append(landed, 0) \in Seq(Nat) /\ Len(Append(landed, 0)) = n + 1
        /\ Append(landed, 0)[n + 1] = 0
        /\ \A i \in 1 .. n : Append(landed, 0)[i] = landed[i]
    BY <1>1, ToSetAppend
  <2> QED BY <1>1, <2>1, <2>2
<1> HIDE DEF n
<1>3. UNCHANGED vars /\ leaves' = leaves /\ recentRoots' = recentRoots /\ nullifiers' = nullifiers
      /\ now' = now /\ txs' = txs /\ bundles' = bundles
  BY DEF BuildStep, vars
<1>4. Admissions' = Admissions /\ Root' = Root
  BY <1>3 DEF Admissions, Root
<1>5. \A i \in 1 .. n + 1 : i \in 1 .. n \/ i = n + 1  BY <1>1
<1>6. PoolInv' /\ WindowInv' /\ WindowSorted'
  <2>1. PoolInv'  BY <1>3, NextKeepsInv DEF WalletInv
  <2>2. WindowInv'  BY <1>3, <2>1, NextKeepsWindow DEF WalletInv
  <2> QED BY <1>3, <2>1, <2>2 DEF WalletInv, WindowSorted
<1>7. ASSUME NEW g, NEW i, BuiltRight(g, i) PROVE BuiltRight(g, i)'
  BY <1>3, <1>4, <1>7 DEF BuiltRight, TransferBuilt, BundleBuilt, IsTransfer, IsLeafUnder,
     FeeIsNative, BundleDigest
<1>8. ASSUME NEW g, AllSpent(g) PROVE AllSpent(g)'
  BY <1>3, <1>8 DEF AllSpent, IsUnspent, Unspent, Nullify
<1>9. FlightInv'
  <2>1. \A i \in 1 .. n : BuiltRight(flight[i], i)  BY DEF WalletInv, FlightInv, n
  <2>2. BuiltRight(f, n + 1)  BY DEF BuildStep, n
  <2>3. ASSUME NEW i \in 1 .. n + 1 PROVE BuiltRight(flight[i], i)'
    <3>1. PICK g : g = flight'[i] /\ BuiltRight(g, i)  BY <1>2, <1>5, <2>1, <2>2
    <3>2. BuiltRight(g, i)'  BY <1>7, <3>1
    <3> QED BY <3>1, <3>2 DEF BuiltRight, TransferBuilt, BundleBuilt, IsTransfer
  <2>4. now' <= MaxNow  BY <1>3 DEF WalletInv, FlightInv
  <2>5. Len(flight') <= MaxBuilds  BY <1>1, <1>2
  <2> QED BY <1>2, <2>3, <2>4, <2>5 DEF FlightInv
<1>10. AnchorsPlaced'
  <2> SUFFICES ASSUME NEW i \in 1 .. n + 1
               PROVE  AnchorPlace(AnchorIn(flight[i]), Admissions - flight[i].built)'
    BY <1>2 DEF AnchorsPlaced
  <2>1. CASE i \in 1 .. n
    <3>1. AnchorPlace(AnchorIn(flight[i]), Admissions - flight[i].built)
      BY <2>1 DEF WalletInv, AnchorsPlaced, n
    <3>2. flight'[i] = flight[i]  BY <1>2, <2>1
    <3> QED BY <1>3, <1>4, <3>1, <3>2 DEF AnchorPlace, AnchorIn, IsTransfer
  <2>2. CASE i = n + 1
    <3>1. f.built = Admissions /\ AnchorIn(f) = Root /\ flight'[i] = f
      BY <1>2, <2>2 DEF BuildStep
    <3>2. Admissions \in Nat /\ Len(recentRoots) > 0 /\ Len(recentRoots) \in Nat
          /\ recentRoots[Len(recentRoots)] = Root
      BY WindowFacts
    <3>3. AnchorIn(flight[i])' = Root  BY <3>1 DEF AnchorIn, IsTransfer
    <3>4. (Admissions - flight[i].built)' = 0
      <4>1. PICK a, c : a = Admissions' /\ c = flight'[i].built  OBVIOUS
      <4>2. a = Admissions /\ c = Admissions  BY <1>4, <3>1, <4>1
      <4>3. a - c = 0  BY <3>2, <4>2
      <4> QED BY <4>1, <4>3
    <3>5. Len(recentRoots) - 0 = Len(recentRoots) /\ 0 < Len(recentRoots)  BY <3>2
    <3> QED BY <1>3, <3>2, <3>3, <3>4, <3>5 DEF AnchorPlace
  <2> QED BY <1>5, <2>1, <2>2
<1>11. WalletLeaves'
  <2> SUFFICES ASSUME NEW cm \in ToSet(leaves), cm.r \in WalletRand
               PROVE  \E i \in 1 .. n + 1 : cm.r \in OwnRand(i) /\ AllSpent(flight[i])'
    BY <1>2, <1>3 DEF WalletLeaves, WalletRand, OwnRand
  <2>1. PICK i \in 1 .. n : cm.r \in OwnRand(i) /\ AllSpent(flight[i])
    BY DEF WalletInv, WalletLeaves, n
  <2>2. flight'[i] = flight[i] /\ i \in 1 .. n + 1  BY <1>1, <1>2, <2>1
  <2>3. PICK g : g = flight[i]  OBVIOUS
  <2>4. AllSpent(g)'  BY <1>8, <2>1, <2>3
  <2>5. AllSpent(flight[i])'  BY <2>2, <2>3, <2>4 DEF AllSpent
  <2> QED BY <2>1, <2>2, <2>5
<1>12. LandedOnce'
  <2> SUFFICES ASSUME NEW i \in 1 .. n + 1
               PROVE  landed'[i] \in {0, 1} /\ (landed'[i] = 1 => AllSpent(flight[i])')
    BY <1>2 DEF LandedOnce
  <2>1. CASE i \in 1 .. n
    <3>1. landed[i] \in {0, 1} /\ (landed[i] = 1 => AllSpent(flight[i]))
      BY <2>1 DEF WalletInv, LandedOnce, n
    <3>2. landed'[i] = landed[i] /\ flight'[i] = flight[i]  BY <1>2, <2>1
    <3>3. PICK g : g = flight[i]  OBVIOUS
    <3>4. landed[i] = 1 => AllSpent(g)'  BY <1>8, <3>1, <3>3
    <3>5. landed[i] = 1 => AllSpent(flight[i])'  BY <3>2, <3>3, <3>4 DEF AllSpent
    <3> QED BY <3>1, <3>2, <3>5
  <2>2. CASE i = n + 1  BY <1>2, <2>2
  <2> QED BY <1>5, <2>1, <2>2
<1>13. RivalsExclude'
  <2> SUFFICES ASSUME NEW i \in 1 .. n + 1, NEW j \in 1 .. n + 1, i # j,
                      flight'[i].inputs \cap flight'[j].inputs # {}
               PROVE  landed'[i] = 0 \/ landed'[j] = 0
    BY <1>2 DEF RivalsExclude
  <2>1. CASE i \in 1 .. n /\ j \in 1 .. n
    BY <1>2, <2>1 DEF WalletInv, RivalsExclude, n
  <2>2. CASE i = n + 1 \/ j = n + 1  BY <1>2, <2>2
  <2> QED BY <1>5, <2>1, <2>2
<1> QED BY <1>6, <1>9, <1>10, <1>11, <1>12, <1>13 DEF WalletInv

(* An admission that leaves the submissions as they are, but for the count *)
(* of landings: what remains to show is about leaves and landings.         *)
LEMMA AdmissionKeeps ==
    ASSUME WalletInv, PoolInv', WindowInv', Admission, flight' = flight,
           landed' \in Seq(Nat), Len(landed') = Len(landed),
           WalletLeaves', LandedOnce', RivalsExclude'
    PROVE  WalletInv'
<1>1. /\ WindowSorted' /\ AnchorsPlaced'
      /\ \A i \in 1 .. Len(flight) : BuiltRight(flight[i], i)'
  BY AdmissionMoves
<1>2. FlightInv'
  <2>1. \A i \in 1 .. Len(flight') : BuiltRight(flight[i], i)'  BY <1>1
  <2> QED BY <2>1 DEF FlightInv, WalletInv, Admission
<1> QED BY <1>1, <1>2 DEF WalletInv

(* The leaves of wallets' making after an admission. *)
LEMMA WalletLeavesKept ==
    ASSUME WalletInv, nullifiers \subseteq nullifiers', flight' = flight,
           \A cm \in ToSet(leaves') :
               \/ cm \in ToSet(leaves)
               \/ cm.r \notin WalletRand
               \/ \E i \in 1 .. Len(flight) : cm.r \in OwnRand(i) /\ AllSpent(flight[i])'
    PROVE  WalletLeaves'
<1> SUFFICES ASSUME NEW cm \in ToSet(leaves'), cm.r \in WalletRand
             PROVE  \E i \in 1 .. Len(flight') : cm.r \in OwnRand(i) /\ AllSpent(flight[i])'
  BY DEF WalletLeaves, WalletRand, OwnRand
<1>1. CASE cm \in ToSet(leaves)
  <2>1. PICK i \in 1 .. Len(flight) : cm.r \in OwnRand(i) /\ AllSpent(flight[i])
    BY <1>1 DEF WalletInv, WalletLeaves
  <2>2. AllSpent(flight[i])'
    BY <2>1 DEF AllSpent, IsUnspent, Unspent, Nullify
  <2> QED BY <2>1, <2>2
<1>2. CASE cm \notin ToSet(leaves)  BY <1>2
<1> QED BY <1>1, <1>2

LEMMA MintKeepsWallets ==
    ASSUME WalletInv, NEW note \in MintNotes, Mint(note), UNCHANGED <<flight, landed>>
    PROVE  WalletInv'
<1>1. PoolInv /\ TypeOK  BY DEF WalletInv, PoolInv
<1>2. MintStep(note)  BY <1>1, MintIsStep
<1>3. PoolInv' /\ WindowInv' /\ Admission /\ ToSet(leaves') = ToSet(leaves) \cup {note}
  BY <1>2, MintAdmits
<1>4. note.r \notin WalletRand
  <2>1. Len(leaves) + 1 \in 0 .. MaxLeaves  BY <1>1, PoolAssumption DEF Mint, TypeOK
  <2>2. note.r \in Draw(Len(leaves) + 1)  BY DEF MintNotes
  <2> QED BY <2>1, <2>2, WalletAssumption
<1>5. nullifiers \subseteq nullifiers'  BY <1>3 DEF Admission
<1>6. WalletLeaves'  BY <1>3, <1>4, <1>5, WalletLeavesKept
<1>7. LandedOnce' /\ RivalsExclude'
  BY <1>5 DEF WalletInv, LandedOnce, RivalsExclude, AllSpent, IsUnspent, Unspent, Nullify
<1>8. landed' \in Seq(Nat) /\ Len(landed') = Len(landed)  BY DEF WalletInv, FlightInv
<1> QED BY <1>3, <1>6, <1>7, <1>8, AdmissionKeeps

LEMMA DeliverKeeps == ASSUME WalletInv, NEW i \in DOMAIN flight, Deliver(i) PROVE WalletInv'
<1>1. /\ PoolInv' /\ WindowInv' /\ Admission /\ i \in 1 .. Len(flight)
      /\ \A n \in flight[i].inputs : IsUnspent(n)
      /\ AllSpent(flight[i])'
      /\ \A cm \in ToSet(leaves') : cm \in ToSet(leaves) \/ cm.r \in OwnRand(i)
  BY DeliverAdmits
<1>2. /\ flight' = flight /\ landed' = [landed EXCEPT ![i] = @ + 1]
      /\ landed \in Seq(Nat) /\ Len(landed) = Len(flight) /\ Len(landed) \in Nat
  BY DEF Deliver, WalletInv, FlightInv
<1>3. /\ landed' \in Seq(Nat) /\ Len(landed') = Len(landed) /\ landed'[i] = landed[i] + 1
      /\ \A j \in 1 .. Len(flight) : j # i => landed'[j] = landed[j]
  BY <1>1, <1>2
<1>4. nullifiers \subseteq nullifiers'  BY <1>1 DEF Admission
<1>5. ASSUME NEW j \in 1 .. Len(flight), flight[j].inputs \cap flight[i].inputs # {}
      PROVE  landed[j] = 0
  <2>1. PICK n \in flight[j].inputs : IsUnspent(n)  BY <1>1, <1>5
  <2>2. ~AllSpent(flight[j])  BY <2>1 DEF AllSpent
  <2> QED BY <2>2 DEF WalletInv, LandedOnce
<1>6. landed[i] = 0
  <2>1. flight[i].inputs # {}  BY <1>1, FlightFacts
  <2> QED BY <1>1, <1>5, <2>1
<1>7. WalletLeaves'
  BY <1>1, <1>2, <1>4, WalletLeavesKept
<1>8. LandedOnce'
  <2> SUFFICES ASSUME NEW j \in 1 .. Len(flight)
               PROVE  landed'[j] \in {0, 1} /\ (landed'[j] = 1 => AllSpent(flight[j])')
    BY <1>2 DEF LandedOnce
  <2>1. CASE j = i  BY <1>1, <1>3, <1>6, <2>1
  <2>2. CASE j # i
    <3>1. landed'[j] \in {0, 1} /\ (landed'[j] = 1 => AllSpent(flight[j]))
      BY <1>3, <2>2 DEF WalletInv, LandedOnce
    <3>2. AllSpent(flight[j]) => AllSpent(flight[j])'
      BY <1>2, <1>4 DEF AllSpent, IsUnspent, Unspent, Nullify
    <3> QED BY <3>1, <3>2
  <2> QED BY <2>1, <2>2
<1>9. RivalsExclude'
  <2> SUFFICES ASSUME NEW j \in 1 .. Len(flight), NEW k \in 1 .. Len(flight), j # k,
                      flight[j].inputs \cap flight[k].inputs # {}
               PROVE  landed'[j] = 0 \/ landed'[k] = 0
    BY <1>2 DEF RivalsExclude
  <2>1. CASE j = i  BY <1>3, <1>5, <2>1
  <2>2. CASE k = i  BY <1>3, <1>5, <2>2
  <2>3. CASE j # i /\ k # i  BY <1>3, <2>3 DEF WalletInv, RivalsExclude
  <2> QED BY <2>1, <2>2, <2>3
<1> QED BY <1>1, <1>2, <1>3, <1>7, <1>8, <1>9, AdmissionKeeps

(* The clock moves on: nothing but the time of submissions is affected. *)
LEMMA TickFacts ==
    ASSUME WalletInv, Advance(1)
    PROVE  now' = now + 1 /\ now' <= MaxNow /\ now \in Nat
<1>1. now \in Nat /\ now <= MaxNow /\ MaxNow \in Nat /\ ClockWord \in Nat
  BY PoolAssumption DEF WalletInv, FlightInv, PoolInv, TypeOK
<1>2. (now + 1) % ClockWord = now + 1
  <2>1. now + 1 \in Nat /\ now + 1 < ClockWord  BY <1>1, WalletAssumption
  <2> QED BY <1>1, <2>1
<1> QED BY <1>1, <1>2 DEF Advance

LEMMA TickKeepsWallets ==
    ASSUME WalletInv, Advance(1), UNCHANGED <<flight, landed>>
    PROVE  WalletInv'
<1>1. now' = now + 1 /\ now' <= MaxNow /\ now \in Nat  BY TickFacts
<1>2. /\ leaves' = leaves /\ recentRoots' = recentRoots /\ nullifiers' = nullifiers
      /\ txs' = txs /\ bundles' = bundles /\ flight' = flight /\ landed' = landed
  BY DEF Advance
<1>3. AdvanceStep  BY <1>1 DEF Advance, AdvanceStep
<1>4. PoolInv'
  BY <1>3 DEF AdvanceStep, WalletInv, PoolInv, TypeOK, LeavesDistinct, EveryLeafSpendable,
     HasCommitment
<1>5. WindowInv' /\ WindowSorted'
  BY <1>2 DEF WalletInv, WindowInv, WindowIsRecent, FirstLeavesKept, Root, HasCommitment,
     WindowSorted
<1>6. Admissions' = Admissions  BY <1>2 DEF Admissions
<1>7. FlightInv'
  <2>1. ASSUME NEW i \in 1 .. Len(flight) PROVE BuiltRight(flight[i], i)'
    <3>1. PICK f : f = flight[i]  OBVIOUS
    <3>2. /\ BuiltRight(f, i) /\ f.time \in Nat /\ f.built \in Nat
          /\ AnchorIn(f) \in Nat /\ AnchorIn(f) <= Len(leaves) /\ Admissions \in Nat
      BY <3>1, FlightFacts, AnchorBelowRoot
    <3>3. ASSUME NEW cm, NEW k \in Nat, IsLeafUnder(cm, k) PROVE IsLeafUnder(cm, k)'
      BY <1>2, <3>3 DEF IsLeafUnder
    <3>4. /\ Admissions' >= Admissions /\ Admissions' \in Nat /\ now' \in Nat /\ now <= now'
      BY <1>1, <1>6, <3>2
    <3>5. BuiltRight(f, i)'
      BY <1>4, <3>2, <3>3, <3>4, BuiltStays
    <3>6. flight'[i] = f  BY <1>2, <3>1
    <3> QED BY <3>5, <3>6 DEF BuiltRight, TransferBuilt, BundleBuilt, IsTransfer
  <2> QED BY <1>1, <1>2, <2>1 DEF FlightInv, WalletInv
<1>8. AnchorsPlaced'
  BY <1>2, <1>6 DEF WalletInv, AnchorsPlaced, AnchorPlace, AnchorIn, IsTransfer
<1>9. WalletLeaves' /\ LandedOnce' /\ RivalsExclude'
  BY <1>2 DEF WalletInv, WalletLeaves, LandedOnce, RivalsExclude, AllSpent, IsUnspent, Unspent,
     Nullify, WalletRand, OwnRand
<1> QED BY <1>4, <1>5, <1>7, <1>8, <1>9 DEF WalletInv

LEMMA WalletsKept == WalletInv /\ [WalletNext]_walletVars => WalletInv'
<1> SUFFICES ASSUME WalletInv, [WalletNext]_walletVars PROVE WalletInv'
  OBVIOUS
<1>1. PoolInv /\ FlightInv  BY DEF WalletInv
<1>2. CASE BuildTransfer  BY <1>1, <1>2, BuildTransferIsStep, BuildKeeps
<1>3. CASE BuildBundle  BY <1>1, <1>3, BuildBundleIsStep, BuildKeeps
<1>4. CASE \E i \in DOMAIN flight : Deliver(i)  BY <1>4, DeliverKeeps
<1>5. CASE \E note \in MintNotes : Mint(note) /\ UNCHANGED <<flight, landed>>
  BY <1>5, MintKeepsWallets
<1>6. CASE Advance(1) /\ UNCHANGED <<flight, landed>>
  BY <1>6, TickKeepsWallets
<1>7. CASE UNCHANGED walletVars
  <2>1. /\ leaves' = leaves /\ recentRoots' = recentRoots /\ nullifiers' = nullifiers
        /\ now' = now /\ txs' = txs /\ bundles' = bundles /\ flight' = flight
        /\ landed' = landed /\ UNCHANGED vars
    BY <1>7 DEF walletVars, vars
  <2>2. PoolInv' /\ WindowInv'
    <3>1. PoolInv'  BY <2>1, NextKeepsInv DEF WalletInv
    <3> QED BY <2>1, <3>1, NextKeepsWindow DEF WalletInv
  <2>3. Admissions' = Admissions /\ WindowSorted'
    BY <2>1 DEF Admissions, WalletInv, WindowSorted
  <2>4. FlightInv'
    <3>1. ASSUME NEW i \in 1 .. Len(flight) PROVE BuiltRight(flight[i], i)'
      <4>1. PICK f : f = flight[i] /\ BuiltRight(f, i)  BY DEF WalletInv, FlightInv
      <4>2. BuiltRight(f, i)'
        BY <2>1, <2>3, <4>1 DEF BuiltRight, TransferBuilt, BundleBuilt, IsTransfer, IsLeafUnder,
           FeeIsNative, BundleDigest
      <4>3. flight'[i] = f  BY <2>1, <4>1
      <4> QED BY <4>2, <4>3 DEF BuiltRight, TransferBuilt, BundleBuilt, IsTransfer
    <3> QED BY <2>1, <3>1 DEF FlightInv, WalletInv
  <2>5. AnchorsPlaced'
    BY <2>1, <2>3 DEF WalletInv, AnchorsPlaced, AnchorPlace, AnchorIn, IsTransfer
  <2>6. WalletLeaves' /\ LandedOnce' /\ RivalsExclude'
    BY <2>1 DEF WalletInv, WalletLeaves, LandedOnce, RivalsExclude, AllSpent, IsUnspent, Unspent,
       Nullify, WalletRand, OwnRand
  <2> QED BY <2>2, <2>3, <2>4, <2>5, <2>6 DEF WalletInv
<1> QED BY <1>2, <1>3, <1>4, <1>5, <1>6, <1>7 DEF WalletNext

(* The inductive invariant of the ledger with wallets in front of it: each *)
(* anchor's place in the window, each build's facts, and where the leaves  *)
(* of wallets' making come from.                                           *)
THEOREM WalletInvariant == WalletSpec => []WalletInv
BY InitWallets, WalletsKept, PTL DEF WalletSpec

LEMMA AnswerIsTimely ==
    ASSUME WalletInv, NEW i \in 1 .. Len(flight)
    PROVE  Admissible(flight[i]) <=> Timely(flight[i])
BY TransferAnswer, BundleAnswer

(* An honest submission is admissible exactly until AnchorWindow later     *)
(* roots, the clock, or another spend of an input overtakes it.            *)
THEOREM HonestAdmittedUntilOvertaken == WalletSpec => []HonestUntilOvertaken
<1>1. WalletInv => HonestUntilOvertaken
  <2>1. WalletInv => DOMAIN flight = 1 .. Len(flight)  BY DEF WalletInv, FlightInv
  <2> QED BY <2>1, AnswerIsTimely DEF HonestUntilOvertaken
<1> QED BY <1>1, WalletInvariant, PTL

(* Of all the submissions that spend a note, and all their deliveries, the *)
(* ledger admits at most one.                                              *)
THEOREM AtMostOneRivalLands == WalletSpec => []OneRivalLands
<1>1. WalletInv => OneRivalLands
  <2> SUFFICES ASSUME WalletInv PROVE OneRivalLands
    OBVIOUS
  <2>1. DOMAIN landed = 1 .. Len(flight)  BY DEF WalletInv, FlightInv
  <2>2. \A i \in 1 .. Len(flight) : landed[i] \in {0, 1}  BY DEF WalletInv, LandedOnce
  <2>3. ASSUME NEW i \in 1 .. Len(flight), NEW j \in 1 .. Len(flight), i # j,
               flight[i].inputs \cap flight[j].inputs # {}
        PROVE  landed[i] + landed[j] <= 1
    <3>1. landed[i] = 0 \/ landed[j] = 0  BY <2>3 DEF WalletInv, RivalsExclude
    <3> QED BY <2>2, <3>1
  <2> QED BY <2>1, <2>2, <2>3 DEF OneRivalLands
<1> QED BY <1>1, WalletInvariant, PTL

LEMMA Answers ==
    WalletInv => \A i \in 1 .. Len(flight) : Admissible(flight[i]) <=> Timely(flight[i])
BY AnswerIsTimely

LEMMA AnswersAfter ==
    (WalletInv => \A i \in 1 .. Len(flight) : Admissible(flight[i]) <=> Timely(flight[i]))'
BY Answers, PTL

LEMMA AdmissionsAfter ==
    (TypeOK => Admissions \in Nat /\ Len(txs) \in Nat /\ Len(bundles) \in Nat)'
BY AdmissionsIsNat, PTL

(* Roots, spent notes and the clock only grow, and no submission changes. *)
LEMMA NothingReturns ==
    ASSUME WalletInv, [WalletNext]_walletVars
    PROVE  /\ Admissions \in Nat /\ Admissions' \in Nat /\ Admissions <= Admissions'
           /\ now \in Nat /\ now' \in Nat /\ now <= now' /\ nullifiers \subseteq nullifiers'
           /\ \A i \in 1 .. Len(flight) : i \in 1 .. Len(flight') /\ flight'[i] = flight[i]
<1>1. /\ PoolInv /\ FlightInv /\ WalletInv' /\ PoolInv'
      /\ Admissions \in Nat /\ Admissions' \in Nat /\ now \in Nat /\ now' \in Nat
      /\ Len(flight) \in Nat /\ flight \in Seq(Submission)
  <2>1. WalletInv'  BY WalletsKept
  <2>2. PoolInv /\ FlightInv /\ PoolInv' /\ FlightInv'  BY <2>1 DEF WalletInv
  <2>3. Admissions \in Nat /\ now \in Nat  BY <2>2, AdmissionsIsNat DEF PoolInv, TypeOK
  <2>4. Admissions' \in Nat /\ now' \in Nat
    BY <2>2, AdmissionsAfter DEF PoolInv, TypeOK
  <2> QED BY <2>1, <2>2, <2>3, <2>4 DEF FlightInv
<1>2. CASE Admission /\ flight' = flight
  BY <1>1, <1>2 DEF Admission
<1>3. ASSUME NEW f, BuildStep(f)
      PROVE  /\ Admissions' = Admissions /\ now' = now /\ nullifiers' = nullifiers
             /\ \A i \in 1 .. Len(flight) : i \in 1 .. Len(flight') /\ flight'[i] = flight[i]
  <2>1. flight' = Append(flight, f) /\ f \in Submission /\ UNCHANGED vars  BY <1>3 DEF BuildStep
  <2>2. /\ Len(Append(flight, f)) = Len(flight) + 1
        /\ \A i \in 1 .. Len(flight) : Append(flight, f)[i] = flight[i]
    BY <1>1, <2>1, ToSetAppend
  <2> QED BY <1>1, <2>1, <2>2 DEF vars, Admissions
<1>4. CASE BuildTransfer \/ BuildBundle
  BY <1>1, <1>3, <1>4, BuildTransferIsStep, BuildBundleIsStep
<1>5. CASE \E i \in DOMAIN flight : Deliver(i)
  BY <1>2, <1>5, DeliverAdmits DEF Deliver
<1>6. CASE \E note \in MintNotes : Mint(note) /\ UNCHANGED <<flight, landed>>
  BY <1>1, <1>2, <1>6, MintIsStep, MintAdmits DEF PoolInv
<1>7. CASE Advance(1) /\ UNCHANGED <<flight, landed>>
  <2>1. now' = now + 1  BY <1>7, TickFacts
  <2>2. Admissions' = Admissions /\ nullifiers' = nullifiers /\ flight' = flight
    BY <1>7 DEF Advance, Admissions
  <2> QED BY <1>1, <2>1, <2>2
<1>8. CASE UNCHANGED walletVars
  BY <1>1, <1>8 DEF walletVars, vars, Admissions
<1> QED BY <1>4, <1>5, <1>6, <1>7, <1>8 DEF WalletNext

LEMMA LateStaysLate ==
    ASSUME WalletInv, [WalletNext]_walletVars, NEW i \in 1 .. Len(flight), ~Timely(flight[i])
    PROVE  ~Timely(flight[i])'
<1>1. PICK f : f = flight[i]  OBVIOUS
<1>2. /\ f.built \in Nat /\ f.time \in Nat /\ f.time <= now /\ ~Timely(f)
  BY <1>1, FlightFacts DEF BuiltRight
<1>3. /\ Admissions \in Nat /\ Admissions' \in Nat /\ Admissions <= Admissions'
      /\ now \in Nat /\ now' \in Nat /\ now <= now' /\ nullifiers \subseteq nullifiers'
      /\ flight'[i] = f
  BY <1>1, NothingReturns
<1>4. AnchorWindow \in Nat /\ TimeWindow \in Nat  BY PoolAssumption
<1>5. CASE ~(Admissions - f.built < AnchorWindow)
  <2>1. ~(Admissions' - f.built < AnchorWindow)  BY <1>2, <1>3, <1>4, <1>5
  <2> QED BY <1>3, <2>1 DEF Timely
<1>6. CASE ~(IF f.kind = "transfer" THEN now = f.time ELSE now - f.time <= TimeWindow)
  <2>1. ~(IF f.kind = "transfer" THEN now' = f.time ELSE now' - f.time <= TimeWindow)
    BY <1>2, <1>3, <1>4, <1>6
  <2> QED BY <1>3, <2>1 DEF Timely
<1>7. CASE \E n \in f.inputs : ~IsUnspent(n)
  <2>1. \E n \in f.inputs : ~IsUnspent(n)'
    BY <1>3, <1>7 DEF IsUnspent, Unspent, Nullify
  <2> QED BY <1>3, <2>1 DEF Timely, IsUnspent, Unspent, Nullify
<1> QED BY <1>2, <1>5, <1>6, <1>7 DEF Timely

(* A refused submission is refused for ever: neither its anchor nor its    *)
(* time nor its inputs ever come back.                                     *)
THEOREM RefusalsAreFinal == WalletSpec => RefusalIsFinal
<1> DEFINE Final == \A i \in DOMAIN flight : ~Admissible(flight[i]) => ~Admissible(flight[i])'
<1>1. WalletInv /\ WalletInv' /\ [WalletNext]_walletVars => Final
  <2> SUFFICES ASSUME WalletInv, WalletInv', [WalletNext]_walletVars,
                      NEW i \in DOMAIN flight, ~Admissible(flight[i])
               PROVE  ~Admissible(flight[i])'
    OBVIOUS
  <2>1. i \in 1 .. Len(flight)  BY DEF WalletInv, FlightInv
  <2>2. i \in 1 .. Len(flight') /\ flight'[i] = flight[i]  BY <2>1, NothingReturns
  <2>3. ~Timely(flight[i])  BY <2>1, AnswerIsTimely
  <2>4. ~Timely(flight[i])'  BY <2>1, <2>3, LateStaysLate
  <2>5. (\A k \in 1 .. Len(flight) : Admissible(flight[k]) <=> Timely(flight[k]))'
    BY AnswersAfter
  <2> QED BY <2>2, <2>4, <2>5
<1>2. WalletInv /\ WalletInv' /\ [WalletNext]_walletVars => [Final]_walletVars
  BY <1>1
<1>3. WalletSpec => [][Final]_walletVars
  BY <1>2, WalletInvariant, PTL DEF WalletSpec
<1> QED BY <1>3 DEF RefusalIsFinal

-----------------------------------------------------------------------------
(* Viewing keys (Viewing).                                                 *)

(* The inductive invariant. *)

Envelope ==
    [cm : Note, to : [vk : Party, version : {0, 1}], ovk : Party, key : Nat, note : Note]

EnvelopesTyped ==
    /\ txEnvelopes \in Seq(Envelope) /\ Len(txEnvelopes) = Len(txs)
    /\ bundleEnvelopes \in Seq(Envelope \X Envelope) /\ Len(bundleEnvelopes) = Len(bundles)
    /\ now <= MaxNow

(* The key of an envelope was drawn for one leaf, and the envelope, or the *)
(* one it is a copy of, was sealed over that leaf's commitment.            *)
KeyFits(e) == e.key \in 1 .. Len(leaves) /\ leaves[e.key] = e.cm

KeysFit == \A e \in Envelopes : KeyFits(e)

(* What the chain says at a place: a commitment made now by the spender of *)
(* the note whose nullifier stands there.                                  *)
Entry(at) == [source |-> at.source, cm |-> CmAt(at), nf |-> NfAt(at), time |-> TimeAt(at)]

Chain == [at \in Place |-> Entry(at)]

EntryRight(x, tree) ==
    /\ x.cm \in tree /\ x.cm.time = x.time
    /\ x.source = "bundle" => x.nf # None
    /\ x.nf # None =>
          /\ x.nf \in Nullifier /\ x.nf.nk = x.nf.cm.pk
          /\ x.cm.from = x.nf.nk
          /\ x.source = "transfer" => x.nf.cm \in tree

(* Places and leaves are one to one. *)
OneToOne(chain, tree) ==
    /\ \A at \in DOMAIN chain : EntryRight(chain[at], tree)
    /\ \A cm \in tree : \E at \in DOMAIN chain : chain[at].cm = cm
    /\ \A at, bt \in DOMAIN chain : chain[at].cm = chain[bt].cm => at = bt

PlacesAreLeaves == OneToOne(Chain, ToSet(leaves))

(* Unless someone seals to a rotated key, every envelope is for version 0. *)
Unrotated == "rotated" \notin Sealing => \A e \in Envelopes : e.to.version = 0

ViewInv == PoolInv /\ EnvelopesTyped /\ KeysFit /\ PlacesAreLeaves /\ Unrotated

-----------------------------------------------------------------------------
(* Places of a longer chain. *)

LEMMA InPlace ==
    ASSUME txs \in Seq(Tx), bundles \in Seq(Bundle)
    PROVE  /\ \A at : at \in Place <=>
                 /\ at = [source |-> at.source, tx |-> at.tx, slot |-> at.slot]
                 /\ \/ at.source = "transfer" /\ at.tx \in 1 .. Len(txs) /\ at.slot = 0
                    \/ at.source = "bundle" /\ at.tx \in 1 .. Len(bundles) /\ at.slot \in {0, 1}
           /\ \A at \in Place : at.source = "transfer" => txs[at.tx] \in Tx
           /\ \A at \in Place : at.source = "bundle" =>
                 /\ bundles[at.tx] \in Bundle /\ at.slot + 1 \in 1 .. 2
<1>1. DOMAIN txs = 1 .. Len(txs) /\ DOMAIN bundles = 1 .. Len(bundles)  OBVIOUS
<1>2. ASSUME NEW at
      PROVE  at \in Place <=>
                 /\ at = [source |-> at.source, tx |-> at.tx, slot |-> at.slot]
                 /\ \/ at.source = "transfer" /\ at.tx \in 1 .. Len(txs) /\ at.slot = 0
                    \/ at.source = "bundle" /\ at.tx \in 1 .. Len(bundles) /\ at.slot \in {0, 1}
  BY <1>1 DEF Place
<1>3. \A i \in 1 .. Len(txs) : txs[i] \in Tx  BY ElementOfSeq
<1>4. \A i \in 1 .. Len(bundles) : bundles[i] \in Bundle  BY ElementOfSeq
<1> QED BY <1>2, <1>3, <1>4

(* One entry more, over a fresh commitment. *)
LEMMA OneMore ==
    ASSUME NEW chain, NEW tree, OneToOne(chain, tree), NEW new, new \notin DOMAIN chain,
           NEW longer, DOMAIN longer = DOMAIN chain \cup {new},
           \A at \in DOMAIN chain : longer[at] = chain[at],
           longer[new].cm \notin tree,
           NEW taller, taller = tree \cup {longer[new].cm},
           EntryRight(longer[new], taller)
    PROVE  OneToOne(longer, taller)
<1>1. ASSUME NEW at \in DOMAIN chain PROVE EntryRight(longer[at], taller) /\ longer[at].cm \in tree
  BY DEF OneToOne, EntryRight
<1>2. \A at \in DOMAIN longer : EntryRight(longer[at], taller)
  BY <1>1
<1>3. \A cm \in taller : \E at \in DOMAIN longer : longer[at].cm = cm
  BY DEF OneToOne
<1>4. \A at, bt \in DOMAIN longer : longer[at].cm = longer[bt].cm => at = bt
  BY <1>1 DEF OneToOne
<1> QED BY <1>2, <1>3, <1>4 DEF OneToOne

(* One transaction more is one entry more; the old ones stay as they are.  *)
LEMMA TxPlaces ==
    ASSUME txs \in Seq(Tx), bundles \in Seq(Bundle), NEW t \in Tx,
           txs' = Append(txs, t), bundles' = bundles,
           NEW new, new = [source |-> "transfer", tx |-> Len(txs) + 1, slot |-> 0]
    PROVE  /\ DOMAIN Chain' = DOMAIN Chain \cup {new} /\ new \notin DOMAIN Chain
           /\ \A at \in DOMAIN Chain : Chain'[at] = Chain[at]
           /\ Chain'[new] = [source |-> "transfer", cm |-> t.cmOut, nf |-> t.nf, time |-> t.time]
<1>1. /\ txs' \in Seq(Tx) /\ Len(txs') = Len(txs) + 1 /\ txs'[Len(txs) + 1] = t
      /\ \A i \in 1 .. Len(txs) : txs'[i] = txs[i]
      /\ Len(txs) \in Nat
  BY ToSetAppend
<1>2. DOMAIN txs = 1 .. Len(txs) /\ DOMAIN txs' = 1 .. Len(txs) + 1 /\ DOMAIN bundles' = DOMAIN bundles
  BY <1>1
<1>3. Place' = Place \cup {new}
  <2>1. \A i : i \in 1 .. Len(txs) + 1 <=> i \in 1 .. Len(txs) \/ i = Len(txs) + 1
    BY <1>1
  <2>2. ASSUME NEW at PROVE at \in Place' <=> at \in Place \/ at = new
    BY <1>2, <2>1 DEF Place
  <2> QED BY <2>2
<1>4. ASSUME NEW at \in Place PROVE Chain'[at] = Chain[at]
  <2>1. at.source = "transfer" => txs'[at.tx] = txs[at.tx]
    BY <1>1, InPlace
  <2>2. CmAt(at)' = CmAt(at) /\ NfAt(at)' = NfAt(at) /\ TimeAt(at)' = TimeAt(at)
    BY <2>1 DEF CmAt, NfAt, TimeAt
  <2>3. Entry(at)' = Entry(at)  BY <2>2 DEF Entry
  <2>4. Chain[at] = Entry(at)  BY DEF Chain
  <2>5. Chain'[at] = Entry(at)'
    <3>1. at \in Place'  BY <1>3
    <3> QED BY <3>1 DEF Chain
  <2> QED BY <2>3, <2>4, <2>5
<1>5. Chain'[new] = [source |-> "transfer", cm |-> t.cmOut, nf |-> t.nf, time |-> t.time]
  <2>1. CmAt(new)' = t.cmOut /\ NfAt(new)' = t.nf /\ TimeAt(new)' = t.time
    BY <1>1 DEF CmAt, NfAt, TimeAt
  <2>2. new \in Place'  BY <1>3
  <2>3. Chain'[new] = Entry(new)'  BY <2>2 DEF Chain
  <2> QED BY <2>1, <2>3 DEF Entry
<1>6. new \notin Place  BY <1>1, InPlace
<1>7. DOMAIN Chain = Place /\ DOMAIN Chain' = Place'  BY DEF Chain
<1> QED BY <1>3, <1>4, <1>5, <1>6, <1>7

BundlePlace(i, s) == [source |-> "bundle", tx |-> i, slot |-> s]

LEMMA BundlePlaces ==
    ASSUME txs \in Seq(Tx), bundles \in Seq(Bundle), NEW b \in Bundle,
           txs' = txs, bundles' = Append(bundles, b),
           NEW new0, new0 = BundlePlace(Len(bundles) + 1, 0),
           NEW new1, new1 = BundlePlace(Len(bundles) + 1, 1)
    PROVE  /\ DOMAIN Chain' = DOMAIN Chain \cup {new0, new1}
           /\ new0 \notin DOMAIN Chain /\ new1 \notin DOMAIN Chain /\ new0 # new1
           /\ \A at \in DOMAIN Chain : Chain'[at] = Chain[at]
           /\ Chain'[new0] = [source |-> "bundle", cm |-> b.commitments[1],
                              nf |-> b.nullifiers[1], time |-> b.time]
           /\ Chain'[new1] = [source |-> "bundle", cm |-> b.commitments[2],
                              nf |-> b.nullifiers[2], time |-> b.time]
<1>1. /\ bundles' \in Seq(Bundle) /\ Len(bundles') = Len(bundles) + 1 /\ bundles'[Len(bundles) + 1] = b
      /\ \A i \in 1 .. Len(bundles) : bundles'[i] = bundles[i]
      /\ Len(bundles) \in Nat
  BY ToSetAppend
<1>2. /\ DOMAIN bundles = 1 .. Len(bundles) /\ DOMAIN bundles' = 1 .. Len(bundles) + 1
      /\ DOMAIN txs' = DOMAIN txs
  BY <1>1
<1>3. Place' = Place \cup {new0, new1}
  <2>1. \A i : i \in 1 .. Len(bundles) + 1 <=> i \in 1 .. Len(bundles) \/ i = Len(bundles) + 1
    BY <1>1
  <2>2. ASSUME NEW at PROVE at \in Place' <=> at \in Place \/ at = new0 \/ at = new1
    BY <1>2, <2>1 DEF Place, BundlePlace
  <2> QED BY <2>2
<1>4. ASSUME NEW at \in Place PROVE Chain'[at] = Chain[at]
  <2>1. at.source # "transfer" => bundles'[at.tx] = bundles[at.tx]
    BY <1>1, InPlace
  <2>2. CmAt(at)' = CmAt(at) /\ NfAt(at)' = NfAt(at) /\ TimeAt(at)' = TimeAt(at)
    BY <2>1 DEF CmAt, NfAt, TimeAt
  <2>3. Entry(at)' = Entry(at)  BY <2>2 DEF Entry
  <2>4. Chain[at] = Entry(at)  BY DEF Chain
  <2>5. Chain'[at] = Entry(at)'
    <3>1. at \in Place'  BY <1>3
    <3> QED BY <3>1 DEF Chain
  <2> QED BY <2>3, <2>4, <2>5
<1>5. new0 \in Place' /\ new1 \in Place'  BY <1>3
<1>6. Chain'[new0] = [source |-> "bundle", cm |-> b.commitments[1],
                      nf |-> b.nullifiers[1], time |-> b.time]
  <2>1. CmAt(new0)' = b.commitments[1] /\ NfAt(new0)' = b.nullifiers[1] /\ TimeAt(new0)' = b.time
    BY <1>1 DEF CmAt, NfAt, TimeAt, BundlePlace
  <2>2. Chain'[new0] = Entry(new0)'  BY <1>5 DEF Chain
  <2> QED BY <2>1, <2>2 DEF Entry, BundlePlace
<1>7. Chain'[new1] = [source |-> "bundle", cm |-> b.commitments[2],
                      nf |-> b.nullifiers[2], time |-> b.time]
  <2>1. CmAt(new1)' = b.commitments[2] /\ NfAt(new1)' = b.nullifiers[2] /\ TimeAt(new1)' = b.time
    BY <1>1 DEF CmAt, NfAt, TimeAt, BundlePlace
  <2>2. Chain'[new1] = Entry(new1)'  BY <1>5 DEF Chain
  <2> QED BY <2>1, <2>2 DEF Entry, BundlePlace
<1>8. new0 \notin Place /\ new1 \notin Place /\ new0 # new1  BY <1>1, InPlace DEF BundlePlace
<1>9. DOMAIN Chain = Place /\ DOMAIN Chain' = Place'  BY DEF Chain
<1> QED BY <1>3, <1>4, <1>6, <1>7, <1>8, <1>9

-----------------------------------------------------------------------------
(* Envelopes of a longer chain. *)

(* What is sealed for a new leaf is an envelope that fits the longer tree. *)
LEMMA SealedFits ==
    ASSUME ViewInv, NEW note \in Note, NEW s \in Seq(Note), NEW key \in 1 .. Len(s), s[key] = note,
           Len(leaves) <= Len(s), \A i \in 1 .. Len(leaves) : s[i] = leaves[i],
           NEW e \in SealsOf(note, key, Sealing)
    PROVE  /\ e \in Envelope /\ e.key \in 1 .. Len(s) /\ s[e.key] = e.cm
           /\ "rotated" \notin Sealing => e.to.version = 0
<1>1. /\ leaves \in Seq(Note) /\ Len(leaves) \in Nat /\ Len(s) \in Nat /\ ToSet(leaves) \subseteq Note
      /\ note.pk \in Party /\ note.from \in Party
  <2>1. leaves \in Seq(Note)  BY DEF ViewInv, PoolInv, TypeOK
  <2>2. ToSet(leaves) \subseteq Note  BY <2>1, ToSetIndex
  <2>3. note.pk \in Party /\ note.from \in Party  BY DEF Note
  <2> QED BY <2>1, <2>2, <2>3
<1>2. ASSUME NEW p \in Party, NEW q \in Party, NEW v \in {0, 1}
      PROVE  Seal(p, q, v, note, key) \in Envelope /\ Seal(p, q, v, note, key).key = key
             /\ Seal(p, q, v, note, key).cm = note /\ Seal(p, q, v, note, key).to.version = v
  BY <1>1, <1>2 DEF Seal, Envelope
<1>3. CASE e = Seal(note.from, note.pk, 0, note, key)
  BY <1>1, <1>2, <1>3
<1>4. CASE "rotated" \in Sealing /\ e = Seal(note.from, note.pk, 1, note, key)
  BY <1>1, <1>2, <1>4
<1>5. CASE \E p, q \in Party : e = Seal(p, q, 0, note, key)
  BY <1>2, <1>5
<1>6. CASE e \in Envelopes
  <2>1. e \in Envelope
    <3>1. txEnvelopes \in Seq(Envelope) /\ bundleEnvelopes \in Seq(Envelope \X Envelope)
      BY DEF ViewInv, EnvelopesTyped
    <3>2. CASE e \in ToSet(txEnvelopes)  BY <3>1, <3>2, ToSetIndex
    <3>3. ASSUME NEW i \in DOMAIN bundleEnvelopes, e \in ToSet(bundleEnvelopes[i]) PROVE e \in Envelope
      <4>1. bundleEnvelopes[i] \in Envelope \X Envelope  BY <3>1, ElementOfSeq
      <4>2. PICK x \in Envelope, y \in Envelope : bundleEnvelopes[i] = <<x, y>>  BY <4>1
      <4> QED BY <3>3, <4>2 DEF ToSet
    <3> QED BY <1>6, <3>2, <3>3 DEF Envelopes
  <2>2. e.key \in 1 .. Len(leaves) /\ leaves[e.key] = e.cm
    BY <1>6 DEF ViewInv, KeysFit, KeyFits
  <2>3. "rotated" \notin Sealing => e.to.version = 0
    BY <1>6 DEF ViewInv, Unrotated
  <2> QED BY <1>1, <2>1, <2>2, <2>3
<1>7. CASE \E n \in ToSet(leaves) : e = [Seal(note.from, note.pk, 0, note, key) EXCEPT !.note = n]
  <2> DEFINE h == Seal(note.from, note.pk, 0, note, key)
  <2>1. h \in Envelope /\ h.key = key /\ h.cm = note /\ h.to.version = 0  BY <1>1, <1>2
  <2>2. PICK n \in ToSet(leaves) : e = [h EXCEPT !.note = n]  BY <1>7
  <2> HIDE DEF h
  <2>3. e \in Envelope /\ e.key = key /\ e.cm = note /\ e.to = h.to
    BY <1>1, <2>1, <2>2 DEF Envelope
  <2> QED BY <1>1, <2>1, <2>3
<1> QED BY <1>3, <1>4, <1>5, <1>6, <1>7 DEF SealsOf

(* A longer tree keeps the envelopes that fitted it, and takes new ones.   *)
LEMMA EnvelopesOfLonger ==
    ASSUME ViewInv, leaves' \in Seq(Note), Len(leaves) <= Len(leaves'),
           \A i \in 1 .. Len(leaves) : leaves'[i] = leaves[i],
           \A e \in Envelopes' : e \in Envelopes
               \/ (e.key \in 1 .. Len(leaves') /\ leaves'[e.key] = e.cm
                   /\ ("rotated" \notin Sealing => e.to.version = 0))
    PROVE  KeysFit' /\ Unrotated'
<1>1. Len(leaves) \in Nat /\ Len(leaves') \in Nat  BY DEF ViewInv, PoolInv, TypeOK
<1>2. ASSUME NEW e \in Envelopes' PROVE KeyFits(e)' /\ ("rotated" \notin Sealing => e.to.version = 0)
  <2>1. CASE e \in Envelopes
    <3>1. KeyFits(e) /\ ("rotated" \notin Sealing => e.to.version = 0)
      BY <2>1 DEF ViewInv, KeysFit, Unrotated
    <3>2. e.key \in 1 .. Len(leaves') /\ leaves'[e.key] = e.cm
      BY <1>1, <3>1 DEF KeyFits
    <3> QED BY <3>1, <3>2 DEF KeyFits
  <2>2. CASE e \notin Envelopes
    BY <1>2, <2>2 DEF KeyFits
  <2> QED BY <2>1, <2>2
<1> QED BY <1>2 DEF KeysFit, Unrotated

LEMMA TxKeeps ==
    ASSUME ViewInv, PoolInv', NEW t \in Tx, t.cmOut \in Note, ~HasCommitment(t.cmOut),
           t.cmOut.time = t.time,
           t.nf # None => /\ t.nf \in Nullifier /\ t.nf.nk = t.nf.cm.pk
                          /\ t.cmOut.from = t.nf.nk /\ HasCommitment(t.nf.cm),
           leaves' = Append(leaves, t.cmOut), txs' = Append(txs, t),
           bundles' = bundles, now' = now,
           NEW e \in SealsOf(t.cmOut, TxKey(0), Sealing),
           txEnvelopes' = Append(txEnvelopes, e), bundleEnvelopes' = bundleEnvelopes
    PROVE  ViewInv'
<1>1. /\ leaves \in Seq(Note) /\ txs \in Seq(Tx) /\ bundles \in Seq(Bundle)
      /\ txEnvelopes \in Seq(Envelope) /\ Len(txEnvelopes) = Len(txs)
  BY DEF ViewInv, PoolInv, TypeOK, EnvelopesTyped
<1>2. /\ leaves' \in Seq(Note) /\ Len(leaves') = Len(leaves) + 1 /\ Len(leaves) \in Nat
      /\ leaves'[Len(leaves) + 1] = t.cmOut
      /\ \A i \in 1 .. Len(leaves) : leaves'[i] = leaves[i]
      /\ ToSet(leaves') = ToSet(leaves) \cup {t.cmOut}
  BY <1>1, ToSetAppend
<1>3. /\ e \in Envelope /\ e.key \in 1 .. Len(leaves') /\ leaves'[e.key] = e.cm
      /\ "rotated" \notin Sealing => e.to.version = 0
  <2>1. TxKey(0) = Len(leaves) + 1  BY <1>2 DEF TxKey
  <2>2. /\ Len(leaves) + 1 \in 1 .. Len(leaves') /\ Len(leaves) <= Len(leaves')
        /\ e \in SealsOf(t.cmOut, Len(leaves) + 1, Sealing)
    BY <1>2, <2>1
  <2>3. PICK s : s = leaves'  OBVIOUS
  <2>4. PICK k : k = Len(leaves) + 1  OBVIOUS
  <2>5. /\ s \in Seq(Note) /\ k \in 1 .. Len(s) /\ s[k] = t.cmOut /\ Len(leaves) <= Len(s)
        /\ \A i \in 1 .. Len(leaves) : s[i] = leaves[i]
        /\ e \in SealsOf(t.cmOut, k, Sealing)
    BY <1>2, <2>2, <2>3, <2>4
  <2>6. /\ e \in Envelope /\ e.key \in 1 .. Len(s) /\ s[e.key] = e.cm
        /\ "rotated" \notin Sealing => e.to.version = 0
    BY ONLY <2>5, ViewInv, t.cmOut \in Note, SealedFits
  <2> QED BY <2>3, <2>6
<1>4. EnvelopesTyped'
  <2>1. txEnvelopes' \in Seq(Envelope) /\ Len(txEnvelopes') = Len(txEnvelopes) + 1
    BY <1>1, <1>3, ToSetAppend
  <2>2. Len(txs') = Len(txs) + 1  BY <1>1, ToSetAppend
  <2> QED BY <1>1, <2>1, <2>2 DEF ViewInv, EnvelopesTyped
<1>5. KeysFit' /\ Unrotated'
  <2>1. ToSet(txEnvelopes') = ToSet(txEnvelopes) \cup {e}
    BY <1>1, <1>3, ToSetAppend
  <2>2. ASSUME NEW f \in Envelopes' PROVE f \in Envelopes \/ f = e
    BY <2>1, <2>2 DEF Envelopes
  <2>3. Len(leaves) <= Len(leaves')  BY <1>2
  <2>4. \A f \in Envelopes' : f \in Envelopes
               \/ (f.key \in 1 .. Len(leaves') /\ leaves'[f.key] = f.cm
                   /\ ("rotated" \notin Sealing => f.to.version = 0))
    BY <1>3, <2>2
  <2> QED BY ONLY <1>2, <2>3, <2>4, ViewInv, EnvelopesOfLonger
<1>6. PlacesAreLeaves'
  <2> DEFINE new == [source |-> "transfer", tx |-> Len(txs) + 1, slot |-> 0]
  <2>1. /\ DOMAIN Chain' = DOMAIN Chain \cup {new} /\ new \notin DOMAIN Chain
        /\ \A at \in DOMAIN Chain : Chain'[at] = Chain[at]
        /\ Chain'[new] = [source |-> "transfer", cm |-> t.cmOut, nf |-> t.nf, time |-> t.time]
    BY <1>1, TxPlaces
  <2> HIDE DEF new
  <2>2. OneToOne(Chain, ToSet(leaves))  BY DEF ViewInv, PlacesAreLeaves
  <2>3. Chain'[new].cm \notin ToSet(leaves) /\ ToSet(leaves') = ToSet(leaves) \cup {Chain'[new].cm}
    BY <1>2, <2>1 DEF HasCommitment
  <2>4. EntryRight(Chain'[new], ToSet(leaves'))
    BY <1>2, <2>1 DEF EntryRight, HasCommitment
  <2>5. OneToOne(Chain', ToSet(leaves'))
    BY ONLY <2>1, <2>2, <2>3, <2>4, OneMore
  <2> QED BY <2>5 DEF PlacesAreLeaves
<1> QED BY <1>4, <1>5, <1>6 DEF ViewInv

LEMMA BundleKeeps ==
    ASSUME ViewInv, PoolInv', NEW b \in Bundle,
           b.commitments[1] # b.commitments[2],
           \A s \in 1 .. 2 : /\ ~HasCommitment(b.commitments[s])
                             /\ b.commitments[s].time = b.time
                             /\ b.nullifiers[s].nk = b.nullifiers[s].cm.pk
                             /\ b.commitments[s].from = b.nullifiers[s].nk,
           leaves' = Append(Append(leaves, b.commitments[1]), b.commitments[2]),
           bundles' = Append(bundles, b), txs' = txs, now' = now,
           NEW e1 \in SealsOf(b.commitments[1], TxKey(0), Sealing),
           NEW e2 \in SealsOf(b.commitments[2], TxKey(1), Sealing),
           bundleEnvelopes' = Append(bundleEnvelopes, <<e1, e2>>), txEnvelopes' = txEnvelopes
    PROVE  ViewInv'
<1> DEFINE c1 == b.commitments[1]
           c2 == b.commitments[2]
<1>1. /\ leaves \in Seq(Note) /\ txs \in Seq(Tx) /\ bundles \in Seq(Bundle)
      /\ bundleEnvelopes \in Seq(Envelope \X Envelope) /\ Len(bundleEnvelopes) = Len(bundles)
  BY DEF ViewInv, PoolInv, TypeOK, EnvelopesTyped
<1>2. /\ c1 \in Note /\ c2 \in Note
      /\ b.nullifiers[1] \in Nullifier /\ b.nullifiers[2] \in Nullifier
  <2>1. b.commitments \in Note \X Note /\ b.nullifiers \in Nullifier \X Nullifier  BY DEF Bundle
  <2> QED BY <2>1
<1>3. /\ leaves' \in Seq(Note) /\ Len(leaves') = Len(leaves) + 2 /\ Len(leaves) \in Nat
      /\ leaves'[Len(leaves) + 1] = c1 /\ leaves'[Len(leaves) + 2] = c2
      /\ \A i \in 1 .. Len(leaves) : leaves'[i] = leaves[i]
      /\ ToSet(leaves') = (ToSet(leaves) \cup {c1}) \cup {c2}
  <2> DEFINE mid == Append(leaves, c1)
  <2>1. /\ mid \in Seq(Note) /\ Len(mid) = Len(leaves) + 1 /\ mid[Len(leaves) + 1] = c1
        /\ \A i \in 1 .. Len(leaves) : mid[i] = leaves[i]
        /\ ToSet(mid) = ToSet(leaves) \cup {c1} /\ Len(leaves) \in Nat
    BY <1>1, <1>2, ToSetAppend
  <2>2. leaves' = Append(mid, c2)  OBVIOUS
  <2> HIDE DEF mid, c1, c2
  <2>3. /\ leaves' \in Seq(Note) /\ Len(leaves') = Len(mid) + 1 /\ leaves'[Len(mid) + 1] = c2
        /\ \A i \in 1 .. Len(mid) : leaves'[i] = mid[i]
        /\ ToSet(leaves') = ToSet(mid) \cup {c2}
    BY ONLY <1>2, <2>1, <2>2, ToSetAppend
  <2> QED BY <2>1, <2>3
<1>4. \A f \in {e1, e2} : /\ f \in Envelope /\ f.key \in 1 .. Len(leaves') /\ leaves'[f.key] = f.cm
                          /\ "rotated" \notin Sealing => f.to.version = 0
  <2> HIDE DEF c1, c2
  <2>1. PICK s : s = leaves'  OBVIOUS
  <2>2. PICK k : k = Len(leaves) + 1  OBVIOUS
  <2>3. PICK l : l = Len(leaves) + 2  OBVIOUS
  <2>4. e1 \in SealsOf(c1, k, Sealing) /\ e2 \in SealsOf(c2, l, Sealing)
    <3>1. TxKey(0) = Len(leaves) + 1 /\ TxKey(1) = Len(leaves) + 2  BY <1>3 DEF TxKey
    <3> QED BY <2>2, <2>3, <3>1 DEF c1, c2
  <2>5. /\ s \in Seq(Note) /\ k \in 1 .. Len(s) /\ s[k] = c1 /\ l \in 1 .. Len(s) /\ s[l] = c2
        /\ Len(leaves) <= Len(s) /\ \A i \in 1 .. Len(leaves) : s[i] = leaves[i]
    BY <1>3, <2>1, <2>2, <2>3
  <2>6. /\ e1 \in Envelope /\ e1.key \in 1 .. Len(s) /\ s[e1.key] = e1.cm
        /\ "rotated" \notin Sealing => e1.to.version = 0
    BY ONLY <1>2, <2>4, <2>5, ViewInv, SealedFits
  <2>7. /\ e2 \in Envelope /\ e2.key \in 1 .. Len(s) /\ s[e2.key] = e2.cm
        /\ "rotated" \notin Sealing => e2.to.version = 0
    BY ONLY <1>2, <2>4, <2>5, ViewInv, SealedFits
  <2> QED BY <2>1, <2>6, <2>7
<1>5. EnvelopesTyped'
  <2>1. <<e1, e2>> \in Envelope \X Envelope  BY <1>4
  <2>2. /\ bundleEnvelopes' \in Seq(Envelope \X Envelope)
        /\ Len(bundleEnvelopes') = Len(bundleEnvelopes) + 1
    BY <1>1, <2>1, ToSetAppend
  <2>3. Len(bundles') = Len(bundles) + 1  BY <1>1, ToSetAppend
  <2> QED BY <1>1, <2>2, <2>3 DEF ViewInv, EnvelopesTyped
<1>6. KeysFit' /\ Unrotated'
  <2>1. ASSUME NEW f \in Envelopes' PROVE f \in Envelopes \/ f \in {e1, e2}
    <3>1. CASE f \in ToSet(txEnvelopes)  BY <3>1 DEF Envelopes
    <3>2. CASE \E i \in DOMAIN bundleEnvelopes' : f \in ToSet(bundleEnvelopes'[i])
      <4>1. PICK i \in DOMAIN bundleEnvelopes' : f \in ToSet(bundleEnvelopes'[i])  BY <3>2
      <4>2. <<e1, e2>> \in Envelope \X Envelope  BY <1>4
      <4>3. /\ i \in 1 .. Len(bundleEnvelopes) + 1 /\ Len(bundleEnvelopes) \in Nat
            /\ bundleEnvelopes'[Len(bundleEnvelopes) + 1] = <<e1, e2>>
            /\ \A j \in 1 .. Len(bundleEnvelopes) : bundleEnvelopes'[j] = bundleEnvelopes[j]
            /\ DOMAIN bundleEnvelopes = 1 .. Len(bundleEnvelopes)
        BY <1>1, <4>2, ToSetAppend
      <4>4. CASE i = Len(bundleEnvelopes) + 1
        <5>1. f \in ToSet(<<e1, e2>>)  BY <4>1, <4>3, <4>4
        <5> QED BY <5>1 DEF ToSet
      <4>5. CASE i \in 1 .. Len(bundleEnvelopes)
        <5>1. f \in ToSet(bundleEnvelopes[i]) /\ i \in DOMAIN bundleEnvelopes  BY <4>1, <4>3, <4>5
        <5> QED BY <5>1 DEF Envelopes
      <4>6. i = Len(bundleEnvelopes) + 1 \/ i \in 1 .. Len(bundleEnvelopes)  BY <4>3
      <4> QED BY <4>4, <4>5, <4>6
    <3> QED BY <2>1, <3>1, <3>2 DEF Envelopes
  <2>2. \A f \in Envelopes' : f \in Envelopes
               \/ (f.key \in 1 .. Len(leaves') /\ leaves'[f.key] = f.cm
                   /\ ("rotated" \notin Sealing => f.to.version = 0))
    BY <1>4, <2>1
  <2>3. Len(leaves) <= Len(leaves')  BY <1>3
  <2> QED BY ONLY <1>3, <2>2, <2>3, ViewInv, EnvelopesOfLonger
<1>7. PlacesAreLeaves'
  <2> DEFINE new0 == BundlePlace(Len(bundles) + 1, 0)
             new1 == BundlePlace(Len(bundles) + 1, 1)
             mid == [at \in DOMAIN Chain \cup {new0} |-> Chain'[at]]
             tree == ToSet(leaves)
  <2>1. /\ DOMAIN Chain' = DOMAIN Chain \cup {new0, new1}
        /\ new0 \notin DOMAIN Chain /\ new1 \notin DOMAIN Chain /\ new0 # new1
        /\ \A at \in DOMAIN Chain : Chain'[at] = Chain[at]
        /\ Chain'[new0] = [source |-> "bundle", cm |-> c1, nf |-> b.nullifiers[1], time |-> b.time]
        /\ Chain'[new1] = [source |-> "bundle", cm |-> c2, nf |-> b.nullifiers[2], time |-> b.time]
    BY <1>1, BundlePlaces
  <2> HIDE DEF new0, new1
  <2>2. OneToOne(Chain, tree)  BY DEF ViewInv, PlacesAreLeaves
  <2>3. c1 \notin tree /\ c2 \notin tree /\ c1 # c2  BY DEF HasCommitment
  <2>4. /\ EntryRight(Chain'[new0], tree \cup {c1})
        /\ EntryRight(Chain'[new1], (tree \cup {c1}) \cup {c2})
    <3>1. /\ c1.time = b.time /\ c2.time = b.time
          /\ b.nullifiers[1].nk = b.nullifiers[1].cm.pk /\ b.nullifiers[2].nk = b.nullifiers[2].cm.pk
          /\ c1.from = b.nullifiers[1].nk /\ c2.from = b.nullifiers[2].nk
      OBVIOUS
    <3>2. b.nullifiers[1] # None /\ b.nullifiers[2] # None  BY <1>2, PoolAssumption
    <3> HIDE DEF c1, c2, tree
    <3> QED BY <1>2, <2>1, <3>1, <3>2 DEF EntryRight
  <2> HIDE DEF c1, c2, tree
  <2>5. OneToOne(mid, tree \cup {c1})
    <3>1. /\ DOMAIN mid = DOMAIN Chain \cup {new0} /\ mid[new0] = Chain'[new0]
          /\ \A at \in DOMAIN Chain : mid[at] = Chain[at]
      BY <2>1
    <3> HIDE DEF mid
    <3>2. /\ mid[new0].cm \notin tree /\ tree \cup {c1} = tree \cup {mid[new0].cm}
          /\ EntryRight(mid[new0], tree \cup {c1})
      BY <2>1, <2>3, <2>4, <3>1
    <3> QED BY ONLY <2>1, <2>2, <3>1, <3>2, OneMore
  <2>6. OneToOne(Chain', (tree \cup {c1}) \cup {c2})
    <3>1. /\ DOMAIN mid = DOMAIN Chain \cup {new0} /\ \A at \in DOMAIN mid : Chain'[at] = mid[at]
      OBVIOUS
    <3> HIDE DEF mid
    <3>2. /\ DOMAIN Chain' = DOMAIN mid \cup {new1} /\ new1 \notin DOMAIN mid
          /\ Chain'[new1].cm \notin tree \cup {c1}
          /\ (tree \cup {c1}) \cup {c2} = (tree \cup {c1}) \cup {Chain'[new1].cm}
      BY <2>1, <2>3, <3>1
    <3>3. PICK mtree : mtree = tree \cup {c1}  OBVIOUS
    <3>4. PICK taller : taller = mtree \cup {c2}  OBVIOUS
    <3>5. OneToOne(Chain', taller)
      <4>1. /\ OneToOne(mid, mtree) /\ Chain'[new1].cm \notin mtree
            /\ taller = mtree \cup {Chain'[new1].cm} /\ EntryRight(Chain'[new1], taller)
        BY <2>4, <2>5, <3>2, <3>3, <3>4
      <4> QED BY ONLY <3>1, <3>2, <4>1, OneMore
    <3> QED BY <3>3, <3>4, <3>5
  <2> QED BY <1>3, <2>6 DEF PlacesAreLeaves, tree
<1> QED BY <1>5, <1>6, <1>7 DEF ViewInv

-----------------------------------------------------------------------------
(* The inductive invariant. *)

LEMMA InitView == ViewInit => ViewInv
<1> SUFFICES ASSUME ViewInit PROVE ViewInv
  OBVIOUS
<1>1. PoolInv  BY InitPoolInv DEF ViewInit
<1>2. /\ leaves = <<>> /\ txs = <<>> /\ bundles = <<>> /\ txEnvelopes = <<>>
      /\ bundleEnvelopes = <<>> /\ now = 0
  BY DEF ViewInit, Init
<1>3. Envelopes = {}
  BY <1>2 DEF Envelopes, ToSet
<1>4. EnvelopesTyped
  BY <1>2, PoolAssumption DEF EnvelopesTyped
<1>5. Place = {} /\ ToSet(leaves) = {}
  BY <1>2 DEF Place, ToSet
<1>6. DOMAIN Chain = {}  BY <1>5 DEF Chain
<1>7. PlacesAreLeaves
  BY <1>5, <1>6 DEF PlacesAreLeaves, OneToOne
<1> QED BY <1>1, <1>3, <1>4, <1>7 DEF ViewInv, KeysFit, Unrotated

LEMMA MintKeepsView ==
    ASSUME ViewInv, MintWithEnvelope(Sealing)
    PROVE  ViewInv'
<1>1. PICK note, e :
            /\ note \in MintNotes /\ e \in SealsOf(note, TxKey(0), Sealing)
            /\ Mint(note) /\ txEnvelopes' = Append(txEnvelopes, e)
            /\ UNCHANGED bundleEnvelopes
  BY DEF MintWithEnvelope
<1>2. PoolInv /\ TypeOK  BY DEF ViewInv, PoolInv
<1>3. MintStep(note)  BY <1>1, <1>2, MintIsStep
<1>4. PoolInv'  BY <1>2, <1>3, MintKeepsInv
<1> DEFINE t == [anchor |-> None, nf |-> None, cmOut |-> note, time |-> note.time]
<1>5. t \in Tx /\ t.cmOut \in Note
  BY <1>3 DEF MintStep, Tx, Note
<1>6. /\ ~HasCommitment(t.cmOut) /\ t.cmOut.time = t.time /\ t.nf = None
      /\ leaves' = Append(leaves, t.cmOut) /\ txs' = Append(txs, t) /\ bundles' = bundles /\ now' = now
      /\ e \in SealsOf(t.cmOut, TxKey(0), Sealing)
      /\ txEnvelopes' = Append(txEnvelopes, e) /\ bundleEnvelopes' = bundleEnvelopes
  BY <1>1, <1>3 DEF MintStep
<1> HIDE DEF t
<1> QED BY ONLY ViewInv, <1>4, <1>5, <1>6, TxKeeps

LEMMA TransferKeepsView ==
    ASSUME ViewInv, TransferWithEnvelope(Sealing)
    PROVE  ViewInv'
<1>0. PICK n \in Live, p \in Party, r \in Draw(Len(leaves) + 1) :
        \E t, e :
            /\ t = TransferGuest([self |-> n.pk, spent |-> n, root |-> Root,
                                  outPk |-> p, outR |-> r, time |-> now])
            /\ e \in SealsOf(t.cmOut, TxKey(0), Sealing)
            /\ Apply(Sound(t), t) /\ txEnvelopes' = Append(txEnvelopes, e)
            /\ UNCHANGED bundleEnvelopes
  BY DEF TransferWithEnvelope
<1>1. PICK t, e :
            /\ t = TransferGuest([self |-> n.pk, spent |-> n, root |-> Root,
                                  outPk |-> p, outR |-> r, time |-> now])
            /\ e \in SealsOf(t.cmOut, TxKey(0), Sealing)
            /\ Apply(Sound(t), t) /\ txEnvelopes' = Append(txEnvelopes, e)
            /\ UNCHANGED bundleEnvelopes
  BY <1>0
<1>2. PoolInv /\ TypeOK  BY DEF ViewInv, PoolInv
<1>3. /\ Len(leaves) + 1 <= MaxLeaves /\ TransferAdmissible(Sound(t), t)
      /\ nullifiers' = nullifiers \cup {t.nf} /\ leaves' = Append(leaves, t.cmOut)
      /\ recentRoots' = RecordRoot(recentRoots, Len(leaves')) /\ txs' = Append(txs, t)
      /\ UNCHANGED <<now, bundles, feesCollected, burned>>
  BY <1>1 DEF Apply
<1>4. r \in Rand  BY <1>2, <1>3, DrawIsRand
<1>5. /\ t = HonestTransfer(n, p, r) /\ t \in Tx
      /\ t.nf \in Nullifier /\ t.cmOut \in Note /\ t.anchor \in Nat
  BY <1>1, <1>2, <1>4, HonestTransferFacts
<1>6. n \in ToSet(leaves) /\ IsLeafUnder(n, Root)  BY <1>2, LiveFacts
<1>7. /\ t.anchor = Root /\ t.nf.nk = n.pk /\ t.nf.cm = n /\ t.cmOut.from = n.pk
      /\ t.cmOut.amount = n.amount /\ t.cmOut.asset = n.asset /\ t.cmOut.time = now /\ t.time = now
  BY <1>5 DEF HonestTransfer
<1>8. TransferFacts(t)
  <2>1. KnownAnchor(t.anchor) /\ Unspent(t.nf) /\ ~HasCommitment(t.cmOut)
    BY <1>3 DEF TransferAdmissible
  <2> QED BY <1>5, <1>6, <1>7, <2>1 DEF TransferFacts
<1>9. PoolInv'
  <2>1. TransferStep(t)  BY <1>3, <1>8 DEF TransferStep
  <2> QED BY <1>2, <2>1, TransferKeepsInv
<1>10. /\ ~HasCommitment(t.cmOut) /\ t.cmOut.time = t.time
       /\ t.nf # None => /\ t.nf \in Nullifier /\ t.nf.nk = t.nf.cm.pk
                         /\ t.cmOut.from = t.nf.nk /\ HasCommitment(t.nf.cm)
       /\ bundles' = bundles /\ now' = now /\ txEnvelopes' = Append(txEnvelopes, e)
       /\ bundleEnvelopes' = bundleEnvelopes
  BY <1>1, <1>3, <1>5, <1>6, <1>7, <1>8 DEF TransferFacts, HasCommitment
<1> QED BY ONLY ViewInv, <1>1, <1>3, <1>5, <1>9, <1>10, TxKeeps

LEMMA BundleKeepsView ==
    ASSUME ViewInv, BundleWithEnvelopes(Sealing)
    PROVE  ViewInv'
<1>1. PICK w \in HonestBundle : \E b, e1, e2 :
            /\ b = BundleGuest(w).plain /\ Len(leaves) + 2 <= MaxLeaves
            /\ e1 \in SealsOf(b.commitments[1], TxKey(0), Sealing)
            /\ e2 \in SealsOf(b.commitments[2], TxKey(1), Sealing)
            /\ ApplyBundle(Sound(BundleGuest(w)), b)
            /\ bundleEnvelopes' = Append(bundleEnvelopes, <<e1, e2>>)
            /\ UNCHANGED txEnvelopes
  BY DEF BundleWithEnvelopes
<1>2. PICK b, e1, e2 :
            /\ b = BundleGuest(w).plain /\ Len(leaves) + 2 <= MaxLeaves
            /\ e1 \in SealsOf(b.commitments[1], TxKey(0), Sealing)
            /\ e2 \in SealsOf(b.commitments[2], TxKey(1), Sealing)
            /\ ApplyBundle(Sound(BundleGuest(w)), b)
            /\ bundleEnvelopes' = Append(bundleEnvelopes, <<e1, e2>>)
            /\ UNCHANGED txEnvelopes
  BY <1>1
<1>3. PoolInv /\ TypeOK  BY DEF ViewInv, PoolInv
<1>4. /\ BundleAdmissible(Sound(BundleGuest(w)), b)
      /\ nullifiers' = nullifiers \cup {b.nullifiers[1], b.nullifiers[2]}
      /\ leaves' = Append(Append(leaves, b.commitments[1]), b.commitments[2])
      /\ recentRoots' = RecordRoot(recentRoots, Len(leaves'))
      /\ feesCollected' = SatAdd(feesCollected, b.fee)
      /\ burned' = SatAdd(burned, b.burn)
      /\ bundles' = Append(bundles, b)
      /\ UNCHANGED <<now, txs>>
  BY <1>2 DEF ApplyBundle
<1>5. w \in BundleWitness /\ ~BundleGuest(w).bad
  <2>1. /\ w \in [self : Party, in1 : InputNotes, in2 : InputNotes, anchor : {Root},
                  out1 : OutBody(Len(leaves) + 1), out2 : OutBody(Len(leaves) + 2),
                  fee : Fees, burn : Burns, asset : Asset, time : {now}]
        /\ ~BundleGuest(w).bad
    BY DEF HonestBundle
  <2>2. Root \in 0 .. Len(leaves)  BY <1>3 DEF Root, TypeOK
  <2>3. now \in 0 .. MaxNow
    BY <1>3, PoolAssumption DEF ViewInv, EnvelopesTyped, TypeOK
  <2> QED BY <2>1, <2>2, <2>3 DEF BundleWitness
<1>6. /\ KnownAnchor(b.anchor) /\ FeeIsNative(b)
      /\ b.nullifiers[1] # b.nullifiers[2] /\ b.commitments[1] # b.commitments[2]
      /\ \A s \in 1 .. 2 : Unspent(b.nullifiers[s])
      /\ \A s \in 1 .. 2 : ~HasCommitment(b.commitments[s])
  BY <1>4 DEF BundleAdmissible
<1>7. KnownAnchor(w.anchor)
  <2>1. b.anchor = w.anchor  BY <1>2 DEF BundleGuest
  <2> QED BY <1>6, <2>1
<1>8. BundleFacts(b)
  BY <1>2, <1>3, <1>5, <1>6, <1>7, CleanRun DEF BundleFacts
<1>9. PoolInv'
  <2>1. BundleStep(b)  BY <1>4, <1>8 DEF BundleStep
  <2> QED BY <1>3, <2>1, BundleKeepsInv
<1>10. b.commitments[1].time = b.time /\ b.commitments[2].time = b.time
  BY <1>2 DEF BundleGuest, BundleOutput
<1>11. /\ b \in Bundle
       /\ \A s \in 1 .. 2 : /\ ~HasCommitment(b.commitments[s])
                            /\ b.commitments[s].time = b.time
                            /\ b.nullifiers[s].nk = b.nullifiers[s].cm.pk
                            /\ b.commitments[s].from = b.nullifiers[s].nk
  BY <1>8, <1>10 DEF BundleFacts
<1>12. txs' = txs /\ now' = now /\ txEnvelopes' = txEnvelopes
  BY <1>2, <1>4
<1> QED BY ONLY ViewInv, <1>2, <1>4, <1>6, <1>9, <1>11, <1>12, BundleKeeps

LEMMA NextKeepsView == ViewInv /\ [ViewNext]_viewVars => ViewInv'
<1> SUFFICES ASSUME ViewInv, [ViewNext]_viewVars PROVE ViewInv'
  OBVIOUS
<1>1. ASSUME now' \in Nat, now' <= MaxNow,
             UNCHANGED <<leaves, recentRoots, nullifiers, txs, bundles, feesCollected, burned>>,
             UNCHANGED <<txEnvelopes, bundleEnvelopes>>
      PROVE  ViewInv'
  <2>1. PoolInv'
    BY <1>1 DEF ViewInv, PoolInv, TypeOK, LeavesDistinct, EveryLeafSpendable, HasCommitment
  <2>2. Envelopes' = Envelopes  BY <1>1 DEF Envelopes
  <2>3. EnvelopesTyped'  BY <1>1 DEF ViewInv, EnvelopesTyped
  <2>4. KeysFit' /\ Unrotated'
    BY <1>1, <2>2 DEF ViewInv, KeysFit, KeyFits, Unrotated
  <2>5. Chain' = Chain
    BY <1>1 DEF Chain, Place, Entry, CmAt, NfAt, TimeAt
  <2>6. PlacesAreLeaves'
    BY <1>1, <2>5 DEF ViewInv, PlacesAreLeaves
  <2> QED BY <2>1, <2>3, <2>4, <2>6 DEF ViewInv
<1>2. CASE Advance(1) /\ UNCHANGED <<txEnvelopes, bundleEnvelopes>>
  <2>1. now' \in Nat /\ now' <= MaxNow
    BY <1>2, PoolAssumption DEF Advance, ViewInv, PoolInv, TypeOK
  <2> QED BY <1>1, <1>2, <2>1 DEF Advance
<1>3. CASE UNCHANGED viewVars
  <2>1. now' \in Nat /\ now' <= MaxNow
    BY <1>3 DEF viewVars, vars, ViewInv, PoolInv, TypeOK, EnvelopesTyped
  <2> QED BY <1>1, <1>3, <2>1 DEF viewVars, vars
<1> QED BY <1>2, <1>3, MintKeepsView, TransferKeepsView, BundleKeepsView DEF ViewNext

(* In every reachable state each envelope's key was drawn for the leaf it  *)
(* was sealed over, and the places of the chain are its leaves, one to one. *)
THEOREM ViewInvariant == ViewSpec => []ViewInv
BY InitView, NextKeepsView, PTL DEF ViewSpec

-----------------------------------------------------------------------------
(* What the invariant says of a place. *)

LEMMA PlaceFacts ==
    ASSUME ViewInv, NEW at \in Place
    PROVE  /\ at = [source |-> at.source, tx |-> at.tx, slot |-> at.slot]
           /\ at.source \in {"transfer", "bundle"}
           /\ at.tx \in DOMAIN txs \cup DOMAIN bundles
           /\ CmAt(at) \in ToSet(leaves) /\ CmAt(at) \in Note /\ CmAt(at).time = TimeAt(at)
           /\ at.source = "bundle" => NfAt(at) # None
           /\ NfAt(at) # None =>
                 /\ NfAt(at) \in Nullifier /\ NfAt(at).nk = NfAt(at).cm.pk
                 /\ CmAt(at).from = NfAt(at).nk
                 /\ at.source = "transfer" => NfAt(at).cm \in ToSet(leaves)
<1>1. txs \in Seq(Tx) /\ bundles \in Seq(Bundle) /\ leaves \in Seq(Note)
  BY DEF ViewInv, PoolInv, TypeOK
<1>2. /\ at = [source |-> at.source, tx |-> at.tx, slot |-> at.slot]
      /\ at.source \in {"transfer", "bundle"} /\ at.tx \in DOMAIN txs \cup DOMAIN bundles
  BY <1>1, InPlace
<1>3. EntryRight(Entry(at), ToSet(leaves))
  <2>1. OneToOne(Chain, ToSet(leaves))  BY DEF ViewInv, PlacesAreLeaves
  <2>2. at \in DOMAIN Chain /\ Chain[at] = Entry(at)  BY DEF Chain
  <2> QED BY <2>1, <2>2 DEF OneToOne
<1>4. /\ CmAt(at) \in ToSet(leaves) /\ CmAt(at).time = TimeAt(at)
      /\ at.source = "bundle" => NfAt(at) # None
      /\ NfAt(at) # None =>
            /\ NfAt(at) \in Nullifier /\ NfAt(at).nk = NfAt(at).cm.pk
            /\ CmAt(at).from = NfAt(at).nk
            /\ at.source = "transfer" => NfAt(at).cm \in ToSet(leaves)
  BY <1>3 DEF EntryRight, Entry
<1>5. CmAt(at) \in Note  BY <1>1, <1>4, ToSetIndex
<1> QED BY <1>2, <1>4, <1>5

LEMMA LeavesHavePlaces ==
    ASSUME ViewInv
    PROVE  /\ \A cm \in ToSet(leaves) : \E at \in Place : CmAt(at) = cm
           /\ \A at, bt \in Place : CmAt(at) = CmAt(bt) => at = bt
<1>1. OneToOne(Chain, ToSet(leaves))  BY DEF ViewInv, PlacesAreLeaves
<1>2. DOMAIN Chain = Place /\ \A at \in Place : Chain[at].cm = CmAt(at)
  BY DEF Chain, Entry
<1> QED BY <1>1, <1>2 DEF OneToOne

(* The envelope of a place is one of the chain's. *)
LEMMA EnvelopeFacts ==
    ASSUME ViewInv, NEW at \in Place
    PROVE  /\ EnvelopeAt(at) \in Envelope /\ EnvelopeAt(at) \in Envelopes
           /\ KeyFits(EnvelopeAt(at))
           /\ "rotated" \notin Sealing => EnvelopeAt(at).to.version = 0
<1>1. /\ txs \in Seq(Tx) /\ bundles \in Seq(Bundle)
      /\ txEnvelopes \in Seq(Envelope) /\ Len(txEnvelopes) = Len(txs)
      /\ bundleEnvelopes \in Seq(Envelope \X Envelope) /\ Len(bundleEnvelopes) = Len(bundles)
  BY DEF ViewInv, PoolInv, TypeOK, EnvelopesTyped
<1>2. EnvelopeAt(at) \in Envelope /\ EnvelopeAt(at) \in Envelopes
  <2>1. CASE at.source = "transfer"
    <3>1. at.tx \in 1 .. Len(txEnvelopes) /\ EnvelopeAt(at) = txEnvelopes[at.tx]
      BY <1>1, <2>1, InPlace DEF EnvelopeAt
    <3>2. EnvelopeAt(at) \in ToSet(txEnvelopes)  BY <1>1, <3>1, ToSetIndex
    <3>3. EnvelopeAt(at) \in Envelope  BY <1>1, <3>2, ToSetIndex
    <3> QED BY <3>2, <3>3 DEF Envelopes
  <2>2. CASE at.source # "transfer"
    <3>1. /\ at.tx \in 1 .. Len(bundleEnvelopes) /\ at.slot \in {0, 1}
          /\ EnvelopeAt(at) = bundleEnvelopes[at.tx][at.slot + 1]
      BY <1>1, <2>2, InPlace DEF EnvelopeAt
    <3>2. bundleEnvelopes[at.tx] \in Envelope \X Envelope  BY <1>1, <3>1, ElementOfSeq
    <3>3. PICK x \in Envelope, y \in Envelope : bundleEnvelopes[at.tx] = <<x, y>>  BY <3>2
    <3>4. EnvelopeAt(at) \in {x, y}  BY <3>1, <3>3
    <3>5. ToSet(bundleEnvelopes[at.tx]) = {x, y}  BY <3>3 DEF ToSet
    <3>6. at.tx \in DOMAIN bundleEnvelopes  BY <1>1, <3>1
    <3> QED BY <3>3, <3>4, <3>5, <3>6 DEF Envelopes
  <2> QED BY <2>1, <2>2
<1>3. /\ KeyFits(EnvelopeAt(at))
      /\ "rotated" \notin Sealing => EnvelopeAt(at).to.version = 0
  BY <1>2 DEF ViewInv, KeysFit, Unrotated
<1> QED BY <1>2, <1>3

-----------------------------------------------------------------------------
(* Whoever seals the envelopes. *)

(* An opened note is the commitment it is opened against. *)
LEMMA OpenedIsCommitted ==
    ASSUME NEW d \in Disclosures, NEW row \in Scan(d)
    PROVE  row.note = row.cmOut
<1>1. \A at, role, note, spent : /\ NewRow(at, role, note, spent).note = note
                                 /\ NewRow(at, role, note, spent).cmOut = CmAt(at)
  BY DEF NewRow
<1>2. CASE d.scope = "party"
  <2>1. row \in ScanParty(d.vk)  BY <1>2 DEF Scan
  <2>2. PICK at, role, spent : /\ row = NewRow(at, role, EnvelopeAt(at).note, spent)
                               /\ at \in ReceivedAt(d.vk) \/ at \in SentAt(d.vk)
    BY <2>1 DEF ScanParty
  <2>3. EnvelopeAt(at).note = CmAt(at)
    BY <2>2 DEF ReceivedAt, SentAt, OpensAsReceiver, OpensAsSender, OpensWithTxKey
  <2> QED BY <1>1, <2>2, <2>3
<1>3. CASE d.scope # "party"
  <2>1. row \in ScanTransaction(d.tx, d.key)  BY <1>3 DEF Scan
  <2>2. PICK at \in Place : /\ row = NewRow(at, "transaction", EnvelopeAt(at).note, None)
                            /\ OpensWithTxKey(EnvelopeAt(at), CmAt(at), d.key)
    BY <2>1 DEF ScanTransaction
  <2> QED BY <1>1, <2>2 DEF OpensWithTxKey
<1> QED BY <1>2, <1>3

(* No envelope makes a scan list a note that is not the chain's own. *)
THEOREM ScansShowTheChain == ViewSpec => []ScanShowsChainNotes
<1>1. ScanShowsChainNotes  BY OpenedIsCommitted DEF ScanShowsChainNotes
<1> QED BY <1>1, PTL

(* A transaction key opens at most one place of the chain. *)
LEMMA KeyOpensOnePlace ==
    ASSUME ViewInv, NEW key, NEW at \in Place, NEW bt \in Place,
           OpensWithTxKey(EnvelopeAt(at), CmAt(at), key),
           OpensWithTxKey(EnvelopeAt(bt), CmAt(bt), key)
    PROVE  at = bt
<1>1. /\ leaves[EnvelopeAt(at).key] = EnvelopeAt(at).cm
      /\ leaves[EnvelopeAt(bt).key] = EnvelopeAt(bt).cm
  BY EnvelopeFacts DEF KeyFits
<1>2. CmAt(at) = CmAt(bt)  BY <1>1 DEF OpensWithTxKey
<1> QED BY <1>2, LeavesHavePlaces

(* One key, one transaction: copying an envelope elsewhere opens nothing.  *)
THEOREM KeysDiscloseOne == ViewSpec => []OneKeyOneTransaction
<1>1. ViewInv => OneKeyOneTransaction
  <2> SUFFICES ASSUME ViewInv, NEW e \in Envelopes, NEW tx, NEW ty,
                      NEW row \in ScanTransaction(tx, e.key),
                      NEW other \in ScanTransaction(ty, e.key)
               PROVE  row = other
    BY DEF OneKeyOneTransaction
  <2>1. PICK at \in Place : /\ row = NewRow(at, "transaction", EnvelopeAt(at).note, None)
                            /\ OpensWithTxKey(EnvelopeAt(at), CmAt(at), e.key)
    BY DEF ScanTransaction
  <2>2. PICK bt \in Place : /\ other = NewRow(bt, "transaction", EnvelopeAt(bt).note, None)
                            /\ OpensWithTxKey(EnvelopeAt(bt), CmAt(bt), e.key)
    BY DEF ScanTransaction
  <2>3. at = bt  BY <2>1, <2>2, KeyOpensOnePlace
  <2> QED BY <2>1, <2>2, <2>3
<1> QED BY <1>1, ViewInvariant, PTL

(* A row that verifies tells the truth, whoever made it. *)
LEMMA ClaimedIsTrue ==
    ASSUME ViewInv, NEW p \in Party, NEW at \in Place, NEW role \in {"received", "sent"},
           NEW row \in Claimed(at, role), VerifyRow(PartyKey(p), row)
    PROVE  /\ row.sender = CmAt(at).from /\ row.amount = CmAt(at).amount
           /\ row.role = "received" => CmAt(at).pk = p
           /\ row.role = "sent" /\ NfAt(at) # None => NfAt(at).nk = p
           /\ row.spent # None /\ row.role = "sent" => row.spent = NfAt(at).cm
<1>1. row.source = at.source /\ row.tx = at.tx /\ row.slot = at.slot
  <2>1. CASE \E said \in ToSet(leaves), spent \in InputNotes \cup {None} :
                row = [NewRow(at, role, said, spent) EXCEPT !.note = CmAt(at)]
    <3>1. PICK said, spent : row = [NewRow(at, role, said, spent) EXCEPT !.note = CmAt(at)]
      BY <2>1
    <3> QED BY <3>1 DEF NewRow
  <2>2. CASE \E note \in ToSet(leaves), nf \in nullifiers \cup {None} :
                row = [NewRow(at, role, note, None) EXCEPT !.nf = nf]
    <3>1. PICK note, nf : row = [NewRow(at, role, note, None) EXCEPT !.nf = nf]
      BY <2>2
    <3> QED BY <3>1 DEF NewRow
  <2> QED BY <2>1, <2>2 DEF Claimed
<1>2. at = [source |-> row.source, tx |-> row.tx, slot |-> row.slot]
  BY <1>1, PlaceFacts
<1>3. /\ row.note = CmAt(at) /\ row.sender = row.note.from /\ row.amount = row.note.amount
      /\ row.nf = NfAt(at) /\ InScope(PartyKey(p), row, at)
  BY <1>2 DEF VerifyRow
<1>4. PartyKey(p).scope = "party" /\ PartyKey(p).vk = p  BY DEF PartyKey
<1>5. row.role = "received" => row.note.pk = p
  BY <1>3, <1>4 DEF InScope
<1>6. row.role = "sent" => row.note.from = p /\ SpentClaim(p, row)
  BY <1>3, <1>4 DEF InScope
<1>7. row.role = "sent" /\ row.spent # None => row.spent = NfAt(at).cm
  <2> SUFFICES ASSUME row.role = "sent", row.spent # None PROVE row.spent = NfAt(at).cm
    OBVIOUS
  <2>1. Nullify(p, row.spent) = row.nf  BY <1>6 DEF SpentClaim
  <2> QED BY <1>3, <2>1 DEF Nullify
<1> QED BY <1>3, <1>5, <1>6, <1>7, PlaceFacts

THEOREM VerifiedRowsHold == ViewSpec => []VerifiedRowsAreTrue
<1>1. ViewInv => VerifiedRowsAreTrue
  BY ClaimedIsTrue DEF VerifiedRowsAreTrue
<1> QED BY <1>1, ViewInvariant, PTL

-----------------------------------------------------------------------------
(* Where the envelopes are honest.  A disclosed key is a party's key of    *)
(* version 0, so nothing may have been sealed to a rotated one.            *)

LEMMA HonestAt ==
    ASSUME ViewInv, HonestEnvelopes, NEW at \in Place
    PROVE  /\ EnvelopeAt(at).note = CmAt(at)
           /\ \A p : at \in ReceivedAt(p) => CmAt(at).pk = p
           /\ \A p : "rotated" \notin Sealing /\ CmAt(at).pk = p => at \in ReceivedAt(p)
           /\ \A p : at \in SentAt(p) <=> CmAt(at).from = p
<1> DEFINE e == EnvelopeAt(at)
<1>1. e.cm = CmAt(at) /\ e.note = CmAt(at) /\ e.to.vk = CmAt(at).pk /\ e.ovk = CmAt(at).from
  BY DEF HonestEnvelopes
<1>2. e.to \in [vk : Party, version : {0, 1}]  BY EnvelopeFacts DEF Envelope
<1>3. "rotated" \notin Sealing => e.to.version = 0  BY EnvelopeFacts
<1> HIDE DEF e
<1>4. \A p : /\ OpensAsReceiver(e, CmAt(at), p, 0) => CmAt(at).pk = p
             /\ "rotated" \notin Sealing /\ CmAt(at).pk = p => OpensAsReceiver(e, CmAt(at), p, 0)
  BY <1>1, <1>2, <1>3 DEF OpensAsReceiver, OpensWithTxKey
<1>5. \A p : OpensAsSender(e, CmAt(at), p) <=> CmAt(at).from = p
  BY <1>1 DEF OpensAsSender, OpensWithTxKey
<1>6. \A p : /\ at \in ReceivedAt(p) <=> OpensAsReceiver(e, CmAt(at), p, 0)
             /\ at \in SentAt(p) <=> OpensAsSender(e, CmAt(at), p)
  BY DEF ReceivedAt, SentAt, e
<1> QED BY <1>1, <1>4, <1>5, <1>6 DEF e

(* The note a scan names for a nullifier is the party's and has it; on a   *)
(* transfer it is found, as the party was paid the note before.            *)
LEMMA SpentForFacts ==
    ASSUME ViewInv, HonestEnvelopes, NEW p \in Party, NEW at \in SentAt(p)
    PROVE  /\ NfAt(at) = None => SpentFor(p, NfAt(at)) = None
           /\ SpentFor(p, NfAt(at)) # None =>
                 /\ SpentFor(p, NfAt(at)).pk = p
                 /\ Nullify(p, SpentFor(p, NfAt(at))) = NfAt(at)
           /\ "rotated" \notin Sealing /\ at.source = "transfer" /\ NfAt(at) # None
                 => SpentFor(p, NfAt(at)) # None
<1>1. at \in Place /\ CmAt(at).from = p
  <2>1. at \in Place  BY DEF SentAt
  <2> QED BY <2>1, HonestAt
<1>2. ASSUME NEW n \in Owned(p) PROVE n \in Note /\ n.pk = p /\ n # None /\ Nullify(p, n) # None
  <2>1. PICK bt \in Place : bt \in ReceivedAt(p) /\ n = EnvelopeAt(bt).note
    BY DEF Owned, ReceivedAt
  <2>2. n = CmAt(bt) /\ n.pk = p  BY <2>1, HonestAt
  <2>3. n \in Note  BY <2>2, PlaceFacts
  <2>4. Nullify(p, n) \in Nullifier  BY <2>3 DEF Nullify, Nullifier
  <2> QED BY <2>2, <2>3, <2>4, PoolAssumption
<1>3. CASE \E n \in Owned(p) : Nullify(p, n) = NfAt(at)
  <2>1. /\ SpentFor(p, NfAt(at)) \in Owned(p)
        /\ Nullify(p, SpentFor(p, NfAt(at))) = NfAt(at)
    BY <1>3 DEF SpentFor
  <2>2. NfAt(at) # None  BY <1>2, <1>3
  <2> QED BY <1>2, <2>1, <2>2
<1>4. CASE ~\E n \in Owned(p) : Nullify(p, n) = NfAt(at)
  <2>1. SpentFor(p, NfAt(at)) = None  BY <1>4 DEF SpentFor
  <2>2. ASSUME "rotated" \notin Sealing, at.source = "transfer", NfAt(at) # None PROVE FALSE
    <3>1. /\ NfAt(at) \in Nullifier /\ NfAt(at).nk = p /\ NfAt(at).cm.pk = p
          /\ NfAt(at).cm \in ToSet(leaves)
      BY <1>1, <2>2, PlaceFacts
    <3>2. PICK bt \in Place : CmAt(bt) = NfAt(at).cm  BY <3>1, LeavesHavePlaces
    <3>3. EnvelopeAt(bt).note = NfAt(at).cm /\ bt \in ReceivedAt(p)
      BY <2>2, <3>1, <3>2, HonestAt
    <3>4. NfAt(at).cm \in Owned(p)  BY <3>3 DEF Owned
    <3>5. Nullify(p, NfAt(at).cm) = NfAt(at)  BY <3>1 DEF Nullify, Nullifier
    <3> QED BY <1>4, <3>4, <3>5
  <2> QED BY <2>1, <2>2
<1> QED BY <1>3, <1>4

(* The rows of a party's scan, one per place received and per place sent.  *)
LEMMA ScanPartyRows ==
    ASSUME NEW p
    PROVE  \A row : row \in ScanParty(p) <=>
              \/ \E at \in ReceivedAt(p) : row = NewRow(at, "received", EnvelopeAt(at).note, None)
              \/ \E at \in SentAt(p) :
                    row = NewRow(at, "sent", EnvelopeAt(at).note, SpentFor(p, NfAt(at)))
BY DEF ScanParty

LEMMA RowFields ==
    ASSUME NEW at, NEW role, NEW note, NEW spent, NEW row, row = NewRow(at, role, note, spent)
    PROVE  /\ row.tx = at.tx /\ row.source = at.source /\ row.slot = at.slot /\ row.role = role
           /\ row.sender = note.from /\ row.receiver = note.pk /\ row.amount = note.amount
           /\ row.asset = note.asset /\ row.time = note.time /\ row.cmOut = CmAt(at)
           /\ row.nf = NfAt(at) /\ row.note = note /\ row.spent = spent
BY DEF NewRow

(* On a transfer row, None for the spent note means a mint. *)
THEOREM TransferSpendsAreNamed ==
    "rotated" \notin Sealing => (ViewSpec => []TransferSpendIsNamed)
<1> SUFFICES ASSUME "rotated" \notin Sealing PROVE ViewSpec => []TransferSpendIsNamed
  OBVIOUS
<1>1. ViewInv => TransferSpendIsNamed
  <2> SUFFICES ASSUME ViewInv, HonestEnvelopes, NEW p \in Party, NEW row \in ScanParty(p),
                      row.role = "sent", row.source = "transfer"
               PROVE  row.spent = None <=> row.nf = None
    BY DEF TransferSpendIsNamed
  <2>1. PICK at \in SentAt(p) :
            row = NewRow(at, "sent", EnvelopeAt(at).note, SpentFor(p, NfAt(at)))
    BY ScanPartyRows, RowFields
  <2>2. row.source = at.source /\ row.nf = NfAt(at) /\ row.spent = SpentFor(p, NfAt(at))
    BY <2>1, RowFields
  <2> QED BY <2>2, SpentForFacts
<1> QED BY <1>1, ViewInvariant, PTL

(* With honest envelopes a party's scan is its history, no more, no less.  *)
THEOREM ScansAreHistories ==
    "rotated" \notin Sealing => (ViewSpec => []ScanIsHistory)
<1> SUFFICES ASSUME "rotated" \notin Sealing PROVE ViewSpec => []ScanIsHistory
  OBVIOUS
<1> DEFINE Mark(at, role) == [at |-> at, role |-> role]
           MarkOf(row) == Mark([source |-> row.source, tx |-> row.tx, slot |-> row.slot], row.role)
           Marks(p) == {MarkOf(row) : row \in ScanParty(p)}
           History(p) == [at : {at \in Place : CmAt(at).pk = p}, role : {"received"}]
                         \cup [at : {at \in Place : CmAt(at).from = p}, role : {"sent"}]
<1>1. ViewInv => ScanIsHistory
  <2> SUFFICES ASSUME ViewInv, HonestEnvelopes, NEW p \in Party PROVE Marks(p) = History(p)
    BY DEF ScanIsHistory
  <2>1. \A at \in Place : [source |-> at.source, tx |-> at.tx, slot |-> at.slot] = at
    BY PlaceFacts
  <2>2. \A at : at \in ReceivedAt(p) <=> at \in Place /\ CmAt(at).pk = p
    <3>1. \A at : at \in ReceivedAt(p) => at \in Place  BY DEF ReceivedAt
    <3> QED BY <3>1, HonestAt
  <2>3. \A at : at \in SentAt(p) <=> at \in Place /\ CmAt(at).from = p
    <3>1. \A at : at \in SentAt(p) => at \in Place  BY DEF SentAt
    <3> QED BY <3>1, HonestAt
  <2>4. ASSUME NEW at \in Place, NEW role, NEW note, NEW spent
        PROVE  MarkOf(NewRow(at, role, note, spent)) = Mark(at, role)
    <3>1. PICK row : row = NewRow(at, role, note, spent)  OBVIOUS
    <3>2. row.tx = at.tx /\ row.source = at.source /\ row.slot = at.slot /\ row.role = role
      BY <3>1, RowFields
    <3> QED BY <2>1, <3>1, <3>2
  <2>5. ASSUME NEW m \in Marks(p) PROVE m \in History(p)
    <3>1. PICK row \in ScanParty(p) : m = MarkOf(row)  OBVIOUS
    <3>2. CASE \E at \in ReceivedAt(p) : row = NewRow(at, "received", EnvelopeAt(at).note, None)
      <4>1. PICK at \in Place : CmAt(at).pk = p /\ m = Mark(at, "received")
        BY <2>2, <2>4, <3>1, <3>2
      <4> QED BY <4>1
    <3>3. CASE \E at \in SentAt(p) :
                  row = NewRow(at, "sent", EnvelopeAt(at).note, SpentFor(p, NfAt(at)))
      <4>1. PICK at \in Place : CmAt(at).from = p /\ m = Mark(at, "sent")
        BY <2>3, <2>4, <3>1, <3>3
      <4> QED BY <4>1
    <3> QED BY <3>2, <3>3, ScanPartyRows
  <2>6. ASSUME NEW m \in History(p) PROVE m \in Marks(p)
    <3>1. PICK at \in Place, role \in {"received", "sent"} :
              /\ m = Mark(at, role)
              /\ role = "received" => CmAt(at).pk = p
              /\ role = "sent" => CmAt(at).from = p
      OBVIOUS
    <3>2. PICK note, spent : NewRow(at, role, note, spent) \in ScanParty(p)
      BY <2>2, <2>3, <3>1, ScanPartyRows
    <3>3. m = MarkOf(NewRow(at, role, note, spent))  BY <2>4, <3>1
    <3> HIDE DEF MarkOf
    <3> QED BY <3>2, <3>3
  <2> QED BY <2>5, <2>6
<1> QED BY <1>1, ViewInvariant, PTL

(* An honest row passes every check that is not about the disclosure.      *)
LEMMA RowMatchesChain ==
    ASSUME ViewInv, HonestEnvelopes, NEW at \in Place, NEW role, NEW spent, NEW d, NEW row,
           row = NewRow(at, role, EnvelopeAt(at).note, spent), InScope(d, row, at)
    PROVE  VerifyRow(d, row)
<1>1. EnvelopeAt(at).note = CmAt(at)  BY HonestAt
<1>2. /\ row.tx = at.tx /\ row.source = at.source /\ row.slot = at.slot
      /\ row.sender = CmAt(at).from /\ row.receiver = CmAt(at).pk /\ row.amount = CmAt(at).amount
      /\ row.asset = CmAt(at).asset /\ row.time = CmAt(at).time /\ row.cmOut = CmAt(at)
      /\ row.nf = NfAt(at) /\ row.note = CmAt(at)
  BY <1>1, RowFields
<1>3. at = [source |-> row.source, tx |-> row.tx, slot |-> row.slot] /\ CmAt(at).time = TimeAt(at)
  BY <1>2, PlaceFacts
<1> QED BY <1>2, <1>3 DEF VerifyRow

(* Whatever a scan lists under a disclosure is accepted under it. *)
THEOREM ScannedRowsVerify ==
    "rotated" \notin Sealing => (ViewSpec => []ScanRowsVerify)
<1> SUFFICES ASSUME "rotated" \notin Sealing PROVE ViewSpec => []ScanRowsVerify
  OBVIOUS
<1>1. ViewInv => ScanRowsVerify
  <2> SUFFICES ASSUME ViewInv, HonestEnvelopes, NEW d \in Disclosures, NEW row \in Scan(d)
               PROVE  VerifyRow(d, row)
    BY DEF ScanRowsVerify
  <2>1. CASE \E p \in Party : d = PartyKey(p)
    <3>1. PICK p \in Party : d = PartyKey(p)  BY <2>1
    <3>2. d.scope = "party" /\ d.vk = p  BY <3>1 DEF PartyKey
    <3>3. row \in ScanParty(p)  BY <3>2 DEF Scan
    <3>4. CASE \E at \in ReceivedAt(p) : row = NewRow(at, "received", EnvelopeAt(at).note, None)
      <4>1. PICK at \in ReceivedAt(p) : row = NewRow(at, "received", EnvelopeAt(at).note, None)
        BY <3>4
      <4>2. at \in Place  BY DEF ReceivedAt
      <4>3. EnvelopeAt(at).note = CmAt(at) /\ CmAt(at).pk = p  BY <4>2, HonestAt
      <4>4. row.role = "received" /\ row.note = EnvelopeAt(at).note  BY <4>1, RowFields
      <4>5. InScope(d, row, at)  BY <3>2, <4>3, <4>4 DEF InScope
      <4> QED BY <4>1, <4>2, <4>5, RowMatchesChain
    <3>5. CASE \E at \in SentAt(p) :
                  row = NewRow(at, "sent", EnvelopeAt(at).note, SpentFor(p, NfAt(at)))
      <4>1. PICK at \in SentAt(p) :
                row = NewRow(at, "sent", EnvelopeAt(at).note, SpentFor(p, NfAt(at)))
        BY <3>5
      <4>2. at \in Place  BY DEF SentAt
      <4>3. EnvelopeAt(at).note = CmAt(at) /\ CmAt(at).from = p  BY <4>2, HonestAt
      <4>4. /\ row.role = "sent" /\ row.note = EnvelopeAt(at).note /\ row.nf = NfAt(at)
            /\ row.source = at.source /\ row.spent = SpentFor(p, NfAt(at))
        BY <4>1, RowFields
      <4>5. SpentClaim(p, row)
        <5>1. at.source \in {"transfer", "bundle"}  BY <4>2, PlaceFacts
        <5>2. /\ NfAt(at) = None => SpentFor(p, NfAt(at)) = None
              /\ SpentFor(p, NfAt(at)) # None =>
                    /\ SpentFor(p, NfAt(at)).pk = p
                    /\ Nullify(p, SpentFor(p, NfAt(at))) = NfAt(at)
              /\ at.source = "transfer" /\ NfAt(at) # None => SpentFor(p, NfAt(at)) # None
          BY SpentForFacts
        <5> QED BY <4>4, <5>1, <5>2 DEF SpentClaim
      <4>6. InScope(d, row, at)  BY <3>2, <4>3, <4>4, <4>5 DEF InScope
      <4> QED BY <4>1, <4>2, <4>6, RowMatchesChain
    <3> QED BY <3>3, <3>4, <3>5, ScanPartyRows
  <2>2. CASE \E tx, key : d = TransactionKey(tx, key)
    <3>1. PICK tx, key : d = TransactionKey(tx, key)  BY <2>2
    <3>2. d.scope = "transaction" /\ d.tx = tx /\ d.key = key  BY <3>1 DEF TransactionKey
    <3>3. PICK at \in Place : /\ at.tx = tx /\ OpensWithTxKey(EnvelopeAt(at), CmAt(at), key)
                              /\ row = NewRow(at, "transaction", EnvelopeAt(at).note, None)
      BY <3>2 DEF Scan, ScanTransaction
    <3>4. row.role = "transaction" /\ row.tx = at.tx /\ row.note = EnvelopeAt(at).note
      BY <3>3, RowFields
    <3>5. InScope(d, row, at)  BY <3>2, <3>3, <3>4 DEF InScope
    <3> QED BY <3>3, <3>5, RowMatchesChain
  <2> QED BY <2>1, <2>2 DEF Disclosures
<1> QED BY <1>1, ViewInvariant, PTL
=============================================================================
