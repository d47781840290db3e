-------------------------- MODULE ShieldedPool --------------------------
(***************************************************************************)
(* The shielded pool of the reference zkVM: the chain-side Ledger          *)
(* (research/src/ledger.rs) and the two guest programs whose proofs it     *)
(* admits, guests::transfer and guests::bundle (research/src/guests.rs).   *)
(*                                                                         *)
(* Abstractions.                                                           *)
(*  - Hashes are free constructors: a commitment IS the note it commits to,*)
(*    a nullifier IS the pair [nk, cm], a digest IS its preimage.          *)
(*  - A tree root is the number of leaves it covers.  CommitmentTree.tla   *)
(*    checks what this rests on: roots of different prefixes differ, and a *)
(*    path verifies exactly for the leaves under the root.                 *)
(*  - A proof verifies iff it comes from a run of the named guest over the *)
(*    named public segment (soundness and completeness of the STARK).      *)
(*  - A party is named by its spend key; its nk and pk are one-to-one with *)
(*    it (notes::SpendKey, ViewingKey::pk), so all three are the Party.    *)
(***************************************************************************)
EXTENDS Integers, FiniteSets, Sequences, SequencesExt

CONSTANTS
    Party, Rand, Asset,
    Native,             \* asset 0, the one fees are charged in
    None,               \* Option::None
    U63,                \* 2^63 in the code: the bound on every amount
    AnchorWindow,       \* Ledger::ANCHOR_WINDOW
    TimeWindow,         \* Ledger::TIME_WINDOW
    ClockWord,          \* 2^32: the clock is a u32
    MaxNow, MaxLeaves   \* bounds on the clock and on the tree

(* What callers submit, as small sets.  Draw(k) and Spare(k) are what a    *)
(* wallet may use while the tree has k leaves: Draw(k) the randomness of   *)
(* the note that would become leaf k, Spare(k) the notes outside the tree  *)
(* it may put in an input slot (dummies, or notes never minted).           *)
CONSTANTS Draw(_), Spare(_), MintAmounts, OutAmounts, Fees, Burns, Faults

U64 == U63 + U63
Amount == 0 .. U64 - 1

Note == [pk : Party, from : Party, amount : Amount, asset : Asset,
         time : Nat, r : Rand]
Nullifier == [nk : Party, cm : Note]

ASSUME PoolAssumption ==
    /\ Native \in Asset
    /\ U63 \in Nat \ {0}
    /\ AnchorWindow \in Nat \ {0} /\ TimeWindow \in Nat
    /\ ClockWord \in Nat \ {0} /\ MaxNow \in Nat /\ MaxLeaves \in Nat
    /\ \A k \in 0 .. MaxLeaves : Draw(k) \subseteq Rand /\ Spare(k) \subseteq Note
    /\ MintAmounts \subseteq Amount /\ OutAmounts \subseteq Amount
    /\ Fees \subseteq Amount /\ Burns \subseteq Amount
    /\ None \notin Nullifier /\ None \notin Note /\ None \notin Int

VARIABLES
    leaves,         \* CommitmentTree::leaves
    recentRoots,    \* the bounded window of roots, oldest first
    nullifiers,     \* the set of published nullifiers
    now,            \* the ledger's clock
    txs,            \* admitted transfers and mints
    bundles,        \* admitted bundles
    feesCollected, burned

vars == <<leaves, recentRoots, nullifiers, now, txs, bundles, feesCollected, burned>>

-----------------------------------------------------------------------------
(* The tree. *)

HasCommitment(cm) == cm \in ToSet(leaves)

Root == Len(leaves)

NoRoot == -1            \* what a path that leads nowhere hashes to

(* Mutation: the path is checked against the whole tree, not the root. *)
MerkleVerify_WholeTree(cm, k) == IF HasCommitment(cm) THEN k ELSE NoRoot

(* MERKLE_VERIFY over the best path a wallet can produce in the tree of    *)
(* root k: it ends in k exactly when the note is one of its leaves.        *)
MerkleVerify(cm, k) ==
    IF \E i \in 1 .. k : leaves[i] = cm THEN k ELSE NoRoot

(* Mutation: the window keeps one root too few. *)
RecordRoot_Short(roots, root) ==
    LET all == Append(roots, root)
    IN  IF Len(all) >= AnchorWindow THEN SubSeq(all, 2, Len(all)) ELSE all

(* record_root: push the current root, then pop the oldest. *)
RecordRoot(roots, root) ==
    LET all == Append(roots, root)
    IN  IF Len(all) > AnchorWindow
        THEN SubSeq(all, Len(all) - AnchorWindow + 1, Len(all))
        ELSE all

-----------------------------------------------------------------------------
(* The guests: what a run with a given witness publishes. *)

Nullify(self, cm) == [nk |-> self, cm |-> cm]

(* Mutation: the owner is read from the witness. *)
OwnedBy_Witness(self, n) == n

(* The owner of a spent note is never a witness word: it is the spender. *)
OwnedBy(self, n) == [n EXCEPT !.pk = self]

(* guests::transfer.  The derived root simply is the published anchor. *)
TransferGuest(w) ==
    LET cmIn == OwnedBy(w.self, w.spent)
    IN  [anchor |-> MerkleVerify(cmIn, w.root),
         nf |-> Nullify(w.self, cmIn),
         cmOut |-> [pk |-> w.outPk, from |-> w.self, amount |-> cmIn.amount,
                    asset |-> cmIn.asset, time |-> w.time, r |-> w.outR],
         time |-> w.time]

(* emit_add64_carry: the low 64 bits, and whether a bit was lost. *)
Add64(a, b) == IF a + b < U64 THEN a + b ELSE a + b - U64
Carry64(a, b) == a + b >= U64

RangeViolation(amount) == amount >= U63

(* Mutation: the membership check is left to the asset check. *)
InputViolation_AssetOnly(w, n) == n.amount # 0 /\ n.asset # w.asset

(* A real input must be a leaf under the claimed anchor and of the         *)
(* bundle's asset; an input of amount zero skips both.                     *)
InputViolation(w, n) ==
    /\ n.amount # 0
    /\ MerkleVerify(n, w.anchor) # w.anchor \/ n.asset # w.asset

(* Mutation: balance is compared in 64 bits, lost carries ignored. *)
BalanceViolation_LowBits(w) ==
    Add64(w.in1.amount, w.in2.amount)
      # Add64(Add64(Add64(w.out1.amount, w.out2.amount), w.fee), w.burn)

BalanceViolation(w) ==
    LET sumIn == Add64(w.in1.amount, w.in2.amount)
        outs == Add64(w.out1.amount, w.out2.amount)
        outsFee == Add64(outs, w.fee)
    IN  \/ Carry64(w.in1.amount, w.in2.amount)
        \/ Carry64(w.out1.amount, w.out2.amount)
        \/ Carry64(outs, w.fee) \/ Carry64(outsFee, w.burn)
        \/ sumIn # Add64(outsFee, w.burn)

(* guests::bundle's `bad` accumulator. *)
Bad(w, nf1, nf2, cm1, cm2) ==
    \/ InputViolation(w, nf1.cm) \/ InputViolation(w, nf2.cm)
    \/ nf1 = nf2 \/ cm1 = cm2
    \/ \E a \in {w.in1.amount, w.in2.amount, w.out1.amount, w.out2.amount,
                 w.fee, w.burn} : RangeViolation(a)
    \/ BalanceViolation(w)

BundleOutput(w, out) ==
    [pk |-> out.pk, from |-> w.self, amount |-> out.amount,
     asset |-> w.asset, time |-> w.time, r |-> out.r]

(* guests::bundle: the digest's preimage, `bad` included. *)
BundleGuest(w) ==
    LET nf1 == Nullify(w.self, OwnedBy(w.self, w.in1))
        nf2 == Nullify(w.self, OwnedBy(w.self, w.in2))
        cm1 == BundleOutput(w, w.out1)
        cm2 == BundleOutput(w, w.out2)
    IN  [plain |-> [anchor |-> w.anchor, nullifiers |-> <<nf1, nf2>>,
                    commitments |-> <<cm1, cm2>>, fee |-> w.fee,
                    burn |-> w.burn, asset |-> w.asset, time |-> w.time],
         bad |-> Bad(w, nf1, nf2, cm1, cm2)]

-----------------------------------------------------------------------------
(* Proofs as the ledger sees them. *)

Sound(digest) == [wellFormed |-> TRUE, digest |-> digest, genuine |-> TRUE,
                  emptySegment |-> TRUE]

(* What may be wrong with a submission.  "forged": no run produced the     *)
(* digest the proof claims; "segment": a real run, but over a non-empty    *)
(* public segment; "shape": public values are missing or not 32-bit words; *)
(* "plaintext": the proof is of another commitment than the one submitted. *)
FaultyProof(digest, fault) ==
    [Sound(digest) EXCEPT !.genuine = (fault # "forged"),
                          !.emptySegment = (fault # "segment"),
                          !.wellFormed = (fault # "shape")]

(* Mutation: the segment is checked, the proof is not. *)
VerifyPublic_SegmentOnly(proof) == proof.emptySegment

VerifyPublic(proof) == proof.genuine /\ proof.emptySegment

Altered(cm) == [cm EXCEPT !.amount = Add64(@, 1)]

-----------------------------------------------------------------------------
(* The ledger's admission checks, in the order the code makes them. *)

KnownAnchor(anchor) == anchor \in ToSet(recentRoots)
Unspent(nf) == nf \notin nullifiers

(* Mutation: a bundle must have been proved strictly in the past. *)
InTimeWindow_Past(time) == time < now /\ now - time <= TimeWindow

InTimeWindow(time) == time <= now /\ now - time <= TimeWindow

(* Mutation: a fee in any asset. *)
FeeIsNative_Any(b) == TRUE

FeeIsNative(b) == b.asset # Native => b.fee = 0

(* Mutations: a mint without its range check, or without its duplicate check. *)
MintAdmissible_AnyAmount(note) == note.time = now /\ ~HasCommitment(note)
MintAdmissible_Repeats(note) == ~RangeViolation(note.amount) /\ note.time = now

MintAdmissible(note) ==
    /\ ~RangeViolation(note.amount)
    /\ note.time = now
    /\ ~HasCommitment(note)

(* Mutation: the nullifier set is not consulted. *)
TransferAdmissible_Respend(proof, t) ==
    /\ proof.wellFormed /\ proof.digest = t
    /\ KnownAnchor(t.anchor) /\ ~HasCommitment(t.cmOut)
    /\ t.time = now /\ VerifyPublic(proof)

(* output_digest(anchor, nf, cm_out, time) is the plaintext itself. *)
TransferAdmissible(proof, t) ==
    /\ proof.wellFormed
    /\ proof.digest = t
    /\ KnownAnchor(t.anchor)
    /\ Unspent(t.nf)
    /\ ~HasCommitment(t.cmOut)
    /\ t.time = now
    /\ VerifyPublic(proof)

(* bundle_digest fixes the last word, `bad`, at zero. *)
BundleDigest(b) == [plain |-> b, bad |-> FALSE]

(* Mutation: only the first slot is looked up in the nullifier set. *)
BundleAdmissible_FirstSlot(proof, b) ==
    /\ proof.wellFormed /\ KnownAnchor(b.anchor) /\ InTimeWindow(b.time) /\ FeeIsNative(b)
    /\ b.nullifiers[1] # b.nullifiers[2] /\ Unspent(b.nullifiers[1])
    /\ b.commitments[1] # b.commitments[2]
    /\ \A s \in 1 .. 2 : ~HasCommitment(b.commitments[s])
    /\ proof.digest = BundleDigest(b) /\ VerifyPublic(proof)

BundleAdmissible(proof, b) ==
    /\ proof.wellFormed
    /\ KnownAnchor(b.anchor)
    /\ InTimeWindow(b.time)
    /\ FeeIsNative(b)
    /\ b.nullifiers[1] # b.nullifiers[2]
    /\ \A s \in 1 .. 2 : Unspent(b.nullifiers[s])
    /\ b.commitments[1] # b.commitments[2]
    /\ \A s \in 1 .. 2 : ~HasCommitment(b.commitments[s])
    /\ proof.digest = BundleDigest(b)
    /\ VerifyPublic(proof)

-----------------------------------------------------------------------------
(* The ledger's operations.  A refused submission changes nothing. *)

(* Mutation: the totals are added up without saturation. *)
SatAdd_Plain(a, b) == a + b

SatAdd(a, b) == IF a + b < U64 THEN a + b ELSE U64 - 1

Init ==
    /\ leaves = <<>> /\ recentRoots = <<0>> /\ nullifiers = {}
    /\ now = 0 /\ txs = <<>> /\ bundles = <<>>
    /\ feesCollected = 0 /\ burned = 0

Mint(note) ==
    /\ Len(leaves) + 1 <= MaxLeaves
    /\ MintAdmissible(note)
    /\ leaves' = Append(leaves, note)
    /\ recentRoots' = RecordRoot(recentRoots, Len(leaves'))
    /\ txs' = Append(txs, [anchor |-> None, nf |-> None, cmOut |-> note,
                           time |-> note.time])
    /\ UNCHANGED <<nullifiers, now, bundles, feesCollected, burned>>

Apply(proof, t) ==
    /\ Len(leaves) + 1 <= MaxLeaves
    /\ TransferAdmissible(proof, t)
    /\ nullifiers' = nullifiers \cup {t.nf}
    /\ leaves' = Append(leaves, t.cmOut)
    /\ recentRoots' = RecordRoot(recentRoots, Len(leaves'))
    /\ txs' = Append(txs, t)
    /\ UNCHANGED <<now, bundles, feesCollected, burned>>

(* Mutation: a root is recorded after each of the two leaves. *)
ApplyBundle_RootPerLeaf(proof, b) ==
    /\ Len(leaves) + 2 <= MaxLeaves /\ BundleAdmissible(proof, b)
    /\ nullifiers' = nullifiers \cup {b.nullifiers[1], b.nullifiers[2]}
    /\ leaves' = Append(Append(leaves, b.commitments[1]), b.commitments[2])
    /\ recentRoots' = RecordRoot(RecordRoot(recentRoots, Len(leaves) + 1), Len(leaves'))
    /\ feesCollected' = SatAdd(feesCollected, b.fee)
    /\ burned' = SatAdd(burned, b.burn)
    /\ bundles' = Append(bundles, b)
    /\ UNCHANGED <<now, txs>>

ApplyBundle(proof, b) ==
    /\ Len(leaves) + 2 <= MaxLeaves
    /\ BundleAdmissible(proof, b)
    /\ nullifiers' = nullifiers \cup {b.nullifiers[1], b.nullifiers[2]}
    /\ leaves' = Append(Append(leaves, b.commitments[1]), b.commitments[2])
    /\ recentRoots' = RecordRoot(recentRoots, Len(leaves'))
    /\ feesCollected' = SatAdd(feesCollected, b.fee)
    /\ burned' = SatAdd(burned, b.burn)
    /\ bundles' = Append(bundles, b)
    /\ UNCHANGED <<now, txs>>

(* The addition is unchecked: it wraps in a release build, and panics in a *)
(* debug build, which is no step at all.                                   *)
Advance(seconds) ==
    /\ (now + seconds) % ClockWord <= MaxNow
    /\ now' = (now + seconds) % ClockWord
    /\ UNCHANGED <<leaves, recentRoots, nullifiers, txs, bundles, feesCollected, burned>>

-----------------------------------------------------------------------------
(* What may be submitted.  A spender may name any note, root and time. *)

InputNotes == ToSet(leaves) \cup Spare(Len(leaves))

MintNotes == [pk : Party, from : Party, amount : MintAmounts, asset : Asset,
              time : 0 .. MaxNow, r : Draw(Len(leaves) + 1)]

TransferWitness == [self : Party, spent : InputNotes, root : 0 .. Len(leaves),
                    outPk : Party, outR : Draw(Len(leaves) + 1), time : 0 .. MaxNow]

OutBody(k) == [pk : Party, amount : OutAmounts, r : Draw(k)]

BundleWitness == [self : Party, in1 : InputNotes, in2 : InputNotes,
                  anchor : 0 .. Len(leaves),
                  out1 : OutBody(Len(leaves) + 1), out2 : OutBody(Len(leaves) + 2),
                  fee : Fees, burn : Burns, asset : Asset, time : 0 .. MaxNow]

SubmitTransfer(w, fault) ==
    LET run == TransferGuest(w)
        t == CASE fault = "forged"    -> [run EXCEPT !.anchor = w.root]
               [] fault = "plaintext" -> [run EXCEPT !.cmOut = Altered(@)]
               [] OTHER               -> run
    IN  Apply(FaultyProof(IF fault = "forged" THEN t ELSE run, fault), t)

SubmitBundle(w, fault) ==
    LET run == BundleGuest(w)
        b == IF fault = "plaintext"
             THEN [run.plain EXCEPT !.commitments = <<Altered(@[1]), @[2]>>]
             ELSE run.plain
    IN  ApplyBundle(FaultyProof(IF fault = "forged" THEN BundleDigest(b) ELSE run, fault), b)

Next ==
    \/ \E note \in MintNotes : Mint(note)
    \/ \E w \in TransferWitness, fault \in Faults : SubmitTransfer(w, fault)
    \/ \E w \in BundleWitness, fault \in Faults : SubmitBundle(w, fault)
    \/ \E seconds \in 1 .. MaxNow : Advance(seconds)

Spec == Init /\ [][Next]_vars

-----------------------------------------------------------------------------
(* Types. *)

Tx == [anchor : Nat \cup {None}, nf : Nullifier \cup {None}, cmOut : Note, time : Nat]

Bundle == [anchor : Nat, nullifiers : Nullifier \X Nullifier,
           commitments : Note \X Note, fee : Amount, burn : Amount,
           asset : Asset, time : Nat]

(* Every state component holds values of its Rust type: u64 totals that    *)
(* cannot leave the 64-bit range, well-formed notes and nullifiers.        *)
TypeOK ==
    /\ leaves \in Seq(Note)
    /\ recentRoots \in Seq(Nat)
    /\ nullifiers \in SUBSET Nullifier
    /\ now \in Nat
    /\ txs \in Seq(Tx) /\ bundles \in Seq(Bundle)
    /\ feesCollected \in Amount /\ burned \in Amount

-----------------------------------------------------------------------------
(* Safety. *)

(* The places of the chain that publish a nullifier: transfers have one,   *)
(* bundles two, mints none.                                                *)
Spends == [seq : {"tx"}, at : {i \in DOMAIN txs : txs[i].nf # None}, slot : {1}]
          \cup [seq : {"bundle"}, at : DOMAIN bundles, slot : {1, 2}]

NfOf(e) == IF e.seq = "tx" THEN txs[e.at].nf ELSE bundles[e.at].nullifiers[e.slot]
AnchorOf(e) == IF e.seq = "tx" THEN txs[e.at].anchor ELSE bundles[e.at].anchor
CreatedBy(e) == IF e.seq = "tx" THEN {txs[e.at].cmOut} ELSE ToSet(bundles[e.at].commitments)

(* No double spend, across both sequences and within one bundle: no        *)
(* nullifier is published in two places, and the ledger's set is exactly   *)
(* what the two sequences published.                                       *)
NoDoubleSpend ==
    /\ \A e, f \in Spends : NfOf(e) = NfOf(f) => e = f
    /\ nullifiers = {NfOf(e) : e \in Spends}

(* A spend of value is of a note that was already a leaf under the anchor  *)
(* it claims, and what it creates comes after that anchor: no note pays    *)
(* for itself, however transfers and bundles interleave.                   *)
SpendsFollowCreation ==
    \A e \in Spends :
        /\ NfOf(e).cm.amount > 0 =>
               \E i \in 1 .. AnchorOf(e) : leaves[i] = NfOf(e).cm
        /\ \A cm \in CreatedBy(e) : \A i \in 1 .. AnchorOf(e) : leaves[i] # cm

(* Only the owner spends, and the notes a spend creates name that owner as *)
(* their sender and keep the asset of the value they carry.                *)
OwnerIsSpender ==
    \A e \in Spends :
        /\ NfOf(e).nk = NfOf(e).cm.pk
        /\ \A cm \in CreatedBy(e) :
              /\ cm.from = NfOf(e).nk
              /\ NfOf(e).cm.amount > 0 => cm.asset = NfOf(e).cm.asset

(* The pool's global amount invariant (LedgerError::AmountOutOfRange): no  *)
(* leaf, however created, is one that no bundle could ever spend.          *)
EveryLeafSpendable == \A cm \in ToSet(leaves) : ~RangeViolation(cm.amount)

(* Commitments are unique, so a commitment names one leaf and one path.    *)
LeavesDistinct == IsInjective(leaves)

(* The window holds exactly the roots after the last AnchorWindow          *)
(* admissions (the genesis root counts as one), the current one last, and  *)
(* never the root between the two leaves of one bundle.                    *)
WindowIsRecent ==
    /\ Len(recentRoots) = Min({AnchorWindow, 1 + Len(txs) + Len(bundles)})
    /\ recentRoots[Len(recentRoots)] = Root
    /\ \A i \in 1 .. Len(recentRoots) - 1 : recentRoots[i] < recentRoots[i + 1]
    /\ \A i \in DOMAIN bundles : \A k \in ToSet(recentRoots) \ {0} :
           leaves[k] # bundles[i].commitments[1]

(* The inductive core of the pool's safety: a published nullifier is its    *)
(* owner's, a valued one is of a leaf (so a fresh note is never born       *)
(* spent), every recent root covers leaves that exist, and the pool's      *)
(* amount and uniqueness invariants hold.                                  *)
PoolInv ==
    /\ TypeOK
    /\ LeavesDistinct
    /\ EveryLeafSpendable
    /\ \A k \in ToSet(recentRoots) : k <= Len(leaves)
    /\ \A nf \in nullifiers :
          /\ nf.nk = nf.cm.pk
          /\ nf.cm.amount > 0 => HasCommitment(nf.cm)

-----------------------------------------------------------------------------
(* Value. *)

IsUnspent(n) == Unspent(Nullify(n.pk, n))

InPool(a) ==
    SumFunction([n \in {m \in ToSet(leaves) : m.asset = a /\ IsUnspent(m)} |-> n.amount])
MintsOf(a) == {i \in DOMAIN txs : txs[i].nf = None /\ txs[i].cmOut.asset = a}
Minted(a) == SumFunction([i \in MintsOf(a) |-> txs[i].cmOut.amount])
OfAsset(a) == {i \in DOMAIN bundles : bundles[i].asset = a}
FeesPaid(a) == SumFunction([i \in OfAsset(a) |-> bundles[i].fee])
Burnt(a) == SumFunction([i \in OfAsset(a) |-> bundles[i].burn])
AllBurnt == SumFunction([i \in DOMAIN bundles |-> bundles[i].burn])

(* Conservation, per asset and over the natural numbers: what was minted   *)
(* is still in the pool, was paid as a fee, or was burnt.  64-bit wrap,    *)
(* a skipped membership check or a repeated nullifier would break it.      *)
ValueConserved == \A a \in Asset : Minted(a) = InPool(a) + FeesPaid(a) + Burnt(a)

(* feesCollected is SHRUGG accounting: the saturated total of the fees of  *)
(* asset 0, and burned the saturated total of every asset's burns.         *)
TotalsSaturate ==
    /\ feesCollected = Min({U64 - 1, FeesPaid(Native)})
    /\ burned = Min({U64 - 1, AllBurnt})

-----------------------------------------------------------------------------
(* The pool implements NotePool. *)

Valued(S) == {n \in S : n.amount > 0}

Live == {n \in Valued(ToSet(leaves)) : IsUnspent(n)}
Dead == Valued(ToSet(leaves)) \ Live
Deposited == Valued({txs[i].cmOut : i \in {j \in DOMAIN txs : txs[j].nf = None}})

Abs == INSTANCE NotePool WITH
    live <- Live, dead <- Dead, deposited <- Deposited, fees <- feesCollected

(* The ledger with its tree, window, nullifiers and proofs implements the  *)
(* two-set pool: value enters by mints only, every valued note is spent at *)
(* most once, and each admission balances exactly.                         *)
ImplementsNotePool == Abs!PoolSpec

=============================================================================
