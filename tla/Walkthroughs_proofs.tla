---------------------- MODULE Walkthroughs_proofs -----------------------
(***************************************************************************)
(* Theorems about the two walkthrough ledgers, for any accounts, amounts,  *)
(* notes and tree sizes, and for any moduli that keep conservation from    *)
(* wrapping.                                                               *)
(***************************************************************************)
EXTENDS MCWalkthroughs, SumTheorems, SequenceTheorems, TLAPS

-----------------------------------------------------------------------------
(* Counting. *)

(* A sequence without repetitions has as many values as places. *)
LEMMA InjectiveCount ==
    ASSUME NEW S, NEW s \in Seq(S), IsInjective(s)
    PROVE  IsFiniteSet(ToSet(s)) /\ Cardinality(ToSet(s)) = Len(s) /\ Len(s) \in Nat
<1> DEFINE n == Len(s)
<1>1. n \in Nat /\ DOMAIN s = 1 .. n  OBVIOUS
<1>2. s \in Injection(1 .. n, ToSet(s)) /\ s \in Surjection(1 .. n, ToSet(s))
  <2>1. s \in [1 .. n -> ToSet(s)]  BY <1>1 DEF ToSet
  <2>2. \A a, b \in 1 .. n : s[a] = s[b] => a = b  BY <1>1 DEF IsInjective
  <2>3. \A x \in ToSet(s) : \E i \in 1 .. n : s[i] = x  BY <1>1 DEF ToSet
  <2> QED BY <2>1, <2>2, <2>3, Zenon DEF Injection, IsInjective, Surjection
<1>3. IsFiniteSet(1 .. n) /\ Cardinality(1 .. n) = n
  BY <1>1, FS_Interval
<1>4. IsFiniteSet(ToSet(s)) /\ (Cardinality(ToSet(s)) = Cardinality(1 .. n) <=> s \in Injection(1 .. n, ToSet(s)))
  BY <1>2, <1>3, FS_Surjection
<1> QED BY <1>1, <1>2, <1>3, <1>4

-----------------------------------------------------------------------------
(* The mixer. *)

MixerInv ==
    /\ leaves \in Seq(Commitment) /\ Len(leaves) <= Capacity
    /\ knownRoots = 0 .. Len(leaves)
    /\ balances \in [Account -> Nat]
    /\ spentLog \in Seq(spent) /\ IsInjective(spentLog) /\ spent = ToSet(spentLog)
    /\ pool = Denomination * (Len(leaves) - Len(spentLog))
    /\ \A nh \in spent : \E i \in 1 .. Len(leaves) : leaves[i] # Junk /\ leaves[i].nullifier = nh
    /\ \A p \in proofs :
          /\ p.root \in 0 .. Len(leaves)
          /\ \E i \in 1 .. Len(leaves) : leaves[i] # Junk /\ leaves[i].nullifier = p.nullifierHash

LEMMA MixerInitInv == Init => MixerInv
<1> SUFFICES ASSUME Init PROVE MixerInv
  OBVIOUS
<1>1. leaves = <<>> /\ knownRoots = {0} /\ spent = {} /\ spentLog = <<>> /\ pool = 0 /\ proofs = {}
      /\ balances = [a \in Account |-> 0]
  BY DEF Init
<1>2. leaves \in Seq(Commitment) /\ Len(leaves) = 0 /\ Len(leaves) <= Capacity
  BY <1>1, MixerAssumption
<1>3. knownRoots = 0 .. Len(leaves) /\ balances \in [Account -> Nat]  BY <1>1, <1>2
<1>4. spentLog \in Seq(spent) /\ Len(spentLog) = 0 /\ IsInjective(spentLog) /\ spent = ToSet(spentLog)
  BY <1>1 DEF IsInjective, ToSet
<1>5. pool = Denomination * (Len(leaves) - Len(spentLog))
  <2>1. Len(leaves) - Len(spentLog) = 0  BY <1>2, <1>4
  <2> QED BY <1>1, <2>1, MixerAssumption
<1> QED BY <1>1, <1>2, <1>3, <1>4, <1>5 DEF MixerInv

LEMMA Scale ==
    ASSUME NEW d \in Nat, NEW k \in Int
    PROVE  d * (k + 1) = d * k + d /\ d * (k - 1) = d * k - d /\ d * k \in Int /\ (k >= 0 => d * k >= 0)
OBVIOUS

LEMMA MixerFacts ==
    ASSUME MixerInv
    PROVE  /\ Len(leaves) \in Nat /\ DOMAIN leaves = 1 .. Len(leaves)
           /\ \A i \in 1 .. Len(leaves) : leaves[i] \in Commitment
           /\ Len(spentLog) \in Nat /\ DOMAIN spentLog = 1 .. Len(spentLog)
           /\ Denomination \in Nat
BY MixerAssumption DEF MixerInv

LEMMA FundKeeps ==
    ASSUME MixerInv, NEW who \in Account, NEW amount \in 1 .. MaxFunds, Fund(who, amount)
    PROVE  MixerInv'
<1>1. balances' = [balances EXCEPT ![who] = @ + amount]
      /\ UNCHANGED <<leaves, depositors, knownRoots, spent, spentLog, pool, proofs>>
  BY DEF Fund
<1>2. balances' \in [Account -> Nat]
  <2>1. MaxFunds \in Nat /\ amount \in Nat  BY MixerAssumption
  <2> QED BY <1>1, <2>1 DEF MixerInv
<1> QED BY <1>1, <1>2 DEF MixerInv

LEMMA DepositKeeps ==
    ASSUME MixerInv, NEW from \in Account, NEW c \in Offered(Len(leaves) + 1), Deposit(from, c)
    PROVE  MixerInv'
<1>1. /\ balances[from] >= Denomination /\ Len(leaves) < Capacity
      /\ balances' = [balances EXCEPT ![from] = @ - Denomination]
      /\ pool' = pool + Denomination
      /\ leaves' = Append(leaves, c)
      /\ knownRoots' = knownRoots \cup {Len(leaves')}
      /\ UNCHANGED <<spent, spentLog, proofs>>
  BY DEF Deposit, DepositAllowed, Record
<1>2. PICK s, t : s = leaves /\ t = leaves' /\ t = Append(s, c)  BY <1>1
<1>3. s \in Seq(Commitment) /\ Len(s) \in Nat /\ c \in Commitment
  <2>1. Len(leaves) \in Nat /\ Capacity \in Nat  BY MixerFacts, MixerAssumption
  <2>2. Len(leaves) + 1 \in 1 .. Capacity  BY <1>1, <2>1
  <2> QED BY <1>2, <2>1, <2>2, MixerAssumption DEF MixerInv
<1>4. t \in Seq(Commitment) /\ Len(t) = Len(s) + 1 /\ \A i \in 1 .. Len(s) : t[i] = s[i]
  BY <1>2, <1>3
<1>5. Len(leaves') <= Capacity  BY <1>1, <1>2, <1>3, <1>4, MixerAssumption
<1>6. knownRoots' = 0 .. Len(leaves')
  <2>1. knownRoots = 0 .. Len(s)  BY <1>2 DEF MixerInv
  <2>2. knownRoots' = (0 .. Len(s)) \cup {Len(s) + 1}  BY <1>1, <1>2, <1>4, <2>1
  <2>3. (0 .. Len(s)) \cup {Len(s) + 1} = 0 .. Len(s) + 1  BY <1>3
  <2> QED BY <1>2, <1>4, <2>2, <2>3
<1>7. balances' \in [Account -> Nat]
  <2>1. balances \in [Account -> Nat] /\ Denomination \in Nat  BY MixerFacts DEF MixerInv
  <2>2. balances[from] - Denomination \in Nat  BY <1>1, <2>1
  <2> QED BY <1>1, <2>1, <2>2
<1>8. pool' = Denomination * (Len(leaves') - Len(spentLog'))
  <2> DEFINE k == Len(s) - Len(spentLog)
  <2>1. k \in Int /\ Denomination \in Nat /\ Len(leaves') - Len(spentLog') = k + 1
    BY <1>1, <1>2, <1>3, <1>4, MixerFacts
  <2>2. pool = Denomination * k  BY <1>2 DEF MixerInv
  <2> HIDE DEF k
  <2> QED BY <1>1, <2>1, <2>2, Scale
<1>9. \A nh : (\E i \in 1 .. Len(leaves) : leaves[i] # Junk /\ leaves[i].nullifier = nh)
           => \E i \in 1 .. Len(leaves') : leaves'[i] # Junk /\ leaves'[i].nullifier = nh
  <2> SUFFICES ASSUME NEW nh, NEW i \in 1 .. Len(s), s[i] # Junk, s[i].nullifier = nh
               PROVE  \E j \in 1 .. Len(t) : t[j] # Junk /\ t[j].nullifier = nh
    BY <1>2
  <2>1. i \in 1 .. Len(t) /\ t[i] = s[i]  BY <1>3, <1>4
  <2> QED BY <2>1
<1>10. \A nh \in spent' : \E i \in 1 .. Len(leaves') : leaves'[i] # Junk /\ leaves'[i].nullifier = nh
  BY <1>1, <1>9 DEF MixerInv
<1>11. \A p \in proofs' :
          /\ p.root \in 0 .. Len(leaves')
          /\ \E i \in 1 .. Len(leaves') : leaves'[i] # Junk /\ leaves'[i].nullifier = p.nullifierHash
  <2> SUFFICES ASSUME NEW p \in proofs
               PROVE  /\ p.root \in 0 .. Len(leaves')
                      /\ \E i \in 1 .. Len(leaves') :
                            leaves'[i] # Junk /\ leaves'[i].nullifier = p.nullifierHash
    BY <1>1
  <2>1. p.root \in 0 .. Len(s) /\ p.root \in 0 .. Len(s) + 1  BY <1>2, <1>3 DEF MixerInv
  <2>2. \E i \in 1 .. Len(leaves) : leaves[i] # Junk /\ leaves[i].nullifier = p.nullifierHash
    BY DEF MixerInv
  <2> QED BY <1>2, <1>4, <1>9, <2>1, <2>2
<1>12. leaves' \in Seq(Commitment)  BY <1>2, <1>4
<1>13. spentLog' \in Seq(spent') /\ IsInjective(spentLog') /\ spent' = ToSet(spentLog')
  BY <1>1 DEF MixerInv
<1> QED BY <1>5, <1>6, <1>7, <1>8, <1>10, <1>11, <1>12, <1>13 DEF MixerInv

LEMMA ProveKeeps ==
    ASSUME MixerInv, NEW note \in ToSet(leaves) \ {Junk}, NEW to \in Account, Prove(note, to)
    PROVE  MixerInv'
<1>1. /\ proofs' = proofs \cup {[root |-> Root, nullifierHash |-> note.nullifier,
                                recipient |-> addr(to)]}
      /\ UNCHANGED <<leaves, depositors, knownRoots, spent, spentLog, balances, pool>>
  BY DEF Prove
<1>2. PICK i \in 1 .. Len(leaves) : leaves[i] = note
  BY MixerFacts DEF ToSet
<1>3. ASSUME NEW p \in proofs'
      PROVE  /\ p.root \in 0 .. Len(leaves)
             /\ \E j \in 1 .. Len(leaves) : leaves[j] # Junk /\ leaves[j].nullifier = p.nullifierHash
  <2>1. CASE p \in proofs  BY <2>1 DEF MixerInv
  <2>2. CASE p = [root |-> Root, nullifierHash |-> note.nullifier, recipient |-> addr(to)]
    <3>1. p.root = Len(leaves) /\ p.nullifierHash = note.nullifier /\ Len(leaves) \in Nat
      BY <2>2, MixerFacts DEF Root
    <3> QED BY <1>2, <3>1
  <2> QED BY <1>1, <2>1, <2>2
<1> QED BY <1>1, <1>3 DEF MixerInv

LEMMA WithdrawKeeps ==
    ASSUME MixerInv, NEW proof \in proofs, NEW root \in 0 .. Capacity, NEW nh \in Nu, NEW to \in Account,
           Withdraw(proof, root, nh, to)
    PROVE  MixerInv'
<1>1. /\ proof = [root |-> root, nullifierHash |-> nh, recipient |-> addr(to)]
      /\ nh \notin spent
      /\ spent' = spent \cup {nh} /\ spentLog' = Append(spentLog, nh)
      /\ pool' = pool - Denomination
      /\ balances' = [balances EXCEPT ![to] = @ + Denomination]
      /\ UNCHANGED <<leaves, depositors, knownRoots, proofs>>
  BY DEF Withdraw, WithdrawAllowed, Verify
<1>2. PICK s, t : s = spentLog /\ t = spentLog' /\ t = Append(s, nh)  BY <1>1
<1>3. s \in Seq(spent) /\ IsInjective(s) /\ spent = ToSet(s) /\ Len(s) \in Nat /\ DOMAIN s = 1 .. Len(s)
  BY <1>2, MixerFacts DEF MixerInv
<1>4. /\ t \in Seq(spent') /\ Len(t) = Len(s) + 1 /\ DOMAIN t = 1 .. Len(s) + 1
      /\ t[Len(s) + 1] = nh /\ \A i \in 1 .. Len(s) : t[i] = s[i] /\ s[i] \in spent
  <2>1. s \in Seq(spent') /\ nh \in spent'
    <3>1. \A i \in 1 .. Len(s) : s[i] \in spent'  BY <1>1, <1>3
    <3>2. s = [i \in 1 .. Len(s) |-> s[i]]  BY <1>3
    <3>3. s \in [1 .. Len(s) -> spent']  BY <3>1, <3>2
    <3> QED BY <1>1, <1>3, <3>3
  <2>2. \A i \in 1 .. Len(s) : s[i] \in spent  BY <1>3
  <2> QED BY <1>2, <1>3, <2>1, <2>2
<1>5. IsInjective(t)
  <2> SUFFICES ASSUME NEW a \in 1 .. Len(s) + 1, NEW b \in 1 .. Len(s) + 1, t[a] = t[b] PROVE a = b
    BY <1>4 DEF IsInjective
  <2>1. CASE a \in 1 .. Len(s) /\ b \in 1 .. Len(s)
    <3>1. s[a] = s[b]  BY <1>4, <2>1
    <3> QED BY <1>3, <2>1, <3>1 DEF IsInjective
  <2>2. CASE a = Len(s) + 1  /\ b \in 1 .. Len(s)  BY <1>1, <1>4, <2>2
  <2>3. CASE b = Len(s) + 1  /\ a \in 1 .. Len(s)  BY <1>1, <1>4, <2>3
  <2> QED BY <1>3, <2>1, <2>2, <2>3
<1>6. spent' = ToSet(t)
  <2>1. \A x : x \in ToSet(t) <=> \E i \in 1 .. Len(s) + 1 : t[i] = x  BY <1>4 DEF ToSet
  <2>2. \A x : x \in spent <=> \E i \in 1 .. Len(s) : s[i] = x  BY <1>3 DEF ToSet
  <2>3. \A x : x \in spent' <=> x \in spent \/ x = nh  BY <1>1
  <2>4. \A x : x \in ToSet(t) => x \in spent'
    <3> SUFFICES ASSUME NEW i \in 1 .. Len(s) + 1 PROVE t[i] \in spent'
      BY <2>1
    <3>1. CASE i = Len(s) + 1  BY <1>1, <1>4, <3>1
    <3>2. CASE i \in 1 .. Len(s)  BY <1>1, <1>4, <3>2
    <3> QED BY <1>3, <3>1, <3>2
  <2>5. \A x : x \in spent' => x \in ToSet(t)
    <3> SUFFICES ASSUME NEW x, x \in spent' PROVE \E i \in 1 .. Len(s) + 1 : t[i] = x
      BY <2>1
    <3>1. CASE x = nh
      <4>1. Len(s) + 1 \in 1 .. Len(s) + 1  BY <1>3
      <4> QED BY <1>4, <3>1, <4>1
    <3>2. CASE x \in spent
      <4>1. PICK i \in 1 .. Len(s) : s[i] = x  BY <2>2, <3>2
      <4>2. i \in 1 .. Len(s) + 1  BY <1>3
      <4> QED BY <1>4, <4>1, <4>2
    <3> QED BY <2>3, <3>1, <3>2
  <2> QED BY <2>4, <2>5
<1>7. pool' = Denomination * (Len(leaves') - Len(spentLog'))
  <2> DEFINE k == Len(leaves) - Len(s)
  <2>1. k \in Int /\ Denomination \in Nat /\ Len(leaves') - Len(spentLog') = k - 1
    BY <1>1, <1>2, <1>3, <1>4, MixerFacts
  <2>2. pool = Denomination * k  BY <1>2 DEF MixerInv
  <2> HIDE DEF k
  <2> QED BY <1>1, <2>1, <2>2, Scale
<1>8. balances' \in [Account -> Nat]
  <2>1. balances \in [Account -> Nat] /\ Denomination \in Nat  BY MixerFacts DEF MixerInv
  <2> QED BY <1>1, <2>1
<1>9. \A x \in spent' : \E i \in 1 .. Len(leaves) : leaves[i] # Junk /\ leaves[i].nullifier = x
  <2> SUFFICES ASSUME NEW x \in spent'
               PROVE  \E i \in 1 .. Len(leaves) : leaves[i] # Junk /\ leaves[i].nullifier = x
    OBVIOUS
  <2>1. CASE x \in spent  BY <2>1 DEF MixerInv
  <2>2. CASE x = nh
    <3>1. proof.nullifierHash = nh  BY <1>1
    <3> QED BY <2>2, <3>1 DEF MixerInv
  <2> QED BY <1>1, <2>1, <2>2
<1>10. spentLog' \in Seq(spent') /\ IsInjective(spentLog') /\ spent' = ToSet(spentLog')
  BY <1>2, <1>4, <1>5, <1>6
<1> QED BY <1>1, <1>7, <1>8, <1>9, <1>10 DEF MixerInv

LEMMA MixerStep ==
    ASSUME MixerInv, [Next]_vars
    PROVE  MixerInv'
<1>1. CASE UNCHANGED vars  BY <1>1 DEF vars, MixerInv
<1>2. CASE Next  BY <1>2, FundKeeps, DepositKeeps, ProveKeeps, WithdrawKeeps DEF Next
<1> QED BY <1>1, <1>2

(* The inductive invariant of the mixer. *)
THEOREM MixerInvariant == WalkthroughsSpec => []MixerInv
<1>1. WalkthroughsInit => MixerInv  BY MixerInitInv DEF WalkthroughsInit
<1>2. MixerInv /\ [WalkthroughsNext]_<<vars, poolVars, running>> => MixerInv'
  <2>1. [WalkthroughsNext]_<<vars, poolVars, running>> => [Next]_vars
    BY DEF WalkthroughsNext
  <2> QED BY <2>1, MixerStep
<1> QED BY <1>1, <1>2, PTL DEF WalkthroughsSpec

(* The nullifiers there are: spent ones among them, and no more than       *)
(* leaves; as many, if every deposit was of a note of its own.             *)
Nullifiers == {c.nullifier : c \in ToSet(leaves) \ {Junk}}

LEMMA NullifierCount ==
    ASSUME MixerInv
    PROVE  /\ IsFiniteSet(Nullifiers) /\ Cardinality(Nullifiers) \in Nat
           /\ Cardinality(Nullifiers) <= Len(leaves)
           /\ OwnNotes => Cardinality(Nullifiers) = Len(leaves)
<1> DEFINE n == Len(leaves)
           Opened == {i \in 1 .. n : leaves[i] # Junk}
           f == [i \in Opened |-> leaves[i].nullifier]
<1>1. n \in Nat /\ DOMAIN leaves = 1 .. n  BY MixerFacts
<1>2. IsFiniteSet(1 .. n) /\ Cardinality(1 .. n) = n
  <2> HIDE DEF n
  <2>1. n \in Nat  BY <1>1
  <2>2. IsFiniteSet(1 .. n) /\ Cardinality(1 .. n) = IF 1 > n THEN 0 ELSE n - 1 + 1
    BY <2>1, FS_Interval
  <2> QED BY <2>1, <2>2
<1>3. IsFiniteSet(Opened) /\ Cardinality(Opened) <= n
  <2>1. Opened \in SUBSET (1 .. n)  OBVIOUS
  <2> HIDE DEF Opened, n
  <2> QED BY <1>2, <2>1, FS_Subset
<1>4. f \in Surjection(Opened, Nullifiers)
  <2>1. \A i \in Opened : f[i] \in Nullifiers  BY <1>1 DEF Nullifiers, ToSet
  <2>2. \A x \in Nullifiers : \E i \in Opened : f[i] = x  BY <1>1 DEF Nullifiers, ToSet
  <2>3. f \in [Opened -> Nullifiers]  BY <2>1
  <2> HIDE DEF f, Opened
  <2> QED BY <2>2, <2>3, Zenon DEF Surjection
<1>5. /\ IsFiniteSet(Nullifiers) /\ Cardinality(Nullifiers) <= Cardinality(Opened)
      /\ Cardinality(Nullifiers) = Cardinality(Opened) <=> f \in Injection(Opened, Nullifiers)
  <2> HIDE DEF f, Opened
  <2> QED BY <1>3, <1>4, FS_Surjection
<1>6. Cardinality(Nullifiers) \in Nat /\ Cardinality(Opened) \in Nat
  BY <1>3, <1>5, FS_CardinalityType
<1>7. ASSUME OwnNotes PROVE Cardinality(Nullifiers) = n
  <2>1. Opened = 1 .. n  BY <1>1, <1>7 DEF OwnNotes
  <2>2. \A i, j \in Opened : f[i] = f[j] => i = j  BY <1>1, <1>7 DEF OwnNotes
  <2>3. f \in [Opened -> Nullifiers]  BY <1>4 DEF Surjection
  <2>4. DOMAIN f = Opened  OBVIOUS
  <2> HIDE DEF f, Opened
  <2>5. f \in Injection(Opened, Nullifiers)  BY <2>2, <2>3, <2>4, Zenon DEF Injection, IsInjective
  <2> QED BY <1>2, <1>5, <2>1, <2>5
<1> HIDE DEF Opened
<1> QED BY <1>1, <1>3, <1>5, <1>6, <1>7

LEMMA SpentCount ==
    ASSUME MixerInv
    PROVE  /\ IsFiniteSet(spent) /\ Cardinality(spent) = Len(spentLog)
           /\ spent \subseteq Nullifiers /\ Len(spentLog) <= Len(leaves)
<1>1. IsFiniteSet(spent) /\ Cardinality(spent) = Len(spentLog)
  BY InjectiveCount DEF MixerInv
<1>2. ASSUME NEW nh \in spent PROVE nh \in Nullifiers
  <2>1. PICK i \in 1 .. Len(leaves) : leaves[i] # Junk /\ leaves[i].nullifier = nh
    BY DEF MixerInv
  <2>2. leaves[i] \in ToSet(leaves) \ {Junk}  BY <2>1, MixerFacts DEF ToSet
  <2> QED BY <2>1, <2>2 DEF Nullifiers
<1>3. Cardinality(spent) <= Cardinality(Nullifiers)
  <2>1. spent \in SUBSET Nullifiers  BY <1>2
  <2> QED BY <2>1, NullifierCount, FS_Subset
<1>4. Len(spentLog) \in Nat /\ Len(leaves) \in Nat  BY MixerFacts
<1> QED BY <1>1, <1>2, <1>3, <1>4, NullifierCount

(* The contract holds a denomination per deposit not withdrawn: it can     *)
(* always pay, and no more is withdrawn than was deposited.                *)
THEOREM MixerIsSolvent == WalkthroughsSpec => []Solvent
<1>1. MixerInv => Solvent
  <2> SUFFICES ASSUME MixerInv PROVE Solvent
    OBVIOUS
  <2>1. pool = Denomination * (Len(leaves) - Len(spentLog))  BY DEF MixerInv
  <2>2. pool >= 0
    <3> DEFINE k == Len(leaves) - Len(spentLog)
    <3>1. k \in Int /\ k >= 0  BY SpentCount, MixerFacts
    <3>2. pool = Denomination * k  BY <2>1
    <3> HIDE DEF k
    <3> QED BY <3>1, <3>2, MixerFacts, Scale
  <2>3. \A a \in Account : balances[a] >= 0  BY DEF MixerInv
  <2> QED BY <2>1, <2>2, <2>3 DEF Solvent, MixerInv
<1> QED BY <1>1, MixerInvariant, PTL

(* Nothing that happens later takes a proof's root or its validity away:   *)
(* only its nullifier's being recorded.                                    *)
THEOREM ProofsStayGood == WalkthroughsSpec => []ProofsKeep
<1>1. MixerInv => ProofsKeep
  <2> SUFFICES ASSUME MixerInv, NEW p \in proofs
               PROVE  WithdrawAllowed(p, p) <=> p.nullifierHash \notin spent
    BY DEF ProofsKeep
  <2>1. p.root \in knownRoots  BY DEF MixerInv
  <2> QED BY <2>1 DEF WithdrawAllowed, Verify
<1> QED BY <1>1, MixerInvariant, PTL

(* Deposits minus withdrawals never falls short of the notes that can      *)
(* still be redeemed, and is their number when every deposit was of a note *)
(* of its own.                                                             *)
THEOREM ReportIsRight == WalkthroughsSpec => []ReportedRedeemable
<1>1. MixerInv => ReportedRedeemable
  <2> SUFFICES ASSUME MixerInv PROVE ReportedRedeemable
    OBVIOUS
  <2>1. Redeemable = Nullifiers \ spent  BY DEF Redeemable, Nullifiers
  <2>2. Redeemable \in SUBSET Nullifiers /\ spent \in SUBSET Nullifiers  BY <2>1, SpentCount
  <2>3. IsFiniteSet(Redeemable) /\ IsFiniteSet(spent) /\ IsFiniteSet(Nullifiers)
    BY <2>2, NullifierCount, SpentCount, FS_Subset
  <2>4. Redeemable \cup spent = Nullifiers /\ Redeemable \cap spent = {}
    BY <2>1, <2>2
  <2>5. Cardinality(Redeemable \cup spent)
           = Cardinality(Redeemable) + Cardinality(spent) - Cardinality(Redeemable \cap spent)
    BY <2>3, FS_Union
  <2>6. Cardinality({}) = 0  BY FS_EmptySet
  <2>7. Cardinality(Redeemable) \in Nat /\ Cardinality(spent) \in Nat  BY <2>3, FS_CardinalityType
  <2>8. Cardinality(Nullifiers) = Cardinality(Redeemable) + Len(spentLog)
    <3>1. Cardinality(Nullifiers) = Cardinality(Redeemable) + Cardinality(spent) - Cardinality({})
      BY <2>4, <2>5, Zenon
    <3>2. Cardinality(spent) = Len(spentLog)  BY SpentCount
    <3> QED BY <2>6, <2>7, <3>1, <3>2
  <2>9. Len(spentLog) \in Nat /\ Len(leaves) \in Nat  BY MixerFacts
  <2> QED BY <2>7, <2>8, <2>9, NullifierCount DEF ReportedRedeemable
<1> QED BY <1>1, MixerInvariant, PTL

(* Whatever recipient a submitter names, the one the proof was made for is *)
(* paid, once its nullifier is new.                                        *)
PaysProved ==
    \A to \in Account :
        spent' # spent /\ balances'[to] > balances[to] =>
            \E p \in proofs : p.recipient = addr(to) /\ p.nullifierHash \in spent' \ spent

LEMMA MixerStepPays ==
    ASSUME MixerInv, [Next]_vars
    PROVE  [PaysProved]_vars
<1> SUFFICES ASSUME Next, NEW to \in Account, spent' # spent, balances'[to] > balances[to]
             PROVE  \E p \in proofs : p.recipient = addr(to) /\ p.nullifierHash \in spent' \ spent
  BY DEF PaysProved
<1>1. PICK proof \in proofs, root \in 0 .. Capacity, nh \in Nu, who \in Account :
          Withdraw(proof, root, nh, who)
  BY DEF Next, Fund, Deposit, Prove
<1>2. /\ proof = [root |-> root, nullifierHash |-> nh, recipient |-> addr(who)]
      /\ nh \notin spent /\ spent' = spent \cup {nh}
      /\ balances' = [balances EXCEPT ![who] = @ + Denomination]
  BY <1>1 DEF Withdraw, WithdrawAllowed, Verify
<1>3. who = to
  <2>1. balances \in [Account -> Nat]  BY DEF MixerInv
  <2>2. who # to => balances'[to] = balances[to]  BY <1>2, <2>1
  <2> QED BY <2>1, <2>2
<1>4. proof.recipient = addr(to) /\ proof.nullifierHash = nh  BY <1>2, <1>3
<1> QED BY <1>2, <1>4

THEOREM ProvedRecipientIsPaid == WalkthroughsSpec => PaysProvedRecipient
<1>1. MixerInv /\ [WalkthroughsNext]_<<vars, poolVars, running>> => [PaysProved]_vars
  <2>1. [WalkthroughsNext]_<<vars, poolVars, running>> => [Next]_vars
    BY DEF WalkthroughsNext
  <2> QED BY <2>1, MixerStepPays
<1>2. WalkthroughsSpec => [][PaysProved]_vars
  BY <1>1, MixerInvariant, PTL DEF WalkthroughsSpec
<1> QED BY <1>2 DEF PaysProvedRecipient, PaysProved
-----------------------------------------------------------------------------
(* The shielded pool: the value of the unspent places of a tree. *)

UnspentOf(s, used) == {i \in 1 .. Len(s) : NullifierOf(s[i]) \notin used}
Values(s) == [i \in 1 .. Len(s) |-> s[i].value]
ValueOf(s, used) == SumFunctionOnSet(Values(s), UnspentOf(s, used))

Distinct(s) == \A i, j \in 1 .. Len(s) : NullifierOf(s[i]) = NullifierOf(s[j]) => i = j

LEMMA NoteValue ==
    ASSUME NEW note \in ShieldedNote
    PROVE  note.value \in Nat /\ note.value < Field /\ NullifierOf(note) \in Nullifier
<1>1. note.value \in 0 .. Field - 1 /\ Field \in Nat  BY ZcashAssumption DEF ShieldedNote
<1>2. NullifierOf(note) \in Nullifier  BY DEF ShieldedNote, NullifierOf, Nullifier
<1> QED BY <1>1, <1>2

LEMMA ValueType ==
    ASSUME NEW s \in Seq(ShieldedNote), NEW used
    PROVE  /\ IsFiniteSet(1 .. Len(s)) /\ UnspentOf(s, used) \in SUBSET (1 .. Len(s))
           /\ IsFiniteSet(UnspentOf(s, used))
           /\ \A i \in 1 .. Len(s) : Values(s)[i] \in Nat /\ Values(s)[i] = s[i].value
           /\ ValueOf(s, used) \in Nat
<1>1. Len(s) \in Nat  OBVIOUS
<1>2. IsFiniteSet(1 .. Len(s))  BY <1>1, FS_Interval
<1>3. UnspentOf(s, used) \in SUBSET (1 .. Len(s))  BY DEF UnspentOf
<1>4. IsFiniteSet(UnspentOf(s, used))  BY <1>2, <1>3, FS_Subset
<1>5. \A i \in 1 .. Len(s) : Values(s)[i] \in Nat /\ Values(s)[i] = s[i].value
  BY <1>1, NoteValue DEF Values
<1>6. ValueOf(s, used) \in Nat
  BY <1>3, <1>4, <1>5, SumNat DEF ValueOf
<1> QED BY <1>2, <1>3, <1>4, <1>5, <1>6

LEMMA ModelValue ==
    ASSUME tree \in Seq(ShieldedNote)
    PROVE  UnspentValue = ValueOf(tree, nullifiers) /\ (DistinctNullifiers <=> Distinct(tree))
<1> DEFINE worth == [i \in Unspent |-> tree[i].value]
<1>1. DOMAIN tree = 1 .. Len(tree)  OBVIOUS
<1>2. Unspent = UnspentOf(tree, nullifiers)  BY <1>1 DEF Unspent, UnspentOf
<1>3. \A i \in Unspent : worth[i] \in Int /\ worth[i] = Values(tree)[i]
  BY <1>2, ValueType
<1>4. IsFiniteSet(Unspent)  BY <1>2, ValueType
<1>5. DOMAIN worth = Unspent  OBVIOUS
<1>6. UnspentValue = SumFunctionOnSet(worth, DOMAIN worth)  BY DEF UnspentValue, SumFunction
<1> HIDE DEF worth
<1>7. SumFunctionOnSet(worth, Unspent) = SumFunctionOnSet(Values(tree), Unspent)
  BY <1>3, <1>4, SumSame
<1>8. DistinctNullifiers <=> Distinct(tree)  BY <1>1 DEF DistinctNullifiers, Distinct
<1> QED BY <1>2, <1>5, <1>6, <1>7, <1>8 DEF ValueOf

LEMMA OneMore ==
    ASSUME NEW S, NEW s \in Seq(S), NEW n \in S
    PROVE  /\ Append(s, n) \in Seq(S)
           /\ Len(s) \in Nat /\ Len(Append(s, n)) = Len(s) + 1
           /\ \A i \in 1 .. Len(s) : Append(s, n)[i] = s[i]
           /\ Append(s, n)[Len(s) + 1] = n
OBVIOUS

(* A new leaf adds its value, or nothing if its nullifier is used already. *)
LEMMA AddLeaf ==
    ASSUME NEW s \in Seq(ShieldedNote), NEW n \in ShieldedNote, NEW used
    PROVE  /\ ValueOf(Append(s, n), used) <= ValueOf(s, used) + n.value
           /\ NullifierOf(n) \notin used =>
                 ValueOf(Append(s, n), used) = ValueOf(s, used) + n.value
<1> DEFINE t == Append(s, n)
           k == Len(s) + 1
           D == UnspentOf(s, used)
           E == UnspentOf(t, used)
           f == Values(s)
           e == Values(t)
           x == IF NullifierOf(n) \in used THEN 0 ELSE n.value
<1>1. /\ t \in Seq(ShieldedNote) /\ Len(s) \in Nat /\ Len(t) = k
      /\ t[k] = n /\ \A i \in 1 .. Len(s) : t[i] = s[i]
  BY OneMore
<1>2. IsFiniteSet(D) /\ D \in SUBSET (1 .. Len(s)) /\ \A i \in 1 .. Len(s) : f[i] \in Nat /\ f[i] = s[i].value
  BY ValueType
<1>3. \A i \in 1 .. Len(t) : e[i] = t[i].value  BY <1>1, ValueType
<1>4. n.value \in Nat /\ x \in Nat  BY NoteValue
<1> HIDE DEF t
<1>5. /\ \A i \in E : i \in D \/ (i = k /\ NullifierOf(n) \notin used)
      /\ \A i \in D : i \in E
      /\ NullifierOf(n) \notin used => k \in E
  <2>1. 1 .. Len(t) = (1 .. Len(s)) \cup {k}  BY <1>1
  <2> QED BY <1>1, <2>1 DEF UnspentOf
<1>6. k \notin D /\ e[k] = n.value /\ \A i \in D : f[i] \in Nat /\ e[i] = f[i]
  <2>1. k \in 1 .. Len(t) /\ k \notin 1 .. Len(s)  BY <1>1
  <2>2. \A i \in 1 .. Len(s) : i \in 1 .. Len(t)  BY <1>1
  <2> QED BY <1>1, <1>2, <1>3, <2>1, <2>2
<1> HIDE DEF k, D, E, f, e
<1>7. (E = D \cup {k} /\ e[k] = x) \/ (E = D /\ x = 0)
  <2>1. CASE NullifierOf(n) \in used  BY <1>5, <2>1
  <2>2. CASE NullifierOf(n) \notin used  BY <1>5, <1>6, <2>2
  <2> QED BY <2>1, <2>2
<1> HIDE DEF x
<1>8. SumFunctionOnSet(f, D) \in Nat /\ SumFunctionOnSet(e, E) = SumFunctionOnSet(f, D) + x
  <2>1. \A i \in D : f[i] \in Nat /\ e[i] = f[i]  BY <1>6
  <2>2. x \in Nat /\ k \notin D /\ IsFiniteSet(D)  BY <1>2, <1>4, <1>6
  <2>3. (E = D \cup {k} /\ e[k] = x) \/ (E = D /\ x = 0)  BY <1>7
  <2> HIDE DEF t
  <2> QED BY ONLY <2>1, <2>2, <2>3, SumStep
<1>9. ValueOf(t, used) = ValueOf(s, used) + x /\ ValueOf(s, used) \in Nat
  BY <1>8 DEF ValueOf, D, E, f, e
<1> QED BY <1>4, <1>9 DEF t, x

(* Using a nullifier of an unspent note takes that note's value out, and   *)
(* only that if no other note shares it.                                   *)
LEMMA UseNullifier ==
    ASSUME NEW s \in Seq(ShieldedNote), NEW used, NEW i \in 1 .. Len(s),
           NullifierOf(s[i]) \notin used
    PROVE  /\ ValueOf(s, used \cup {NullifierOf(s[i])}) + s[i].value <= ValueOf(s, used)
           /\ Distinct(s) => ValueOf(s, used \cup {NullifierOf(s[i])}) + s[i].value = ValueOf(s, used)
<1> DEFINE now == used \cup {NullifierOf(s[i])}
           D == UnspentOf(s, used)
           E == UnspentOf(s, now)
           f == Values(s)
           Z == (D \ {i}) \ E
<1>1. /\ IsFiniteSet(D) /\ D \in SUBSET (1 .. Len(s))
      /\ \A j \in 1 .. Len(s) : f[j] \in Nat /\ f[j] = s[j].value
  BY ValueType
<1>2. i \in D /\ E \subseteq D \ {i} /\ (Distinct(s) => D \ {i} \subseteq E)
  BY DEF UnspentOf, Distinct
<1>3. ValueOf(s, now) \in Nat /\ ValueOf(s, used) \in Nat /\ s[i].value \in Nat
  BY <1>1, ValueType
<1> HIDE DEF now, D, E, f
<1>4. SumFunctionOnSet(f, D) = SumFunctionOnSet(f, D \ {i}) + f[i]
  <2>1. \A j \in D : f[j] \in Int  BY <1>1
  <2> QED BY ONLY <1>1, <1>2, <2>1, SumRemove
<1>5. SumFunctionOnSet(f, E) <= SumFunctionOnSet(f, D \ {i})
  <2> DEFINE S == D \ {i}
  <2>1. IsFiniteSet(S)  BY <1>1, FS_RemoveElement
  <2>2. \A j \in S : f[j] \in Nat  BY <1>1
  <2>3. Z \in SUBSET S /\ E = S \ Z  BY <1>2
  <2> HIDE DEF S, Z
  <2>4. SumFunctionOnSet(f, S \ Z) <= SumFunctionOnSet(f, S)  BY ONLY <2>1, <2>2, <2>3, SumMonotone
  <2> QED BY <2>3, <2>4 DEF S
<1>6. Distinct(s) => SumFunctionOnSet(f, E) = SumFunctionOnSet(f, D \ {i})
  <2>1. Distinct(s) => E = D \ {i}  BY <1>2
  <2> QED BY <2>1
<1>7. ValueOf(s, now) = SumFunctionOnSet(f, E) /\ ValueOf(s, used) = SumFunctionOnSet(f, D)
  BY DEF ValueOf, E, D, f
<1>8. SumFunctionOnSet(f, D \ {i}) = ValueOf(s, used) - s[i].value
  <2>1. SumFunctionOnSet(f, D \ {i}) \in Int
    <3>1. IsFiniteSet(D \ {i})  BY <1>1, FS_RemoveElement
    <3>2. \A j \in D \ {i} : f[j] \in Int  BY <1>1
    <3> QED BY ONLY <3>1, <3>2, SumType
  <2>2. f[i] = s[i].value  BY <1>1, <1>2
  <2> QED BY <1>3, <1>4, <1>7, <2>1, <2>2
<1>9. /\ ValueOf(s, now) + s[i].value <= ValueOf(s, used)
      /\ Distinct(s) => ValueOf(s, now) + s[i].value = ValueOf(s, used)
  BY <1>3, <1>5, <1>6, <1>7, <1>8
<1> QED BY <1>9 DEF now

(* A sequence of distinct nullifiers is one without its last, whose own is *)
(* none of the others.                                                     *)
LEMMA DistinctPrefix ==
    ASSUME NEW s \in Seq(ShieldedNote), NEW n \in ShieldedNote, Distinct(Append(s, n))
    PROVE  Distinct(s) /\ \A i \in 1 .. Len(s) : NullifierOf(s[i]) # NullifierOf(n)
<1> DEFINE t == Append(s, n)
<1>1. Len(s) \in Nat /\ Len(t) = Len(s) + 1 /\ t[Len(s) + 1] = n /\ \A i \in 1 .. Len(s) : t[i] = s[i]
  BY OneMore
<1>2. \A i, j \in 1 .. Len(t) : NullifierOf(t[i]) = NullifierOf(t[j]) => i = j  BY DEF Distinct
<1> HIDE DEF t
<1>3. \A i \in 1 .. Len(s) : i \in 1 .. Len(t) /\ i # Len(s) + 1  BY <1>1
<1>4. Len(s) + 1 \in 1 .. Len(t)  BY <1>1
<1>5. Distinct(s)  BY <1>1, <1>2, <1>3 DEF Distinct
<1> QED BY <1>1, <1>2, <1>3, <1>4, <1>5
-----------------------------------------------------------------------------
(* The shielded pool: its inductive invariant. *)

(* A used nullifier is that of some note in the tree. *)
UsedFrom(s, used) == \A nf \in used : \E i \in 1 .. Len(s) : NullifierOf(s[i]) = nf

(* The pool is worth the unspent notes at least, and exactly when ...      *)
Backed(s, used, worth, exact) ==
    /\ worth >= ValueOf(s, used)
    /\ Distinct(s) /\ exact => worth = ValueOf(s, used)

LedgerInv ==
    /\ transparent \in [Holder -> Nat] /\ shielded \in Int /\ minted \in Nat
    /\ halted \in BOOLEAN
    /\ tree \in Seq(ShieldedNote) /\ Len(tree) <= TreeCapacity
    /\ UsedFrom(tree, nullifiers)
    /\ SumFunctionOnSet(transparent, Holder) + shielded = minted
    /\ Backed(tree, nullifiers, shielded, ~halted)

LEMMA LedgerInitInv == PoolInit => LedgerInv
<1> SUFFICES ASSUME PoolInit PROVE LedgerInv
  OBVIOUS
<1>1. /\ transparent = [a \in Holder |-> 0] /\ shielded = 0 /\ tree = <<>> /\ nullifiers = {}
      /\ minted = 0 /\ halted = FALSE
  BY DEF PoolInit
<1>2. /\ transparent \in [Holder -> Nat] /\ shielded \in Int /\ minted \in Nat /\ halted \in BOOLEAN
      /\ tree \in Seq(ShieldedNote) /\ Len(tree) = 0 /\ Len(tree) <= TreeCapacity
  <2>1. transparent \in [Holder -> Nat]  BY <1>1
  <2>2. tree \in Seq(ShieldedNote) /\ Len(tree) = 0  BY <1>1
  <2>3. Len(tree) <= TreeCapacity  BY <2>2, ZcashAssumption
  <2>4. shielded \in Int /\ minted \in Nat  BY <1>1
  <2>5. halted \in BOOLEAN  BY <1>1, Zenon
  <2> QED BY <2>1, <2>2, <2>3, <2>4, <2>5
<1>3. UsedFrom(tree, nullifiers)  BY <1>1 DEF UsedFrom
<1>4. SumFunctionOnSet(transparent, Holder) = 0
  <2>1. \A a \in Holder : transparent[a] = 0 /\ transparent[a] \in Int  BY <1>1
  <2>2. SumFunctionOnSet(transparent, Holder) = SumFunctionOnSet(transparent, Holder \ Holder)
    BY <2>1, SumZeros, ZcashAssumption
  <2>3. Holder \ Holder = {}  OBVIOUS
  <2> QED BY <2>2, <2>3, SumEmpty
<1>5. ValueOf(tree, nullifiers) = 0
  <2>1. UnspentOf(tree, nullifiers) = {}  BY <1>2 DEF UnspentOf
  <2> QED BY <2>1, SumEmpty DEF ValueOf
<1>6. Backed(tree, nullifiers, shielded, ~halted)  BY <1>1, <1>5 DEF Backed
<1> QED BY <1>1, <1>2, <1>3, <1>4, <1>6 DEF LedgerInv

LEMMA Moves ==
    ASSUME LedgerInv, NEW a \in Holder, NEW d \in Int, transparent[a] + d >= 0
    PROVE  LET after == [transparent EXCEPT ![a] = @ + d]
           IN  /\ after \in [Holder -> Nat]
               /\ SumFunctionOnSet(after, Holder) = SumFunctionOnSet(transparent, Holder) + d
               /\ SumFunctionOnSet(transparent, Holder) \in Int
<1>1. transparent \in [Holder -> Nat] /\ IsFiniteSet(Holder)  BY ZcashAssumption DEF LedgerInv
<1>2. [transparent EXCEPT ![a] = @ + d] \in [Holder -> Nat]  BY <1>1
<1>3. transparent \in [Holder -> Int]  BY <1>1
<1>4. SumFunctionOnSet([transparent EXCEPT ![a] = @ + d], Holder)
         = SumFunctionOnSet(transparent, Holder) + d
  BY <1>1, <1>3, SumUpdate
<1>5. SumFunctionOnSet(transparent, Holder) \in Int  BY <1>1, <1>3, SumType
<1> QED BY <1>2, <1>4, <1>5

(* A note paid for into the pool. *)
LEMMA BackedAfterShield ==
    ASSUME NEW s \in Seq(ShieldedNote), NEW used, NEW worth \in Int, NEW note \in ShieldedNote,
           UsedFrom(s, used), Backed(s, used, worth, TRUE)
    PROVE  Backed(Append(s, note), used, worth + note.value, TRUE)
<1> DEFINE t == Append(s, note)
<1>1. note.value \in Nat /\ ValueOf(s, used) \in Nat /\ ValueOf(t, used) \in Nat
  BY NoteValue, ValueType, OneMore
<1>2. ValueOf(t, used) <= ValueOf(s, used) + note.value
  BY AddLeaf
<1>3. ASSUME Distinct(t) PROVE worth + note.value = ValueOf(t, used)
  <2>1. Distinct(s) /\ NullifierOf(note) \notin used  BY <1>3, DistinctPrefix DEF UsedFrom
  <2>2. ValueOf(t, used) = ValueOf(s, used) + note.value  BY <2>1, AddLeaf
  <2> QED BY <2>1, <2>2 DEF Backed
<1> HIDE DEF t
<1>4. worth + note.value >= ValueOf(t, used)  BY <1>1, <1>2 DEF Backed
<1>5. Backed(t, used, worth + note.value, TRUE)  BY <1>3, <1>4 DEF Backed
<1> QED BY <1>5 DEF t

LEMMA UsedGrows ==
    ASSUME NEW s \in Seq(ShieldedNote), NEW used, NEW note \in ShieldedNote, UsedFrom(s, used)
    PROVE  UsedFrom(Append(s, note), used)
<1>1. /\ Len(s) \in Nat /\ Len(Append(s, note)) = Len(s) + 1
      /\ \A i \in 1 .. Len(s) : Append(s, note)[i] = s[i]
  BY OneMore
<1> QED BY <1>1 DEF UsedFrom

(* A note's value taken out of the pool as its nullifier is used. *)
LEMMA BackedAfterUse ==
    ASSUME NEW s \in Seq(ShieldedNote), NEW used, NEW worth \in Int, NEW i \in 1 .. Len(s),
           NullifierOf(s[i]) \notin used,
           UsedFrom(s, used), Backed(s, used, worth, TRUE)
    PROVE  /\ UsedFrom(s, used \cup {NullifierOf(s[i])})
           /\ Backed(s, used \cup {NullifierOf(s[i])}, worth - s[i].value, TRUE)
           /\ s[i].value \in Nat
<1> DEFINE now == used \cup {NullifierOf(s[i])}
<1>1. UsedFrom(s, now)  BY DEF UsedFrom
<1>2. ValueOf(s, now) \in Nat /\ ValueOf(s, used) \in Nat /\ s[i].value \in Nat
  BY ValueType
<1>3. /\ ValueOf(s, now) + s[i].value <= ValueOf(s, used)
      /\ Distinct(s) => ValueOf(s, now) + s[i].value = ValueOf(s, used)
  BY UseNullifier
<1> HIDE DEF now
<1>4. Backed(s, now, worth - s[i].value, TRUE)  BY <1>2, <1>3 DEF Backed
<1> QED BY <1>1, <1>2, <1>4 DEF now

(* Less in the tree, or more in the pool, is still covered. *)
LEMMA BackedEnough ==
    ASSUME NEW s \in Seq(ShieldedNote), NEW used, NEW worth \in Int, NEW more \in Int,
           Backed(s, used, worth, TRUE), more >= worth
    PROVE  Backed(s, used, more, FALSE)
<1>1. ValueOf(s, used) \in Nat  BY ValueType
<1> QED BY <1>1 DEF Backed

LEMMA MintKeeps ==
    ASSUME LedgerInv, NEW who \in Holder, NEW amount \in 1 .. MaxMint, Mint(who, amount)
    PROVE  LedgerInv'
<1>1. /\ transparent' = [transparent EXCEPT ![who] = @ + amount] /\ minted' = minted + amount
      /\ shielded' = shielded /\ tree' = tree /\ nullifiers' = nullifiers /\ halted' = halted
  BY DEF Mint
<1>2. amount \in Nat /\ minted \in Nat /\ shielded \in Int /\ transparent[who] \in Nat
  BY ZcashAssumption DEF LedgerInv
<1>3. /\ transparent' \in [Holder -> Nat]
      /\ SumFunctionOnSet(transparent', Holder) = SumFunctionOnSet(transparent, Holder) + amount
      /\ SumFunctionOnSet(transparent, Holder) \in Int
  <2>1. amount \in Int /\ transparent[who] + amount >= 0  BY <1>2
  <2> QED BY <1>1, <2>1, Moves
<1>4. SumFunctionOnSet(transparent', Holder) + shielded' = minted'
  BY <1>1, <1>2, <1>3 DEF LedgerInv
<1> QED BY <1>1, <1>2, <1>3, <1>4 DEF LedgerInv

LEMMA ShieldKeeps ==
    ASSUME LedgerInv, ~halted, NEW from \in Holder, NEW note \in ShieldedNote, Shield(from, note)
    PROVE  LedgerInv'
<1>1. /\ transparent[from] >= note.value
      /\ transparent' = [transparent EXCEPT ![from] = @ - note.value]
      /\ shielded' = shielded + note.value
      /\ nullifiers' = nullifiers /\ minted' = minted
      /\ IF Room > 0 THEN tree' = Append(tree, note) /\ halted' = halted
                     ELSE tree' = tree /\ halted' = TRUE
  BY DEF Shield, CanShield
<1>2. /\ note.value \in Nat /\ minted \in Nat /\ shielded \in Int /\ transparent \in [Holder -> Nat]
      /\ tree \in Seq(ShieldedNote) /\ Len(tree) \in Nat /\ Len(tree) <= TreeCapacity /\ TreeCapacity \in Nat
      /\ UsedFrom(tree, nullifiers) /\ Backed(tree, nullifiers, shielded, TRUE)
  <2>1. note.value \in Nat  BY NoteValue
  <2>2. Backed(tree, nullifiers, shielded, TRUE)  BY DEF LedgerInv, Backed
  <2>3. tree \in Seq(ShieldedNote) /\ Len(tree) \in Nat  BY DEF LedgerInv
  <2> QED BY <2>1, <2>2, <2>3, ZcashAssumption DEF LedgerInv
<1>3. /\ transparent' \in [Holder -> Nat]
      /\ SumFunctionOnSet(transparent', Holder) = SumFunctionOnSet(transparent, Holder) - note.value
      /\ SumFunctionOnSet(transparent, Holder) \in Int
  <2> DEFINE d == -note.value
  <2>1. d \in Int /\ transparent[from] + d >= 0  BY <1>1, <1>2
  <2>2. transparent' = [transparent EXCEPT ![from] = @ + d]  BY <1>1, <1>2
  <2> HIDE DEF d
  <2>3. /\ transparent' \in [Holder -> Nat]
        /\ SumFunctionOnSet(transparent', Holder) = SumFunctionOnSet(transparent, Holder) + d
        /\ SumFunctionOnSet(transparent, Holder) \in Int
    BY <2>1, <2>2, Moves
  <2> QED BY <1>2, <2>3 DEF d
<1>4. SumFunctionOnSet(transparent', Holder) + shielded' = minted' /\ shielded' \in Int /\ minted' \in Nat
  BY <1>1, <1>2, <1>3 DEF LedgerInv
<1>5. CASE Room > 0
  <2>1. tree' = Append(tree, note) /\ halted' = FALSE  BY <1>1, <1>5
  <2>2. tree' \in Seq(ShieldedNote) /\ Len(tree') = Len(tree) + 1  BY <1>2, <2>1, OneMore
  <2>3. Len(tree') <= TreeCapacity  BY <1>2, <1>5, <2>2 DEF Room
  <2>4. UsedFrom(tree', nullifiers')  BY <1>1, <1>2, <2>1, UsedGrows
  <2>5. Backed(tree', nullifiers', shielded', TRUE)  BY <1>1, <1>2, <2>1, BackedAfterShield
  <2> QED BY <1>1, <1>3, <1>4, <2>1, <2>2, <2>3, <2>4, <2>5 DEF LedgerInv
<1>6. CASE ~(Room > 0)
  <2>1. tree' = tree /\ halted' = TRUE  BY <1>1, <1>6
  <2>2. Backed(tree', nullifiers', shielded', FALSE)
    <3>1. shielded' >= shielded /\ shielded' \in Int  BY <1>1, <1>2
    <3>2. Backed(tree, nullifiers, shielded', FALSE)  BY <1>2, <3>1, BackedEnough
    <3> QED BY <1>1, <2>1, <3>2
  <2> QED BY <1>1, <1>2, <1>3, <1>4, <2>1, <2>2 DEF LedgerInv
<1> QED BY <1>5, <1>6

(* What an apply inserts, by the room there is. *)
LEMMA Inserts ==
    ASSUME NEW s \in Seq(ShieldedNote), NEW outs \in [1 .. 2 -> ShieldedNote], NEW room \in Nat
    PROVE  s \o SubSeq(outs, 1, Min({2, room}))
              = IF room >= 2 THEN Append(Append(s, outs[1]), outs[2])
                ELSE IF room = 1 THEN Append(s, outs[1]) ELSE s
<1> DEFINE k == Min({2, room})
<1>1. k = IF room >= 2 THEN 2 ELSE room
  <2> DEFINE m == IF room >= 2 THEN 2 ELSE room
  <2>1. m \in {2, room} /\ \A y \in {2, room} : m <= y  OBVIOUS
  <2>2. \A x \in {2, room} : (\A y \in {2, room} : x <= y) => x = m  OBVIOUS
  <2> HIDE DEF m
  <2>3. (CHOOSE x \in {2, room} : \A y \in {2, room} : x <= y) = m  BY <2>1, <2>2
  <2> QED BY <2>3 DEF Min, m
<1>2. outs \in Seq(ShieldedNote) /\ Len(outs) = 2
  <2>1. DOMAIN outs = 1 .. 2 /\ outs \in [1 .. 2 -> ShieldedNote]  OBVIOUS
  <2>2. outs \in Seq(ShieldedNote)  BY <2>1, IsASeq
  <2> QED BY <2>1, <2>2
<1>room. room = 0 \/ room = 1 \/ room >= 2  OBVIOUS
<1> HIDE DEF k
<1>3. CASE room >= 2
  <2>1. k = 2  BY <1>1, <1>3
  <2>2. s \o SubSeq(outs, 1, 2) = Append(Append(s, outs[1]), outs[2])  BY <1>2
  <2> QED BY <1>3, <2>1, <2>2 DEF k
<1>4. CASE room = 1
  <2>1. k = 1  BY <1>1, <1>4
  <2>2. s \o SubSeq(outs, 1, 1) = Append(s, outs[1])  BY <1>2
  <2> QED BY <1>4, <2>1, <2>2 DEF k
<1>5. CASE room = 0
  <2>1. k = 0  BY <1>1, <1>5
  <2>2. s \o SubSeq(outs, 1, 0) = s  BY <1>2
  <2> QED BY <1>5, <2>1, <2>2 DEF k
<1> QED BY <1>room, <1>3, <1>4, <1>5

(* The circuit's field equation is one of numbers: neither the outputs nor *)
(* what is paid out can reach a third of the modulus.                      *)
LEMMA NoWrap ==
    ASSUME NEW a \in Nat, NEW b \in Nat, NEW c \in Nat, a < U64, b < U64, c < U64
    PROVE  (a + b + c) % Field = a + b + c
<1> DEFINE v == a + b + c
<1>1. v \in Nat /\ v < Field /\ Field \in Nat  BY ZcashAssumption
<1>2. v % Field = v
  <2> HIDE DEF v
  <2> QED BY <1>1
<1> QED BY <1>2
LEMMA ApplyKeeps ==
    ASSUME LedgerInv, ~halted, NEW self \in Party, NEW spentNote \in ToSet(tree), NEW root \in 0 .. Len(tree),
           NEW outs \in [1 .. 2 -> [value : OutValues, pk : Party, rho : Rho]],
           NEW vPub \in 0 .. U64 - 1, NEW claimed \in 0 .. U64 - 1, NEW to \in Holder,
           Satisfied(self, spentNote, root, outs, vPub),
           Apply(Publics(self, spentNote, root, outs, vPub),
                 [Publics(self, spentNote, root, outs, vPub) EXCEPT !.vPub = claimed], to)
    PROVE  LedgerInv'
<1> DEFINE o1 == outs[1]
           o2 == outs[2]
           nf == [sk |-> self, rho |-> spentNote.rho]
           now == nullifiers \cup {nf}
(* The proof is for the vPub claimed, and spends an unspent note of the tree. *)
<1>1. claimed = vPub /\ nf \notin nullifiers
  <2> DEFINE proof == Publics(self, spentNote, root, outs, vPub)
  <2>1. proof = [root |-> root, nullifier |-> nf, cmOut |-> outs, vPub |-> vPub]  BY DEF Publics
  <2>2. proof = [proof EXCEPT !.vPub = claimed] /\ [proof EXCEPT !.vPub = claimed].nullifier \notin nullifiers
    BY DEF Apply, Applicable
  <2>3. [proof EXCEPT !.vPub = claimed] = [root |-> root, nullifier |-> nf, cmOut |-> outs, vPub |-> claimed]
    BY <2>1
  <2>4. proof.vPub = vPub /\ [proof EXCEPT !.vPub = claimed].vPub = claimed  BY <2>1, <2>3
  <2> HIDE DEF proof
  <2> QED BY <2>2, <2>3, <2>4
<1>2. /\ nullifiers' = now /\ minted' = minted
      /\ tree' = tree \o SubSeq(outs, 1, Min({2, Room}))
      /\ IF Room >= 2
         THEN /\ shielded' = shielded - vPub
              /\ transparent' = [transparent EXCEPT ![to] = @ + vPub]
         ELSE shielded' = shielded /\ transparent' = transparent
  <2> DEFINE tx == [root |-> root, nullifier |-> nf, cmOut |-> outs, vPub |-> vPub]
  <2>1. [Publics(self, spentNote, root, outs, vPub) EXCEPT !.vPub = claimed] = tx
    BY <1>1 DEF Publics
  <2>2. Apply(Publics(self, spentNote, root, outs, vPub), tx, to)  BY <2>1
  <2>3. tx.nullifier = nf /\ tx.cmOut = outs /\ tx.vPub = vPub  OBVIOUS
  <2> HIDE DEF tx
  <2>4. /\ nullifiers' = nullifiers \cup {tx.nullifier} /\ minted' = minted
        /\ tree' = tree \o SubSeq(tx.cmOut, 1, Min({2, Room}))
        /\ IF Room >= 2
           THEN /\ shielded' = shielded - tx.vPub
                /\ transparent' = [transparent EXCEPT ![to] = @ + tx.vPub]
           ELSE shielded' = shielded /\ transparent' = transparent
    BY <2>2 DEF Apply, PayOut
  <2> QED BY <2>3, <2>4
<1>halts. (Room >= 2 => ~halted') /\ (~(Room >= 2) => halted') /\ halted' \in BOOLEAN
  <2>1. (Room >= 2 => halted' = halted) /\ (~(Room >= 2) => halted' = TRUE)
    BY Zenon DEF Apply
  <2>2. halted \in BOOLEAN  BY DEF LedgerInv
  <2>3. CASE Room >= 2
    <3>1. halted' = halted  BY <2>1, <2>3, Zenon
    <3> QED BY <2>2, <2>3, <3>1, Zenon
  <2>4. CASE ~(Room >= 2)
    <3>1. halted' = TRUE  BY <2>1, <2>4, Zenon
    <3> QED BY <2>4, <3>1, Zenon
  <2> QED BY <2>3, <2>4, Zenon
<1>3. /\ tree \in Seq(ShieldedNote) /\ Len(tree) \in Nat /\ Len(tree) <= TreeCapacity
      /\ TreeCapacity \in Nat /\ shielded \in Int /\ minted \in Nat
      /\ UsedFrom(tree, nullifiers) /\ Backed(tree, nullifiers, shielded, TRUE)
  <2>1. Backed(tree, nullifiers, shielded, TRUE)  BY DEF LedgerInv, Backed
  <2>2. tree \in Seq(ShieldedNote) /\ Len(tree) \in Nat  BY DEF LedgerInv
  <2> QED BY <2>1, <2>2, ZcashAssumption DEF LedgerInv
<1>4. PICK i \in 1 .. Len(tree) : tree[i].value = spentNote.value /\ NullifierOf(tree[i]) = nf
  <2>1. PICK j \in 1 .. root : tree[j] = [spentNote EXCEPT !.pk = self]  BY DEF Satisfied
  <2>2. j \in 1 .. Len(tree)  BY <1>3
  <2>3. spentNote \in ShieldedNote  BY <1>3 DEF ToSet
  <2>4. tree[j].value = spentNote.value /\ tree[j].pk = self /\ tree[j].rho = spentNote.rho
    BY <2>1, <2>3 DEF ShieldedNote
  <2> QED BY <2>2, <2>4 DEF NullifierOf
(* What is spent is worth what comes out. *)
<1>5. /\ o1 \in ShieldedNote /\ o2 \in ShieldedNote /\ outs \in [1 .. 2 -> ShieldedNote]
      /\ o1.value \in Nat /\ o2.value \in Nat /\ o1.value < U64 /\ o2.value < U64
  <2>1. \A k \in 1 .. 2 : outs[k] \in ShieldedNote
    <3>1. OutValues \subseteq 0 .. Field - 1  BY ZcashAssumption
    <3> QED BY <3>1 DEF ShieldedNote
  <2>2. outs \in [1 .. 2 -> ShieldedNote]  BY <2>1
  <2>3. o1 \in ShieldedNote /\ o2 \in ShieldedNote  BY <2>1
  <2>4. o1.value \in Nat /\ o2.value \in Nat  BY <2>3, NoteValue
  <2>5. o1 \in ToSet(outs) /\ o2 \in ToSet(outs)  BY DEF ToSet
  <2>6. o1.value < U64 /\ o2.value < U64  BY <2>5 DEF Satisfied, EnforceU64
  <2> QED BY <2>2, <2>3, <2>4, <2>6
<1>6. vPub \in Nat /\ vPub < U64  BY ZcashAssumption
<1>7. o1.value + o2.value + vPub = spentNote.value
  <2>1. (o1.value + o2.value + vPub) % Field = spentNote.value  BY DEF Satisfied
  <2> HIDE DEF o1, o2
  <2> QED BY <1>5, <1>6, <2>1, NoWrap
(* The nullifier used, then the outputs inserted. *)
<1> DEFINE left == shielded - spentNote.value
           one == Append(tree, o1)
           two == Append(one, o2)
<1>8. UsedFrom(tree, now) /\ Backed(tree, now, left, TRUE) /\ spentNote.value \in Nat
  BY <1>1, <1>3, <1>4, BackedAfterUse
<1>9. left \in Int  BY <1>3, <1>8
<1> HIDE DEF o1, o2, now, left
<1>10. /\ one \in Seq(ShieldedNote) /\ Len(one) = Len(tree) + 1
       /\ two \in Seq(ShieldedNote) /\ Len(two) = Len(tree) + 2
  <2>1. one \in Seq(ShieldedNote) /\ Len(one) = Len(tree) + 1  BY <1>3, <1>5, OneMore
  <2> HIDE DEF one
  <2>2. two \in Seq(ShieldedNote) /\ Len(two) = Len(one) + 1  BY <1>5, <2>1, OneMore
  <2> QED BY <1>3, <2>1, <2>2
<1>11. UsedFrom(one, now) /\ Backed(one, now, left + o1.value, TRUE)
  <2>1. UsedFrom(one, now)  BY <1>3, <1>5, <1>8, UsedGrows
  <2>2. Backed(one, now, left + o1.value, TRUE)  BY <1>3, <1>5, <1>8, <1>9, BackedAfterShield
  <2> QED BY <2>1, <2>2
<1> HIDE DEF one
<1>12. UsedFrom(two, now) /\ Backed(two, now, left + o1.value + o2.value, TRUE)
  <2>0. left + o1.value \in Int  BY <1>5, <1>9
  <2>1. UsedFrom(two, now)  BY <1>5, <1>10, <1>11, UsedGrows
  <2>2. Backed(two, now, (left + o1.value) + o2.value, TRUE)
    BY <1>5, <1>10, <1>11, <2>0, BackedAfterShield
  <2> QED BY <2>1, <2>2
<1> HIDE DEF two
<1>13. Room \in Nat /\ Room = TreeCapacity - Len(tree)  BY <1>3 DEF Room
<1>14. tree' = IF Room >= 2 THEN two ELSE IF Room = 1 THEN one ELSE tree
  <2> HIDE DEF Room
  <2>1. tree \o SubSeq(outs, 1, Min({2, Room}))
          = IF Room >= 2 THEN Append(Append(tree, outs[1]), outs[2])
            ELSE IF Room = 1 THEN Append(tree, outs[1]) ELSE tree
    BY <1>3, <1>5, <1>13, Inserts
  <2> QED BY <1>2, <2>1 DEF one, two, o1, o2
<1>15. tree' \in Seq(ShieldedNote) /\ Len(tree') <= TreeCapacity /\ UsedFrom(tree', nullifiers')
  <2>1. CASE Room >= 2
    <3>1. tree' = two  BY <1>13, <1>14, <2>1
    <3>2. nullifiers' = now  BY <1>2
    <3>3. tree' \in Seq(ShieldedNote) /\ Len(tree') <= TreeCapacity
      BY <1>3, <1>10, <1>13, <2>1, <3>1
    <3> QED BY <1>12, <3>1, <3>2, <3>3
  <2>2. CASE Room = 1
    <3>1. tree' = one  BY <1>13, <1>14, <2>2
    <3>2. nullifiers' = now  BY <1>2
    <3>3. tree' \in Seq(ShieldedNote) /\ Len(tree') <= TreeCapacity
      BY <1>3, <1>10, <1>13, <2>2, <3>1
    <3> QED BY <1>11, <3>1, <3>2, <3>3
  <2>3. CASE Room = 0
    <3>1. tree' = tree  BY <1>13, <1>14, <2>3
    <3>2. nullifiers' = now  BY <1>2
    <3>3. tree' \in Seq(ShieldedNote) /\ Len(tree') <= TreeCapacity
      BY <1>3, <1>10, <1>13, <2>3, <3>1
    <3> QED BY <1>8, <3>1, <3>2, <3>3
  <2> QED BY <1>13, <2>1, <2>2, <2>3
<1>16. Backed(tree', nullifiers', shielded', ~halted')
  <2>1. CASE Room >= 2
    <3>1. tree' = two /\ nullifiers' = now  BY <1>2, <1>14, <2>1
    <3>2. shielded' = left + o1.value + o2.value
      <4>1. shielded' = shielded - vPub /\ left = shielded - spentNote.value  BY <1>2, <2>1 DEF left
      <4>2. spentNote.value = o1.value + o2.value + vPub  BY <1>7 DEF o1, o2
      <4> QED BY <1>3, <1>5, <1>6, <4>1, <4>2 DEF o1, o2
    <3>3. ~halted'  BY <1>halts, <2>1
    <3> QED BY <1>12, <3>1, <3>2, <3>3
  <2>2. CASE Room = 1
    <3>0. ~(Room >= 2)  BY <2>2
    <3>1. tree' = one /\ nullifiers' = now /\ shielded' = shielded
      BY <1>2, <1>14, <2>2, <3>0
    <3>2. left + o1.value \in Int /\ shielded' \in Int /\ shielded' >= left + o1.value
      <4>1. spentNote.value = o1.value + o2.value + vPub  BY <1>7 DEF o1, o2
      <4>2. o1.value \in Nat /\ o2.value \in Nat  BY <1>5 DEF o1, o2
      <4> QED BY <1>3, <1>6, <3>1, <4>1, <4>2 DEF left
    <3>3. Backed(one, now, shielded', FALSE)  BY <1>10, <1>11, <3>2, BackedEnough
    <3>4. halted'  BY <1>halts, <2>2
    <3> QED BY <3>1, <3>3, <3>4
  <2>3. CASE Room = 0
    <3>0. ~(Room >= 2) /\ Room # 1  BY <2>3
    <3>1. tree' = tree /\ nullifiers' = now /\ shielded' = shielded
      BY <1>2, <1>14, <2>3, <3>0
    <3>2. shielded' \in Int /\ shielded' >= left  BY <1>3, <1>8, <3>1 DEF left
    <3>3. Backed(tree, now, shielded', FALSE)  BY <1>3, <1>8, <1>9, <3>2, BackedEnough
    <3>4. halted'  BY <1>halts, <2>3
    <3> QED BY <3>1, <3>3, <3>4
  <2> QED BY <1>13, <2>1, <2>2, <2>3
(* The payout moves between the accounts and the pool. *)
<1>17. /\ transparent' \in [Holder -> Nat] /\ shielded' \in Int /\ minted' \in Nat
       /\ halted' \in BOOLEAN
       /\ SumFunctionOnSet(transparent', Holder) + shielded' = minted'
  <2>1. CASE Room >= 2
    <3>1. /\ shielded' = shielded - vPub /\ minted' = minted
          /\ transparent' = [transparent EXCEPT ![to] = @ + vPub]
      BY <1>2, <2>1
    <3>2. transparent[to] + vPub >= 0 /\ vPub \in Int
      <4>1. transparent[to] \in Nat  BY DEF LedgerInv
      <4> QED BY <1>6, <4>1
    <3>3. /\ transparent' \in [Holder -> Nat]
          /\ SumFunctionOnSet(transparent', Holder) = SumFunctionOnSet(transparent, Holder) + vPub
          /\ SumFunctionOnSet(transparent, Holder) \in Int
      BY <3>1, <3>2, Moves
    <3>4. SumFunctionOnSet(transparent, Holder) + shielded = minted  BY DEF LedgerInv
    <3>5. SumFunctionOnSet(transparent', Holder) + shielded' = minted'
      BY <1>3, <1>6, <3>1, <3>3, <3>4
    <3>6. shielded' \in Int /\ minted' \in Nat  BY <1>3, <1>6, <3>1
    <3> QED BY <1>halts, <3>3, <3>5, <3>6
  <2>2. CASE ~(Room >= 2)
    <3>1. shielded' = shielded /\ transparent' = transparent /\ minted' = minted
      BY <1>2, <2>2
    <3> QED BY <1>halts, <3>1 DEF LedgerInv
  <2> QED BY <2>1, <2>2
<1> QED BY <1>15, <1>16, <1>17 DEF LedgerInv

LEMMA LedgerStep ==
    ASSUME LedgerInv, [PoolNext]_poolVars
    PROVE  LedgerInv'
<1>1. CASE UNCHANGED poolVars
  <2>1. /\ transparent' = transparent /\ shielded' = shielded /\ tree' = tree
        /\ nullifiers' = nullifiers /\ minted' = minted /\ halted' = halted
    BY <1>1 DEF poolVars, ledgerVars
  <2> QED BY <2>1 DEF LedgerInv
<1>2. CASE PoolNext
  <2>1. ~halted  BY <1>2 DEF PoolNext
  <2>2. CASE \E who \in Holder, amount \in 1 .. MaxMint : Mint(who, amount)
    BY <2>2, MintKeeps
  <2>3. CASE \E from \in Holder, note \in ShieldedNote : Shield(from, note)
    BY <2>1, <2>3, ShieldKeeps
  <2>4. CASE \E self \in Party, spentNote \in ToSet(tree), root \in 0 .. Len(tree) :
                \E outs \in [1 .. 2 -> [value : OutValues, pk : Party, rho : Rho]],
                   vPub \in 0 .. U64 - 1, claimed \in 0 .. U64 - 1, to \in Holder :
                    /\ Satisfied(self, spentNote, root, outs, vPub)
                    /\ Apply(Publics(self, spentNote, root, outs, vPub),
                             [Publics(self, spentNote, root, outs, vPub) EXCEPT !.vPub = claimed], to)
    BY <2>1, <2>4, ApplyKeeps
  <2> QED BY <1>2, <2>2, <2>3, <2>4 DEF PoolNext
<1> QED BY <1>1, <1>2

(* The inductive invariant of the shielded pool. *)
THEOREM LedgerInvariant == WalkthroughsSpec => []LedgerInv
<1>1. WalkthroughsInit => LedgerInv  BY LedgerInitInv DEF WalkthroughsInit
<1>2. LedgerInv /\ [WalkthroughsNext]_<<vars, poolVars, running>> => LedgerInv'
  <2>1. [WalkthroughsNext]_<<vars, poolVars, running>> => [PoolNext]_poolVars
    BY DEF WalkthroughsNext
  <2> QED BY <2>1, LedgerStep
<1> QED BY <1>1, <1>2, PTL DEF WalkthroughsSpec

(* What was minted is in the accounts and the pool. *)
THEOREM PoolConservesValue == WalkthroughsSpec => []ValueConserved
<1>1. LedgerInv => ValueConserved
  <2> SUFFICES ASSUME LedgerInv PROVE ValueConserved
    OBVIOUS
  <2>1. DOMAIN transparent = Holder  BY DEF LedgerInv
  <2> QED BY <2>1 DEF ValueConserved, SumFunction, LedgerInv
<1> QED BY <1>1, LedgerInvariant, PTL

(* The pool covers what can still be spent, exactly if no two notes share  *)
(* a nullifier and no insertion has panicked.                              *)
THEOREM PoolCoversNotes == WalkthroughsSpec => []PoolBacksNotes
<1>1. LedgerInv => PoolBacksNotes
  <2> SUFFICES ASSUME LedgerInv PROVE PoolBacksNotes
    OBVIOUS
  <2>1. UnspentValue = ValueOf(tree, nullifiers) /\ (DistinctNullifiers <=> Distinct(tree))
    BY ModelValue DEF LedgerInv
  <2>2. Backed(tree, nullifiers, shielded, ~halted)  BY DEF LedgerInv
  <2> QED BY <2>1, <2>2 DEF Backed, PoolBacksNotes
<1> QED BY <1>1, LedgerInvariant, PTL


==========================================================================
