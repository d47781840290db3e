----------------------- MODULE PoolCircuits_proofs -----------------------
(***************************************************************************)
(* Theorems about what ShieldedPool takes for granted.  The amount section *)
(* is exact for every word size, 2^32 included.  The sparse commitment     *)
(* tree stands for the full one, and paths are proofs of membership, for   *)
(* every depth and any number of leaves.                                   *)
(***************************************************************************)
EXTENDS MCPoolCircuits, SumTheorems, TLAPS

-----------------------------------------------------------------------------
(* The amount section. *)

LEMMA WordFacts == /\ Half \in Nat /\ Half > 0 /\ Word \in Nat /\ Word = Half + Half
                   /\ Words \subseteq 0 .. Word - 1
BY WordAssumption DEF Word

(* Multiplication keeps the order and distributes. *)
LEMMA ScaleMonotone ==
    ASSUME NEW w \in Nat, NEW a \in Nat, NEW b \in Nat, a <= b
    PROVE  w * a <= w * b
<1>1. PICK d \in Nat : b = a + d  BY b - a \in Nat
<1>2. w * b = w * a + w * d  BY <1>1
<1>3. w * d \in Nat /\ w * a \in Nat  OBVIOUS
<1> QED BY <1>2, <1>3

LEMMA Distribute ==
    ASSUME NEW w \in Nat, NEW a \in Nat, NEW b \in Nat
    PROVE  w * (a + b) = w * a + w * b /\ w * a \in Nat /\ w * 1 = w
OBVIOUS

(* Two numbers in base w, digits below w: the order is that of the high    *)
(* digits first.                                                           *)
LEMMA HighDigitDecides ==
    ASSUME NEW w \in Nat, NEW a \in Nat, NEW b \in Nat, NEW l \in Nat, l < w, a < b
    PROVE  l + w * a < w * b
<1>1. w * (a + 1) <= w * b  BY ScaleMonotone
<1>2. w * (a + 1) = w * a + w  BY Distribute
<1>3. w * a \in Nat /\ w * b \in Nat  OBVIOUS
<1> QED BY <1>1, <1>2, <1>3

LEMMA ValueType == \A x \in TwoWords : /\ x.lo \in Nat /\ x.hi \in Nat /\ x.lo < Word /\ x.hi < Word
                                       /\ Value(x) \in Nat
<1> SUFFICES ASSUME NEW x \in TwoWords
             PROVE  x.lo \in Nat /\ x.hi \in Nat /\ x.lo < Word /\ x.hi < Word /\ Value(x) \in Nat
  OBVIOUS
<1>1. x.lo \in Nat /\ x.hi \in Nat /\ x.lo < Word /\ x.hi < Word
  BY WordFacts DEF TwoWords
<1>2. Word * x.hi \in Nat  BY <1>1, WordFacts, Distribute
<1> QED BY <1>1, <1>2 DEF Value

(* The range check reads the top bit: it fails exactly from 2^63 on. *)
LEMMA RangeCheckExact ==
    \A x \in TwoWords : ~RangeCheck(x) <=> Value(x) < Word * Half
<1> SUFFICES ASSUME NEW x \in TwoWords PROVE ~RangeCheck(x) <=> Value(x) < Word * Half
  OBVIOUS
<1>1. x.lo \in Nat /\ x.hi \in Nat /\ x.lo < Word /\ Word * x.hi \in Nat /\ Word * Half \in Nat
  BY ValueType, WordFacts, Distribute
<1>2. x.hi < Half => Value(x) < Word * Half
  BY <1>1, WordFacts, HighDigitDecides DEF Value
<1>3. ~(x.hi < Half) => ~(Value(x) < Word * Half)
  <2>1. ~(x.hi < Half) => Word * Half <= Word * x.hi
    BY <1>1, WordFacts, ScaleMonotone
  <2> QED BY <1>1, <2>1 DEF Value
<1> QED BY <1>2, <1>3 DEF RangeCheck, Sltu

(* Words determine the value and the value the words. *)
LEMMA ValueInjective ==
    \A x, y \in TwoWords : Value(x) = Value(y) <=> x.lo = y.lo /\ x.hi = y.hi
<1> SUFFICES ASSUME NEW x \in TwoWords, NEW y \in TwoWords, Value(x) = Value(y)
             PROVE  x.lo = y.lo /\ x.hi = y.hi
  BY DEF Value
<1>1. /\ x.lo \in Nat /\ x.hi \in Nat /\ x.lo < Word /\ Word * x.hi \in Nat
      /\ y.lo \in Nat /\ y.hi \in Nat /\ y.lo < Word /\ Word * y.hi \in Nat
  BY ValueType, WordFacts, Distribute
<1>2. ~(x.hi < y.hi)
  <2>1. x.hi < y.hi => Value(x) < Word * y.hi
    BY <1>1, WordFacts, HighDigitDecides DEF Value
  <2> QED BY <1>1, <2>1 DEF Value
<1>3. ~(y.hi < x.hi)
  <2>1. y.hi < x.hi => Value(y) < Word * x.hi
    BY <1>1, WordFacts, HighDigitDecides DEF Value
  <2> QED BY <1>1, <2>1 DEF Value
<1>4. x.hi = y.hi  BY <1>1, <1>2, <1>3
<1> QED BY <1>1, <1>4 DEF Value

(* emit_add64_carry is exact: its carry is the 65th bit, also in the case  *)
(* where the high word is all ones and a low carry is pending.             *)
LEMMA AddCarryExact ==
    ASSUME NEW s \in TwoWords, NEW x \in TwoWords
    PROVE  /\ AddCarry(s, x).sum \in TwoWords /\ AddCarry(s, x).carry \in BOOLEAN
           /\ AddCarry(s, x).carry <=> ~(Value(s) + Value(x) < Word * Word)
           /\ ~AddCarry(s, x).carry => Value(AddCarry(s, x).sum) = Value(s) + Value(x)
<1> DEFINE low == Add(s.lo, x.lo)
           c == IF Sltu(low, s.lo) THEN 1 ELSE 0
           mid == Add(s.hi, x.hi)
           high == IF Sltu(low, s.lo) THEN Add(mid, 1) ELSE mid
           carry == Sltu(mid, s.hi) \/ Sltu(high, mid)
           total == s.hi + x.hi + c
<1>1. /\ s.lo \in Nat /\ s.hi \in Nat /\ s.lo < Word /\ s.hi < Word
      /\ x.lo \in Nat /\ x.hi \in Nat /\ x.lo < Word /\ x.hi < Word
  BY ValueType
<1>2. /\ low \in Nat /\ low < Word /\ c \in {0, 1}
      /\ s.lo + x.lo = IF c = 1 THEN low + Word ELSE low
  BY <1>1, WordFacts DEF Add, Sltu
<1>3. /\ high \in Nat /\ high < Word /\ carry \in BOOLEAN /\ total \in Nat
      /\ carry <=> total >= Word
      /\ ~carry => high = total
  BY <1>1, WordFacts DEF Add, Sltu
<1>4. Value(s) + Value(x) = low + Word * total
  <2>1. Word * (s.hi + x.hi) = Word * s.hi + Word * x.hi
    BY <1>1, WordFacts, Distribute
  <2>2. Word * total = Word * (s.hi + x.hi) + Word * c
    <3>1. s.hi + x.hi \in Nat /\ c \in Nat /\ total = (s.hi + x.hi) + c  BY <1>1, <1>2
    <3> HIDE DEF c, total
    <3> QED BY <3>1, WordFacts, Distribute
  <2>3. Word * c = IF c = 1 THEN Word ELSE 0
    BY <1>2, WordFacts
  <2>4. Word * s.hi \in Nat /\ Word * x.hi \in Nat  BY <1>1, WordFacts, Distribute
  <2>5. Value(s) + Value(x) = (s.lo + x.lo) + (Word * s.hi + Word * x.hi)
    BY <1>1, <2>4 DEF Value
  <2>6. s.lo + x.lo = low + Word * c
    <3> HIDE DEF low, c
    <3> QED BY <1>2, <2>3, WordFacts
  <2>7. Word * c \in Nat /\ Word * (s.hi + x.hi) \in Nat /\ low \in Nat
    BY <1>1, <1>2, <2>3, WordFacts, Distribute
  <2> DEFINE A == Word * s.hi + Word * x.hi
             B == Word * c
             T == Word * total
  <2>8. A \in Nat /\ B \in Nat /\ T = A + B /\ Value(s) + Value(x) = (low + B) + A
    BY <2>1, <2>2, <2>4, <2>5, <2>6, <2>7
  <2> HIDE DEF low, A, B, T
  <2>9. Value(s) + Value(x) = low + T  BY <2>7, <2>8
  <2> QED BY <2>9 DEF T
<1>5. AddCarry(s, x) = [sum |-> [lo |-> low, hi |-> high], carry |-> carry]
  BY DEF AddCarry
<1> HIDE DEF low, c, mid, high, carry, total
<1>6. [lo |-> low, hi |-> high] \in TwoWords
  BY <1>2, <1>3, WordFacts DEF TwoWords
<1>7. Word * total \in Nat /\ Word * Word \in Nat  BY <1>3, WordFacts, Distribute
<1>8. carry <=> ~(Value(s) + Value(x) < Word * Word)
  <2>1. CASE total >= Word
    <3>1. Word * Word <= Word * total  BY <1>3, <2>1, WordFacts, ScaleMonotone
    <3> QED BY <1>2, <1>3, <1>4, <1>7, <2>1, <3>1
  <2>2. CASE total < Word
    <3>1. low + Word * total < Word * Word  BY <1>2, <1>3, <2>2, WordFacts, HighDigitDecides
    <3> QED BY <1>3, <1>4, <2>2, <3>1, WordFacts
  <2> QED BY <1>3, <2>1, <2>2, WordFacts
<1>9. ~carry => Value([lo |-> low, hi |-> high]) = Value(s) + Value(x)
  BY <1>3, <1>4 DEF Value
<1> QED BY <1>3, <1>5, <1>6, <1>8, <1>9

(* An addition whose carry is folded into a taint bit: the bit is set when *)
(* the exact sum does not fit, and as long as it is clear the sum is exact.*)
LEMMA FoldedAdd ==
    ASSUME NEW s \in TwoWords, NEW x \in TwoWords, NEW b \in BOOLEAN, NEW after, NEW sum,
           after = (b \/ AddCarry(s, x).carry), sum = AddCarry(s, x).sum
    PROVE  /\ sum \in TwoWords /\ after \in BOOLEAN
           /\ after <=> b \/ ~(Value(s) + Value(x) < Word * Word)
           /\ ~after => ~b /\ Value(sum) = Value(s) + Value(x)
<1>1. /\ AddCarry(s, x).sum \in TwoWords /\ AddCarry(s, x).carry \in BOOLEAN
      /\ AddCarry(s, x).carry <=> ~(Value(s) + Value(x) < Word * Word)
      /\ ~AddCarry(s, x).carry => Value(AddCarry(s, x).sum) = Value(s) + Value(x)
  BY AddCarryExact
<1> QED BY <1>1, Zenon

-----------------------------------------------------------------------------
(* The section's inductive invariant: `bad` says exactly whether something *)
(* went wrong so far, and while nothing has, the registers are exact.      *)

V(s) == Value(amount[s])
Fits(v) == v < Word * Word
OutPair == V(Out1) + V(Out2)

Typed ==
    /\ amount \in [Slot -> TwoWords] /\ step \in 1 .. 12
    /\ sumIn \in TwoWords /\ sumOut \in TwoWords /\ bad \in BOOLEAN

CleanSoFar ==
    /\ \A s \in Slot : s < step => V(s) < Word * Half
    /\ step > 7 => Fits(Spent)
    /\ step > 8 => Fits(OutPair)
    /\ step > 9 => Fits(OutPair + V(Fee))
    /\ step > 10 => Fits(Paid)
    /\ step > 11 => Spent = Paid

Exact ==
    /\ step > 7 => Value(sumIn) = Spent
    /\ step = 9 => Value(sumOut) = OutPair
    /\ step = 10 => Value(sumOut) = OutPair + V(Fee)
    /\ step > 10 => Value(sumOut) = Paid

BalanceInv == Typed /\ (bad <=> ~CleanSoFar) /\ (~bad => Exact)

LEMMA SlotFacts == /\ Slot = 1 .. 6 /\ In1 = 1 /\ In2 = 2 /\ Out1 = 3 /\ Out2 = 4 /\ Fee = 5
                   /\ Burn = 6 /\ Done = 12
BY DEF Slot, In1, In2, Out1, Out2, Fee, Burn, Done

LEMMA AmountValues ==
    ASSUME Typed
    PROVE  /\ \A s \in Slot : amount[s] \in TwoWords /\ V(s) \in Nat
           /\ Spent \in Nat /\ OutPair \in Nat /\ Paid \in Nat
           /\ Spent = V(In1) + V(In2) /\ Paid = OutPair + V(Fee) + V(Burn)
           /\ Word * Word \in Nat /\ Word * Half \in Nat
<1>1. \A s \in Slot : amount[s] \in TwoWords /\ V(s) \in Nat
  BY ValueType DEF Typed, V
<1>2. V(In1) \in Nat /\ V(In2) \in Nat /\ V(Out1) \in Nat /\ V(Out2) \in Nat /\ V(Fee) \in Nat
      /\ V(Burn) \in Nat
  BY <1>1, SlotFacts
<1>3. Word * Word \in Nat /\ Word * Half \in Nat  BY WordFacts, Distribute
<1> QED BY <1>1, <1>2, <1>3 DEF Spent, Paid, OutPair, V

LEMMA InitBalance == Init => BalanceInv
<1> SUFFICES ASSUME Init PROVE BalanceInv
  OBVIOUS
<1>1. [lo |-> 0, hi |-> 0] \in TwoWords  BY WordFacts DEF TwoWords
<1>2. [lo : Words, hi : Words] \subseteq TwoWords  BY WordFacts DEF TwoWords
<1>3. Typed
  <2>1. amount \in [Slot -> TwoWords]  BY <1>2 DEF Init
  <2>2. step \in 1 .. 12 /\ sumIn \in TwoWords /\ sumOut \in TwoWords  BY <1>1 DEF Init
  <2>3. bad \in BOOLEAN  BY DEF Init
  <2> QED BY <2>1, <2>2, <2>3 DEF Typed
<1>4. CleanSoFar  BY SlotFacts DEF Init, CleanSoFar
<1> QED BY <1>3, <1>4 DEF Init, BalanceInv, Exact

(* An addition whose carry is folded into `bad` keeps the accounts: what   *)
(* it adds fits exactly when its carry stays clear.                        *)
LEMMA NextBalance == BalanceInv /\ [Next]_vars => BalanceInv'
<1> SUFFICES ASSUME BalanceInv, [Next]_vars PROVE BalanceInv'
  OBVIOUS
<1> USE SlotFacts
<1>1. Typed  BY DEF BalanceInv
<1>2. /\ \A s \in Slot : amount[s] \in TwoWords /\ V(s) \in Nat
      /\ Spent \in Nat /\ OutPair \in Nat /\ Paid \in Nat
      /\ Spent = V(In1) + V(In2) /\ Paid = OutPair + V(Fee) + V(Burn)
      /\ Word * Word \in Nat /\ Word * Half \in Nat
  BY <1>1, AmountValues
<1>3. ASSUME amount' = amount
      PROVE  /\ Spent' = Spent /\ OutPair' = OutPair /\ Paid' = Paid
             /\ \A s \in Slot : V(s)' = V(s)
  BY <1>3 DEF Spent, OutPair, Paid, V
<1>4. CASE CheckRange
  <2>1. RangeCheck(amount[step]) <=> ~(V(step) < Word * Half)
    BY <1>2, <1>4, RangeCheckExact DEF CheckRange, V
  <2>2. amount' = amount /\ step \in 1 .. 6 /\ step' = step + 1 /\ bad' = (bad \/ RangeCheck(amount[step]))
        /\ sumIn' = sumIn /\ sumOut' = sumOut
    BY <1>4 DEF CheckRange
  <2>6. bad' \in BOOLEAN /\ (bad' <=> bad \/ ~(V(step) < Word * Half))
    <3>1. bad \in BOOLEAN  BY <1>1 DEF Typed
    <3> QED BY <2>1, <2>2, <3>1, Zenon
  <2>3. Typed'  BY <1>1, <2>2, <2>6 DEF Typed
  <2>4. CleanSoFar' <=> CleanSoFar /\ V(step) < Word * Half
    BY <1>3, <2>2 DEF CleanSoFar
  <2>5. Exact'  BY <2>2 DEF Exact
  <2>7. bad' <=> ~CleanSoFar'  BY <2>4, <2>6 DEF BalanceInv
  <2> QED BY <2>3, <2>5, <2>7 DEF BalanceInv
<1>5. CASE AddInputs
  <2>1. amount' = amount /\ step = 7 /\ step' = 8 /\ sumOut' = sumOut /\ bad \in BOOLEAN
        /\ bad' = (bad \/ AddCarry(amount[In1], amount[In2]).carry) /\ sumIn' = AddCarry(amount[In1], amount[In2]).sum
    BY <1>1, <1>5 DEF AddInputs, Typed
  <2>2. amount[In1] \in TwoWords /\ amount[In2] \in TwoWords
    BY <1>1, <1>2 DEF Typed
  <2>3. /\ sumIn' \in TwoWords /\ bad' \in BOOLEAN
        /\ bad' <=> bad \/ ~(V(In1) + V(In2) < Word * Word)
        /\ ~bad' => ~bad /\ Value(sumIn') = V(In1) + V(In2)
    BY <2>1, <2>2, FoldedAdd DEF V
  <2>4. ~bad => V(In1) + V(In2) = Spent /\ (step > 7 => Value(sumIn) = Spent)
    BY <1>2, <2>1 DEF BalanceInv, Exact
  <2>5. Typed'  BY <1>1, <2>1, <2>3 DEF Typed
  <2>6. CleanSoFar' <=> CleanSoFar /\ Fits(Spent)
    BY <1>3, <2>1 DEF CleanSoFar, Fits
  <2>7. ~bad' => Exact'  BY <1>3, <2>1, <2>3, <2>4 DEF Exact
  <2>8. bad' <=> ~CleanSoFar'
    BY <2>3, <2>4, <2>6 DEF BalanceInv, Fits
  <2> QED BY <2>5, <2>7, <2>8 DEF BalanceInv
<1>6. CASE AddOutputs
  <2>1. amount' = amount /\ step = 8 /\ step' = 9 /\ sumIn' = sumIn /\ bad \in BOOLEAN
        /\ bad' = (bad \/ AddCarry(amount[Out1], amount[Out2]).carry) /\ sumOut' = AddCarry(amount[Out1], amount[Out2]).sum
    BY <1>1, <1>6 DEF AddOutputs, Typed
  <2>2. amount[Out1] \in TwoWords /\ amount[Out2] \in TwoWords
    BY <1>1, <1>2 DEF Typed
  <2>3. /\ sumOut' \in TwoWords /\ bad' \in BOOLEAN
        /\ bad' <=> bad \/ ~(V(Out1) + V(Out2) < Word * Word)
        /\ ~bad' => ~bad /\ Value(sumOut') = V(Out1) + V(Out2)
    BY <2>1, <2>2, FoldedAdd DEF V
  <2>4. ~bad => V(Out1) + V(Out2) = OutPair /\ (step > 7 => Value(sumIn) = Spent)
    BY <1>2, <2>1 DEF BalanceInv, Exact, OutPair
  <2>5. Typed'  BY <1>1, <2>1, <2>3 DEF Typed
  <2>6. CleanSoFar' <=> CleanSoFar /\ Fits(OutPair)
    BY <1>3, <2>1 DEF CleanSoFar, Fits
  <2>7. ~bad' => Exact'  BY <1>3, <2>1, <2>3, <2>4 DEF Exact
  <2>8. bad' <=> ~CleanSoFar'
    BY <2>3, <2>4, <2>6 DEF BalanceInv, Fits
  <2> QED BY <2>5, <2>7, <2>8 DEF BalanceInv
<1>7. CASE AddTo(Fee, 9)
  <2>1. amount' = amount /\ step = 9 /\ step' = 10 /\ sumIn' = sumIn /\ bad \in BOOLEAN
        /\ bad' = (bad \/ AddCarry(sumOut, amount[Fee]).carry) /\ sumOut' = AddCarry(sumOut, amount[Fee]).sum
    BY <1>1, <1>7 DEF AddTo, Typed
  <2>2. sumOut \in TwoWords /\ amount[Fee] \in TwoWords
    BY <1>1, <1>2 DEF Typed
  <2>3. /\ sumOut' \in TwoWords /\ bad' \in BOOLEAN
        /\ bad' <=> bad \/ ~(Value(sumOut) + V(Fee) < Word * Word)
        /\ ~bad' => ~bad /\ Value(sumOut') = Value(sumOut) + V(Fee)
    BY <2>1, <2>2, FoldedAdd DEF V
  <2>4. ~bad => Value(sumOut) + V(Fee) = OutPair + V(Fee) /\ (step > 7 => Value(sumIn) = Spent)
    BY <1>2, <2>1 DEF BalanceInv, Exact
  <2>5. Typed'  BY <1>1, <2>1, <2>3 DEF Typed
  <2>6. CleanSoFar' <=> CleanSoFar /\ Fits(OutPair + V(Fee))
    BY <1>3, <2>1 DEF CleanSoFar, Fits
  <2>7. ~bad' => Exact'  BY <1>3, <2>1, <2>3, <2>4 DEF Exact
  <2>8. bad' <=> ~CleanSoFar'
    BY <2>3, <2>4, <2>6 DEF BalanceInv, Fits
  <2> QED BY <2>5, <2>7, <2>8 DEF BalanceInv
<1>8. CASE AddTo(Burn, 10)
  <2>1. amount' = amount /\ step = 10 /\ step' = 11 /\ sumIn' = sumIn /\ bad \in BOOLEAN
        /\ bad' = (bad \/ AddCarry(sumOut, amount[Burn]).carry) /\ sumOut' = AddCarry(sumOut, amount[Burn]).sum
    BY <1>1, <1>8 DEF AddTo, Typed
  <2>2. sumOut \in TwoWords /\ amount[Burn] \in TwoWords
    BY <1>1, <1>2 DEF Typed
  <2>3. /\ sumOut' \in TwoWords /\ bad' \in BOOLEAN
        /\ bad' <=> bad \/ ~(Value(sumOut) + V(Burn) < Word * Word)
        /\ ~bad' => ~bad /\ Value(sumOut') = Value(sumOut) + V(Burn)
    BY <2>1, <2>2, FoldedAdd DEF V
  <2>4. ~bad => Value(sumOut) + V(Burn) = Paid /\ (step > 7 => Value(sumIn) = Spent)
    BY <1>2, <2>1 DEF BalanceInv, Exact
  <2>5. Typed'  BY <1>1, <2>1, <2>3 DEF Typed
  <2>6. CleanSoFar' <=> CleanSoFar /\ Fits(Paid)
    BY <1>3, <2>1 DEF CleanSoFar, Fits
  <2>7. ~bad' => Exact'  BY <1>3, <2>1, <2>3, <2>4 DEF Exact
  <2>8. bad' <=> ~CleanSoFar'
    BY <2>3, <2>4, <2>6 DEF BalanceInv, Fits
  <2> QED BY <2>5, <2>7, <2>8 DEF BalanceInv
<1>9. CASE CompareSums
  <2>1. /\ amount' = amount /\ step = 11 /\ step' = 12 /\ sumOut' = sumOut /\ sumIn' = sumIn
        /\ bad' \in BOOLEAN
        /\ bad' <=> bad \/ Value(sumIn) # Value(sumOut)
    <3>1. /\ amount' = amount /\ step = 11 /\ step' = 12 /\ sumOut' = sumOut /\ sumIn' = sumIn
          /\ bad' = (bad \/ sumIn.lo # sumOut.lo \/ sumIn.hi # sumOut.hi)
      BY <1>9, SlotFacts DEF CompareSums
    <3>2. Value(sumIn) = Value(sumOut) <=> sumIn.lo = sumOut.lo /\ sumIn.hi = sumOut.hi
      BY <1>1, ValueInjective DEF Typed
    <3>3. bad \in BOOLEAN  BY <1>1 DEF Typed
    <3> QED BY <3>1, <3>2, <3>3, Zenon
  <2>2. ~bad => Value(sumIn) = Spent /\ Value(sumOut) = Paid
    BY <2>1 DEF BalanceInv, Exact
  <2>3. Typed'
    <3>1. bad' \in BOOLEAN  BY <2>1
    <3>2. step' \in 1 .. 12  BY <2>1
    <3>3. amount' = amount /\ sumIn' = sumIn /\ sumOut' = sumOut  BY <2>1
    <3> QED BY <1>1, <3>1, <3>2, <3>3 DEF Typed
  <2>4. CleanSoFar' <=> CleanSoFar /\ Spent = Paid
    BY <1>3, <2>1 DEF CleanSoFar, Fits
  <2>5. ~bad' => Exact'  BY <1>3, <2>1, <2>2 DEF Exact
  <2>6. bad' <=> ~CleanSoFar'  BY <2>1, <2>2, <2>4 DEF BalanceInv
  <2> QED BY <2>3, <2>5, <2>6 DEF BalanceInv
<1>10. CASE UNCHANGED vars
  BY <1>10 DEF vars, BalanceInv, Typed, CleanSoFar, Exact, Spent, OutPair, Paid, V
<1> QED BY <1>4, <1>5, <1>6, <1>7, <1>8, <1>9, <1>10 DEF Next

THEOREM BalanceInvariant == Spec => []BalanceInv
BY InitBalance, NextBalance, PTL DEF Spec

(* Amounts below 2^63 that balance lose no carry on the way: what is paid  *)
(* out in parts is never more than the whole, and the whole is two inputs. *)
LEMMA BalancedFits ==
    ASSUME Typed, InRange, Spent = Paid
    PROVE  Fits(Spent) /\ Fits(OutPair) /\ Fits(OutPair + V(Fee)) /\ Fits(Paid)
<1>1. /\ \A s \in Slot : amount[s] \in TwoWords /\ V(s) \in Nat
      /\ Spent \in Nat /\ OutPair \in Nat /\ Paid \in Nat
      /\ Spent = V(In1) + V(In2) /\ Paid = OutPair + V(Fee) + V(Burn)
      /\ Word * Word \in Nat /\ Word * Half \in Nat
  BY AmountValues
<1>2. Word * Word = Word * Half + Word * Half
  <2>1. Word * (Half + Half) = Word * Half + Word * Half  BY WordFacts, Distribute
  <2> QED BY <2>1, WordFacts
<1>3. V(In1) < Word * Half /\ V(In2) < Word * Half
  BY SlotFacts DEF InRange, V
<1>4. V(Fee) \in Nat /\ V(Burn) \in Nat /\ V(In1) \in Nat /\ V(In2) \in Nat
  BY <1>1, SlotFacts
<1>5. Spent < Word * Word
  <2> DEFINE H == Word * Half
             W == Word * Word
  <2>1. V(In1) < H /\ V(In2) < H /\ W = H + H /\ H \in Nat  BY <1>1, <1>2, <1>3
  <2> HIDE DEF V, Spent, H, W
  <2>2. Spent < W  BY <1>1, <1>4, <2>1
  <2> QED BY <2>2 DEF W
<1> DEFINE W == Word * Word
<1>6. Spent < W /\ W \in Nat  BY <1>1, <1>5
<1>7. Paid < W /\ OutPair + V(Fee) < W /\ OutPair < W
  <2>1. /\ Spent = Paid /\ Paid = OutPair + V(Fee) + V(Burn) /\ OutPair \in Nat
        /\ V(Fee) \in Nat /\ V(Burn) \in Nat
    BY <1>1, <1>4
  <2> HIDE DEF V, OutPair, Spent, Paid, W
  <2> QED BY <1>6, <2>1
<1> QED BY <1>6, <1>7 DEF Fits

(* The bundle guest's amount section taints exactly the runs whose amounts *)
(* are out of range or do not balance over the natural numbers.            *)
THEOREM BalanceExact == Spec => []CleanIffBalanced
<1>1. BalanceInv => CleanIffBalanced
  <2> SUFFICES ASSUME BalanceInv, step = Done PROVE ~bad <=> InRange /\ Spent = Paid
    BY DEF CleanIffBalanced
  <2>1. Typed /\ step = 12 /\ (bad <=> ~CleanSoFar)  BY SlotFacts DEF BalanceInv
  <2>2. InRange <=> \A s \in Slot : s < step => V(s) < Word * Half
    BY <2>1, SlotFacts DEF InRange, V
  <2>3. CleanSoFar => InRange /\ Spent = Paid
    BY <2>1, <2>2 DEF CleanSoFar
  <2>4. InRange /\ Spent = Paid => CleanSoFar
    BY <2>1, <2>2, BalancedFits DEF CleanSoFar
  <2> QED BY <2>1, <2>3, <2>4
<1> QED BY <1>1, BalanceInvariant, PTL

(* Until a failure is recorded, no register holds a wrapped sum. *)
THEOREM SumsExact == Spec => []ExactWhileClean
<1>1. BalanceInv => ExactWhileClean
  BY DEF BalanceInv, Exact, ExactWhileClean, OutPair, V
<1> QED BY <1>1, BalanceInvariant, PTL

-----------------------------------------------------------------------------
(* Each recursive function of the tree is the solution of its equation: by *)
(* induction on how far it has been computed.                              *)

LEMMA Pow2Def == \A d \in 0 .. Depth : Pow2[d] = IF d = 0 THEN 1 ELSE 2 * Pow2[d - 1]
<1> DEFINE val(g, d) == IF d = 0 THEN 1 ELSE 2 * g[d - 1]
           rec(g, n) == [d \in 0 .. n |-> val(g, d)]
           T == {n \in Nat : \E g : g = rec(g, n)}
<1>1. 0 \in T
  <2> DEFINE g == [d \in 0 .. 0 |-> 1]
  <2>1. g = rec(g, 0)  OBVIOUS
  <2> QED BY <2>1
<1>2. ASSUME NEW n \in Nat, n \in T PROVE n + 1 \in T
  <2>1. PICK g : g = rec(g, n)  BY <1>2
  <2> DEFINE h == rec(g, n + 1)
  <2>2. \A d \in 0 .. n + 1 : d = 0 \/ (d - 1 \in 0 .. n /\ h[d - 1] = g[d - 1])  BY <2>1
  <2>3. h = rec(g, n + 1)  OBVIOUS
  <2> HIDE DEF h
  <2>4. \A d \in 0 .. n + 1 : val(h, d) = val(g, d)  BY <2>2
  <2> HIDE DEF val
  <2>5. h = rec(h, n + 1)  BY <2>3, <2>4
  <2> HIDE DEF rec
  <2> QED BY <2>5
<1>3. PICK g : g = rec(g, Depth)
  <2> HIDE DEF T
  <2>1. Depth \in T  BY <1>1, <1>2, TreeAssumption, NatSetInduction
  <2> QED BY <2>1 DEF T
<1>4. Pow2 = rec(Pow2, Depth)
  BY <1>3 DEF Pow2
<1> QED BY <1>4

LEMMA EmptyDef == \A d \in 0 .. Depth :
                      Empty[d] = IF d = 0 THEN Zero ELSE Node(Empty[d - 1], Empty[d - 1])
<1> DEFINE val(g, d) == IF d = 0 THEN Zero ELSE Node(g[d - 1], g[d - 1])
           rec(g, n) == [d \in 0 .. n |-> val(g, d)]
           T == {n \in Nat : \E g : g = rec(g, n)}
<1>1. 0 \in T
  <2> DEFINE g == [d \in 0 .. 0 |-> Zero]
  <2>1. g = rec(g, 0)  OBVIOUS
  <2> QED BY <2>1
<1>2. ASSUME NEW n \in Nat, n \in T PROVE n + 1 \in T
  <2>1. PICK g : g = rec(g, n)  BY <1>2
  <2> DEFINE h == rec(g, n + 1)
  <2>2. \A d \in 0 .. n + 1 : d = 0 \/ (d - 1 \in 0 .. n /\ h[d - 1] = g[d - 1])  BY <2>1
  <2>3. h = rec(g, n + 1)  OBVIOUS
  <2> HIDE DEF h
  <2>4. \A d \in 0 .. n + 1 : val(h, d) = val(g, d)  BY <2>2
  <2> HIDE DEF val
  <2>5. h = rec(h, n + 1)  BY <2>3, <2>4
  <2> HIDE DEF rec
  <2> QED BY <2>5
<1>3. PICK g : g = rec(g, Depth)
  <2> HIDE DEF T
  <2>1. Depth \in T  BY <1>1, <1>2, TreeAssumption, NatSetInduction
  <2> QED BY <2>1 DEF T
<1>4. Empty = rec(Empty, Depth)
  BY <1>3 DEF Empty
<1> QED BY <1>4

LEMMA LevelsDef ==
    ASSUME NEW s
    PROVE  \A d \in 0 .. Depth :
              LevelsOf(s)[d] = IF d = 0 THEN s ELSE Parents(LevelsOf(s)[d - 1], d - 1)
<1> DEFINE val(g, d) == IF d = 0 THEN s ELSE Parents(g[d - 1], d - 1)
           rec(g, n) == [d \in 0 .. n |-> val(g, d)]
           iter == CHOOSE g : g = rec(g, Depth)
           T == {n \in Nat : \E g : g = rec(g, n)}
<1>1. 0 \in T
  <2> DEFINE g == [d \in 0 .. 0 |-> s]
  <2>1. g = rec(g, 0)  OBVIOUS
  <2> QED BY <2>1
<1>2. ASSUME NEW n \in Nat, n \in T PROVE n + 1 \in T
  <2>1. PICK g : g = rec(g, n)  BY <1>2
  <2> DEFINE h == rec(g, n + 1)
  <2>2. \A d \in 0 .. n + 1 : d = 0 \/ (d - 1 \in 0 .. n /\ h[d - 1] = g[d - 1])  BY <2>1
  <2>3. h = rec(g, n + 1)  OBVIOUS
  <2> HIDE DEF h
  <2>4. \A d \in 0 .. n + 1 : val(h, d) = val(g, d)  BY <2>2
  <2> HIDE DEF val
  <2>5. h = rec(h, n + 1)  BY <2>3, <2>4
  <2> HIDE DEF rec
  <2> QED BY <2>5
<1>3. PICK g : g = rec(g, Depth)
  <2> HIDE DEF T
  <2>1. Depth \in T  BY <1>1, <1>2, TreeAssumption, NatSetInduction
  <2> QED BY <2>1 DEF T
<1>4. iter = rec(iter, Depth)
  BY <1>3
<1>5. LevelsOf(s) = iter
  BY DEF LevelsOf
<1> HIDE DEF iter
<1> QED BY <1>4, <1>5

LEMMA ShiftedDef ==
    ASSUME NEW idx
    PROVE  \A level \in 0 .. Depth :
              Shifted(idx)[level] = IF level = 0 THEN idx ELSE Shifted(idx)[level - 1] \div 2
<1> DEFINE val(g, level) == IF level = 0 THEN idx ELSE g[level - 1] \div 2
           rec(g, n) == [level \in 0 .. n |-> val(g, level)]
           iter == CHOOSE g : g = rec(g, Depth)
           T == {n \in Nat : \E g : g = rec(g, n)}
<1>1. 0 \in T
  <2> DEFINE g == [level \in 0 .. 0 |-> idx]
  <2>1. g = rec(g, 0)  OBVIOUS
  <2> QED BY <2>1
<1>2. ASSUME NEW n \in Nat, n \in T PROVE n + 1 \in T
  <2>1. PICK g : g = rec(g, n)  BY <1>2
  <2> DEFINE h == rec(g, n + 1)
  <2>2. \A level \in 0 .. n + 1 : level = 0 \/ (level - 1 \in 0 .. n /\ h[level - 1] = g[level - 1])  BY <2>1
  <2>3. h = rec(g, n + 1)  OBVIOUS
  <2> HIDE DEF h
  <2>4. \A level \in 0 .. n + 1 : val(h, level) = val(g, level)  BY <2>2
  <2> HIDE DEF val
  <2>5. h = rec(h, n + 1)  BY <2>3, <2>4
  <2> HIDE DEF rec
  <2> QED BY <2>5
<1>3. PICK g : g = rec(g, Depth)
  <2> HIDE DEF T
  <2>1. Depth \in T  BY <1>1, <1>2, TreeAssumption, NatSetInduction
  <2> QED BY <2>1 DEF T
<1>4. iter = rec(iter, Depth)
  BY <1>3
<1>5. Shifted(idx) = iter
  BY DEF Shifted
<1> HIDE DEF iter
<1> QED BY <1>4, <1>5

(* A climb's nodes, level by level, of which MerkleVerify is the last. *)
Climbs(climb, leaf, path, idx) ==
    \A level \in 0 .. Depth :
        climb[level] = IF level = 0 THEN leaf
                       ELSE IF Shifted(idx)[level - 1] % 2 = 0
                            THEN Node(climb[level - 1], path[level - 1])
                            ELSE Node(path[level - 1], climb[level - 1])

LEMMA ClimbExists ==
    ASSUME NEW leaf, NEW path, NEW idx
    PROVE  \E climb : Climbs(climb, leaf, path, idx) /\ MerkleVerify(leaf, path, idx) = climb[Depth]
<1> DEFINE over(x, level) == IF Shifted(idx)[level - 1] % 2 = 0
                             THEN Node(x, path[level - 1]) ELSE Node(path[level - 1], x)
           val(g, level) == IF level = 0 THEN leaf ELSE over(g[level - 1], level)
           rec(g, n) == [level \in 0 .. n |-> val(g, level)]
           iter == CHOOSE g : g = rec(g, Depth)
           T == {n \in Nat : \E g : g = rec(g, n)}
<1>0. MerkleVerify(leaf, path, idx) = iter[Depth]
  BY DEF MerkleVerify
<1>1. (\A level \in 0 .. Depth : iter[level] = IF level = 0 THEN leaf ELSE over(iter[level - 1], level))
      => Climbs(iter, leaf, path, idx)
  BY DEF Climbs
<1> HIDE DEF over
<1>2. 0 \in T
  <2> DEFINE g == [level \in 0 .. 0 |-> leaf]
  <2>1. g = rec(g, 0)  OBVIOUS
  <2> QED BY <2>1
<1>3. ASSUME NEW n \in Nat, n \in T PROVE n + 1 \in T
  <2>1. PICK g : g = rec(g, n)  BY <1>3
  <2> DEFINE h == rec(g, n + 1)
  <2>2. \A level \in 0 .. n + 1 : level = 0 \/ (level - 1 \in 0 .. n /\ h[level - 1] = g[level - 1])  BY <2>1
  <2>3. h = rec(g, n + 1)  OBVIOUS
  <2> HIDE DEF h
  <2>4. \A level \in 0 .. n + 1 : val(h, level) = val(g, level)  BY <2>2
  <2> HIDE DEF val
  <2>5. h = rec(h, n + 1)  BY <2>3, <2>4
  <2> HIDE DEF rec
  <2> QED BY <2>5
<1>4. PICK g : g = rec(g, Depth)
  <2> HIDE DEF T
  <2>1. Depth \in T  BY <1>2, <1>3, TreeAssumption, NatSetInduction
  <2> QED BY <2>1 DEF T
<1>5. iter = rec(iter, Depth)
  BY <1>4
<1> HIDE DEF iter
<1> QED BY <1>0, <1>1, <1>5

LEMMA FullDef ==
    ASSUME NEW s
    PROVE  /\ FullOf(s)[0] = [j \in 0 .. Capacity - 1 |-> LeafAt(s, j)]
           /\ \A level \in 1 .. Depth :
                 FullOf(s)[level] = [j \in 0 .. Pow2[Depth - level] - 1 |->
                                        Node(FullOf(s)[level - 1][2 * j],
                                             FullOf(s)[level - 1][2 * j + 1])]
<1> DEFINE up(nodes, level) == [j \in 0 .. Pow2[Depth - level] - 1 |->
                                   Node(nodes[2 * j], nodes[2 * j + 1])]
           base == [j \in 0 .. Capacity - 1 |-> LeafAt(s, j)]
           val(g, level) == IF level = 0 THEN base ELSE up(g[level - 1], level)
           rec(g, n) == [level \in 0 .. n |-> val(g, level)]
           iter == CHOOSE g : g = rec(g, Depth)
           T == {n \in Nat : \E g : g = rec(g, n)}
<1>1. FullOf(s) = iter
  BY DEF FullOf
<1>2. ASSUME \A level \in 0 .. Depth :
                iter[level] = IF level = 0 THEN base ELSE up(iter[level - 1], level)
      PROVE  iter[0] = base /\ \A level \in 1 .. Depth : iter[level] = up(iter[level - 1], level)
  <2> HIDE DEF iter, base, up
  <2>1. 0 \in 0 .. Depth  BY TreeAssumption
  <2> QED BY <1>2, <2>1
<1> HIDE DEF base, up
<1>3. 0 \in T
  <2> DEFINE g == [level \in 0 .. 0 |-> base]
  <2>1. g = rec(g, 0)  OBVIOUS
  <2> QED BY <2>1
<1>4. ASSUME NEW n \in Nat, n \in T PROVE n + 1 \in T
  <2>1. PICK g : g = rec(g, n)  BY <1>4
  <2> DEFINE h == rec(g, n + 1)
  <2>2. \A level \in 0 .. n + 1 : level = 0 \/ (level - 1 \in 0 .. n /\ h[level - 1] = g[level - 1])  BY <2>1
  <2>3. h = rec(g, n + 1)  OBVIOUS
  <2> HIDE DEF h
  <2>4. \A level \in 0 .. n + 1 : val(h, level) = val(g, level)  BY <2>2
  <2> HIDE DEF val
  <2>5. h = rec(h, n + 1)  BY <2>3, <2>4
  <2> HIDE DEF rec
  <2> QED BY <2>5
<1>5. PICK g : g = rec(g, Depth)
  <2> HIDE DEF T
  <2>1. Depth \in T  BY <1>3, <1>4, TreeAssumption, NatSetInduction
  <2> QED BY <2>1 DEF T
<1>6. iter = rec(iter, Depth)
  BY <1>5
<1>7. iter[0] = base /\ \A level \in 1 .. Depth : iter[level] = up(iter[level - 1], level)
  <2> HIDE DEF iter
  <2> QED BY <1>2, <1>6
<1> HIDE DEF iter
<1> QED BY <1>1, <1>7 DEF base, up

-----------------------------------------------------------------------------
(* The shape of the two trees. *)

LEMMA Pow2Facts ==
    /\ \A d \in 0 .. Depth : Pow2[d] \in Nat /\ Pow2[d] > 0
    /\ \A d \in 0 .. Depth - 1 : Pow2[d + 1] = 2 * Pow2[d]
    /\ Pow2[0] = 1 /\ Capacity = Pow2[Depth] /\ Depth \in Nat /\ Depth > 0
<1>1. Depth \in Nat /\ Depth > 0  BY TreeAssumption
<1>2. \A d \in 0 .. Depth - 1 : Pow2[d + 1] = 2 * Pow2[d]
  <2> SUFFICES ASSUME NEW d \in 0 .. Depth - 1 PROVE Pow2[d + 1] = 2 * Pow2[d]
    OBVIOUS
  <2>1. d + 1 \in 0 .. Depth /\ d + 1 # 0 /\ (d + 1) - 1 = d  BY <1>1
  <2>2. Pow2[d + 1] = 2 * Pow2[(d + 1) - 1]  BY <2>1, Pow2Def
  <2> QED BY <2>1, <2>2
<1>3. Pow2[0] = 1  BY <1>1, Pow2Def
<1>4. \A d \in Nat : d <= Depth => Pow2[d] \in Nat /\ Pow2[d] > 0
  <2> DEFINE T == {d \in Nat : d <= Depth => Pow2[d] \in Nat /\ Pow2[d] > 0}
  <2>1. 0 \in T  BY <1>3
  <2>2. \A d \in Nat : d \in T => d + 1 \in T  BY <1>1, <1>2
  <2> HIDE DEF T
  <2>3. \A d \in Nat : d \in T  BY <2>1, <2>2, NatSetInduction
  <2> QED BY <2>3 DEF T
<1> QED BY <1>1, <1>2, <1>3, <1>4 DEF Capacity

(* A leaf's place halves from level to level, and is within each of them. *)
LEMMA ShiftedFacts ==
    ASSUME NEW idx \in 0 .. Capacity - 1
    PROVE  /\ \A level \in 0 .. Depth : Shifted(idx)[level] \in 0 .. Pow2[Depth - level] - 1
           /\ \A level \in 0 .. Depth - 1 : Shifted(idx)[level + 1] = Shifted(idx)[level] \div 2
           /\ Shifted(idx)[0] = idx /\ Shifted(idx)[Depth] = 0
<1> DEFINE at == Shifted(idx)
<1>1. Depth \in Nat /\ Depth > 0  BY Pow2Facts
<1>2. \A level \in 0 .. Depth - 1 : at[level + 1] = at[level] \div 2
  <2> SUFFICES ASSUME NEW level \in 0 .. Depth - 1 PROVE at[level + 1] = at[level] \div 2
    OBVIOUS
  <2>1. level + 1 \in 0 .. Depth /\ level + 1 # 0 /\ (level + 1) - 1 = level  BY <1>1
  <2>2. at[level + 1] = at[(level + 1) - 1] \div 2  BY <2>1, ShiftedDef
  <2> QED BY <2>1, <2>2
<1>3. at[0] = idx  BY <1>1, ShiftedDef
<1> HIDE DEF at
<1> DEFINE T == {n \in Nat : n <= Depth => at[n] \in 0 .. Pow2[Depth - n] - 1}
<1>4. 0 \in T
  <2>1. Depth - 0 = Depth /\ Capacity = Pow2[Depth]  BY <1>1, Pow2Facts
  <2> QED BY <1>3, <2>1
<1>5. ASSUME NEW n \in Nat, n \in T PROVE n + 1 \in T
  <2> SUFFICES ASSUME n + 1 <= Depth PROVE at[n + 1] \in 0 .. Pow2[Depth - (n + 1)] - 1
    OBVIOUS
  <2> DEFINE d == Depth - (n + 1)
  <2>1. d \in 0 .. Depth - 1 /\ d + 1 = Depth - n /\ n \in 0 .. Depth - 1 /\ n <= Depth  BY <1>1
  <2>2. Pow2[d + 1] = 2 * Pow2[d] /\ Pow2[d] \in Nat  BY <1>1, <2>1, Pow2Facts
  <2>3. at[n] \in 0 .. 2 * Pow2[d] - 1  BY <1>5, <2>1, <2>2
  <2>4. at[n + 1] = at[n] \div 2  BY <1>2, <2>1
  <2> HIDE DEF d
  <2>5. at[n] \div 2 \in 0 .. Pow2[d] - 1  BY <2>2, <2>3
  <2> QED BY <2>4, <2>5 DEF d
<1>6. \A n \in Nat : n \in T
  <2> HIDE DEF T
  <2> QED BY <1>4, <1>5, NatSetInduction
<1>7. \A level \in 0 .. Depth : at[level] \in 0 .. Pow2[Depth - level] - 1
  BY <1>1, <1>6
<1>8. at[Depth] = 0
  <2>1. Depth - Depth = 0 /\ Pow2[0] = 1 /\ Depth \in 0 .. Depth  BY <1>1, Pow2Facts
  <2>2. at[Depth] \in 0 .. Pow2[0] - 1  BY <1>7, <2>1
  <2> QED BY <2>1, <2>2
<1> QED BY <1>2, <1>3, <1>7, <1>8 DEF at

LEMMA FullFacts ==
    ASSUME NEW s
    PROVE  /\ \A j \in 0 .. Capacity - 1 : FullOf(s)[0][j] = LeafAt(s, j)
           /\ \A level \in 0 .. Depth - 1 : \A j \in 0 .. Pow2[Depth - (level + 1)] - 1 :
                 FullOf(s)[level + 1][j] = Node(FullOf(s)[level][2 * j], FullOf(s)[level][2 * j + 1])
<1>1. Depth \in Nat  BY Pow2Facts
<1>2. FullOf(s)[0] = [j \in 0 .. Capacity - 1 |-> LeafAt(s, j)]
  BY FullDef
<1>3. ASSUME NEW level \in 0 .. Depth - 1, NEW j \in 0 .. Pow2[Depth - (level + 1)] - 1
      PROVE  FullOf(s)[level + 1][j] = Node(FullOf(s)[level][2 * j], FullOf(s)[level][2 * j + 1])
  <2>1. level + 1 \in 1 .. Depth /\ (level + 1) - 1 = level  BY <1>1
  <2>2. FullOf(s)[level + 1] = [i \in 0 .. Pow2[Depth - (level + 1)] - 1 |->
             Node(FullOf(s)[(level + 1) - 1][2 * i], FullOf(s)[(level + 1) - 1][2 * i + 1])]
    BY <2>1, FullDef
  <2> QED BY <2>1, <2>2
<1> QED BY <1>2, <1>3

(* A sequence the way levels() builds one: its places are 1 to its length. *)
Counted(nodes) == Len(nodes) \in Nat /\ DOMAIN nodes = 1 .. Len(nodes)

LEMMA ParentsFacts ==
    ASSUME NEW nodes, Counted(nodes), NEW level
    PROVE  /\ Counted(Parents(nodes, level))
           /\ Len(nodes) = 0 => /\ Len(Parents(nodes, level)) = 1
                                /\ Parents(nodes, level)[1] = Empty[level + 1]
           /\ Len(nodes) > 0 =>
                 /\ Len(Parents(nodes, level)) = (Len(nodes) + 1) \div 2
                 /\ \A i \in 1 .. (Len(nodes) + 1) \div 2 :
                       Parents(nodes, level)[i] =
                          Node(nodes[2 * i - 1],
                               IF 2 * i <= Len(nodes) THEN nodes[2 * i] ELSE Empty[level])
<1> DEFINE m == (Len(nodes) + 1) \div 2
           up == [i \in 1 .. m |-> Node(nodes[2 * i - 1],
                                        IF 2 * i <= Len(nodes) THEN nodes[2 * i] ELSE Empty[level])]
<1>1. CASE nodes = <<>>
  <2>1. Len(nodes) = 0  BY <1>1
  <2>2. Parents(nodes, level) = <<Empty[level + 1]>>  BY <1>1 DEF Parents
  <2> QED BY <2>1, <2>2 DEF Counted
<1>2. CASE nodes # <<>>
  <2>1. Parents(nodes, level) = up  BY <1>2 DEF Parents
  <2>2. Len(nodes) > 0
    <3>1. Len(nodes) = 0 => nodes = <<>>  BY DEF Counted
    <3> QED BY <1>2, <3>1 DEF Counted
  <2>3. m \in Nat /\ DOMAIN up = 1 .. m  BY DEF Counted
  <2>4. Len(up) = m  BY <2>3
  <2> QED BY <2>1, <2>2, <2>3, <2>4 DEF Counted
<1> QED BY <1>1, <1>2

LEMMA LevelsFacts ==
    ASSUME NEW s, Counted(s)
    PROVE  /\ LevelsOf(s)[0] = s
           /\ \A level \in 0 .. Depth - 1 :
                 LevelsOf(s)[level + 1] = Parents(LevelsOf(s)[level], level)
           /\ \A level \in 0 .. Depth : Counted(LevelsOf(s)[level])
<1>1. Depth \in Nat  BY Pow2Facts
<1>2. LevelsOf(s)[0] = s  BY <1>1, LevelsDef
<1>3. ASSUME NEW level \in 0 .. Depth - 1
      PROVE  LevelsOf(s)[level + 1] = Parents(LevelsOf(s)[level], level)
  <2>1. level + 1 \in 0 .. Depth /\ level + 1 # 0 /\ (level + 1) - 1 = level  BY <1>1
  <2>2. LevelsOf(s)[level + 1] = Parents(LevelsOf(s)[(level + 1) - 1], (level + 1) - 1)
    BY <2>1, LevelsDef
  <2> QED BY <2>1, <2>2
<1> DEFINE T == {n \in Nat : n <= Depth => Counted(LevelsOf(s)[n])}
<1>4. 0 \in T  BY <1>2
<1>5. ASSUME NEW n \in Nat, n \in T PROVE n + 1 \in T
  <2> SUFFICES ASSUME n + 1 <= Depth PROVE Counted(LevelsOf(s)[n + 1])
    OBVIOUS
  <2>1. n \in 0 .. Depth - 1 /\ Counted(LevelsOf(s)[n])  BY <1>1, <1>5
  <2> QED BY <1>3, <2>1, ParentsFacts
<1>6. \A n \in Nat : n \in T
  <2> HIDE DEF T
  <2> QED BY <1>4, <1>5, NatSetInduction
<1> QED BY <1>1, <1>2, <1>3, <1>6

-----------------------------------------------------------------------------
(* The sparse tree is the full one. *)

NodeOf(nodes, level, j) == IF j < Len(nodes) THEN nodes[j + 1] ELSE Empty[level]

(* From one level to the next, whether its tail is odd or not. *)
LEMMA ParentsPad ==
    ASSUME NEW nodes, Counted(nodes), NEW level \in 0 .. Depth - 1, NEW j \in Nat
    PROVE  NodeOf(Parents(nodes, level), level + 1, j)
              = Node(NodeOf(nodes, level, 2 * j), NodeOf(nodes, level, 2 * j + 1))
<1> DEFINE up == Parents(nodes, level)
<1>1. Empty[level + 1] = Node(Empty[level], Empty[level])
  <2>1. Depth \in Nat  BY Pow2Facts
  <2>2. level + 1 \in 0 .. Depth /\ level + 1 # 0 /\ (level + 1) - 1 = level  BY <2>1
  <2>3. Empty[level + 1] = Node(Empty[(level + 1) - 1], Empty[(level + 1) - 1])
    BY <2>2, EmptyDef
  <2> QED BY <2>2, <2>3
<1>2. Len(nodes) \in Nat  BY DEF Counted
<1>3. CASE Len(nodes) = 0
  <2>1. Len(up) = 1 /\ up[1] = Empty[level + 1]  BY <1>3, ParentsFacts
  <2>2. NodeOf(up, level + 1, j) = Empty[level + 1]
    <3> HIDE DEF up
    <3>1. CASE j = 0  BY <2>1, <3>1 DEF NodeOf
    <3>2. CASE j # 0  BY <2>1, <3>2 DEF NodeOf
    <3> QED BY <3>1, <3>2
  <2>3. NodeOf(nodes, level, 2 * j) = Empty[level] /\ NodeOf(nodes, level, 2 * j + 1) = Empty[level]
    BY <1>3 DEF NodeOf
  <2> QED BY <1>1, <2>2, <2>3
<1>4. CASE Len(nodes) > 0
  <2> DEFINE n == Len(nodes)
             m == (n + 1) \div 2
  <2>1. /\ Len(up) = m
        /\ \A i \in 1 .. m : up[i] = Node(nodes[2 * i - 1],
                                          IF 2 * i <= n THEN nodes[2 * i] ELSE Empty[level])
    BY <1>4, ParentsFacts
  <2> HIDE DEF up
  <2>2. CASE 2 * j < n
    <3>1. j + 1 \in 1 .. m /\ j < m  BY <1>2, <2>2
    <3>2. up[j + 1] = Node(nodes[2 * (j + 1) - 1],
                           IF 2 * (j + 1) <= n THEN nodes[2 * (j + 1)] ELSE Empty[level])
      BY <2>1, <3>1
    <3>3. 2 * (j + 1) - 1 = 2 * j + 1 /\ 2 * (j + 1) = (2 * j + 1) + 1
      OBVIOUS
    <3>4. 2 * (j + 1) <= n <=> 2 * j + 1 < n  BY <1>2
    <3>5. NodeOf(up, level + 1, j) = up[j + 1]  BY <2>1, <3>1 DEF NodeOf
    <3>6. NodeOf(nodes, level, 2 * j) = nodes[2 * j + 1]  BY <2>2 DEF NodeOf
    <3>7. NodeOf(nodes, level, 2 * j + 1)
             = IF 2 * (j + 1) <= n THEN nodes[2 * (j + 1)] ELSE Empty[level]
      BY <3>3, <3>4 DEF NodeOf
    <3> QED BY <3>2, <3>3, <3>5, <3>6, <3>7 DEF up
  <2>3. CASE ~(2 * j < n)
    <3>1. ~(j < m) /\ ~(2 * j + 1 < n)  BY <1>2, <2>3
    <3>2. NodeOf(up, level + 1, j) = Empty[level + 1]  BY <2>1, <3>1 DEF NodeOf
    <3>3. NodeOf(nodes, level, 2 * j) = Empty[level] /\ NodeOf(nodes, level, 2 * j + 1) = Empty[level]
      BY <2>3, <3>1 DEF NodeOf
    <3> QED BY <1>1, <3>2, <3>3 DEF up
  <2> QED BY <2>2, <2>3
<1> QED BY <1>2, <1>3, <1>4

LEMMA FullIsPadded ==
    ASSUME NEW s, Counted(s)
    PROVE  \A level \in 0 .. Depth : \A j \in 0 .. Pow2[Depth - level] - 1 :
              FullOf(s)[level][j] = NodeOf(LevelsOf(s)[level], level, j)
<1> DEFINE Padded(n) == \A j \in 0 .. Pow2[Depth - n] - 1 :
                            FullOf(s)[n][j] = NodeOf(LevelsOf(s)[n], n, j)
           T == {n \in Nat : n <= Depth => Padded(n)}
<1>1. Depth \in Nat /\ Depth > 0  BY Pow2Facts
<1>2. 0 \in T
  <2>1. Depth - 0 = Depth /\ Capacity = Pow2[Depth]  BY <1>1, Pow2Facts
  <2>2. Empty[0] = Zero  BY <1>1, EmptyDef
  <2>3. LevelsOf(s)[0] = s  BY LevelsFacts
  <2>4. \A j \in 0 .. Capacity - 1 : FullOf(s)[0][j] = LeafAt(s, j)  BY FullFacts
  <2>5. Padded(0)  BY <2>1, <2>2, <2>3, <2>4 DEF NodeOf, LeafAt
  <2> HIDE DEF Padded
  <2> QED BY <2>5
<1>3. ASSUME NEW n \in Nat, n \in T PROVE n + 1 \in T
  <2> SUFFICES ASSUME n + 1 <= Depth, NEW j \in 0 .. Pow2[Depth - (n + 1)] - 1
               PROVE  FullOf(s)[n + 1][j] = NodeOf(LevelsOf(s)[n + 1], n + 1, j)
    OBVIOUS
  <2> DEFINE d == Depth - (n + 1)
  <2>1. d \in 0 .. Depth - 1 /\ d + 1 = Depth - n /\ n \in 0 .. Depth - 1 /\ n \in 0 .. Depth /\ n <= Depth
    BY <1>1
  <2>2. Pow2[Depth - n] = 2 * Pow2[d] /\ Pow2[d] \in Nat  BY <1>1, <2>1, Pow2Facts
  <2>3. 2 * j \in 0 .. Pow2[Depth - n] - 1 /\ 2 * j + 1 \in 0 .. Pow2[Depth - n] - 1 /\ j \in Nat
    <3> HIDE DEF d
    <3>1. j \in 0 .. Pow2[d] - 1  BY DEF d
    <3> QED BY <2>2, <3>1
  <2>4. /\ FullOf(s)[n][2 * j] = NodeOf(LevelsOf(s)[n], n, 2 * j)
        /\ FullOf(s)[n][2 * j + 1] = NodeOf(LevelsOf(s)[n], n, 2 * j + 1)
    BY <1>3, <2>1, <2>3
  <2>5. FullOf(s)[n + 1][j] = Node(FullOf(s)[n][2 * j], FullOf(s)[n][2 * j + 1])
    BY <2>1, FullFacts
  <2>6. LevelsOf(s)[n + 1] = Parents(LevelsOf(s)[n], n) /\ Counted(LevelsOf(s)[n])
    BY <2>1, LevelsFacts
  <2> QED BY <2>1, <2>3, <2>4, <2>5, <2>6, ParentsPad
<1>4. \A n \in Nat : n \in T
  <2> HIDE DEF T
  <2> QED BY <1>2, <1>3, NatSetInduction
<1>5. \A n \in 0 .. Depth : Padded(n)
  <2> HIDE DEF Padded
  <2> QED BY <1>1, <1>4
<1> QED BY <1>5

LEMMA RootIsFull ==
    ASSUME NEW s, Counted(s)
    PROVE  RootOf(s) = FullOf(s)[Depth][0]
<1>1. Depth \in Nat /\ Depth > 0 /\ Depth - Depth = 0 /\ Pow2[0] = 1  BY Pow2Facts
<1>2. FullOf(s)[Depth][0] = NodeOf(LevelsOf(s)[Depth], Depth, 0)
  BY <1>1, FullIsPadded
<1>3. Len(LevelsOf(s)[Depth]) > 0
  <2> DEFINE below == LevelsOf(s)[Depth - 1]
  <2>1. Depth - 1 \in 0 .. Depth - 1 /\ Depth - 1 \in 0 .. Depth /\ (Depth - 1) + 1 = Depth  BY <1>1
  <2>2. LevelsOf(s)[Depth] = Parents(below, Depth - 1)  BY <2>1, LevelsFacts
  <2>3. Counted(below)  BY <2>1, LevelsFacts
  <2>4. Len(below) \in Nat  BY <2>3 DEF Counted
  <2> HIDE DEF below
  <2>5. CASE Len(below) = 0  BY <2>2, <2>3, <2>5, ParentsFacts
  <2>6. CASE Len(below) > 0
    <3>1. Len(Parents(below, Depth - 1)) = (Len(below) + 1) \div 2  BY <2>3, <2>6, ParentsFacts
    <3> QED BY <2>2, <2>4, <2>6, <3>1
  <2> QED BY <2>4, <2>5, <2>6
<1> QED BY <1>2, <1>3 DEF NodeOf, RootOf

-----------------------------------------------------------------------------
(* Paths. *)

(* One level of a climb that follows the full tree: the node above is the  *)
(* pair of this one and its sibling, in the order of the place's low bit.  *)
LEMMA ClimbLevel ==
    ASSUME NEW s, NEW idx \in 0 .. Capacity - 1, NEW level \in 0 .. Depth - 1,
           NEW here, here = Shifted(idx)[level], NEW up, up = Shifted(idx)[level + 1]
    PROVE  /\ here \in 0 .. Pow2[Depth - level] - 1
           /\ Sibling(here) \in 0 .. Pow2[Depth - level] - 1
           /\ here % 2 = 0 =>
                 FullOf(s)[level + 1][up] = Node(FullOf(s)[level][here], FullOf(s)[level][Sibling(here)])
           /\ here % 2 # 0 =>
                 FullOf(s)[level + 1][up] = Node(FullOf(s)[level][Sibling(here)], FullOf(s)[level][here])
<1> DEFINE d == Depth - (level + 1)
<1>1. Depth \in Nat  BY Pow2Facts
<1>2. /\ d \in 0 .. Depth - 1 /\ d + 1 = Depth - level
      /\ level \in 0 .. Depth /\ level + 1 \in 0 .. Depth
  BY <1>1
<1>3. Pow2[Depth - level] = 2 * Pow2[d] /\ Pow2[d] \in Nat  BY <1>1, <1>2, Pow2Facts
<1>4. here \in 0 .. Pow2[Depth - level] - 1 /\ up \in 0 .. Pow2[d] - 1 /\ up = here \div 2
  BY <1>2, ShiftedFacts
<1>5. FullOf(s)[level + 1][up] = Node(FullOf(s)[level][2 * up], FullOf(s)[level][2 * up + 1])
  BY <1>4, FullFacts
<1> HIDE DEF d
<1>6. /\ here \in Nat
      /\ here % 2 = 0 => 2 * up = here /\ 2 * up + 1 = Sibling(here)
      /\ here % 2 # 0 => 2 * up = Sibling(here) /\ 2 * up + 1 = here
  BY <1>3, <1>4 DEF Sibling
<1>7. Sibling(here) \in 0 .. Pow2[Depth - level] - 1
  <2>1. 2 * up \in 0 .. Pow2[Depth - level] - 1 /\ 2 * up + 1 \in 0 .. Pow2[Depth - level] - 1
    BY <1>3, <1>4
  <2> QED BY <1>6, <2>1
<1> QED BY <1>4, <1>5, <1>6, <1>7

(* Whatever the siblings, a climb that ends in the root was in the full    *)
(* tree all the way: downwards, a node determines its two children.        *)
LEMMA ClimbBinds ==
    ASSUME NEW s, Counted(s), NEW leaf, NEW path, NEW idx \in 0 .. Capacity - 1,
           MerkleVerify(leaf, path, idx) = RootOf(s)
    PROVE  leaf = LeafAt(s, idx)
<1> DEFINE at == Shifted(idx)
<1>1. PICK climb : Climbs(climb, leaf, path, idx) /\ MerkleVerify(leaf, path, idx) = climb[Depth]
  BY ClimbExists
<1>2. Depth \in Nat /\ Depth > 0  BY Pow2Facts
<1>3. at[0] = idx /\ at[Depth] = 0  BY ShiftedFacts
<1>4. climb[Depth] = FullOf(s)[Depth][0]  BY <1>1, RootIsFull
<1> DEFINE T == {k \in Nat : k <= Depth => climb[Depth - k] = FullOf(s)[Depth - k][at[Depth - k]]}
<1>5. 0 \in T
  <2>1. Depth - 0 = Depth  BY <1>2
  <2> QED BY <1>3, <1>4, <2>1
<1>6. ASSUME NEW k \in Nat, k \in T PROVE k + 1 \in T
  <2> SUFFICES ASSUME k + 1 <= Depth
               PROVE  climb[Depth - (k + 1)] = FullOf(s)[Depth - (k + 1)][at[Depth - (k + 1)]]
    OBVIOUS
  <2>1. PICK level : level = Depth - (k + 1)  OBVIOUS
  <2>2. /\ level \in 0 .. Depth - 1 /\ level + 1 = Depth - k /\ k <= Depth
        /\ level + 1 \in 0 .. Depth /\ level + 1 # 0 /\ (level + 1) - 1 = level
    BY <1>2, <2>1
  <2>3. climb[level + 1] = FullOf(s)[level + 1][at[level + 1]]  BY <1>6, <2>2
  <2>4. PICK here, up : here = at[level] /\ up = at[level + 1]  OBVIOUS
  <2>5. climb[level + 1] = IF here % 2 = 0 THEN Node(climb[level], path[level])
                           ELSE Node(path[level], climb[level])
    BY <1>1, <2>2, <2>4 DEF Climbs
  <2>6. /\ here % 2 = 0 =>
              FullOf(s)[level + 1][up] = Node(FullOf(s)[level][here], FullOf(s)[level][Sibling(here)])
        /\ here % 2 # 0 =>
              FullOf(s)[level + 1][up] = Node(FullOf(s)[level][Sibling(here)], FullOf(s)[level][here])
    BY <2>2, <2>4, ClimbLevel
  <2>7. climb[level] = FullOf(s)[level][here]
    <3>1. CASE here % 2 = 0  BY <2>3, <2>4, <2>5, <2>6, <3>1 DEF Node
    <3>2. CASE here % 2 # 0  BY <2>3, <2>4, <2>5, <2>6, <3>2 DEF Node
    <3> QED BY <3>1, <3>2
  <2> QED BY <2>1, <2>4, <2>7
<1>7. Depth \in T
  <2> HIDE DEF T
  <2> QED BY <1>2, <1>5, <1>6, NatSetInduction
<1>8. climb[0] = FullOf(s)[0][idx]
  <2>1. Depth - Depth = 0 /\ Depth <= Depth  BY <1>2
  <2> QED BY <1>3, <1>7, <2>1
<1>9. climb[0] = leaf  BY <1>1, <1>2 DEF Climbs
<1> QED BY <1>8, <1>9, FullFacts

(* The path of a leaf that is there leads to the root. *)
LEMMA OwnPathVerifies ==
    ASSUME Counted(leaves), NEW idx \in 0 .. Capacity - 1, idx < Len(leaves)
    PROVE  MerkleVerify(leaves[idx + 1], Path(idx), idx) = Root
<1> DEFINE at == Shifted(idx)
           leaf == leaves[idx + 1]
<1>1. PICK climb : /\ Climbs(climb, leaf, Path(idx), idx)
                   /\ MerkleVerify(leaf, Path(idx), idx) = climb[Depth]
  BY ClimbExists
<1>2. Depth \in Nat /\ Depth > 0  BY Pow2Facts
<1>3. at[0] = idx /\ at[Depth] = 0  BY ShiftedFacts
<1>4. climb[0] = leaf  BY <1>1, <1>2 DEF Climbs
<1>5. FullOf(leaves)[0][idx] = leaf
  <2>1. FullOf(leaves)[0][idx] = LeafAt(leaves, idx)  BY FullFacts
  <2> QED BY <2>1 DEF LeafAt
<1> DEFINE T == {n \in Nat : n <= Depth => climb[n] = FullOf(leaves)[n][at[n]]}
<1>6. 0 \in T  BY <1>3, <1>4, <1>5
<1>7. ASSUME NEW level \in Nat, level \in T PROVE level + 1 \in T
  <2> SUFFICES ASSUME level + 1 <= Depth
               PROVE  climb[level + 1] = FullOf(leaves)[level + 1][at[level + 1]]
    OBVIOUS
  <2>1. /\ level \in 0 .. Depth - 1 /\ level \in 0 .. Depth /\ level <= Depth
        /\ level + 1 \in 0 .. Depth /\ level + 1 # 0 /\ (level + 1) - 1 = level
    BY <1>2
  <2>2. PICK here, up : here = at[level] /\ up = at[level + 1]  OBVIOUS
  <2>3. climb[level] = FullOf(leaves)[level][here]  BY <1>7, <2>1, <2>2
  <2>4. climb[level + 1] = IF here % 2 = 0 THEN Node(climb[level], Path(idx)[level])
                           ELSE Node(Path(idx)[level], climb[level])
    BY <1>1, <2>1, <2>2 DEF Climbs
  <2>5. /\ Sibling(here) \in 0 .. Pow2[Depth - level] - 1
        /\ here % 2 = 0 => FullOf(leaves)[level + 1][up]
              = Node(FullOf(leaves)[level][here], FullOf(leaves)[level][Sibling(here)])
        /\ here % 2 # 0 => FullOf(leaves)[level + 1][up]
              = Node(FullOf(leaves)[level][Sibling(here)], FullOf(leaves)[level][here])
    BY <2>1, <2>2, ClimbLevel
  <2>6. Path(idx)[level] = NodeOf(Levels[level], level, Sibling(here))
    BY <2>1, <2>2 DEF Path, NodeOf
  <2>7. Path(idx)[level] = FullOf(leaves)[level][Sibling(here)]
    BY <2>1, <2>5, <2>6, FullIsPadded DEF Levels
  <2> QED BY <2>2, <2>3, <2>4, <2>5, <2>7
<1>8. Depth \in T
  <2> HIDE DEF T
  <2> QED BY <1>2, <1>6, <1>7, NatSetInduction
<1>9. climb[Depth] = FullOf(leaves)[Depth][0]  BY <1>2, <1>3, <1>8
<1> QED BY <1>1, <1>9, RootIsFull DEF Root

-----------------------------------------------------------------------------
(* Two trees with one root have the same leaves, and the other way round. *)

LEMMA NodeBinds ==
    ASSUME NEW a, NEW b, NEW c, NEW d, Node(a, b) = Node(c, d)
    PROVE  a = c /\ b = d
BY DEF Node

LEMMA SameLeavesSameRoot ==
    ASSUME NEW s, Counted(s), NEW t, Counted(t),
           \A j \in 0 .. Capacity - 1 : LeafAt(s, j) = LeafAt(t, j)
    PROVE  RootOf(s) = RootOf(t)
<1> DEFINE T == {n \in Nat : n <= Depth => \A j \in 0 .. Pow2[Depth - n] - 1 :
                                              FullOf(s)[n][j] = FullOf(t)[n][j]}
<1>1. Depth \in Nat /\ Depth - Depth = 0 /\ Depth - 0 = Depth /\ Pow2[0] = 1 /\ Capacity = Pow2[Depth]
  BY Pow2Facts
<1>2. 0 \in T
  <2>1. /\ \A j \in 0 .. Capacity - 1 : FullOf(s)[0][j] = LeafAt(s, j)
        /\ \A j \in 0 .. Capacity - 1 : FullOf(t)[0][j] = LeafAt(t, j)
    BY FullFacts
  <2> QED BY <1>1, <2>1
<1>3. ASSUME NEW n \in Nat, n \in T PROVE n + 1 \in T
  <2> SUFFICES ASSUME n + 1 <= Depth, NEW j \in 0 .. Pow2[Depth - (n + 1)] - 1
               PROVE  FullOf(s)[n + 1][j] = FullOf(t)[n + 1][j]
    OBVIOUS
  <2>1. PICK d : d = Depth - (n + 1)  OBVIOUS
  <2>2. d \in 0 .. Depth - 1 /\ d + 1 = Depth - n /\ n \in 0 .. Depth - 1 /\ n <= Depth
    BY <1>1, <2>1
  <2>3. Pow2[Depth - n] = 2 * Pow2[d] /\ Pow2[d] \in Nat  BY <1>1, <2>2, Pow2Facts
  <2>4. 2 * j \in 0 .. Pow2[Depth - n] - 1 /\ 2 * j + 1 \in 0 .. Pow2[Depth - n] - 1
    BY <2>1, <2>3
  <2>5. FullOf(s)[n][2 * j] = FullOf(t)[n][2 * j] /\ FullOf(s)[n][2 * j + 1] = FullOf(t)[n][2 * j + 1]
    BY <1>3, <2>2, <2>4
  <2>6. /\ FullOf(s)[n + 1][j] = Node(FullOf(s)[n][2 * j], FullOf(s)[n][2 * j + 1])
        /\ FullOf(t)[n + 1][j] = Node(FullOf(t)[n][2 * j], FullOf(t)[n][2 * j + 1])
    BY <2>2, FullFacts
  <2> QED BY <2>5, <2>6
<1>4. Depth \in T
  <2> HIDE DEF T
  <2> QED BY <1>1, <1>2, <1>3, NatSetInduction
<1>5. FullOf(s)[Depth][0] = FullOf(t)[Depth][0]  BY <1>1, <1>4
<1> QED BY <1>5, RootIsFull

LEMMA SameRootSameLeaves ==
    ASSUME NEW s, Counted(s), NEW t, Counted(t), RootOf(s) = RootOf(t)
    PROVE  \A j \in 0 .. Capacity - 1 : LeafAt(s, j) = LeafAt(t, j)
<1> DEFINE T == {k \in Nat : k <= Depth => \A j \in 0 .. Pow2[k] - 1 :
                                              FullOf(s)[Depth - k][j] = FullOf(t)[Depth - k][j]}
<1>1. Depth \in Nat /\ Depth - Depth = 0 /\ Depth - 0 = Depth /\ Pow2[0] = 1 /\ Capacity = Pow2[Depth]
  BY Pow2Facts
<1>2. 0 \in T
  <2>1. FullOf(s)[Depth][0] = FullOf(t)[Depth][0]  BY RootIsFull
  <2> QED BY <1>1, <2>1
<1>3. ASSUME NEW k \in Nat, k \in T PROVE k + 1 \in T
  <2> SUFFICES ASSUME k + 1 <= Depth, NEW j \in 0 .. Pow2[k + 1] - 1
               PROVE  FullOf(s)[Depth - (k + 1)][j] = FullOf(t)[Depth - (k + 1)][j]
    OBVIOUS
  <2>1. PICK n : n = Depth - (k + 1)  OBVIOUS
  <2>2. n \in 0 .. Depth - 1 /\ n + 1 = Depth - k /\ k \in 0 .. Depth - 1 /\ k <= Depth
        /\ Depth - (n + 1) = k
    BY <1>1, <2>1
  <2>3. Pow2[k + 1] = 2 * Pow2[k] /\ Pow2[k] \in Nat  BY <1>1, <2>2, Pow2Facts
  <2>4. PICK q : q = j \div 2  OBVIOUS
  <2>5. q \in 0 .. Pow2[k] - 1 /\ (j = 2 * q \/ j = 2 * q + 1)  BY <2>3, <2>4
  <2>6. FullOf(s)[n + 1][q] = FullOf(t)[n + 1][q]  BY <1>3, <2>2, <2>5
  <2>7. /\ FullOf(s)[n + 1][q] = Node(FullOf(s)[n][2 * q], FullOf(s)[n][2 * q + 1])
        /\ FullOf(t)[n + 1][q] = Node(FullOf(t)[n][2 * q], FullOf(t)[n][2 * q + 1])
    BY <2>2, <2>5, FullFacts
  <2>8. FullOf(s)[n][2 * q] = FullOf(t)[n][2 * q] /\ FullOf(s)[n][2 * q + 1] = FullOf(t)[n][2 * q + 1]
    <3>1. Node(FullOf(s)[n][2 * q], FullOf(s)[n][2 * q + 1])
             = Node(FullOf(t)[n][2 * q], FullOf(t)[n][2 * q + 1])
      BY <2>6, <2>7
    <3> QED BY ONLY <3>1, NodeBinds
  <2> QED BY <2>1, <2>5, <2>8
<1>4. Depth \in T
  <2> HIDE DEF T
  <2> QED BY <1>1, <1>2, <1>3, NatSetInduction
<1>5. \A j \in 0 .. Capacity - 1 : FullOf(s)[0][j] = FullOf(t)[0][j]  BY <1>1, <1>4
<1> QED BY <1>5, FullFacts

-----------------------------------------------------------------------------
(* The tree's state: the index has the newest place of each leaf, and each *)
(* root on record is the root of the leaves there were.                    *)

Prefix(s, n) == [k \in 1 .. n |-> s[k]]

TreeInv ==
    /\ leaves \in Seq(Leaf)
    /\ DOMAIN index = ToSet(leaves)
    /\ \A cm \in ToSet(leaves) :
          /\ index[cm] \in Nat /\ index[cm] < Len(leaves) /\ leaves[index[cm] + 1] = cm
          /\ \A i \in index[cm] + 2 .. Len(leaves) : leaves[i] # cm
    /\ roots = [i \in 1 .. Len(leaves) + 1 |-> RootOf(Prefix(leaves, i - 1))]

LEMMA InSequence ==
    ASSUME NEW s, s \in Seq(Leaf)
    PROVE  /\ Counted(s) /\ \A i \in 1 .. Len(s) : s[i] \in Leaf /\ s[i] \in ToSet(s)
           /\ \A cm : cm \in ToSet(s) <=> \E i \in 1 .. Len(s) : s[i] = cm
<1>1. Len(s) \in Nat /\ DOMAIN s = 1 .. Len(s) /\ \A i \in 1 .. Len(s) : s[i] \in Leaf
  OBVIOUS
<1> QED BY <1>1 DEF Counted, ToSet

LEMMA PrefixFacts ==
    ASSUME NEW s, s \in Seq(Leaf), NEW n \in 0 .. Len(s)
    PROVE  /\ Counted(Prefix(s, n)) /\ Len(Prefix(s, n)) = n
           /\ \A j \in Nat : LeafAt(Prefix(s, n), j) = IF j < n THEN s[j + 1] ELSE Zero
<1>1. n \in Nat /\ DOMAIN Prefix(s, n) = 1 .. n  BY DEF Prefix
<1>2. Len(Prefix(s, n)) = n  BY <1>1 DEF Prefix
<1>3. \A j \in Nat : j < n => Prefix(s, n)[j + 1] = s[j + 1]  BY DEF Prefix
<1> QED BY <1>1, <1>2, <1>3 DEF Counted, LeafAt

LEMMA PrefixWhole ==
    ASSUME NEW s, s \in Seq(Leaf)
    PROVE  Prefix(s, Len(s)) = s
BY DEF Prefix

LEMMA AppendIs ==
    ASSUME NEW S, NEW s \in Seq(S), NEW x \in S, NEW n, n = Len(s) + 1
    PROVE  Append(s, x) = [i \in 1 .. n |-> IF i = n THEN x ELSE s[i]]
<1> DEFINE t == Append(s, x)
           u == [i \in 1 .. n |-> IF i = n THEN x ELSE s[i]]
<1>1. t \in Seq(S) /\ Len(t) = n /\ Len(s) \in Nat  OBVIOUS
<1>2. \A i \in 1 .. n : t[i] = u[i] OBVIOUS
<1>3. u \in Seq(S) /\ Len(u) = n
  <2>1. \A i \in 1 .. n : u[i] \in S  OBVIOUS
  <2>2. u \in [1 .. n -> S]  BY <2>1
  <2> HIDE DEF u
  <2>3. n \in Nat BY <1>1
  <2> QED BY <2>2, <2>3
<1> HIDE DEF t, u
<1>4. t = u  BY <1>1, <1>2, <1>3
<1> QED BY <1>4 DEF t, u

LEMMA PrefixAppend ==
    ASSUME NEW s, s \in Seq(Leaf), NEW cm \in Leaf, NEW n \in 0 .. Len(s)
    PROVE  Prefix(Append(s, cm), n) = Prefix(s, n)
<1>1. \A k \in 1 .. n : Append(s, cm)[k] = s[k]  OBVIOUS
<1> QED BY <1>1 DEF Prefix

LEMMA TreeInitInv == TreeInit => TreeInv
<1> SUFFICES ASSUME TreeInit PROVE TreeInv
  OBVIOUS
<1>1. leaves = <<>> /\ index = [cm \in {} |-> 0] /\ roots = <<RootOf(leaves)>>
  BY DEF TreeInit, Root
<1>2. leaves \in Seq(Leaf) /\ Len(leaves) = 0  BY <1>1
<1>3. ToSet(leaves) = {}
  <2>1. \A cm : cm \in ToSet(leaves) <=> \E i \in 1 .. Len(leaves) : leaves[i] = cm
    BY <1>2, InSequence
  <2>2. \A cm : cm \notin ToSet(leaves)  BY <1>2, <2>1
  <2> QED BY <2>2
<1>4. DOMAIN index = {}  BY <1>1
<1>5. Prefix(leaves, 0) = leaves  BY <1>2, PrefixWhole
<1>6. roots = [i \in 1 .. Len(leaves) + 1 |-> RootOf(Prefix(leaves, i - 1))]
  <2> DEFINE all == [i \in 1 .. 1 |-> RootOf(Prefix(leaves, i - 1))]
  <2>1. all[1] = RootOf(leaves)  BY <1>5
  <2>2. all = [i \in 1 .. 1 |-> RootOf(leaves)]  BY <1>5
  <2> HIDE DEF all
  <2>3. all = <<RootOf(leaves)>>  BY <2>2
  <2> QED BY <1>1, <1>2, <2>3 DEF all
<1> QED BY <1>2, <1>3, <1>4, <1>6 DEF TreeInv

LEMMA TreeStep ==
    ASSUME TreeInv, [TreeNext]_treeVars
    PROVE  TreeInv'
<1>1. CASE UNCHANGED treeVars
  BY <1>1 DEF treeVars, TreeInv
<1>2. ASSUME NEW cm \in Leaf, AppendLeaf(cm) PROVE TreeInv'
  <2>1. PICK s, t : s = leaves /\ t = leaves' /\ t = Append(s, cm)
    BY <1>2 DEF AppendLeaf
  <2>2. s \in Seq(Leaf) /\ t \in Seq(Leaf) /\ Len(t) = Len(s) + 1 /\ Len(s) \in Nat
        /\ t[Len(s) + 1] = cm /\ \A i \in 1 .. Len(s) : t[i] = s[i]
    BY <2>1 DEF TreeInv
  <2>3. \A c : c \in ToSet(t) <=> c \in ToSet(s) \/ c = cm
    <3>1. \A c : c \in ToSet(s) <=> \E i \in 1 .. Len(s) : s[i] = c  BY <2>2, InSequence
    <3>2. \A c : c \in ToSet(t) <=> \E i \in 1 .. Len(s) + 1 : t[i] = c  BY <2>2, InSequence
    <3> QED BY <2>2, <3>1, <3>2
  <2>4. /\ DOMAIN index' = DOMAIN index \cup {cm}
        /\ \A c \in DOMAIN index \cup {cm} : index'[c] = IF c = cm THEN Len(s) ELSE index[c]
    BY <1>2, <2>1 DEF AppendLeaf
  <2>5. DOMAIN index = ToSet(s)
        /\ \A c \in ToSet(s) : /\ index[c] \in Nat /\ index[c] < Len(s) /\ s[index[c] + 1] = c
                               /\ \A i \in index[c] + 2 .. Len(s) : s[i] # c
    BY <2>1 DEF TreeInv
  <2>6. DOMAIN index' = ToSet(t)  BY <2>3, <2>4, <2>5
  <2>7. ASSUME NEW c \in ToSet(t)
        PROVE  /\ index'[c] \in Nat /\ index'[c] < Len(t) /\ t[index'[c] + 1] = c
               /\ \A i \in index'[c] + 2 .. Len(t) : t[i] # c
    <3>1. CASE c = cm
      <4>1. index'[c] = Len(s)  BY <2>4, <3>1
      <4> QED BY <2>2, <3>1, <4>1
    <3>2. CASE c # cm
      <4>1. c \in ToSet(s) /\ index'[c] = index[c]  BY <2>3, <2>4, <2>5, <3>2
      <4>2. index[c] \in Nat /\ index[c] < Len(s) /\ s[index[c] + 1] = c
            /\ \A i \in index[c] + 2 .. Len(s) : s[i] # c
        BY <2>5, <4>1
      <4>3. ASSUME NEW i \in index[c] + 2 .. Len(s) + 1 PROVE t[i] # c
        <5>1. CASE i = Len(s) + 1  BY <2>2, <3>2, <5>1
        <5>2. CASE i # Len(s) + 1
          <6>1. i \in index[c] + 2 .. Len(s) /\ i \in 1 .. Len(s)  BY <2>2, <4>2, <5>2
          <6> QED BY <2>2, <4>2, <6>1
        <5> QED BY <5>1, <5>2
      <4>4. t[index[c] + 1] = c  BY <2>2, <4>2
      <4> QED BY <2>2, <4>1, <4>2, <4>3, <4>4
    <3> QED BY <3>1, <3>2
  <2>8. roots' = [i \in 1 .. Len(t) + 1 |-> RootOf(Prefix(t, i - 1))]
    <3> DEFINE was == [i \in 1 .. Len(s) + 1 |-> RootOf(Prefix(s, i - 1))]
               is == [i \in 1 .. Len(t) + 1 |-> RootOf(Prefix(t, i - 1))]
    <3>1. roots = was  BY <2>1 DEF TreeInv
    <3>2. roots' = Append(roots, RootOf(t))  BY <1>2, <2>1 DEF AppendLeaf, Root
    <3>3. \A i \in 1 .. Len(s) + 1 : is[i] = was[i]
      <4> SUFFICES ASSUME NEW i \in 1 .. Len(s) + 1 PROVE is[i] = was[i]
        OBVIOUS
      <4>1. i - 1 \in 0 .. Len(s) /\ i \in 1 .. Len(t) + 1  BY <2>2
      <4>2. Prefix(t, i - 1) = Prefix(s, i - 1)  BY <2>1, <2>2, <4>1, PrefixAppend
      <4> QED BY <4>1, <4>2
    <3>4. is[Len(s) + 2] = RootOf(t)
      <4>1. Prefix(t, Len(t)) = t  BY <2>2, PrefixWhole
      <4>2. (Len(s) + 2) - 1 = Len(t) /\ Len(s) + 2 \in 1 .. Len(t) + 1  BY <2>2
      <4> QED BY <4>1, <4>2
    <3>5. DOMAIN was = 1 .. Len(s) + 1 /\ DOMAIN is = 1 .. Len(s) + 2
      BY <2>2
    <3>6. is = [i \in 1 .. Len(s) + 2 |-> is[i]]  BY <2>2
    <3>7. Len(was) = Len(s) + 1  BY <2>2, <3>5
    <3>8. Append(was, RootOf(t)) = [i \in 1 .. Len(s) + 2 |-> IF i = Len(s) + 2 THEN RootOf(t) ELSE was[i]]
      <4> DEFINE Seen == {was[i] : i \in 1 .. Len(s) + 1} \cup {RootOf(t)}
      <4>1. was \in Seq(Seen) /\ RootOf(t) \in Seen
        <5>1. \A i \in 1 .. Len(s) + 1 : was[i] \in Seen  OBVIOUS
        <5>2. was = [i \in 1 .. Len(s) + 1 |-> was[i]]  OBVIOUS
        <5> HIDE DEF was, Seen
        <5>3. was \in [1 .. Len(s) + 1 -> Seen]  BY <5>1, <5>2
        <5>4. Len(s) + 1 \in Nat  BY <2>2
        <5> QED BY <5>3, <5>4 DEF Seen
      <4>2. Len(s) + 2 = Len(was) + 1  BY <2>2, <3>7
      <4> HIDE DEF was, Seen
      <4> QED BY ONLY <4>1, <4>2, AppendIs
    <3> HIDE DEF was, is
    <3>9. \A i \in 1 .. Len(s) + 2 : is[i] = IF i = Len(s) + 2 THEN RootOf(t) ELSE was[i]
      BY <2>2, <3>3, <3>4
    <3>10. is = Append(was, RootOf(t))  BY <3>6, <3>8, <3>9
    <3> QED BY <3>1, <3>2, <3>10 DEF is
  <2>9. /\ leaves' \in Seq(Leaf) /\ DOMAIN index' = ToSet(leaves')
        /\ \A c \in ToSet(leaves') :
              /\ index'[c] \in Nat /\ index'[c] < Len(leaves') /\ leaves'[index'[c] + 1] = c
              /\ \A i \in index'[c] + 2 .. Len(leaves') : leaves'[i] # c
        /\ roots' = [i \in 1 .. Len(leaves') + 1 |-> RootOf(Prefix(leaves', i - 1))]
    BY <2>1, <2>2, <2>6, <2>7, <2>8
  <2> QED BY <2>9 DEF TreeInv
<1> QED BY <1>1, <1>2 DEF TreeNext

-----------------------------------------------------------------------------

LEMMA RootsPrefixed ==
    ASSUME TreeInv
    PROVE  RootsNamePrefixes
<1>1. leaves \in Seq(Leaf) /\ Len(leaves) \in Nat
      /\ roots = [i \in 1 .. Len(leaves) + 1 |-> RootOf(Prefix(leaves, i - 1))]
  BY DEF TreeInv
<1>2. Len(roots) = Len(leaves) + 1 /\ Len(roots) \in Nat
      /\ \A i \in 1 .. Len(leaves) + 1 : roots[i] = RootOf(Prefix(leaves, i - 1))
  <2>1. DOMAIN roots = 1 .. Len(leaves) + 1  BY <1>1
  <2>2. Len(roots) = Len(leaves) + 1  BY <1>1, <2>1
  <2> QED BY <1>1, <2>2
<1>3. Capacity \in Nat /\ Capacity > 0  BY Pow2Facts
<1>4. ASSUME NEW i \in 1 .. Len(roots), NEW j \in 1 .. Len(roots), i < j, j <= Capacity + 1,
             roots[i] = roots[j]
      PROVE  FALSE
  <2>1. i - 1 \in 0 .. Len(leaves) /\ j - 1 \in 0 .. Len(leaves)
        /\ i - 1 \in 0 .. Capacity - 1 /\ i - 1 < j - 1 /\ ~(i - 1 < i - 1) /\ i \in 1 .. Len(leaves)
        /\ (i - 1) + 1 = i /\ i - 1 \in Nat
    BY <1>2, <1>3, <1>4
  <2>2. RootOf(Prefix(leaves, i - 1)) = RootOf(Prefix(leaves, j - 1))  BY <1>2, <1>4
  <2>3. LeafAt(Prefix(leaves, i - 1), i - 1) = LeafAt(Prefix(leaves, j - 1), i - 1)
    <3>1. Counted(Prefix(leaves, i - 1)) /\ Counted(Prefix(leaves, j - 1))  BY <1>1, <2>1, PrefixFacts
    <3> QED BY <2>1, <2>2, <3>1, SameRootSameLeaves
  <2>4. LeafAt(Prefix(leaves, i - 1), i - 1) = Zero  BY <1>1, <2>1, PrefixFacts
  <2>5. LeafAt(Prefix(leaves, j - 1), i - 1) = leaves[i]  BY <1>1, <2>1, PrefixFacts
  <2>6. leaves[i] \in Leaf  BY <1>1, <2>1
  <2> QED BY <2>3, <2>4, <2>5, <2>6, TreeAssumption
<1>5. \A i, j \in 1 .. Min2(Len(roots), Capacity + 1) : roots[i] = roots[j] => i = j
  <2> SUFFICES ASSUME NEW i \in 1 .. Min2(Len(roots), Capacity + 1),
                      NEW j \in 1 .. Min2(Len(roots), Capacity + 1), roots[i] = roots[j]
               PROVE  i = j
    OBVIOUS
  <2>1. i \in 1 .. Len(roots) /\ j \in 1 .. Len(roots) /\ i <= Capacity + 1 /\ j <= Capacity + 1
    BY <1>2, <1>3 DEF Min2
  <2>2. ~(i < j)  BY <1>4, <2>1
  <2>3. ~(j < i)  BY <1>4, <2>1
  <2> QED BY <2>1, <2>2, <2>3
<1>6. ASSUME NEW i \in Capacity + 1 .. Len(roots) PROVE roots[i] = roots[Capacity + 1]
  <2>1. /\ i - 1 \in 0 .. Len(leaves) /\ Capacity \in 0 .. Len(leaves) /\ Capacity <= i - 1
        /\ i \in 1 .. Len(leaves) + 1 /\ Capacity + 1 \in 1 .. Len(leaves) + 1
        /\ (Capacity + 1) - 1 = Capacity
    BY <1>2, <1>3
  <2>2. \A j \in 0 .. Capacity - 1 :
           LeafAt(Prefix(leaves, i - 1), j) = LeafAt(Prefix(leaves, Capacity), j)
    <3> SUFFICES ASSUME NEW j \in 0 .. Capacity - 1
                 PROVE  LeafAt(Prefix(leaves, i - 1), j) = LeafAt(Prefix(leaves, Capacity), j)
      OBVIOUS
    <3>1. j \in Nat /\ j < Capacity /\ j < i - 1  BY <1>3, <2>1
    <3>2. LeafAt(Prefix(leaves, i - 1), j) = leaves[j + 1]  BY <1>1, <2>1, <3>1, PrefixFacts
    <3>3. LeafAt(Prefix(leaves, Capacity), j) = leaves[j + 1]  BY <1>1, <2>1, <3>1, PrefixFacts
    <3> QED BY <3>2, <3>3
  <2>3. Counted(Prefix(leaves, i - 1)) /\ Counted(Prefix(leaves, Capacity))
    BY <1>1, <2>1, PrefixFacts
  <2>4. RootOf(Prefix(leaves, i - 1)) = RootOf(Prefix(leaves, Capacity))
    BY <2>2, <2>3, SameLeavesSameRoot
  <2> QED BY <1>2, <2>1, <2>4
<1> QED BY <1>2, <1>5, <1>6 DEF RootsNamePrefixes

LEMMA SparseFull ==
    ASSUME TreeInv
    PROVE  SparseIsFull
<1>1. Counted(leaves)  BY InSequence DEF TreeInv
<1>2. Root = Full[Depth][0]  BY <1>1, RootIsFull DEF Root, Full
<1>3. ASSUME NEW level \in 0 .. Depth,
             NEW j \in 0 .. Min2(Len(Levels[level]), Pow2[Depth - level]) - 1
      PROVE  Levels[level][j + 1] = Full[level][j]
  <2>1. Depth \in Nat /\ Depth - level \in 0 .. Depth  BY Pow2Facts
  <2>2. Pow2[Depth - level] \in Nat /\ Len(Levels[level]) \in Nat
    BY <1>1, <2>1, Pow2Facts, LevelsFacts DEF Counted, Levels
  <2>3. j \in 0 .. Pow2[Depth - level] - 1 /\ j < Len(Levels[level])
    BY <2>2 DEF Min2
  <2>4. Full[level][j] = NodeOf(Levels[level], level, j)
    BY <1>1, <2>3, FullIsPadded DEF Full, Levels
  <2> QED BY <2>3, <2>4 DEF NodeOf
<1> QED BY <1>2, <1>3 DEF SparseIsFull

LEMMA IndexedVerify ==
    ASSUME TreeInv
    PROVE  IndexedPathsVerify
<1>1. Counted(leaves)  BY InSequence DEF TreeInv
<1>2. ASSUME NEW cm \in ToSet(leaves)
      PROVE  /\ cm \in DOMAIN index /\ leaves[index[cm] + 1] = cm
             /\ \A i \in index[cm] + 2 .. Len(leaves) : leaves[i] # cm
             /\ index[cm] \in Nat /\ index[cm] < Len(leaves)
  BY DEF TreeInv
<1>3. ASSUME NEW cm \in ToSet(leaves), index[cm] < Capacity
      PROVE  MerkleVerify(cm, Path(index[cm]), index[cm]) = Root
  <2>1. PICK idx : idx = index[cm]  OBVIOUS
  <2>2. idx \in 0 .. Capacity - 1 /\ idx < Len(leaves) /\ leaves[idx + 1] = cm
    <3>1. Capacity \in Nat  BY Pow2Facts
    <3> QED BY <1>2, <1>3, <2>1, <3>1
  <2>3. MerkleVerify(leaves[idx + 1], Path(idx), idx) = Root  BY <1>1, <2>2, OwnPathVerifies
  <2> QED BY <2>1, <2>2, <2>3
<1> QED BY <1>2, <1>3 DEF IndexedPathsVerify

(* A climb to the root starts at the leaf that is there, for any siblings  *)
(* at all, not only digests there are.                                     *)
LEMMA AnyPathBinds ==
    ASSUME TreeInv, NEW cm \in Leaf, NEW idx \in 0 .. Capacity - 1, NEW path,
           MerkleVerify(cm, path, idx) = Root
    PROVE  idx < Len(leaves) /\ leaves[idx + 1] = cm
<1>1. Counted(leaves)  BY InSequence DEF TreeInv
<1>2. cm = LeafAt(leaves, idx)  BY <1>1, ClimbBinds DEF Root
<1>3. cm # Zero  BY TreeAssumption
<1> QED BY <1>2, <1>3 DEF LeafAt

(* The index and the roots on record are right, in every order of appends. *)
THEOREM TreeInvariant == CircuitsSpec => []TreeInv
<1>1. CircuitsInit => TreeInv  BY TreeInitInv DEF CircuitsInit
<1>2. TreeInv /\ [CircuitsNext]_<<vars, treeVars, running>> => TreeInv'
  <2>1. [CircuitsNext]_<<vars, treeVars, running>> => [TreeNext]_treeVars
    BY DEF CircuitsNext
  <2> QED BY <2>1, TreeStep
<1> QED BY <1>1, <1>2, PTL DEF CircuitsSpec

(* For every depth and any number of leaves: the sparse tree of levels()   *)
(* is the full tree's, and a root names one prefix of the leaves.          *)
THEOREM SparseTreeIsFull == CircuitsSpec => []TreeStandsForFull
<1>1. TreeInv => TreeStandsForFull
  BY SparseFull, RootsPrefixed DEF TreeStandsForFull
<1> QED BY <1>1, TreeInvariant, PTL

(* path_for's paths verify, and no path to the root starts elsewhere than  *)
(* at the leaf in its place.                                               *)
THEOREM MembershipProofs == CircuitsSpec => []PathsProveMembership
<1>1. TreeInv => PathsProveMembership
  <2>1. TreeInv => PathsBind  BY AnyPathBinds DEF PathsBind
  <2> QED BY <2>1, IndexedVerify DEF PathsProveMembership
<1> QED BY <1>1, TreeInvariant, PTL

(* Nor does any other path lead there, of whatever values it is made.      *)
THEOREM NoPathForges ==
    CircuitsSpec => [](\A cm \in Leaf, idx \in 0 .. Capacity - 1 : \A path :
                          MerkleVerify(cm, path, idx) = Root
                              => idx < Len(leaves) /\ leaves[idx + 1] = cm)
<1>1. TreeInv => \A cm \in Leaf, idx \in 0 .. Capacity - 1 : \A path :
                    MerkleVerify(cm, path, idx) = Root => idx < Len(leaves) /\ leaves[idx + 1] = cm
  BY AnyPathBinds
<1> QED BY <1>1, TreeInvariant, PTL

==========================================================================
