------------------------- MODULE BundleBalance --------------------------
(***************************************************************************)
(* The amount section of guests::bundle (research/src/guests.rs): six      *)
(* 64-bit amounts held as two 32-bit words each, six range checks, four    *)
(* carry-aware additions (asm::emit_add64_carry) and one comparison, each  *)
(* folding a failure into the taint register `bad`.  ShieldedPool uses the *)
(* section's outcome as BalanceViolation and RangeViolation; here it is    *)
(* computed word by word.                                                  *)
(***************************************************************************)
EXTENDS Integers

CONSTANTS
    Half,       \* 2^31 in the code: half a word's range, so that Word is even
    Words       \* the words an amount is made of (all of Word in the code)

Word == Half + Half

ASSUME WordAssumption == Half \in Nat \ {0} /\ Words \subseteq 0 .. Word - 1

VARIABLES
    amount,     \* the private inputs: slot |-> [lo, hi]
    step,       \* which group of instructions runs next
    sumIn, sumOut,
    bad         \* the taint accumulator

vars == <<amount, step, sumIn, sumOut, bad>>

In1 == 1   In2 == 2   Out1 == 3   Out2 == 4   Fee == 5   Burn == 6
Slot == In1 .. Burn
Done == 12

TwoWords == [lo : 0 .. Word - 1, hi : 0 .. Word - 1]

-----------------------------------------------------------------------------
(* The machine's instructions. *)

Add(a, b) == IF a + b < Word THEN a + b ELSE a + b - Word
Sltu(a, b) == a < b

(* emit_range_check_u63: the top bit of the high word. *)
RangeCheck(x) == ~Sltu(x.hi, Half)

(* Mutation: only the first of the high word's two additions is checked. *)
AddCarry_FirstOnly(s, x) ==
    LET low == Add(s.lo, x.lo)
        mid == Add(s.hi, x.hi)
    IN  [sum |-> [lo |-> low, hi |-> IF Sltu(low, s.lo) THEN Add(mid, 1) ELSE mid],
         carry |-> Sltu(mid, s.hi)]

(* emit_add64_carry: the low word's carry, then the high word in two       *)
(* separately checked additions.                                           *)
AddCarry(s, x) ==
    LET low == Add(s.lo, x.lo)
        lowCarry == Sltu(low, s.lo)
        mid == Add(s.hi, x.hi)
        high == IF lowCarry THEN Add(mid, 1) ELSE mid
    IN  [sum |-> [lo |-> low, hi |-> high],
         carry |-> Sltu(mid, s.hi) \/ Sltu(high, mid)]

-----------------------------------------------------------------------------
(* The section, one action per group of instructions. *)

Init ==
    /\ amount \in [Slot -> [lo : Words, hi : Words]]
    /\ step = 1 /\ bad = FALSE
    /\ sumIn = [lo |-> 0, hi |-> 0] /\ sumOut = [lo |-> 0, hi |-> 0]

CheckRange ==
    /\ step \in Slot
    /\ bad' = (bad \/ RangeCheck(amount[step]))
    /\ step' = step + 1
    /\ UNCHANGED <<amount, sumIn, sumOut>>

AddInputs ==
    /\ step = 7
    /\ LET r == AddCarry(amount[In1], amount[In2])
       IN  sumIn' = r.sum /\ bad' = (bad \/ r.carry)
    /\ step' = 8
    /\ UNCHANGED <<amount, sumOut>>

AddOutputs ==
    /\ step = 8
    /\ LET r == AddCarry(amount[Out1], amount[Out2])
       IN  sumOut' = r.sum /\ bad' = (bad \/ r.carry)
    /\ step' = 9
    /\ UNCHANGED <<amount, sumIn>>

AddTo(slot, at) ==
    /\ step = at
    /\ LET r == AddCarry(sumOut, amount[slot])
       IN  sumOut' = r.sum /\ bad' = (bad \/ r.carry)
    /\ step' = at + 1
    /\ UNCHANGED <<amount, sumIn>>

CompareSums ==
    /\ step = 11
    /\ bad' = (bad \/ sumIn.lo # sumOut.lo \/ sumIn.hi # sumOut.hi)
    /\ step' = Done
    /\ UNCHANGED <<amount, sumIn, sumOut>>

Next == CheckRange \/ AddInputs \/ AddOutputs \/ AddTo(Fee, 9) \/ AddTo(Burn, 10) \/ CompareSums

Spec == Init /\ [][Next]_vars

-----------------------------------------------------------------------------
(* What the section is for. *)

Value(x) == x.lo + Word * x.hi

Spent == Value(amount[In1]) + Value(amount[In2])
Paid == Value(amount[Out1]) + Value(amount[Out2]) + Value(amount[Fee]) + Value(amount[Burn])

InRange == \A s \in Slot : Value(amount[s]) < Word * Half

(* Soundness and completeness at once: the run ends clean exactly when     *)
(* every amount is below 2^63 and the amounts balance over the natural     *)
(* numbers.  A lost carry, or a carry raised in error, would show here.    *)
CleanIffBalanced == step = Done => (~bad <=> InRange /\ Spent = Paid)

(* While no taint is set the two registers hold exact sums, whatever the   *)
(* order in which the words overflow.                                      *)
ExactWhileClean ==
    ~bad =>
        /\ step > 7 => Value(sumIn) = Spent
        /\ step = 9 => Value(sumOut) = Value(amount[Out1]) + Value(amount[Out2])
        /\ step > 10 => Value(sumOut) = Paid

=========================================================================
