---------------------------- MODULE NotePool ----------------------------
(***************************************************************************)
(* What the shielded pool of research/src/ledger.rs promises, with no      *)
(* tree, nullifier, proof or clock: a set of notes that can still be spent *)
(* and a set of notes that have been.  Value enters by a deposit, moves    *)
(* from spent notes to fresh ones of the same asset, and leaves only as a  *)
(* fee or a burn.  A note of amount zero carries no value and is invisible *)
(* at this level: the ledger lets one be "spent" that never was a leaf of  *)
(* the tree (a dummy input of a bundle).                                   *)
(***************************************************************************)
EXTENDS Integers

CONSTANTS U64,          \* 2^64 in the code: amounts are 0 .. U64 - 1
          Native        \* the asset fees are charged in (asset 0)

VARIABLES live,         \* the valued notes that can still be spent
          dead,         \* the valued notes that have been spent
          deposited,    \* the valued notes that came from outside
          fees,         \* total of the fees, saturated at U64 - 1
          burned        \* total of the burns, saturated at U64 - 1

poolVars == <<live, dead, deposited, fees, burned>>

Valued(S) == {n \in S : n.amount > 0}

Unused(n) == n \notin live /\ n \notin dead

InRange(n) == n.amount + n.amount < U64

(* u64::saturating_add *)
SatAdd(a, b) == IF a + b < U64 THEN a + b ELSE U64 - 1

(* "No note here": the place of a slot that carries no value. *)
Nothing == [amount |-> 0]

PoolInit == live = {} /\ dead = {} /\ deposited = {} /\ fees = 0 /\ burned = 0

(* Value from outside the pool. *)
Deposit(n) ==
    /\ Unused(n) /\ InRange(n)
    /\ live' = live \cup {n}
    /\ deposited' = deposited \cup {n}
    /\ UNCHANGED <<dead, fees, burned>>

(* At most two notes become at most two fresh notes; whatever value the    *)
(* outputs do not carry leaves as fee and burn, and none appears.          *)
Spend(i1, i2, o1, o2, fee, burn) ==
    /\ i1 = i2 => i1 = Nothing
    /\ o1 = o2 => o1 = Nothing
    /\ \A o \in Valued({o1, o2}) : Unused(o) /\ InRange(o)
    /\ \A m, n \in Valued({i1, i2, o1, o2}) : m.asset = n.asset
    /\ fee > 0 => \A n \in Valued({i1, i2}) : n.asset = Native
    /\ i1.amount + i2.amount = o1.amount + o2.amount + fee + burn
    /\ live' = (live \ {i1, i2}) \cup Valued({o1, o2})
    /\ dead' = dead \cup Valued({i1, i2})
    /\ fees' = SatAdd(fees, fee)
    /\ burned' = SatAdd(burned, burn)
    /\ UNCHANGED deposited

(* The notes of a step are those it takes out of live and puts into it.    *)
PoolNext ==
    \/ \E n \in live' \ live : Deposit(n)
    \/ \E i1, i2 \in (live \ live') \cup {Nothing},
          o1, o2 \in (live' \ live) \cup {Nothing} :
           \E fee, burn \in 0 .. i1.amount + i2.amount :
               Spend(i1, i2, o1, o2, fee, burn)

PoolSpec == PoolInit /\ [][PoolNext]_poolVars
=========================================================================
