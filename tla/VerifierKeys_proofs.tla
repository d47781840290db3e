----------------------- MODULE VerifierKeys_proofs ------------------------
(***************************************************************************)
(* The two caches of verifier keys, for any number of threads and shapes   *)
(* and any capacity: their structure and bounds, a shape built once at a   *)
(* time, undisturbed installations that stick, and every answer one that   *)
(* the key service allows.                                                 *)
(***************************************************************************)
EXTENDS MCVerifierKeys, SumTheorems, SequenceTheorems

-----------------------------------------------------------------------------
(* Sequences without repetition, and what Without leaves of one. *)

Elems(s) == {s[i] : i \in 1 .. Len(s)}
Distinct(s) == \A i, j \in 1 .. Len(s) : s[i] = s[j] => i = j

(* The orders of last use and of insertion count what they name. *)
LEMMA CountDistinct ==
    ASSUME NEW S, NEW s \in Seq(S), Distinct(s)
    PROVE  /\ IsFiniteSet(Elems(s)) /\ Cardinality(Elems(s)) = Len(s)
           /\ Len(s) \in Nat
<1>1. s \in [1 .. Len(s) -> Elems(s)] /\ Len(s) \in Nat  BY DEF Elems
<1>2. s \in Bijection(1 .. Len(s), Elems(s))
  BY <1>1 DEF Bijection, Injection, Surjection, IsInjective, Elems, Distinct
<1>3. ExistsBijection(1 .. Len(s), Elems(s))  BY <1>2 DEF ExistsBijection
<1>4. IsFiniteSet(1 .. Len(s)) /\ Cardinality(1 .. Len(s)) = Len(s)
  <2> DEFINE n == Len(s)
  <2>1. n \in Nat  BY <1>1
  <2> HIDE DEF n
  <2>2. IsFiniteSet(1 .. n) /\ Cardinality(1 .. n) = IF 1 > n THEN 0 ELSE n - 1 + 1
    BY <2>1, FS_Interval
  <2>3. IsFiniteSet(1 .. n) /\ Cardinality(1 .. n) = n  BY <2>1, <2>2
  <2> QED BY <2>3 DEF n
<1> QED BY <1>1, <1>3, <1>4, FS_Bijection

LEMMA AppendDistinct ==
    ASSUME NEW S, NEW s \in Seq(S), NEW x \in S
    PROVE  /\ Append(s, x) \in Seq(S)
           /\ Elems(Append(s, x)) = Elems(s) \cup {x}
           /\ Distinct(s) /\ x \notin Elems(s) => Distinct(Append(s, x))
           /\ Len(Append(s, x)) = Len(s) + 1
<1> DEFINE w == Append(s, x)
<1>1. /\ w \in Seq(S) /\ Len(w) = Len(s) + 1 /\ Len(s) \in Nat /\ w[Len(s) + 1] = x
      /\ \A i \in 1 .. Len(s) : w[i] = s[i]
  OBVIOUS
<1> HIDE DEF w
<1>2. Elems(w) = Elems(s) \cup {x}
  <2>1. ASSUME NEW y \in Elems(w) PROVE y \in Elems(s) \cup {x}
    <3>1. PICK i \in 1 .. Len(w) : w[i] = y  BY DEF Elems
    <3> QED BY <1>1, <3>1 DEF Elems
  <2>2. ASSUME NEW y \in Elems(s) PROVE y \in Elems(w)
    <3>1. PICK i \in 1 .. Len(s) : s[i] = y  BY DEF Elems
    <3>2. i \in 1 .. Len(w) /\ w[i] = y  BY <1>1, <3>1
    <3> QED BY <3>2 DEF Elems
  <2>3. x \in Elems(w)
    <3>1. Len(s) + 1 \in 1 .. Len(w)  BY <1>1
    <3> QED BY <1>1, <3>1 DEF Elems
  <2> QED BY <2>1, <2>2, <2>3
<1>3. ASSUME Distinct(s), x \notin Elems(s) PROVE Distinct(w)
  BY <1>1, <1>3 DEF Distinct, Elems
<1> QED BY <1>1, <1>2, <1>3 DEF w

Kept(g, s, D, n) ==
    \A i \in 0 .. n : g[i] = IF i = 0 THEN <<>>
                             ELSE IF s[i] \in D THEN g[i - 1] ELSE Append(g[i - 1], s[i])

(* The recursion Without is defined by has a solution. *)
LEMMA KeptExists ==
    ASSUME NEW S, NEW s \in Seq(S), NEW D
    PROVE  \E g \in [0 .. Len(s) -> Seq(S)] : Kept(g, s, D, Len(s))
<1> DEFINE Has(n) == \E g \in [0 .. n -> Seq(S)] : Kept(g, s, D, n)
           T == {n \in Nat : n <= Len(s) => Has(n)}
<1>1. 0 \in T
  <2> DEFINE g == [i \in 0 .. 0 |-> <<>>]
  <2>1. g \in [0 .. 0 -> Seq(S)] /\ Kept(g, s, D, 0)  BY DEF Kept
  <2> QED BY <2>1
<1>2. ASSUME NEW n \in Nat, n \in T PROVE n + 1 \in T
  <2> SUFFICES ASSUME n + 1 <= Len(s) PROVE Has(n + 1)
    OBVIOUS
  <2>1. PICK g \in [0 .. n -> Seq(S)] : Kept(g, s, D, n)
    BY <1>2
  <2> DEFINE new == IF s[n + 1] \in D THEN g[n] ELSE Append(g[n], s[n + 1])
             h == [i \in 0 .. n + 1 |-> IF i = n + 1 THEN new ELSE g[i]]
  <2>2. new \in Seq(S)
    <3>1. s[n + 1] \in S /\ g[n] \in Seq(S)  BY <2>1
    <3> QED BY <3>1
  <2>3. h \in [0 .. n + 1 -> Seq(S)]
    <3> HIDE DEF new
    <3>1. \A i \in 0 .. n + 1 : i # n + 1 => i \in 0 .. n  OBVIOUS
    <3> QED BY <2>1, <2>2, <3>1
  <2>4. \A i \in 0 .. n : h[i] = g[i]  OBVIOUS
  <2>5. h[n + 1] = new  OBVIOUS
  <2>6. Kept(h, s, D, n + 1)
    <3> SUFFICES ASSUME NEW i \in 0 .. n + 1
                 PROVE  h[i] = IF i = 0 THEN <<>>
                               ELSE IF s[i] \in D THEN h[i - 1] ELSE Append(h[i - 1], s[i])
      BY DEF Kept
    <3> HIDE DEF h
    <3>1. CASE i = n + 1
      <4>1. h[i] = new /\ i # 0 /\ i - 1 = n /\ h[i - 1] = g[n]  BY <2>4, <2>5, <3>1
      <4> QED BY <3>1, <4>1
    <3>2. CASE i \in 0 .. n
      <4>1. h[i] = g[i] /\ (i # 0 => h[i - 1] = g[i - 1])  BY <2>4, <3>2
      <4> QED BY <2>1, <3>2, <4>1 DEF Kept
    <3> QED BY <3>1, <3>2
  <2> HIDE DEF h
  <2> QED BY <2>3, <2>6
<1>3. Len(s) \in T
  <2> HIDE DEF T
  <2> QED BY <1>1, <1>2, NatSetInduction
<1> QED BY <1>3

(* Without keeps the members that are not in D, and repeats none. *)
LEMMA WithoutFacts ==
    ASSUME NEW S, NEW s \in Seq(S), NEW D
    PROVE  /\ Without(s, D) \in Seq(S)
           /\ Elems(Without(s, D)) = Elems(s) \ D
           /\ Distinct(s) => Distinct(Without(s, D))
<1> DEFINE rec(g) == [i \in 0 .. Len(s) |->
                         IF i = 0 THEN <<>>
                         ELSE IF s[i] \in D THEN g[i - 1] ELSE Append(g[i - 1], s[i])]
           kept == CHOOSE g : g = rec(g)
           Before(n) == {s[i] : i \in 1 .. n}
           Good(w, n) == /\ w \in Seq(S)
                         /\ Elems(w) = Before(n) \ D
                         /\ Distinct(s) => Distinct(w)
           T == {n \in Nat : n <= Len(s) => Good(kept[n], n)}
<1>1. PICK g \in [0 .. Len(s) -> Seq(S)] : Kept(g, s, D, Len(s))
  BY KeptExists
<1>2. g = rec(g)
  BY <1>1 DEF Kept
<1>3. kept = rec(kept)
  BY <1>2
<1>4. Without(s, D) = kept[Len(s)]
  BY DEF Without
<1>5. Kept(kept, s, D, Len(s))
  <2> HIDE DEF kept
  <2> QED BY <1>3 DEF Kept
<1> HIDE DEF kept
<1>6. 0 \in T
  <2>1. kept[0] = <<>>  BY <1>5 DEF Kept
  <2>2. Before(0) = {} /\ Elems(<<>>) = {} /\ Distinct(<<>>) /\ <<>> \in Seq(S)
    BY DEF Elems, Distinct
  <2> HIDE DEF Before
  <2> QED BY <2>1, <2>2
<1>7. ASSUME NEW n \in Nat, n \in T PROVE n + 1 \in T
  <2> SUFFICES ASSUME n + 1 <= Len(s) PROVE Good(kept[n + 1], n + 1)
    OBVIOUS
  <2> DEFINE x == s[n + 1]
             w == kept[n]
  <2>1. Good(w, n)
    <3>1. n <= Len(s)  OBVIOUS
    <3> QED BY <1>7, <3>1
  <2>2. kept[n + 1] = IF x \in D THEN w ELSE Append(w, x)
    BY <1>5 DEF Kept
  <2>3. x \in S /\ Before(n + 1) = Before(n) \cup {x}
    <3>1. x \in S  OBVIOUS
    <3>2. 1 .. n + 1 = (1 .. n) \cup {n + 1}  OBVIOUS
    <3> QED BY <3>1, <3>2
  <2>4. Distinct(s) => x \notin Before(n)  BY DEF Distinct
  <2> HIDE DEF x, w, Before
  <2>5. CASE x \in D  BY <2>1, <2>2, <2>3, <2>5
  <2>6. CASE x \notin D
    <3>1. w \in Seq(S) /\ Elems(w) = Before(n) \ D  BY <2>1
    <3>2. /\ Append(w, x) \in Seq(S) /\ Elems(Append(w, x)) = Elems(w) \cup {x}
          /\ Distinct(w) /\ x \notin Elems(w) => Distinct(Append(w, x))
      BY <2>3, <3>1, AppendDistinct
    <3>3. kept[n + 1] = Append(w, x)  BY <2>2, <2>6
    <3>4. Elems(Append(w, x)) = Before(n + 1) \ D  BY <2>3, <2>6, <3>1, <3>2
    <3>5. Distinct(s) => Distinct(Append(w, x))  BY <2>1, <2>4, <3>1, <3>2
    <3> QED BY <3>2, <3>3, <3>4, <3>5
  <2> QED BY <2>5, <2>6
<1>8. Len(s) \in T
  <2> HIDE DEF T
  <2>1. Len(s) \in Nat  OBVIOUS
  <2> QED BY <1>6, <1>7, <2>1, NatSetInduction
<1>9. Before(Len(s)) = Elems(s)  BY DEF Elems
<1> QED BY <1>4, <1>8, <1>9

-----------------------------------------------------------------------------
(* What makes the structure of the RV32 machine's cache inductive. *)

Allowed(s) == {Built(s)} \cup offered[s]
InCall(t) == pc[t] # "idle"

OrderInv == order \in Seq(Shapes) /\ Distinct(order) /\ Elems(order) = Mapped

MapInv ==
    /\ Mapped \subseteq Shapes
    /\ \A s \in Mapped : /\ map[s] \in [slot : Slots, pinned : BOOLEAN]
                         /\ slot[map[s].slot].of = s

(* A slot's key is one for its shape, built or offered. *)
KeyInv ==
    \A i \in Slots : Filled(i) =>
        /\ slot[i].of \in Shapes /\ KeyShape(slot[i].key) = slot[i].of
        /\ slot[i].key \in Allowed(slot[i].of)

(* A thread in a call holds a slot of its shape, which is the one the map  *)
(* has unless the entry was evicted; an idle thread holds none.            *)
HandleInv ==
    \A t \in Threads :
        /\ ~InCall(t) => hold[t] = None /\ req[t] = NoCall
        /\ InCall(t) => /\ hold[t] \in Slots /\ req[t].shape \in Shapes
                        /\ slot[hold[t]].of = req[t].shape
        /\ InCall(t) /\ t \notin jostled =>
               req[t].shape \in Mapped /\ map[req[t].shape].slot = hold[t]

(* How far each thread is with its slot. *)
StageInv ==
    \A t \in Threads :
        /\ pc[t] \in {"set", "pin"} =>
               /\ req[t].key \in Keys /\ KeyShape(req[t].key) = req[t].shape
               /\ req[t].key \in Allowed(req[t].shape)
        /\ pc[t] = "pin" => slot[hold[t]].key = req[t].key
        /\ pc[t] = "build" => ~Filled(hold[t])

OneBuilder ==
    \A t, u \in Threads : pc[t] = "build" /\ pc[u] = "build" /\ hold[t] = hold[u] => t = u

KeysInv ==
    /\ TypeOK /\ OrderInv /\ MapInv /\ KeyInv /\ HandleInv /\ StageInv /\ OneBuilder
    /\ Bounded /\ QuietInstallSticks

LEMMA MappedCount ==
    ASSUME OrderInv
    PROVE  IsFiniteSet(Mapped) /\ Cardinality(Mapped) = Len(order) /\ Cardinality(Mapped) \in Nat
BY CountDistinct DEF OrderInv

LEMMA InvIsCacheInv == KeysInv => CacheInv /\ SingleFlight
<1> SUFFICES ASSUME KeysInv PROVE CacheInv /\ SingleFlight
  OBVIOUS
<1>1. OrderIsMap  BY MappedCount DEF KeysInv, OrderInv, OrderIsMap, Elems
<1>2. SlotsAreShapes
  BY DEF KeysInv, SlotsAreShapes, MapInv, KeyInv, HandleInv, InCall
<1>3. SingleFlight
  BY DEF KeysInv, SingleFlight, HandleInv, OneBuilder, InCall
<1> QED BY <1>1, <1>2, <1>3 DEF KeysInv, CacheInv

-----------------------------------------------------------------------------
(* Eviction. *)

(* What a miss evicts is mapped and not pinned, and leaves the cache       *)
(* within its bound once the new shape is in.                              *)
LEMMA EvictionBounds ==
    ASSUME OrderInv, NEW s, s \notin Mapped
    PROVE  /\ Evicted \subseteq Mapped \ Pinned
           /\ \/ Cardinality((Mapped \ Evicted) \cup {s}) <= Capacity
              \/ Evicted = Mapped \ Pinned
<1> DEFINE idle == Without(order, Pinned)
           m == Cardinality(Mapped)
           over == m + 1 - Capacity
           q == Len(idle)
           Gone == {idle[i] : i \in {j \in 1 .. q : j <= over}}
<1>1. /\ idle \in Seq(Shapes) /\ Elems(idle) = Mapped \ Pinned /\ Distinct(idle)
  BY WithoutFacts DEF OrderInv
<1>2. m \in Nat /\ Capacity \in Nat /\ Capacity > 0 /\ over \in Int /\ q \in Nat /\ IsFiniteSet(Mapped)
  BY <1>1, MappedCount, CapacityAssumption
<1>3. Evicted = Gone  BY DEF Evicted
<1> HIDE DEF idle, over, m
<1>4. Gone \subseteq Elems(idle)  BY DEF Elems
<1>5. CASE over <= 0
  <2>1. Gone = {}  BY <1>2, <1>5
  <2>2. (Mapped \ Gone) \cup {s} = Mapped \cup {s}  BY <2>1
  <2>3. Cardinality(Mapped \cup {s}) = m + 1  BY <1>2, FS_AddElement DEF m
  <2>4. m + 1 <= Capacity  BY <1>2, <1>5 DEF over
  <2> QED BY <1>1, <1>3, <1>4, <2>2, <2>3, <2>4
<1>6. CASE over >= q
  <2>1. \A i \in 1 .. q : i <= over  BY <1>2, <1>6
  <2>2. Gone = Elems(idle)  BY <2>1 DEF Elems
  <2> QED BY <1>1, <1>3, <2>2
<1>7. CASE 0 < over /\ over < q
  <2> DEFINE first == SubSeq(idle, 1, over)
  <2>1. /\ first \in Seq(Shapes) /\ Len(first) = over
        /\ \A i \in 1 .. over : first[i] = idle[i]
    <3>1. \A i \in 1 .. over : idle[i] \in Shapes  BY <1>1, <1>2, <1>7
    <3>2. /\ first \in Seq(Shapes) /\ Len(first) = IF 1 <= over THEN over - 1 + 1 ELSE 0
          /\ \A i \in 1 .. over - 1 + 1 : first[i] = idle[1 + i - 1]
      BY <1>2, <3>1, SubSeqProperties
    <3>3. over - 1 + 1 = over /\ 1 <= over /\ \A i \in 1 .. over : 1 + i - 1 = i  BY <1>2, <1>7
    <3> QED BY <3>2, <3>3
  <2> HIDE DEF first
  <2>2. Elems(first) = Gone
    <3>1. {j \in 1 .. q : j <= over} = 1 .. over  BY <1>2, <1>7
    <3> QED BY <2>1, <3>1 DEF Elems
  <2>3. Distinct(first)  BY <1>1, <1>2, <1>7, <2>1 DEF Distinct
  <2>4. Cardinality(Gone) = over  BY <2>1, <2>2, <2>3, CountDistinct
  <2> DEFINE left == Mapped \ Gone
  <2>5. IsFiniteSet(left) /\ Cardinality(left) = m - over
    <3>1. Mapped \cap Gone = Gone  BY <1>1, <1>4
    <3> HIDE DEF Gone
    <3>2. /\ IsFiniteSet(left)
          /\ Cardinality(left) = Cardinality(Mapped) - Cardinality(Mapped \cap Gone)
      BY <1>2, FS_Difference
    <3> QED BY <2>4, <3>1, <3>2 DEF m
  <2>6. s \notin left  OBVIOUS
  <2> HIDE DEF left
  <2>7. Cardinality(left \cup {s}) = m - over + 1  BY <2>5, <2>6, FS_AddElement
  <2>8. m - over + 1 = Capacity  BY <1>2 DEF over
  <2> QED BY <1>1, <1>2, <1>3, <1>4, <2>7, <2>8 DEF left
<1> QED BY <1>2, <1>5, <1>6, <1>7

(* The slot a call gets: the one its shape has, or a fresh one, for which  *)
(* unpinned entries may have had to leave.                                 *)
Acquired(t, s) ==
    /\ order' \in Seq(Shapes) /\ Distinct(order') /\ Elems(order') = DOMAIN map'
    /\ s \in DOMAIN map' /\ DOMAIN map' \subseteq Mapped \cup {s}
    /\ \A r \in (DOMAIN map') \cap Mapped : map'[r] = map[r]
    /\ map'[s] \in [slot : Slots, pinned : BOOLEAN]
    /\ map' = [r \in DOMAIN map' |-> map'[r]]
    /\ hold' = [hold EXCEPT ![t] = map'[s].slot]
    /\ Pinned \subseteq DOMAIN map'
    /\ slot' \in [Slots -> [of : Shapes \cup {None}, key : Keys \cup {None}]]
    /\ s \notin Mapped => ~Live(map'[s].slot) /\ slot'[map'[s].slot] = [of |-> s, key |-> None]
    /\ \A i \in Slots : Live(i) /\ Live(i)' => slot'[i] = slot[i]
    /\ \A i \in Slots : slot'[i].key # None => slot'[i] = slot[i]
    /\ jostled \subseteq jostled' /\ jostled' \subseteq Threads
    /\ \A u \in Threads : \A r \in Mapped \ DOMAIN map' : hold[u] = map[r].slot => u \in jostled'
    /\ \/ Cardinality(DOMAIN map') <= Capacity
       \/ (DOMAIN map') \ {r \in DOMAIN map' : map'[r].pinned} \subseteq {s}
       \/ DOMAIN map' = Mapped /\ map' = map

LEMMA UseSlotAcquires ==
    ASSUME KeysInv, NEW t \in Threads, NEW s \in Shapes, UseSlot(t, s)
    PROVE  Acquired(t, s)
<1>1. CASE s \in Mapped
  <2>1. /\ order' = Append(Without(order, {s}), s) /\ UNCHANGED <<map, slot, jostled>>
        /\ hold' = [hold EXCEPT ![t] = map[s].slot]
    BY <1>1 DEF UseSlot
  <2> DEFINE rest == Without(order, {s})
  <2>2. rest \in Seq(Shapes) /\ Distinct(rest) /\ Elems(rest) = Mapped \ {s}
    BY WithoutFacts DEF KeysInv, OrderInv
  <2> HIDE DEF rest
  <2>3. /\ Append(rest, s) \in Seq(Shapes) /\ Distinct(Append(rest, s))
        /\ Elems(Append(rest, s)) = (Mapped \ {s}) \cup {s}
    BY <2>2, AppendDistinct
  <2>4. order' \in Seq(Shapes) /\ Distinct(order') /\ Elems(order') = DOMAIN map'
    BY <1>1, <2>1, <2>3 DEF rest, Mapped
  <2>5. \A r \in Mapped : map[r] \in [slot : Slots, pinned : BOOLEAN]
    BY DEF KeysInv, MapInv
  <2>6. /\ map = [r \in Mapped |-> map[r]] /\ jostled \subseteq Threads
        /\ slot \in [Slots -> [of : Shapes \cup {None}, key : Keys \cup {None}]]
    BY DEF KeysInv, TypeOK
  <2>7. Pinned \subseteq Mapped /\ DOMAIN map' = Mapped  BY <2>1 DEF Pinned, Mapped
  <2> HIDE DEF Mapped, Pinned
  <2> QED BY <1>1, <2>1, <2>4, <2>5, <2>6, <2>7 DEF Acquired
<1>2. CASE s \notin Mapped
  <2>1. /\ order' = Append(Without(order, Evicted), s)
        /\ jostled' = jostled \cup
             {u \in Threads : \E s2 \in Evicted : hold[u] = map[s2].slot}
    BY <1>2 DEF UseSlot
  <2>2. PICK i \in Slots :
            /\ Fresh(i)
            /\ map' = [r \in (Mapped \ Evicted) \cup {s} |->
                         IF r = s THEN [slot |-> i, pinned |-> FALSE] ELSE map[r]]
            /\ hold' = [hold EXCEPT ![t] = i]
            /\ Slots_([slot EXCEPT ![i] = [of |-> s, key |-> None]])
    BY <1>2 DEF UseSlot
  <2>3. /\ Evicted \subseteq Mapped \ Pinned
        /\ \/ Cardinality((Mapped \ Evicted) \cup {s}) <= Capacity
           \/ Evicted = Mapped \ Pinned
    BY <1>2, EvictionBounds DEF KeysInv
  <2> DEFINE rest == Without(order, Evicted)
  <2>4. rest \in Seq(Shapes) /\ Distinct(rest) /\ Elems(rest) = Mapped \ Evicted
    BY WithoutFacts DEF KeysInv, OrderInv
  <2> HIDE DEF rest
  <2>5. /\ Append(rest, s) \in Seq(Shapes) /\ Distinct(Append(rest, s))
        /\ Elems(Append(rest, s)) = (Mapped \ Evicted) \cup {s}
    BY <1>2, <2>4, AppendDistinct
  <2>6. /\ DOMAIN map' = (Mapped \ Evicted) \cup {s}
        /\ map'[s] = [slot |-> i, pinned |-> FALSE]
        /\ \A r \in Mapped \ Evicted : map'[r] = map[r]
        /\ map' = [r \in DOMAIN map' |-> map'[r]]
    BY <1>2, <2>2
  <2>7. order' \in Seq(Shapes) /\ Distinct(order') /\ Elems(order') = DOMAIN map'
    BY <2>1, <2>5, <2>6 DEF rest
  <2>8. /\ slot \in [Slots -> [of : Shapes \cup {None}, key : Keys \cup {None}]]
        /\ hold \in [Threads -> Slots \cup {None}] /\ jostled \subseteq Threads
    BY DEF KeysInv, TypeOK
  <2> DEFINE contents == [slot EXCEPT ![i] = [of |-> s, key |-> None]]
  <2>9. /\ contents \in [Slots -> [of : Shapes \cup {None}, key : Keys \cup {None}]]
        /\ contents[i] = [of |-> s, key |-> None]
        /\ \A j \in Slots : j # i => contents[j] = slot[j]
    BY <2>8
  <2>10. slot' = [j \in Slots |-> IF Live(j)' THEN contents[j] ELSE Empty]
    BY <2>2 DEF Slots_
  <2> HIDE DEF contents
  <2>11. /\ slot' \in [Slots -> [of : Shapes \cup {None}, key : Keys \cup {None}]]
         /\ \A j \in Slots : Live(j)' => slot'[j] = contents[j]
         /\ \A j \in Slots : ~Live(j)' => slot'[j] = Empty
    <3>1. Empty \in [of : Shapes \cup {None}, key : Keys \cup {None}]  BY DEF Empty
    <3> QED BY <2>9, <2>10, <3>1
  <2>12. ~Live(i)  BY <2>2 DEF Fresh
  <2>13. Live(i)'
    <3>1. s \in DOMAIN map' /\ map'[s].slot = i  BY <2>6
    <3> QED BY <3>1 DEF Live, Mapped
  <2>14. slot'[i] = [of |-> s, key |-> None]  BY <2>9, <2>11, <2>13
  <2>15. \A j \in Slots : Live(j) /\ Live(j)' => slot'[j] = slot[j]
    BY <2>9, <2>11, <2>12
  <2>16. \A j \in Slots : slot'[j].key # None => slot'[j] = slot[j]
    <3> SUFFICES ASSUME NEW j \in Slots, slot'[j].key # None PROVE slot'[j] = slot[j]
      OBVIOUS
    <3>1. slot'[j] # Empty  BY DEF Empty
    <3>2. j # i  BY <2>14
    <3> QED BY <2>9, <2>11, <3>1, <3>2
  <2>17. \/ Cardinality(DOMAIN map') <= Capacity
         \/ (DOMAIN map') \ {r \in DOMAIN map' : map'[r].pinned} \subseteq {s}
    <3>1. CASE Evicted = Mapped \ Pinned
      <4>1. \A r \in DOMAIN map' : r # s => map'[r].pinned
        BY <2>6, <3>1 DEF Pinned
      <4> QED BY <4>1
    <3> QED BY <2>3, <2>6, <3>1
  <2>18. \A u \in Threads : \A r \in Mapped \ DOMAIN map' : hold[u] = map[r].slot => u \in jostled'
    BY <2>1, <2>6
  <2>19. map'[s] \in [slot : Slots, pinned : BOOLEAN] /\ map'[s].slot = i
    BY <2>6
  <2>20. Pinned \subseteq DOMAIN map'  BY <2>3, <2>6 DEF Pinned
  <2>21. \A r \in (DOMAIN map') \cap Mapped : map'[r] = map[r]
    BY <1>2, <2>6
  <2> QED
    BY <1>2, <2>1, <2>2, <2>3, <2>6, <2>7, <2>8, <2>11, <2>12, <2>14, <2>15, <2>16,
       <2>17, <2>18, <2>19, <2>20, <2>21 DEF Acquired
<1> QED BY <1>1, <1>2

-----------------------------------------------------------------------------
(* Each step keeps the cache's structure. *)

(* A call starts: verifier_key's and install_verifier_key's first critical *)
(* section.                                                                *)
LEMMA BeginKeeps ==
    ASSUME KeysInv, NEW t \in Threads, NEW s \in Shapes, ~InCall(t), Acquired(t, s),
           NEW stage, NEW k, Begin(t, stage, s, k), installed' = installed,
           \/ stage = "get" /\ k = None /\ offered' = offered
           \/ /\ stage = "set" /\ k \in Keys /\ KeyShape(k) = s
              /\ offered' = [offered EXCEPT ![s] = @ \cup ({k} \ {Built(s)})]
    PROVE  KeysInv'
<1> DEFINE mine == map'[s].slot
           After(r) == {Built(r)} \cup offered'[r]
<1>1. /\ pc \in [Threads -> {"idle", "get", "build", "set", "pin"}]
      /\ req \in [Threads -> [shape : Shapes \cup {None}, key : Keys \cup {None}]]
      /\ hold \in [Threads -> Slots \cup {None}]
      /\ handed \in [Threads -> Keys \cup {None}]
      /\ offered \in [Shapes -> SUBSET Keys]
      /\ None \notin Keys /\ None \notin Shapes /\ None \notin Slots
  BY NoneAssumption DEF KeysInv, TypeOK
<1>2. /\ pc' = [pc EXCEPT ![t] = stage]
      /\ req' = [req EXCEPT ![t] = [shape |-> s, key |-> k]]
      /\ handed' = [handed EXCEPT ![t] = None]
      /\ hold' = [hold EXCEPT ![t] = mine] /\ mine \in Slots
  BY DEF Begin, Acquired
<1>3. /\ pc'[t] = stage /\ req'[t].shape = s /\ req'[t].key = k /\ hold'[t] = mine
      /\ \A u \in Threads : u # t => pc'[u] = pc[u] /\ req'[u] = req[u] /\ hold'[u] = hold[u]
  BY <1>1, <1>2
<1>4. stage \in {"get", "set"} /\ k \in Keys \cup {None}
  OBVIOUS
<1>5. /\ offered' \in [Shapes -> SUBSET Keys]
      /\ \A r \in Shapes : offered[r] \subseteq offered'[r]
      /\ stage = "set" => k \in {Built(s)} \cup offered'[s]
  BY <1>1
<1>6. \A r \in Shapes : Allowed(r) \subseteq After(r)
  BY <1>5 DEF Allowed
<1>7. /\ s \in DOMAIN map' /\ DOMAIN map' \subseteq Mapped \cup {s}
      /\ \A r \in (DOMAIN map') \cap Mapped : map'[r] = map[r]
      /\ map'[s] \in [slot : Slots, pinned : BOOLEAN] /\ Pinned \subseteq DOMAIN map'
      /\ s \notin Mapped => ~Live(mine) /\ slot'[mine] = [of |-> s, key |-> None]
      /\ \A i \in Slots : Live(i) /\ Live(i)' => slot'[i] = slot[i]
      /\ \A i \in Slots : slot'[i].key # None => slot'[i] = slot[i]
      /\ jostled \subseteq jostled' /\ jostled' \subseteq Threads
      /\ \A u \in Threads : \A r \in Mapped \ DOMAIN map' : hold[u] = map[r].slot => u \in jostled'
      /\ map' = [r \in DOMAIN map' |-> map'[r]]
      /\ slot' \in [Slots -> [of : Shapes \cup {None}, key : Keys \cup {None}]]
  BY DEF Acquired
<1>8. MapInv /\ HandleInv /\ StageInv /\ KeyInv
  BY DEF KeysInv
<1>9. \A r \in DOMAIN map' : r \in Shapes /\ map'[r] \in [slot : Slots, pinned : BOOLEAN]
  BY <1>7, <1>8 DEF MapInv
<1>10. ASSUME NEW r \in (DOMAIN map') \cap Mapped
       PROVE  map'[r].slot \in Slots /\ slot'[map'[r].slot] = slot[map'[r].slot]
  <2>1. map'[r] = map[r] /\ map[r].slot \in Slots  BY <1>7, <1>9
  <2>2. Live(map[r].slot) /\ Live(map[r].slot)'  BY <2>1 DEF Live, Mapped
  <2> QED BY <1>7, <2>1, <2>2
<1>11. ASSUME NEW u \in Threads, u # t, InCall(u)
       PROVE  hold[u] \in Slots /\ slot'[hold[u]] = slot[hold[u]]
  <2>1. hold[u] \in Slots /\ hold'[u] = hold[u]  BY <1>3, <1>8, <1>11 DEF HandleInv
  <2>2. Live(hold[u]) /\ Live(hold[u])'  BY <2>1 DEF Live
  <2> QED BY <1>7, <2>1, <2>2
<1>12. slot'[mine].of = s
  <2>1. CASE s \in Mapped
    <3>1. slot'[mine] = slot[mine] /\ map'[s] = map[s]  BY <1>7, <1>10, <2>1
    <3> QED BY <1>8, <2>1, <3>1 DEF MapInv
  <2>2. CASE s \notin Mapped  BY <1>7, <2>2
  <2> QED BY <2>1, <2>2
<1>13. TypeOK'
  <2>1. pc' \in [Threads -> {"idle", "get", "build", "set", "pin"}]  BY <1>1, <1>2, <1>4
  <2>2. /\ req' \in [Threads -> [shape : Shapes \cup {None}, key : Keys \cup {None}]]
        /\ hold' \in [Threads -> Slots \cup {None}]
        /\ handed' \in [Threads -> Keys \cup {None}]
    BY <1>1, <1>2, <1>4
  <2>3. Mapped' \subseteq Shapes /\ map' \in [Mapped' -> [slot : Slots, pinned : BOOLEAN]]
    BY <1>7, <1>9 DEF Mapped
  <2>4. installed' \in [Shapes -> Keys \cup {None}]  BY DEF KeysInv, TypeOK
  <2> QED BY <1>5, <1>7, <2>1, <2>2, <2>3, <2>4 DEF TypeOK
<1>14. OrderInv'
  BY DEF Acquired, OrderInv, Mapped
<1>15. MapInv'
  <2> SUFFICES ASSUME NEW r \in DOMAIN map' PROVE slot'[map'[r].slot].of = r
    BY <1>9 DEF MapInv, Mapped
  <2>1. CASE r = s  BY <1>12, <2>1
  <2>2. CASE r # s
    <3>1. r \in (DOMAIN map') \cap Mapped  BY <1>7, <2>2
    <3>2. map'[r] = map[r] /\ slot'[map'[r].slot] = slot[map'[r].slot]  BY <1>7, <1>10, <3>1
    <3> QED BY <1>8, <3>1, <3>2 DEF MapInv
  <2> QED BY <2>1, <2>2
<1>16. KeyInv'
  <2> SUFFICES ASSUME NEW i \in Slots, slot'[i].key # None
               PROVE  /\ slot'[i].of \in Shapes /\ KeyShape(slot'[i].key) = slot'[i].of
                      /\ slot'[i].key \in After(slot'[i].of)
    BY DEF KeyInv, Filled, Allowed
  <2>1. slot'[i] = slot[i]  BY <1>7
  <2>2. /\ slot[i].of \in Shapes /\ KeyShape(slot[i].key) = slot[i].of
        /\ slot[i].key \in Allowed(slot[i].of)
    BY <1>8, <2>1 DEF KeyInv, Filled
  <2>3. Allowed(slot[i].of) \subseteq After(slot[i].of)  BY <1>6, <2>2
  <2> QED BY <2>1, <2>2, <2>3
<1>17. HandleInv'
  <2> SUFFICES ASSUME NEW u \in Threads
               PROVE  /\ pc'[u] = "idle" => hold'[u] = None /\ req'[u] = NoCall
                      /\ pc'[u] # "idle" => /\ hold'[u] \in Slots /\ req'[u].shape \in Shapes
                                            /\ slot'[hold'[u]].of = req'[u].shape
                      /\ (pc'[u] # "idle" /\ u \notin jostled') =>
                             /\ req'[u].shape \in DOMAIN map'
                             /\ map'[req'[u].shape].slot = hold'[u]
    BY DEF HandleInv, InCall, Mapped
  <2>1. CASE u = t  BY <1>2, <1>3, <1>4, <1>7, <1>12, <2>1
  <2>2. CASE u # t /\ ~InCall(u)  BY <1>3, <1>8, <2>2 DEF HandleInv, InCall
  <2>3. CASE u # t /\ InCall(u)
    <3>1. /\ hold[u] \in Slots /\ req[u].shape \in Shapes
          /\ slot[hold[u]].of = req[u].shape
          /\ u \notin jostled => req[u].shape \in Mapped /\ map[req[u].shape].slot = hold[u]
      BY <1>8, <2>3 DEF HandleInv
    <3>2. pc'[u] = pc[u] /\ req'[u] = req[u] /\ hold'[u] = hold[u] /\ slot'[hold[u]] = slot[hold[u]]
      BY <1>3, <1>11, <2>3
    <3>3. u \notin jostled' => req[u].shape \in DOMAIN map' /\ map'[req[u].shape].slot = hold[u]
      <4> SUFFICES ASSUME u \notin jostled'
                   PROVE  req[u].shape \in DOMAIN map' /\ map'[req[u].shape].slot = hold[u]
        OBVIOUS
      <4>1. req[u].shape \in Mapped /\ map[req[u].shape].slot = hold[u]  BY <1>7, <3>1
      <4>2. req[u].shape \in DOMAIN map'  BY <1>7, <4>1
      <4> QED BY <1>7, <4>1, <4>2
    <3> QED BY <2>3, <3>1, <3>2, <3>3 DEF InCall
  <2> QED BY <2>1, <2>2, <2>3
<1>18. StageInv'
  <2> SUFFICES ASSUME NEW u \in Threads
               PROVE  /\ pc'[u] \in {"set", "pin"} =>
                             /\ req'[u].key \in Keys /\ KeyShape(req'[u].key) = req'[u].shape
                             /\ req'[u].key \in After(req'[u].shape)
                      /\ pc'[u] = "pin" => slot'[hold'[u]].key = req'[u].key
                      /\ pc'[u] = "build" => slot'[hold'[u]].key = None
    BY DEF StageInv, Filled, Allowed
  <2>1. CASE u = t  BY <1>3, <1>4, <1>5, <2>1
  <2>2. CASE u # t
    <3>1. pc'[u] = pc[u] /\ req'[u] = req[u] /\ hold'[u] = hold[u]  BY <1>3, <2>2
    <3>2. pc[u] \in {"set", "pin"} =>
             /\ req[u].key \in Keys /\ KeyShape(req[u].key) = req[u].shape
             /\ req[u].key \in Allowed(req[u].shape) /\ req[u].shape \in Shapes
      BY <1>8 DEF StageInv, HandleInv, InCall
    <3>3. pc[u] \in {"pin", "build"} => slot'[hold[u]] = slot[hold[u]]
      BY <1>11, <2>2 DEF InCall
    <3>4. pc[u] = "pin" => slot[hold[u]].key = req[u].key
      BY <1>8 DEF StageInv
    <3>5. pc[u] = "build" => slot[hold[u]].key = None
      BY <1>8 DEF StageInv, Filled
    <3>6. pc[u] \in {"set", "pin"} => req[u].key \in After(req[u].shape)
      BY <1>6, <3>2
    <3> QED BY <3>1, <3>2, <3>3, <3>4, <3>5, <3>6
  <2> QED BY <2>1, <2>2
<1>19. OneBuilder'
  BY <1>3, <1>4 DEF OneBuilder, KeysInv
<1>20. Bounded'
  <2>1. CASE (DOMAIN map') \ {r \in DOMAIN map' : map'[r].pinned} \subseteq {s}
    <3> DEFINE free == (DOMAIN map') \ {r \in DOMAIN map' : map'[r].pinned}
    <3>1. free \in SUBSET {s}  BY <2>1
    <3> HIDE DEF free
    <3>2. IsFiniteSet({s}) /\ Cardinality({s}) = 1  BY FS_Singleton
    <3>3. Cardinality(free) <= 1  BY <3>1, <3>2, FS_Subset
    <3> QED BY <3>3 DEF free, Bounded, Mapped, Pinned
  <2>2. CASE Cardinality(DOMAIN map') <= Capacity  BY <2>2 DEF Bounded, Mapped
  <2>3. CASE map' = map  BY <2>3 DEF KeysInv, Bounded, Mapped, Pinned
  <2> QED BY <2>1, <2>2, <2>3 DEF Acquired
<1>21. QuietInstallSticks'
  <2> SUFFICES ASSUME NEW r \in Shapes, installed[r] # None
               PROVE  /\ r \in DOMAIN map' /\ map'[r].pinned
                      /\ slot'[map'[r].slot].key = installed[r]
    BY DEF QuietInstallSticks, Mapped, Pinned
  <2>1. r \in Pinned /\ slot[map[r].slot].key = installed[r]
    BY DEF KeysInv, QuietInstallSticks
  <2>2. r \in (DOMAIN map') \cap Mapped /\ map[r].pinned  BY <1>7, <2>1 DEF Pinned
  <2>3. map'[r] = map[r]  BY <1>7, <2>2
  <2> QED BY <1>10, <2>1, <2>2, <2>3
<1> QED BY <1>13, <1>14, <1>15, <1>16, <1>17, <1>18, <1>19, <1>20, <1>21 DEF KeysInv

(* A call ends, the caller's handle with it: at most the slot it built is  *)
(* filled and at most its shape is pinned.                                 *)
LEMMA EndKeeps ==
    ASSUME KeysInv, NEW t \in Threads, InCall(t), NEW k \in Keys, End(t, k),
           NEW contents \in [Slots -> [of : Shapes \cup {None}, key : Keys \cup {None}]],
           Slots_(contents),
           \A i \in Slots : \/ contents[i] = slot[i]
                            \/ /\ i = hold[t] /\ pc[t] = "build"
                               /\ contents[i] = [of |-> slot[i].of, key |-> Built(req[t].shape)],
           order' = order, offered' = offered,
           map' \in [Mapped -> [slot : Slots, pinned : BOOLEAN]],
           \A s \in Mapped : map'[s].slot = map[s].slot /\ (map[s].pinned => map'[s].pinned),
           \/ installed' = installed
           \/ /\ pc[t] = "pin" /\ t \notin jostled /\ map'[req[t].shape].pinned
              /\ installed' = [installed EXCEPT ![req[t].shape] = req[t].key]
    PROVE  KeysInv'
<1> DEFINE T == [of : Shapes \cup {None}, key : Keys \cup {None}]
<1>1. /\ pc \in [Threads -> {"idle", "get", "build", "set", "pin"}]
      /\ req \in [Threads -> [shape : Shapes \cup {None}, key : Keys \cup {None}]]
      /\ hold \in [Threads -> Slots \cup {None}] /\ slot \in [Slots -> T]
      /\ handed \in [Threads -> Keys \cup {None}]
      /\ offered \in [Shapes -> SUBSET Keys]
      /\ installed \in [Shapes -> Keys \cup {None}] /\ jostled \subseteq Threads
      /\ None \notin Keys /\ None \notin Shapes /\ None \notin Slots
  BY NoneAssumption DEF KeysInv, TypeOK
<1>2. /\ pc' = [pc EXCEPT ![t] = "idle"] /\ req' = [req EXCEPT ![t] = NoCall]
      /\ hold' = [hold EXCEPT ![t] = None] /\ handed' = [handed EXCEPT ![t] = k]
      /\ jostled' = jostled \ {t}
  BY DEF End
<1>3. /\ pc'[t] = "idle" /\ req'[t] = NoCall /\ hold'[t] = None
      /\ \A u \in Threads : u # t => pc'[u] = pc[u] /\ req'[u] = req[u] /\ hold'[u] = hold[u]
  BY <1>1, <1>2
<1>4. Mapped' = Mapped /\ DOMAIN map' = Mapped
  BY DEF Mapped
<1>5. MapInv /\ HandleInv /\ StageInv /\ KeyInv /\ OneBuilder
  BY DEF KeysInv
<1>6. slot' = [i \in Slots |-> IF Live(i)' THEN contents[i] ELSE Empty]
  BY DEF Slots_
<1>7. /\ slot' \in [Slots -> T] /\ \A i \in Slots : Live(i)' => slot'[i] = contents[i]
      /\ \A i \in Slots : slot'[i].key # None => slot'[i] = contents[i]
  <2>1. Empty \in T /\ Empty.key = None  BY DEF Empty
  <2> QED BY <1>6, <2>1
<1>8. \A s \in Mapped : map[s].slot \in Slots /\ Live(map[s].slot)'
  BY <1>4, <1>5 DEF MapInv, Live
<1>9. /\ hold[t] \in Slots /\ slot[hold[t]].of = req[t].shape /\ req[t].shape \in Shapes
      /\ pc[t] = "build" => slot[hold[t]].key = None
  BY <1>5 DEF HandleInv, StageInv, Filled
<1>10. /\ \A i \in Slots : contents[i].of = slot[i].of
       /\ \A i \in Slots : slot[i].key # None => contents[i] = slot[i]
       /\ \A i \in Slots : contents[i].key # slot[i].key =>
              pc[t] = "build" /\ i = hold[t] /\ contents[i].key = Built(req[t].shape)
  BY <1>9
<1>11. ASSUME NEW u \in Threads, u # t, InCall(u)
       PROVE  hold[u] \in Slots /\ slot'[hold[u]] = contents[hold[u]]
  <2>1. hold[u] \in Slots /\ hold'[u] = hold[u]  BY <1>3, <1>5, <1>11 DEF HandleInv
  <2>2. Live(hold[u])'
    <3>1. \E v \in Threads : hold'[v] = hold[u]  BY <2>1
    <3> QED BY <1>3, <2>1, <3>1 DEF Live
  <2> QED BY <1>7, <2>1, <2>2
<1>12. \A r : Allowed(r)' = Allowed(r)
  BY DEF Allowed
<1>13. TypeOK'
  <2>1. /\ pc' \in [Threads -> {"idle", "get", "build", "set", "pin"}]
        /\ req' \in [Threads -> [shape : Shapes \cup {None}, key : Keys \cup {None}]]
        /\ hold' \in [Threads -> Slots \cup {None}]
        /\ handed' \in [Threads -> Keys \cup {None}]
        /\ jostled' \subseteq Threads
    BY <1>1, <1>2 DEF NoCall
  <2>2. installed' \in [Shapes -> Keys \cup {None}]  BY <1>1
  <2>3. Mapped \subseteq Shapes  BY <1>5 DEF MapInv
  <2> QED BY <1>1, <1>4, <1>7, <2>1, <2>2, <2>3 DEF TypeOK
<1>14. OrderInv'
  BY <1>4 DEF KeysInv, OrderInv
<1>15. MapInv'
  BY <1>4, <1>5, <1>7, <1>8, <1>10 DEF MapInv
<1>16. KeyInv'
  <2> SUFFICES ASSUME NEW i \in Slots, slot'[i].key # None
               PROVE  /\ slot'[i].of \in Shapes /\ KeyShape(slot'[i].key) = slot'[i].of
                      /\ slot'[i].key \in {Built(slot'[i].of)} \cup offered[slot'[i].of]
    BY DEF KeyInv, Filled, Allowed
  <2>1. slot'[i] = contents[i]  BY <1>7
  <2>2. CASE contents[i].key = slot[i].key
    <3>1. contents[i] = slot[i]  BY <1>10, <2>1, <2>2
    <3> QED BY <1>5, <2>1, <3>1 DEF KeyInv, Filled, Allowed
  <2>3. CASE contents[i].key # slot[i].key
    <3>1. contents[i].key = Built(req[t].shape) /\ contents[i].of = req[t].shape
      BY <1>9, <1>10, <2>3
    <3> QED BY <1>9, <2>1, <3>1, BuiltAssumption
  <2> QED BY <2>2, <2>3
<1>17. HandleInv'
  <2> SUFFICES ASSUME NEW u \in Threads
               PROVE  /\ pc'[u] = "idle" => hold'[u] = None /\ req'[u] = NoCall
                      /\ pc'[u] # "idle" => /\ hold'[u] \in Slots /\ req'[u].shape \in Shapes
                                            /\ slot'[hold'[u]].of = req'[u].shape
                      /\ (pc'[u] # "idle" /\ u \notin jostled') =>
                             /\ req'[u].shape \in Mapped
                             /\ map'[req'[u].shape].slot = hold'[u]
    BY <1>4 DEF HandleInv, InCall
  <2>1. CASE u = t  BY <1>3, <2>1
  <2>2. CASE u # t /\ ~InCall(u)  BY <1>3, <1>5, <2>2 DEF HandleInv, InCall
  <2>3. CASE u # t /\ InCall(u)
    <3>1. /\ hold[u] \in Slots /\ req[u].shape \in Shapes
          /\ slot[hold[u]].of = req[u].shape
          /\ u \notin jostled => req[u].shape \in Mapped /\ map[req[u].shape].slot = hold[u]
      BY <1>5, <2>3 DEF HandleInv
    <3>2. /\ pc'[u] = pc[u] /\ req'[u] = req[u] /\ hold'[u] = hold[u]
          /\ slot'[hold[u]].of = slot[hold[u]].of
      BY <1>3, <1>10, <1>11, <2>3
    <3>3. u \notin jostled' => u \notin jostled  BY <1>2, <2>3
    <3> QED BY <2>3, <3>1, <3>2, <3>3 DEF InCall
  <2> QED BY <2>1, <2>2, <2>3
<1>18. StageInv'
  <2> SUFFICES ASSUME NEW u \in Threads
               PROVE  /\ pc'[u] \in {"set", "pin"} =>
                             /\ req'[u].key \in Keys /\ KeyShape(req'[u].key) = req'[u].shape
                             /\ req'[u].key \in {Built(req'[u].shape)} \cup offered[req'[u].shape]
                      /\ pc'[u] = "pin" => slot'[hold'[u]].key = req'[u].key
                      /\ pc'[u] = "build" => slot'[hold'[u]].key = None
    BY DEF StageInv, Filled, Allowed
  <2>1. CASE u = t  BY <1>3, <2>1
  <2>2. CASE u # t
    <3>1. pc'[u] = pc[u] /\ req'[u] = req[u] /\ hold'[u] = hold[u]  BY <1>3, <2>2
    <3>2. pc[u] \in {"set", "pin"} =>
             /\ req[u].key \in Keys /\ KeyShape(req[u].key) = req[u].shape
             /\ req[u].key \in Allowed(req[u].shape)
      BY <1>5 DEF StageInv
    <3>3. ASSUME pc[u] = "pin" PROVE slot'[hold[u]].key = req[u].key
      <4>1. slot[hold[u]].key = req[u].key /\ req[u].key # None  BY <1>1, <1>5, <3>2, <3>3 DEF StageInv
      <4>2. hold[u] \in Slots /\ slot'[hold[u]] = contents[hold[u]]  BY <1>11, <2>2, <3>3 DEF InCall
      <4> QED BY <1>10, <4>1, <4>2
    <3>4. ASSUME pc[u] = "build" PROVE slot'[hold[u]].key = None
      <4>1. slot[hold[u]].key = None  BY <1>5, <3>4 DEF StageInv, Filled
      <4>2. hold[u] \in Slots /\ slot'[hold[u]] = contents[hold[u]]  BY <1>11, <2>2, <3>4 DEF InCall
      <4>3. ~(pc[t] = "build" /\ hold[u] = hold[t])  BY <1>5, <2>2, <3>4 DEF OneBuilder
      <4> QED BY <1>10, <4>1, <4>2, <4>3
    <3> QED BY <3>1, <3>2, <3>3, <3>4 DEF Allowed
  <2> QED BY <2>1, <2>2
<1>19. OneBuilder'
  BY <1>3, <1>5 DEF OneBuilder
<1>20. Bounded'
  <2>1. /\ (Mapped \ Pinned)' \in SUBSET (Mapped \ Pinned)
    BY <1>4 DEF Pinned
  <2>2. IsFiniteSet(Mapped)  BY MappedCount DEF KeysInv
  <2>3. IsFiniteSet(Mapped \ Pinned)  BY <2>2, FS_Difference
  <2> DEFINE loose == (Mapped \ Pinned)'
             free == Mapped \ Pinned
  <2>4. loose \in SUBSET free /\ IsFiniteSet(free)  BY <2>1, <2>3
  <2> HIDE DEF loose, free
  <2>5. /\ Cardinality(loose) <= Cardinality(free)
        /\ Cardinality(loose) \in Nat /\ Cardinality(free) \in Nat
    BY <2>4, FS_Subset, FS_CardinalityType
  <2>6. Cardinality(free) <= 1 => Cardinality(loose) <= 1  BY <2>5
  <2> QED BY <1>4, <2>6 DEF loose, free, KeysInv, Bounded
<1>21. QuietInstallSticks'
  <2> SUFFICES ASSUME NEW r \in Shapes, installed'[r] # None
               PROVE  /\ r \in Mapped /\ map'[r].pinned
                      /\ slot'[map'[r].slot].key = installed'[r]
    BY <1>4 DEF QuietInstallSticks, Pinned
  <2>1. CASE installed'[r] = installed[r]
    <3>1. r \in Pinned /\ slot[map[r].slot].key = installed[r]
      BY <2>1 DEF KeysInv, QuietInstallSticks
    <3>2. r \in Mapped /\ map[r].pinned  BY <3>1 DEF Pinned
    <3>3. contents[map[r].slot] = slot[map[r].slot]  BY <1>8, <1>10, <2>1, <3>1, <3>2
    <3>4. slot'[map[r].slot] = contents[map[r].slot]  BY <1>7, <1>8, <3>2
    <3> QED BY <2>1, <3>1, <3>2, <3>3, <3>4
  <2>2. CASE installed'[r] # installed[r]
    <3>1. /\ pc[t] = "pin" /\ t \notin jostled /\ map'[req[t].shape].pinned
          /\ installed'[r] = req[t].key /\ r = req[t].shape
      BY <1>1, <2>2
    <3>2. r \in Mapped /\ map[r].slot = hold[t]
      BY <1>5, <3>1 DEF HandleInv, InCall
    <3>3. slot[hold[t]].key = req[t].key  BY <1>5, <3>1 DEF StageInv
    <3>4. slot'[hold[t]] = contents[hold[t]]  BY <1>7, <1>8, <3>2
    <3>5. contents[hold[t]] = slot[hold[t]]  BY <1>9, <1>10, <3>1
    <3> QED BY <3>1, <3>2, <3>3, <3>4, <3>5
  <2> QED BY <2>1, <2>2
<1> QED BY <1>13, <1>14, <1>15, <1>16, <1>17, <1>18, <1>19, <1>20, <1>21 DEF KeysInv

(* A call goes on with its slot: it starts the build, or has just set or   *)
(* confirmed the key.                                                      *)
LEMMA StageKeeps ==
    ASSUME KeysInv, NEW t \in Threads, UNCHANGED <<map, order, req, hold, handed, offered, installed, jostled>>,
           NEW stage, pc' = [pc EXCEPT ![t] = stage], ~Building(hold[t]),
           \/ pc[t] = "get" /\ stage = "build" /\ slot' = slot /\ ~Filled(hold[t])
           \/ /\ pc[t] = "set" /\ stage = "pin"
              /\ slot'[hold[t]].key = req[t].key
              /\ \/ slot' = slot
                 \/ ~Filled(hold[t]) /\ slot' = [slot EXCEPT ![hold[t]].key = req[t].key]
    PROVE  KeysInv'
<1> DEFINE T == [of : Shapes \cup {None}, key : Keys \cup {None}]
<1>1. /\ pc \in [Threads -> {"idle", "get", "build", "set", "pin"}] /\ slot \in [Slots -> T]
      /\ None \notin Keys
  BY NoneAssumption DEF KeysInv, TypeOK
<1>2. /\ pc'[t] = stage /\ \A u \in Threads : u # t => pc'[u] = pc[u]
      /\ stage \in {"build", "pin"}
  BY <1>1
<1>3. MapInv /\ HandleInv /\ StageInv /\ KeyInv /\ OneBuilder
  BY DEF KeysInv
<1>4. /\ hold[t] \in Slots /\ slot[hold[t]].of = req[t].shape /\ req[t].shape \in Shapes
      /\ pc[t] = "set" => /\ req[t].key \in Keys /\ KeyShape(req[t].key) = req[t].shape
                          /\ req[t].key \in Allowed(req[t].shape)
  BY <1>3 DEF HandleInv, StageInv, InCall
<1>5. /\ slot' \in [Slots -> T] /\ \A i \in Slots : slot'[i].of = slot[i].of
      /\ \A i \in Slots : slot'[i].key # slot[i].key =>
             i = hold[t] /\ pc[t] = "set" /\ slot[i].key = None /\ slot'[i].key = req[t].key
  BY <1>1, <1>4 DEF Filled
<1>6. Mapped' = Mapped /\ Pinned' = Pinned /\ \A r : Allowed(r)' = Allowed(r)
  BY DEF Mapped, Pinned, Allowed
<1>7. \A u \in Threads : InCall(u)' <=> InCall(u)
  BY <1>2 DEF InCall
<1>8. TypeOK'
  <2>1. pc' \in [Threads -> {"idle", "get", "build", "set", "pin"}]  BY <1>1, <1>2
  <2> QED BY <1>5, <1>6, <2>1 DEF KeysInv, TypeOK
<1>9. OrderInv' /\ Bounded'
  BY <1>6 DEF KeysInv, OrderInv, Bounded
<1>10. MapInv'
  BY <1>3, <1>5, <1>6 DEF MapInv
<1>11. KeyInv'
  <2> SUFFICES ASSUME NEW i \in Slots, slot'[i].key # None
               PROVE  /\ slot'[i].of \in Shapes /\ KeyShape(slot'[i].key) = slot'[i].of
                      /\ slot'[i].key \in {Built(slot'[i].of)} \cup offered[slot'[i].of]
    BY DEF KeyInv, Filled, Allowed
  <2>1. CASE slot'[i].key = slot[i].key
    BY <1>3, <1>5, <2>1 DEF KeyInv, Filled, Allowed
  <2>2. CASE slot'[i].key # slot[i].key
    BY <1>4, <1>5, <2>2 DEF Allowed
  <2> QED BY <2>1, <2>2
<1>12. HandleInv'
  BY <1>3, <1>5, <1>6, <1>7 DEF HandleInv
<1>13. StageInv'
  <2> SUFFICES ASSUME NEW u \in Threads
               PROVE  /\ pc'[u] \in {"set", "pin"} =>
                             /\ req[u].key \in Keys /\ KeyShape(req[u].key) = req[u].shape
                             /\ req[u].key \in Allowed(req[u].shape)
                      /\ pc'[u] = "pin" => slot'[hold[u]].key = req[u].key
                      /\ pc'[u] = "build" => slot'[hold[u]].key = None
    BY DEF StageInv, Filled, Allowed
  <2>1. CASE u = t  BY <1>2, <1>4, <2>1 DEF Filled
  <2>2. CASE u # t
    <3>1. pc'[u] = pc[u]  BY <1>2, <2>2
    <3>2. pc[u] \in {"set", "pin"} =>
             /\ req[u].key \in Keys /\ KeyShape(req[u].key) = req[u].shape
             /\ req[u].key \in Allowed(req[u].shape)
      BY <1>3 DEF StageInv
    <3>3. ASSUME pc[u] = "pin" PROVE slot'[hold[u]].key = req[u].key
      <4>1. slot[hold[u]].key = req[u].key /\ req[u].key # None /\ hold[u] \in Slots
        BY <1>1, <1>3, <3>2, <3>3 DEF StageInv, HandleInv, InCall
      <4> QED BY <1>5, <4>1
    <3>4. ASSUME pc[u] = "build" PROVE slot'[hold[u]].key = None
      <4>1. slot[hold[u]].key = None /\ hold[u] \in Slots
        BY <1>3, <3>4 DEF StageInv, Filled, HandleInv, InCall
      <4>2. hold[u] # hold[t]  BY <3>4 DEF Building
      <4> QED BY <1>5, <4>1, <4>2
    <3> QED BY <3>1, <3>2, <3>3, <3>4
  <2> QED BY <2>1, <2>2
<1>14. OneBuilder'
  BY <1>2, <1>3 DEF OneBuilder, Building
<1>15. QuietInstallSticks'
  <2> SUFFICES ASSUME NEW r \in Shapes, installed[r] # None
               PROVE  r \in Pinned /\ slot'[map[r].slot].key = installed[r]
    BY <1>6 DEF QuietInstallSticks
  <2>1. r \in Pinned /\ slot[map[r].slot].key = installed[r]
    BY DEF KeysInv, QuietInstallSticks
  <2>2. map[r].slot \in Slots  BY <1>3, <2>1 DEF MapInv, Pinned
  <2> QED BY <1>5, <2>1, <2>2
<1> QED BY <1>8, <1>9, <1>10, <1>11, <1>12, <1>13, <1>14, <1>15 DEF KeysInv

LEMMA InitKeysInv == Init => KeysInv
<1> SUFFICES ASSUME Init PROVE KeysInv
  OBVIOUS
<1>1. /\ map = <<>> /\ order = <<>> /\ Mapped = {} /\ DOMAIN map = {} /\ Len(order) = 0
      /\ Pinned = {}
  BY DEF Init, Mapped, Pinned
<1>2. TypeOK  BY <1>1 DEF Init, TypeOK, Empty, NoCall
<1>3. OrderInv  BY <1>1 DEF OrderInv, Distinct, Elems
<1>4. Bounded
  <2>1. Cardinality(Mapped) = 0  BY <1>1, FS_EmptySet
  <2> QED BY <2>1, CapacityAssumption DEF Bounded
<1>5. MapInv /\ HandleInv /\ StageInv /\ OneBuilder /\ KeyInv
  BY <1>1 DEF Init, MapInv, HandleInv, StageInv, OneBuilder, KeyInv, InCall, Filled, Empty
<1>6. QuietInstallSticks  BY DEF Init, QuietInstallSticks
<1> QED BY <1>2, <1>3, <1>4, <1>5, <1>6 DEF KeysInv

(* What a step of a call is, in the terms of the lemmas above: it ends     *)
(* with an answer the service allows, or goes on with its slot.            *)
LEMMA StepKeeps ==
    ASSUME KeysInv, NEW t \in Threads, Step(t)
    PROVE  /\ KeysInv'
           /\ offered' = offered
           /\ \/ UNCHANGED <<req, handed>>
              \/ InCall(t) /\ \E k \in Keys : k \in Allowed(req[t].shape) /\ End(t, k)
<1> DEFINE T == [of : Shapes \cup {None}, key : Keys \cup {None}]
<1>1. /\ slot \in [Slots -> T] /\ None \notin Keys
      /\ map \in [Mapped -> [slot : Slots, pinned : BOOLEAN]]
      /\ \A i \in Slots : Filled(i) => slot[i].key \in Keys
  <2>1. slot \in [Slots -> T] /\ None \notin Keys /\ map \in [Mapped -> [slot : Slots, pinned : BOOLEAN]]
    BY NoneAssumption DEF KeysInv, TypeOK
  <2> QED BY <2>1 DEF Filled
<1>2. MapInv /\ HandleInv /\ StageInv /\ KeyInv
  BY DEF KeysInv
<1>3. InCall(t)
  BY DEF Step, TakeKey, StartBuild, FinishBuild, SetSlot, Pin, InCall
<1>4. /\ hold[t] \in Slots /\ slot[hold[t]].of = req[t].shape /\ req[t].shape \in Shapes
      /\ Filled(hold[t]) => slot[hold[t]].key \in Keys /\ slot[hold[t]].key \in Allowed(req[t].shape)
  BY <1>1, <1>2, <1>3 DEF HandleInv, KeyInv
<1>5. CASE TakeKey(t)
  <2>1. /\ End(t, slot[hold[t]].key) /\ Slots_(slot) /\ Filled(hold[t])
        /\ UNCHANGED <<map, order, offered, installed>>
    BY <1>5 DEF TakeKey
  <2>2. KeysInv'  BY <1>1, <1>3, <1>4, <2>1, EndKeeps
  <2> QED BY <1>3, <1>4, <2>1, <2>2
<1>6. CASE StartBuild(t)
  <2>1. /\ pc[t] = "get" /\ ~Filled(hold[t]) /\ ~Building(hold[t])
        /\ pc' = [pc EXCEPT ![t] = "build"]
        /\ UNCHANGED <<map, order, slot, req, hold, handed, offered, installed, jostled>>
    BY <1>6 DEF StartBuild, cache
  <2>2. KeysInv'  BY <2>1, StageKeeps
  <2> QED BY <2>1, <2>2
<1>7. CASE FinishBuild(t)
  <2> DEFINE contents == [slot EXCEPT ![hold[t]].key = Built(req[t].shape)]
  <2>1. /\ End(t, Built(req[t].shape)) /\ Slots_(contents) /\ pc[t] = "build"
        /\ UNCHANGED <<map, order, offered, installed>>
    BY <1>7 DEF FinishBuild
  <2>2. Built(req[t].shape) \in Keys  BY <1>4, BuiltAssumption
  <2>3. /\ contents \in [Slots -> T]
        /\ \A i \in Slots : \/ contents[i] = slot[i]
                            \/ /\ i = hold[t]
                               /\ contents[i] = [of |-> slot[i].of, key |-> Built(req[t].shape)]
    BY <1>1, <1>4, <2>2
  <2> HIDE DEF contents
  <2>4. KeysInv'  BY <1>1, <1>3, <2>1, <2>2, <2>3, EndKeeps
  <2> QED BY <1>3, <2>1, <2>2, <2>4 DEF Allowed
<1>8. CASE SetSlot(t)
  <2>1. /\ pc[t] = "set" /\ ~Building(hold[t]) /\ UNCHANGED <<map, order, offered, installed>>
    BY <1>8 DEF SetSlot
  <2>2. CASE /\ ~Filled(hold[t])
             /\ slot' = [slot EXCEPT ![hold[t]].key = req[t].key]
             /\ pc' = [pc EXCEPT ![t] = "pin"]
             /\ UNCHANGED <<req, hold, handed, jostled>>
    <3>1. slot'[hold[t]].key = req[t].key  BY <1>1, <1>4, <2>2
    <3>2. KeysInv'  BY <2>1, <2>2, <3>1, StageKeeps
    <3> QED BY <2>1, <2>2, <3>2
  <2>3. CASE /\ slot[hold[t]].key = req[t].key
             /\ pc' = [pc EXCEPT ![t] = "pin"]
             /\ UNCHANGED <<slot, req, hold, handed, jostled>>
    <3>1. KeysInv'  BY <2>1, <2>3, StageKeeps
    <3> QED BY <2>1, <2>3, <3>1
  <2>4. CASE Filled(hold[t]) /\ End(t, slot[hold[t]].key) /\ Slots_(slot)
    <3>1. KeysInv'  BY <1>1, <1>3, <1>4, <2>1, <2>4, EndKeeps
    <3> QED BY <1>3, <1>4, <2>1, <2>4, <3>1
  <2> QED BY <1>8, <2>2, <2>3, <2>4 DEF SetSlot
<1>9. CASE Pin(t)
  <2>1. /\ pc[t] = "pin" /\ End(t, req[t].key) /\ Slots_(slot) /\ order' = order /\ offered' = offered
        /\ map' = IF req[t].shape \in Mapped
                  THEN [map EXCEPT ![req[t].shape].pinned = TRUE] ELSE map
        /\ installed' = IF t \in jostled THEN installed
                        ELSE [installed EXCEPT ![req[t].shape] = req[t].key]
    BY <1>9 DEF Pin
  <2>2. req[t].key \in Keys /\ req[t].key \in Allowed(req[t].shape)
    BY <1>2, <2>1 DEF StageInv
  <2>3. /\ map' \in [Mapped -> [slot : Slots, pinned : BOOLEAN]]
        /\ \A s \in Mapped : map'[s].slot = map[s].slot /\ (map[s].pinned => map'[s].pinned)
        /\ req[t].shape \in Mapped => map'[req[t].shape].pinned
    BY <1>1, <2>1
  <2>4. t \notin jostled => req[t].shape \in Mapped
    BY <1>2, <1>3 DEF HandleInv
  <2>5. \/ installed' = installed
        \/ /\ t \notin jostled /\ map'[req[t].shape].pinned
           /\ installed' = [installed EXCEPT ![req[t].shape] = req[t].key]
    BY <2>1, <2>3, <2>4
  <2>6. KeysInv'  BY <1>1, <1>3, <2>1, <2>2, <2>3, <2>5, EndKeeps
  <2> QED BY <1>3, <2>1, <2>2, <2>6
<1> QED BY <1>5, <1>6, <1>7, <1>8, <1>9 DEF Step

LEMMA CallKeeps ==
    ASSUME KeysInv, NEW t \in Threads, Call(t)
    PROVE  /\ KeysInv' /\ ~InCall(t)
           /\ \E s \in Shapes, stage \in {"get", "set"}, k \in Keys \cup {None} :
                  /\ Begin(t, stage, s, k)
                  /\ \/ offered' = offered
                     \/ k \in Keys /\ offered' = [offered EXCEPT ![s] = @ \cup ({k} \ {Built(s)})]
<1>1. ASSUME NEW s \in Shapes, Lookup(t, s)
      PROVE  KeysInv' /\ ~InCall(t) /\ Begin(t, "get", s, None) /\ offered' = offered
  <2>1. /\ UseSlot(t, s) /\ Begin(t, "get", s, None) /\ ~InCall(t)
        /\ offered' = offered /\ installed' = installed
    BY <1>1 DEF Lookup, Ready, InCall
  <2>2. Acquired(t, s)  BY <2>1, UseSlotAcquires
  <2>3. KeysInv'  BY <2>1, <2>2, BeginKeeps
  <2> QED BY <2>1, <2>3
<1>2. ASSUME NEW s \in Shapes, NEW k \in Blobs, Install(t, s, k)
      PROVE  /\ KeysInv' /\ ~InCall(t) /\ Begin(t, "set", s, k) /\ k \in Keys
             /\ offered' = [offered EXCEPT ![s] = @ \cup ({k} \ {Built(s)})]
  <2>1. /\ UseSlot(t, s) /\ Begin(t, "set", s, k) /\ ~InCall(t) /\ KeyShape(k) = s /\ k \in Keys
        /\ offered' = [offered EXCEPT ![s] = @ \cup ({k} \ {Built(s)})] /\ installed' = installed
    BY <1>2, BlobAssumption DEF Install, Ready, InCall
  <2>2. Acquired(t, s)  BY <2>1, UseSlotAcquires
  <2>3. KeysInv'  BY <2>1, <2>2, BeginKeeps
  <2> QED BY <2>1, <2>3
<1> QED BY <1>1, <1>2 DEF Call

(* Every step of the cache is one of the key service's, or none of its     *)
(* callers' business.                                                      *)
LEMMA NextKeepsKeys == KeysInv /\ [Next]_vars => KeysInv' /\ [Service!Next]_(Service!svars)
<1> SUFFICES ASSUME KeysInv, [Next]_vars PROVE KeysInv' /\ [Service!Next]_(Service!svars)
  OBVIOUS
<1> DEFINE asked == [t \in Threads |-> req[t].shape]
<1>1. /\ req \in [Threads -> [shape : Shapes \cup {None}, key : Keys \cup {None}]]
      /\ None \notin Shapes /\ HandleInv
  BY NoneAssumption DEF KeysInv, TypeOK
<1>2. CASE UNCHANGED vars
  <2>1. KeysInv'
    BY <1>2 DEF vars, cache, KeysInv, TypeOK, OrderInv, MapInv, KeyInv, HandleInv, StageInv,
       OneBuilder, Bounded, QuietInstallSticks, Mapped, Pinned, InCall, Filled, Allowed
  <2> QED BY <1>2, <2>1 DEF vars, cache, Service!svars
<1>3. ASSUME NEW t \in Threads, Step(t)
      PROVE  KeysInv' /\ [Service!Next]_(Service!svars)
  <2>1. KeysInv' /\ offered' = offered  BY <1>3, StepKeeps
  <2>2. CASE UNCHANGED <<req, handed>>
    BY <2>1, <2>2 DEF Service!svars
  <2>3. ASSUME InCall(t), NEW k \in Keys, k \in Allowed(req[t].shape), End(t, k)
        PROVE  Service!Next
    <3>1. /\ req' = [req EXCEPT ![t] = NoCall] /\ handed' = [handed EXCEPT ![t] = k]
      BY <2>3 DEF End
    <3>2. asked' = [asked EXCEPT ![t] = None]  BY <1>1, <3>1 DEF NoCall
    <3>3. asked[t] = req[t].shape /\ asked[t] # None  BY <1>1, <2>3 DEF HandleInv
    <3>4. Service!Answer(t, k)
      BY <2>1, <2>3, <3>1, <3>2, <3>3 DEF Service!Answer, Allowed
    <3> QED BY <3>4 DEF Service!Next
  <2> QED BY <1>3, <2>1, <2>2, <2>3, StepKeeps
<1>4. ASSUME NEW t \in Threads, Call(t)
      PROVE  KeysInv' /\ [Service!Next]_(Service!svars)
  <2>1. KeysInv' /\ ~InCall(t)  BY <1>4, CallKeeps
  <2>2. PICK s \in Shapes, stage \in {"get", "set"}, k \in Keys \cup {None} :
                  /\ Begin(t, stage, s, k)
                  /\ \/ offered' = offered
                     \/ k \in Keys /\ offered' = [offered EXCEPT ![s] = @ \cup ({k} \ {Built(s)})]
    BY <1>4, CallKeeps
  <2>3. /\ req' = [req EXCEPT ![t] = [shape |-> s, key |-> k]]
        /\ handed' = [handed EXCEPT ![t] = None]
    BY <2>2 DEF Begin
  <2>4. asked' = [asked EXCEPT ![t] = s]  BY <1>1, <2>3
  <2>5. asked[t] = None  BY <1>1, <2>1 DEF HandleInv, NoCall
  <2>6. Service!Ask(t, s) \/ (k \in Keys /\ Service!Offer(t, s, k))
    BY <2>2, <2>3, <2>4, <2>5 DEF Service!Ask, Service!Offer
  <2> QED BY <2>1, <2>6 DEF Service!Next
<1> QED BY <1>2, <1>3, <1>4 DEF Next

-----------------------------------------------------------------------------
(* The recursion machine's cache. *)

RvmInv ==
    /\ order \in Seq(Shapes) /\ Distinct(order) /\ Elems(order) = DOMAIN map
    /\ Len(order) <= Capacity
    /\ map = [s \in DOMAIN map |-> map[s]] /\ \A s \in DOMAIN map : map[s] = Built(s)
    /\ req \in [Threads -> [shape : Shapes \cup {None}, key : {None}]]
    /\ \A t \in Threads : req[t].shape = None <=> pc[t] = "idle"
    /\ pc \in [Threads -> {"idle", "get", "build"}]

(* Cardinality, as the instance names it. *)
LEMMA RvmCardinality == \A S : Rvm!Cardinality(S) = Cardinality(S)
  BY DEF Rvm!Cardinality, Cardinality, Rvm!IsFiniteSet, IsFiniteSet

LEMMA RvmInvIsQueue == RvmInv => Rvm!QueueIsMap
<1> SUFFICES ASSUME RvmInv PROVE Rvm!QueueIsMap
  OBVIOUS
<1>1. Elems(order) = DOMAIN map /\ Cardinality(DOMAIN map) = Len(order)
  BY CountDistinct DEF RvmInv
<1> QED BY <1>1, RvmCardinality DEF RvmInv, Rvm!QueueIsMap, Rvm!Mapped, Elems

(* The oldest entry leaves a full queue, the new one joins, whatever other *)
(* threads inserted since the build started.                               *)
LEMMA InsertKeeps ==
    ASSUME RvmInv, NEW s \in Shapes, Rvm!Insert(s, Built(s))
    PROVE  /\ order' \in Seq(Shapes) /\ Distinct(order') /\ Elems(order') = DOMAIN map'
           /\ Len(order') <= Capacity
           /\ map' = [r \in DOMAIN map' |-> map'[r]] /\ \A r \in DOMAIN map' : map'[r] = Built(r)
<1> DEFINE M == DOMAIN map
           gone == IF Cardinality(M) >= Capacity THEN {Head(order)} ELSE {}
           rest == IF gone = {} THEN order ELSE Tail(order)
<1>1. CASE s \in M
  <2>1. UNCHANGED <<map, order>>  BY <1>1 DEF Rvm!Insert, Rvm!Mapped
  <2> QED BY <2>1 DEF RvmInv
<1>2. CASE s \notin M
  <2>1. /\ map' = [r \in (M \ gone) \cup {s} |-> IF r = s THEN Built(s) ELSE map[r]]
        /\ order' = Append(rest, s)
    BY <1>2, RvmCardinality DEF Rvm!Insert, Rvm!Mapped
  <2>2. /\ Cardinality(M) = Len(order) /\ Len(order) \in Nat /\ Len(order) <= Capacity
        /\ order \in Seq(Shapes) /\ Distinct(order) /\ Elems(order) = M
        /\ Capacity \in Nat /\ Capacity > 0
    BY CountDistinct, CapacityAssumption DEF RvmInv
  <2>3. /\ rest \in Seq(Shapes) /\ Distinct(rest) /\ Elems(rest) = M \ gone
        /\ Len(rest) \in Nat /\ Len(rest) + 1 <= Capacity
    <3>1. CASE Cardinality(M) >= Capacity
      <4>1. gone = {Head(order)} /\ rest = Tail(order) /\ order # <<>>  BY <2>2, <3>1
      <4>2. /\ Tail(order) \in Seq(Shapes) /\ Len(Tail(order)) = Len(order) - 1
            /\ \A i \in 1 .. Len(order) - 1 : Tail(order)[i] = order[i + 1]
            /\ Head(order) = order[1]
        BY <2>2, <4>1
      <4> HIDE DEF gone, rest, M
      <4>3. Distinct(Tail(order))  BY <2>2, <4>2 DEF Distinct
      <4>4. Elems(Tail(order)) = Elems(order) \ {Head(order)}
        <5>1. ASSUME NEW x \in Elems(Tail(order)) PROVE x \in Elems(order) /\ x # Head(order)
          <6>1. PICK i \in 1 .. Len(order) - 1 : x = order[i + 1]  BY <4>2 DEF Elems
          <6>2. i + 1 \in 1 .. Len(order) /\ i + 1 # 1 /\ 1 \in 1 .. Len(order)  BY <2>2
          <6> QED BY <2>2, <4>2, <6>1, <6>2 DEF Elems, Distinct
        <5>2. ASSUME NEW x \in Elems(order), x # Head(order) PROVE x \in Elems(Tail(order))
          <6>1. PICK j \in 1 .. Len(order) : x = order[j]  BY DEF Elems
          <6>2. j # 1 /\ j - 1 \in 1 .. Len(order) - 1 /\ j - 1 + 1 = j  BY <2>2, <4>2, <5>2, <6>1
          <6>3. Tail(order)[j - 1] = x  BY <4>2, <6>1, <6>2
          <6> QED BY <4>2, <6>2, <6>3 DEF Elems
        <5> QED BY <5>1, <5>2
      <4> QED BY <2>2, <4>1, <4>2, <4>3, <4>4
    <3>2. CASE Cardinality(M) < Capacity
      <4>1. gone = {} /\ rest = order  BY <2>2, <3>2
      <4> QED BY <2>2, <3>2, <4>1
    <3>3. Cardinality(M) >= Capacity \/ Cardinality(M) < Capacity  BY <2>2
    <3> QED BY <3>1, <3>2, <3>3
  <2>4. s \notin M \ gone  BY <1>2
  <2>5. \A r \in M : map[r] = Built(r)  BY DEF RvmInv
  <2> HIDE DEF gone, rest
  <2>6. /\ Append(rest, s) \in Seq(Shapes) /\ Distinct(Append(rest, s))
        /\ Elems(Append(rest, s)) = (M \ gone) \cup {s} /\ Len(Append(rest, s)) = Len(rest) + 1
    BY <2>3, <2>4, AppendDistinct
  <2>7. DOMAIN map' = (M \ gone) \cup {s}  BY <2>1
  <2> QED BY <2>1, <2>3, <2>5, <2>6, <2>7
<1> QED BY <1>1, <1>2

(* A step of the recursion machine's cache, for the thread that takes it:  *)
(* a call, the start of a build, or an answer.                             *)
LEMMA RvmStepCases ==
    ASSUME RvmInv, NEW t \in Threads, Rvm!Step(t)
    PROVE  /\ RvmInv'
           /\ \/ UNCHANGED <<req, handed>>
              \/ /\ req[t].shape \in Shapes /\ req' = [req EXCEPT ![t].shape = None]
                 /\ handed' = [handed EXCEPT ![t] = Built(req[t].shape)]
<1>1. /\ req \in [Threads -> [shape : Shapes \cup {None}, key : {None}]]
      /\ pc \in [Threads -> {"idle", "get", "build"}] /\ None \notin Shapes
      /\ \A u \in Threads : req[u].shape = None <=> pc[u] = "idle"
      /\ \A s \in DOMAIN map : map[s] = Built(s)
  BY NoneAssumption DEF RvmInv
<1>2. pc[t] # "idle" /\ req[t].shape \in Shapes
  <2>1. pc[t] # "idle"  BY DEF Rvm!Step, Rvm!Hit, Rvm!Miss, Rvm!Built_
  <2> QED BY <1>1, <2>1
<1>3. ASSUME NEW k, Rvm!Return(t, k)
      PROVE  /\ req' \in [Threads -> [shape : Shapes \cup {None}, key : {None}]]
             /\ pc' \in [Threads -> {"idle", "get", "build"}]
             /\ \A u \in Threads : req'[u].shape = None <=> pc'[u] = "idle"
             /\ req' = [req EXCEPT ![t].shape = None] /\ handed' = [handed EXCEPT ![t] = k]
  <2>1. /\ req' = [req EXCEPT ![t].shape = None] /\ handed' = [handed EXCEPT ![t] = k]
        /\ pc' = [pc EXCEPT ![t] = "idle"]
    BY <1>3 DEF Rvm!Return
  <2> QED BY <1>1, <2>1
<1>4. CASE Rvm!Hit(t)
  <2>1. /\ Rvm!Return(t, map[req[t].shape]) /\ UNCHANGED <<map, order>>
        /\ req[t].shape \in DOMAIN map
    BY <1>4 DEF Rvm!Hit, Rvm!Mapped
  <2> QED BY <1>1, <1>2, <1>3, <2>1 DEF RvmInv
<1>5. CASE Rvm!Miss(t)
  <2>1. pc' = [pc EXCEPT ![t] = "build"] /\ UNCHANGED <<map, order, req, handed>>
    BY <1>5 DEF Rvm!Miss
  <2> QED BY <1>1, <1>2, <2>1 DEF RvmInv
<1>6. CASE Rvm!Built_(t)
  <2>1. /\ Rvm!Insert(req[t].shape, Built(req[t].shape))
        /\ Rvm!Return(t, Built(req[t].shape))
    BY <1>6 DEF Rvm!Built_
  <2>2. /\ order' \in Seq(Shapes) /\ Distinct(order') /\ Elems(order') = DOMAIN map'
        /\ Len(order') <= Capacity
        /\ map' = [r \in DOMAIN map' |-> map'[r]] /\ \A r \in DOMAIN map' : map'[r] = Built(r)
    BY <1>2, <2>1, InsertKeeps
  <2> QED BY <1>2, <1>3, <2>1, <2>2 DEF RvmInv
<1> QED BY <1>4, <1>5, <1>6 DEF Rvm!Step

LEMMA RvmKeeps ==
    ASSUME RvmInv, NEW t \in Threads, offered' = offered,
           Rvm!Step(t) \/ \E s \in Shapes : Rvm!Call(t, s)
    PROVE  RvmInv' /\ [Service!Next]_(Service!svars)
<1> DEFINE asked == [u \in Threads |-> req[u].shape]
<1>1. /\ req \in [Threads -> [shape : Shapes \cup {None}, key : {None}]]
      /\ pc \in [Threads -> {"idle", "get", "build"}] /\ None \notin Shapes
      /\ \A u \in Threads : req[u].shape = None <=> pc[u] = "idle"
  BY NoneAssumption DEF RvmInv
<1>2. ASSUME NEW s \in Shapes, Rvm!Call(t, s) PROVE RvmInv' /\ Service!Next
  <2>1. /\ pc[t] = "idle" /\ pc' = [pc EXCEPT ![t] = "get"]
        /\ req' = [req EXCEPT ![t].shape = s] /\ handed' = [handed EXCEPT ![t] = None]
        /\ UNCHANGED <<map, order>>
    BY <1>2 DEF Rvm!Call
  <2>2. asked' = [asked EXCEPT ![t] = s] /\ asked[t] = None  BY <1>1, <2>1
  <2>3. Service!Ask(t, s)  BY <2>1, <2>2 DEF Service!Ask
  <2>4. /\ req' \in [Threads -> [shape : Shapes \cup {None}, key : {None}]]
        /\ pc' \in [Threads -> {"idle", "get", "build"}]
        /\ \A u \in Threads : req'[u].shape = None <=> pc'[u] = "idle"
    BY <1>1, <2>1
  <2> QED BY <2>1, <2>3, <2>4 DEF Service!Next, RvmInv
<1>3. ASSUME Rvm!Step(t) PROVE RvmInv' /\ [Service!Next]_(Service!svars)
  <2>1. RvmInv'  BY <1>3, RvmStepCases
  <2>2. CASE UNCHANGED <<req, handed>>  BY <2>1, <2>2 DEF Service!svars
  <2>3. CASE /\ req[t].shape \in Shapes /\ req' = [req EXCEPT ![t].shape = None]
             /\ handed' = [handed EXCEPT ![t] = Built(req[t].shape)]
    <3>1. asked' = [asked EXCEPT ![t] = None] /\ asked[t] = req[t].shape /\ asked[t] # None
      BY <1>1, <2>3
    <3>2. PICK k \in Keys : k = Built(req[t].shape)  BY <2>3, BuiltAssumption
    <3>3. Service!Answer(t, k)
      BY <2>3, <3>1, <3>2 DEF Service!Answer
    <3>4. Service!Next  BY <3>2, <3>3 DEF Service!Next
    <3> QED BY <2>1, <3>4
  <2> QED BY <1>3, <2>2, <2>3, <2>1, RvmStepCases
<1> QED BY <1>2, <1>3

-----------------------------------------------------------------------------
(* Both machines. *)

BothInv ==
    /\ which \in {"rv32", "rvm"}
    /\ which = "rv32" => KeysInv
    /\ which = "rvm" => RvmInv /\ installed = [s \in Shapes |-> None]

LEMMA InitBoth == MCInit => BothInv /\ Service!Init
<1> SUFFICES ASSUME MCInit PROVE BothInv /\ Service!Init
  OBVIOUS
<1>1. Init /\ which \in {"rv32", "rvm"}  BY DEF MCInit
<1>2. KeysInv  BY <1>1, InitKeysInv
<1>3. RvmInv
  <2>1. /\ map = <<>> /\ order = <<>> /\ DOMAIN map = {} /\ Len(order) = 0
        /\ order \in Seq(Shapes) /\ Distinct(order) /\ Elems(order) = {}
    BY <1>1 DEF Init, Distinct, Elems
  <2> QED BY <1>1, <2>1, CapacityAssumption DEF Init, RvmInv, NoCall
<1>4. Service!Init  BY <1>1 DEF Init, NoCall, Service!Init
<1>5. installed = [s \in Shapes |-> None]  BY <1>1 DEF Init
<1> QED BY <1>1, <1>2, <1>3, <1>4, <1>5 DEF BothInv

LEMMA NextBoth == BothInv /\ [MCNext]_mcvars => BothInv' /\ [Service!Next]_(Service!svars)
<1> SUFFICES ASSUME BothInv, [MCNext]_mcvars
             PROVE  BothInv' /\ [Service!Next]_(Service!svars)
  OBVIOUS
<1>1. CASE UNCHANGED mcvars
  <2>1. UNCHANGED which /\ UNCHANGED vars  BY <1>1 DEF mcvars
  <2>2. KeysInv => KeysInv' /\ [Service!Next]_(Service!svars)  BY <2>1, NextKeepsKeys
  <2>3. UNCHANGED <<Service!svars, installed>> /\ (RvmInv => RvmInv')
    BY <2>1 DEF vars, cache, Service!svars, RvmInv
  <2> QED BY <2>1, <2>2, <2>3 DEF BothInv
<1>2. ASSUME NEW t \in Threads, MCStep(t) \/ MCCall(t)
      PROVE  BothInv' /\ [Service!Next]_(Service!svars)
  <2>1. UNCHANGED which
        /\ \/ which = "rv32" /\ (Call(t) \/ Step(t))
           \/ /\ which = "rvm" /\ UNCHANGED rv32only
              /\ Rvm!Step(t) \/ \E s \in Shapes : Rvm!Call(t, s)
    BY <1>2 DEF MCStep, MCCall
  <2>2. CASE which = "rv32" /\ (Call(t) \/ Step(t))
    <3>1. KeysInv /\ Next  BY <2>2 DEF BothInv, Next
    <3>2. KeysInv' /\ [Service!Next]_(Service!svars)  BY <3>1, NextKeepsKeys
    <3> QED BY <2>1, <2>2, <3>2 DEF BothInv
  <2>3. CASE /\ which = "rvm" /\ UNCHANGED rv32only
             /\ Rvm!Step(t) \/ \E s \in Shapes : Rvm!Call(t, s)
    <3>1. RvmInv /\ UNCHANGED <<offered, installed>>  BY <2>3 DEF BothInv, rv32only
    <3>2. RvmInv' /\ [Service!Next]_(Service!svars)  BY <2>3, <3>1, RvmKeeps
    <3> QED BY <2>1, <2>3, <3>1, <3>2 DEF BothInv
  <2> QED BY <2>1, <2>2, <2>3
<1> QED BY <1>1, <1>2 DEF MCNext

THEOREM BothInvariant == MCSpec => []BothInv
<1> QED BY InitBoth, NextBoth, PTL DEF MCSpec

(* The RV32 machine's map, order and slots agree, every slot's key is one  *)
(* for its shape, and the cache is within its capacity but for pinned      *)
(* entries; the recursion machine's queue and map name the same keys,      *)
(* within the capacity, each the one built for its shape.                  *)
THEOREM CachesKeepTheirStructure == MCSpec => []CachesInv
<1>1. BothInv => CachesInv
  BY InvIsCacheInv, RvmInvIsQueue DEF BothInv, CachesInv
<1> QED BY <1>1, BothInvariant, PTL

(* Two threads build one shape's key at the same time only when the entry  *)
(* of one of them was evicted under it.                                    *)
THEOREM BuiltOnceAtATime == MCSpec => []OneFlight
<1>1. BothInv => OneFlight
  BY InvIsCacheInv DEF BothInv, OneFlight
<1> QED BY <1>1, BothInvariant, PTL

(* A key whose installation returned Ok, with no eviction of its entry     *)
(* between install_verifier_key's two critical sections, is held for ever  *)
(* after.                                                                  *)
THEOREM QuietInstallationSticks == MCSpec => []QuietInstallSticks
<1>1. BothInv => QuietInstallSticks
  BY DEF BothInv, KeysInv, QuietInstallSticks
<1> QED BY <1>1, BothInvariant, PTL

(* Every step of either cache is one of the key service's or none of its   *)
(* callers' business: an answer is the key built for the shape asked for,  *)
(* or one that was offered for it.                                         *)
THEOREM AnswersAreAllowed == MCSpec => Service!Init /\ [][Service!Next]_(Service!svars)
<1> QED BY InitBoth, NextBoth, BothInvariant, PTL DEF MCSpec

(* The same of the RV32 machine's cache on its own. *)
THEOREM KeyCacheIsSafe == Spec => [](CacheInv /\ SingleFlight /\ QuietInstallSticks)
<1>1. KeysInv => CacheInv /\ SingleFlight /\ QuietInstallSticks
  BY InvIsCacheInv DEF KeysInv
<1> QED BY <1>1, InitKeysInv, NextKeepsKeys, PTL DEF Spec
=============================================================================
