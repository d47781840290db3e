-------------------------- MODULE SumTheorems ---------------------------
(***************************************************************************)
(* Sums of a function over a finite set (Functions!SumFunctionOnSet): what *)
(* an element adds, and that a sum only depends on the values summed.      *)
(*                                                                         *)
(* The library states induction with an operator parameter, which the      *)
(* provers at hand cannot instantiate.  Here the property is a set of      *)
(* numbers, or of sets, and induction is the absence of a least number     *)
(* outside it.                                                             *)
(***************************************************************************)
EXTENDS Integers, FiniteSets, Functions, NaturalsInduction, FiniteSetTheorems, TLAPS

(* Induction over the natural numbers: a set that holds 0 and the          *)
(* successor of each of its numbers holds them all.                        *)
LEMMA NatSetInduction ==
    ASSUME NEW T, 0 \in T, \A n \in Nat : n \in T => n + 1 \in T
    PROVE  \A n \in Nat : n \in T
<1> DEFINE Less == {pair \in Nat \X Nat : pair[1] < pair[2]}
<1>1. IsWellFoundedOn(Less, Nat)
  BY NatLessThanWellFounded DEF OpToRel
<1> SUFFICES ASSUME Nat \ T # {} PROVE FALSE
  OBVIOUS
<1>2. PICK m \in Nat \ T : \A n \in Nat \ T : ~(<<n, m>> \in Less)
  BY <1>1, WFMin
<1>3. m # 0 /\ m - 1 \in Nat /\ m - 1 < m
  OBVIOUS
<1>4. <<m - 1, m>> \in Less
  BY <1>3
<1>5. m - 1 \in T
  BY <1>2, <1>3, <1>4
<1> QED BY <1>3, <1>5

-----------------------------------------------------------------------------
(* The recursion SumFunctionOnSet is defined by has a solution.            *)

Chosen(s) == CHOOSE x \in s : TRUE

Solves(g, f, U) ==
    \A s \in U : g[s] = IF s = {} THEN 0 ELSE f[Chosen(s)] + g[s \ {Chosen(s)}]

(* A finite set without one of its elements is smaller by one. *)
LEMMA OneLess ==
    ASSUME NEW S, IsFiniteSet(S), NEW x \in S
    PROVE  /\ IsFiniteSet(S \ {x})
           /\ Cardinality(S) \in Nat
           /\ Cardinality(S \ {x}) = Cardinality(S) - 1
           /\ Cardinality(S \ {x}) \in Nat
<1>1. IsFiniteSet(S \ {x})  BY FS_RemoveElement
<1>2. Cardinality(S \ {x}) = Cardinality(S) - 1  BY FS_RemoveElement
<1> QED BY <1>1, <1>2, FS_CardinalityType

(* The chosen one in particular. *)
LEMMA ChosenLeaves ==
    ASSUME NEW s, IsFiniteSet(s), s # {}
    PROVE  /\ Chosen(s) \in s
           /\ IsFiniteSet(s \ {Chosen(s)})
           /\ Cardinality(s) \in Nat
           /\ Cardinality(s \ {Chosen(s)}) = Cardinality(s) - 1
           /\ Cardinality(s \ {Chosen(s)}) \in Nat
<1>1. Chosen(s) \in s  BY DEF Chosen
<1> QED BY <1>1, OneLess

(* By induction on the size of the sets it is defined on. *)
LEMMA SolutionExists ==
    ASSUME NEW S, IsFiniteSet(S), NEW f, \A x \in S : f[x] \in Int
    PROVE  \E g \in [SUBSET S -> Int] : Solves(g, f, SUBSET S)
<1> DEFINE Small(n) == {s \in SUBSET S : Cardinality(s) <= n}
           Solved(n) == \E g \in [Small(n) -> Int] : Solves(g, f, Small(n))
           T == {n \in Nat : Solved(n)}
<1>1. \A s \in SUBSET S : IsFiniteSet(s) /\ Cardinality(s) \in Nat /\ Cardinality(s) <= Cardinality(S)
  BY FS_Subset, FS_CardinalityType
<1>2. 0 \in T
  <2> DEFINE g == [s \in Small(0) |-> 0]
  <2>1. \A s \in Small(0) : s = {}  BY <1>1, FS_EmptySet
  <2>2. g \in [Small(0) -> Int]  OBVIOUS
  <2>3. Solves(g, f, Small(0))  BY <2>1 DEF Solves
  <2> QED BY <2>2, <2>3
<1>3. ASSUME NEW n \in Nat, n \in T PROVE n + 1 \in T
  <2>1. PICK g \in [Small(n) -> Int] : Solves(g, f, Small(n))
    BY <1>3
  <2> DEFINE h == [s \in Small(n + 1) |->
                     IF s = {} THEN 0 ELSE f[Chosen(s)] + g[s \ {Chosen(s)}]]
  <2>2. ASSUME NEW s \in Small(n + 1), s # {}
        PROVE  /\ s \ {Chosen(s)} \in Small(n) /\ s \ {Chosen(s)} \in Small(n + 1)
               /\ Chosen(s) \in S
    <3>1. IsFiniteSet(s) /\ s \subseteq S /\ Cardinality(s) <= n + 1  BY <1>1
    <3> DEFINE r == s \ {Chosen(s)}
    <3>2. Chosen(s) \in s /\ Cardinality(r) = Cardinality(s) - 1 /\ Cardinality(s) \in Nat
      BY <2>2, <3>1, ChosenLeaves
    <3>3. Cardinality(r) <= n /\ Cardinality(r) <= n + 1  BY <3>1, <3>2
    <3> QED BY <3>1, <3>2, <3>3
  <2>3. h \in [Small(n + 1) -> Int]
    <3>1. \A s \in Small(n + 1) : s # {} => f[Chosen(s)] \in Int /\ g[s \ {Chosen(s)}] \in Int
      BY <2>1, <2>2
    <3> QED BY <3>1
  <2>4. \A s \in Small(n) : h[s] = g[s]
    <3>1. Small(n) \subseteq Small(n + 1)  BY <1>1
    <3> QED BY <2>1, <3>1 DEF Solves
  <2>5. Solves(h, f, Small(n + 1))
    <3>1. ASSUME NEW s \in Small(n + 1), s # {}
          PROVE  h[s] = f[Chosen(s)] + h[s \ {Chosen(s)}]
      BY <2>2, <2>4, <3>1
    <3>2. ASSUME NEW s \in Small(n + 1), s = {} PROVE h[s] = 0
      BY <3>2
    <3> HIDE DEF h
    <3> QED BY <3>1, <3>2 DEF Solves
  <2> HIDE DEF h
  <2>6. Solved(n + 1)
    BY <2>3, <2>5
  <2> HIDE DEF Solved
  <2> QED BY <2>6
<1>4. Cardinality(S) \in T
  <2> HIDE DEF T
  <2>1. Cardinality(S) \in Nat  BY FS_CardinalityType
  <2> QED BY <1>2, <1>3, <2>1, NatSetInduction
<1>5. Small(Cardinality(S)) = SUBSET S
  BY <1>1
<1> QED BY <1>4, <1>5

(* Two solutions agree where both are defined and sum the same values. *)
LEMMA SolutionsAgree ==
    ASSUME NEW S, IsFiniteSet(S), NEW f, NEW e, \A x \in S : f[x] = e[x],
           NEW g, NEW h, Solves(g, f, SUBSET S), Solves(h, e, SUBSET S)
    PROVE  \A s \in SUBSET S : g[s] = h[s]
<1> DEFINE T == {n \in Nat : \A s \in SUBSET S : Cardinality(s) = n => g[s] = h[s]}
<1>1. \A s \in SUBSET S : IsFiniteSet(s) /\ Cardinality(s) \in Nat
  BY FS_Subset, FS_CardinalityType
<1>2. 0 \in T
  BY <1>1, FS_EmptySet DEF Solves
<1>3. ASSUME NEW n \in Nat, n \in T PROVE n + 1 \in T
  <2> SUFFICES ASSUME NEW s \in SUBSET S, Cardinality(s) = n + 1 PROVE g[s] = h[s]
    OBVIOUS
  <2>1. s # {}  BY FS_EmptySet
  <2>2. s \ {Chosen(s)} \in SUBSET S /\ Chosen(s) \in S /\ Cardinality(s \ {Chosen(s)}) = n
    BY <1>1, <2>1, ChosenLeaves
  <2>3. g[s \ {Chosen(s)}] = h[s \ {Chosen(s)}]
    BY <1>3, <2>2
  <2> QED BY <2>1, <2>2, <2>3 DEF Solves
<1>4. \A n \in Nat : n \in T
  <2> HIDE DEF T
  <2> QED BY <1>2, <1>3, NatSetInduction
<1> QED BY <1>1, <1>4

(* So SumFunctionOnSet is a value of such a solution. *)
LEMMA SumIsSolution ==
    ASSUME NEW S, IsFiniteSet(S), NEW f, \A x \in S : f[x] \in Int
    PROVE  \E g \in [SUBSET S -> Int] : Solves(g, f, SUBSET S) /\ SumFunctionOnSet(f, S) = g[S]
<1> DEFINE rec(g) == [s \in SUBSET S |-> IF s = {} THEN 0 ELSE f[Chosen(s)] + g[s \ {Chosen(s)}]]
           iter == CHOOSE g : g = rec(g)
<1>1. PICK g \in [SUBSET S -> Int] : Solves(g, f, SUBSET S)
  BY SolutionExists
<1>2. g = rec(g)
  BY <1>1 DEF Solves
<1>3. iter = rec(iter)
  BY <1>2
<1>4. SumFunctionOnSet(f, S) = iter[S]
  BY DEF SumFunctionOnSet, FoldFunctionOnSet, MapThenFoldSet, Chosen
<1>5. Solves(iter, f, SUBSET S)
  <2> HIDE DEF iter
  <2> QED BY <1>3 DEF Solves
<1> HIDE DEF iter
<1>6. iter[S] = g[S]
  BY <1>1, <1>5, SolutionsAgree
<1> QED BY <1>1, <1>4, <1>6

-----------------------------------------------------------------------------
(* What the sums of this project's specifications are reasoned about with. *)

LEMMA SumType ==
    ASSUME NEW S, IsFiniteSet(S), NEW f, \A x \in S : f[x] \in Int
    PROVE  SumFunctionOnSet(f, S) \in Int
<1>1. PICK g \in [SUBSET S -> Int] : SumFunctionOnSet(f, S) = g[S]
  BY SumIsSolution
<1>2. S \in SUBSET S  OBVIOUS
<1> QED BY <1>1, <1>2

LEMMA SumEmpty ==
    ASSUME NEW f
    PROVE  SumFunctionOnSet(f, {}) = 0
BY SumIsSolution, FS_EmptySet DEF Solves

(* A sum only depends on the set and the values on it. *)
LEMMA SumSame ==
    ASSUME NEW S, IsFiniteSet(S), NEW f, NEW e,
           \A x \in S : f[x] \in Int /\ f[x] = e[x]
    PROVE  SumFunctionOnSet(f, S) = SumFunctionOnSet(e, S)
<1>1. PICK g : Solves(g, f, SUBSET S) /\ SumFunctionOnSet(f, S) = g[S]
  BY SumIsSolution
<1>2. PICK h : Solves(h, e, SUBSET S) /\ SumFunctionOnSet(e, S) = h[S]
  BY SumIsSolution
<1> QED BY <1>1, <1>2, SolutionsAgree

(* Whichever element is taken first, it adds its value: by induction on    *)
(* the size, both the one chosen and the one asked for being taken out.    *)
LEMMA SolutionRemoves ==
    ASSUME NEW S, IsFiniteSet(S), NEW f, \A x \in S : f[x] \in Int,
           NEW g \in [SUBSET S -> Int], Solves(g, f, SUBSET S)
    PROVE  \A s \in SUBSET S : \A x \in s : g[s] = g[s \ {x}] + f[x]
<1> DEFINE T == {n \in Nat : \A s \in SUBSET S : Cardinality(s) = n =>
                    \A x \in s : g[s] = g[s \ {x}] + f[x]}
<1>1. \A s \in SUBSET S : IsFiniteSet(s) /\ Cardinality(s) \in Nat
  BY FS_Subset, FS_CardinalityType
<1>2. 0 \in T
  BY <1>1, FS_EmptySet
<1>3. ASSUME NEW n \in Nat, n \in T PROVE n + 1 \in T
  <2> SUFFICES ASSUME NEW s \in SUBSET S, Cardinality(s) = n + 1, NEW x \in s
               PROVE  g[s] = g[s \ {x}] + f[x]
    OBVIOUS
  <2> DEFINE c == Chosen(s)
             both == (s \ {x}) \ {c}
  <2>1. c \in s /\ g[s] = f[c] + g[s \ {c}]
    BY <1>1, ChosenLeaves DEF Solves
  <2>2. /\ s \ {x} \in SUBSET S /\ s \ {c} \in SUBSET S /\ both \in SUBSET S
        /\ Cardinality(s \ {x}) = n /\ Cardinality(s \ {c}) = n
    <3>1. IsFiniteSet(s) /\ Cardinality(s) = n + 1  BY <1>1
    <3>2. Cardinality(s \ {x}) = (n + 1) - 1  BY <3>1, OneLess
    <3>3. Cardinality(s \ {c}) = (n + 1) - 1  BY <2>1, <3>1, OneLess
    <3> QED BY <2>1, <3>2, <3>3
  <2>3. f[x] \in Int /\ f[c] \in Int /\ g[s \ {x}] \in Int /\ g[s \ {c}] \in Int /\ g[both] \in Int
    BY <2>1, <2>2
  <2>4. CASE x = c  BY <2>1, <2>3, <2>4
  <2>5. CASE x # c
    <3>1. (s \ {c}) \ {x} = both  OBVIOUS
    <3>2. x \in s \ {c} /\ c \in s \ {x}  BY <2>1, <2>5
    <3> HIDE DEF c, both
    <3>3. g[s \ {c}] = g[both] + f[x]  BY <1>3, <2>2, <3>1, <3>2
    <3>4. g[s \ {x}] = g[both] + f[c]  BY <1>3, <2>2, <3>2 DEF both
    <3> QED BY <2>1, <2>3, <3>3, <3>4
  <2> QED BY <2>4, <2>5
<1>4. \A n \in Nat : n \in T
  <2> HIDE DEF T
  <2> QED BY <1>2, <1>3, NatSetInduction
<1> QED BY <1>1, <1>4

LEMMA SumRemove ==
    ASSUME NEW S, IsFiniteSet(S), NEW f, \A y \in S : f[y] \in Int, NEW x \in S
    PROVE  SumFunctionOnSet(f, S) = SumFunctionOnSet(f, S \ {x}) + f[x]
<1>1. PICK g \in [SUBSET S -> Int] : Solves(g, f, SUBSET S) /\ SumFunctionOnSet(f, S) = g[S]
  BY SumIsSolution
<1>2. IsFiniteSet(S \ {x})  BY FS_RemoveElement
<1>3. PICK h : Solves(h, f, SUBSET (S \ {x})) /\ SumFunctionOnSet(f, S \ {x}) = h[S \ {x}]
  BY <1>2, SumIsSolution
<1>4. Solves(g, f, SUBSET (S \ {x}))
  BY <1>1 DEF Solves
<1>5. g[S \ {x}] = h[S \ {x}]
  BY <1>2, <1>3, <1>4, SolutionsAgree
<1>6. g[S] = g[S \ {x}] + f[x]
  BY <1>1, SolutionRemoves
<1> QED BY <1>1, <1>3, <1>5, <1>6

LEMMA SumAdd ==
    ASSUME NEW S, IsFiniteSet(S), NEW f, NEW x, x \notin S,
           \A y \in S \cup {x} : f[y] \in Int
    PROVE  SumFunctionOnSet(f, S \cup {x}) = SumFunctionOnSet(f, S) + f[x]
<1>1. IsFiniteSet(S \cup {x}) /\ (S \cup {x}) \ {x} = S
  BY FS_AddElement
<1> QED BY <1>1, SumRemove

(* Sums of natural numbers are natural numbers, each of them at least as   *)
(* large as every number summed.                                           *)
LEMMA SumNat ==
    ASSUME NEW S, IsFiniteSet(S), NEW f, \A x \in S : f[x] \in Nat
    PROVE  /\ SumFunctionOnSet(f, S) \in Nat
           /\ \A x \in S : f[x] <= SumFunctionOnSet(f, S)
<1> DEFINE sum(s) == SumFunctionOnSet(f, s)
           T == {n \in Nat : \A s \in SUBSET S : Cardinality(s) = n => sum(s) \in Nat}
<1>1. \A s \in SUBSET S : IsFiniteSet(s) /\ Cardinality(s) \in Nat
  BY FS_Subset, FS_CardinalityType
<1> HIDE DEF sum
<1>2. 0 \in T
  BY <1>1, FS_EmptySet, SumEmpty DEF sum
<1>3. ASSUME NEW n \in Nat, n \in T PROVE n + 1 \in T
  <2> SUFFICES ASSUME NEW s \in SUBSET S, Cardinality(s) = n + 1 PROVE sum(s) \in Nat
    OBVIOUS
  <2>1. PICK x : x \in s  BY <1>1, FS_EmptySet
  <2>2. s \ {x} \in SUBSET S /\ Cardinality(s \ {x}) = n
    <3>1. IsFiniteSet(s) /\ Cardinality(s) = n + 1  BY <1>1
    <3>2. Cardinality(s \ {x}) = (n + 1) - 1  BY <2>1, <3>1, OneLess
    <3> QED BY <3>2
  <2>3. sum(s) = sum(s \ {x}) + f[x]  BY <1>1, <2>1, SumRemove DEF sum
  <2> QED BY <1>3, <2>1, <2>2, <2>3
<1>4. \A n \in Nat : n \in T
  <2> HIDE DEF T
  <2> QED BY <1>2, <1>3, NatSetInduction
<1>5. \A s \in SUBSET S : sum(s) \in Nat
  BY <1>1, <1>4
<1>6. \A x \in S : sum(S) = sum(S \ {x}) + f[x]
  BY SumRemove DEF sum
<1>7. sum(S) \in Nat /\ \A x \in S : sum(S \ {x}) \in Nat
  BY <1>5
<1>8. ASSUME NEW x \in S PROVE f[x] <= sum(S)
  <2>1. sum(S) = sum(S \ {x}) + f[x] /\ f[x] \in Nat  BY <1>6
  <2>2. sum(S) \in Nat /\ sum(S \ {x}) \in Nat  BY <1>7
  <2> QED BY <2>1, <2>2
<1> QED BY <1>7, <1>8 DEF sum

(* A sum after one more element, whatever else the function now maps.      *)
LEMMA SumGrows ==
    ASSUME NEW S, IsFiniteSet(S), NEW f, NEW e, NEW x, x \notin S, e[x] \in Int,
           \A y \in S : f[y] \in Int /\ f[y] = e[y],
           NEW U, U = S \cup {x}
    PROVE  SumFunctionOnSet(e, U) = SumFunctionOnSet(f, S) + e[x]
<1>1. SumFunctionOnSet(e, S \cup {x}) = SumFunctionOnSet(e, S) + e[x]
  BY SumAdd
<1>2. SumFunctionOnSet(f, S) = SumFunctionOnSet(e, S)
  BY SumSame
<1> QED BY <1>1, <1>2

(* Elements that map to zero may be left out, by induction on their number. *)
LEMMA SumZeros ==
    ASSUME NEW S, IsFiniteSet(S), NEW f, \A x \in S : f[x] \in Int,
           NEW Z \in SUBSET S, \A x \in Z : f[x] = 0
    PROVE  SumFunctionOnSet(f, S) = SumFunctionOnSet(f, S \ Z)
<1> DEFINE sum(s) == SumFunctionOnSet(f, s)
           T == {n \in Nat : \A z \in SUBSET Z : Cardinality(z) = n => sum(S) = sum(S \ z)}
<1>1. \A s \in SUBSET S : IsFiniteSet(s) /\ Cardinality(s) \in Nat
  BY FS_Subset, FS_CardinalityType
<1> HIDE DEF sum
<1>2. 0 \in T
  BY <1>1, FS_EmptySet
<1>3. ASSUME NEW n \in Nat, n \in T PROVE n + 1 \in T
  <2> SUFFICES ASSUME NEW z \in SUBSET Z, Cardinality(z) = n + 1 PROVE sum(S) = sum(S \ z)
    OBVIOUS
  <2>1. PICK x : x \in z  BY <1>1, FS_EmptySet
  <2>2. z \ {x} \in SUBSET Z /\ Cardinality(z \ {x}) = n
    <3>1. IsFiniteSet(z) /\ Cardinality(z) = n + 1  BY <1>1
    <3>2. Cardinality(z \ {x}) = (n + 1) - 1  BY <2>1, <3>1, OneLess
    <3> QED BY <3>2
  <2> DEFINE kept == S \ (z \ {x})
  <2>3. sum(S) = sum(kept)  BY <1>3, <2>2
  <2>4. kept \in SUBSET S /\ x \in kept /\ kept \ {x} = S \ z  BY <2>1
  <2>5. IsFiniteSet(kept) /\ \A y \in kept : f[y] \in Int  BY <1>1, <2>4
  <2> HIDE DEF kept
  <2>6. sum(kept) = sum(kept \ {x}) + f[x]  BY <2>4, <2>5, SumRemove DEF sum
  <2>7. sum(kept \ {x}) \in Int
    BY <1>1, <2>4, SumType DEF sum
  <2>8. f[x] = 0  BY <2>1
  <2>9. sum(kept \ {x}) = sum(S \ z)  BY <2>4
  <2> QED BY <2>3, <2>6, <2>7, <2>8, <2>9
<1>4. \A n \in Nat : n \in T
  <2> HIDE DEF T
  <2> QED BY <1>2, <1>3, NatSetInduction
<1>5. IsFiniteSet(Z) /\ Cardinality(Z) \in Nat  BY <1>1
<1> QED BY <1>4, <1>5 DEF sum

(* Natural numbers left out of a sum do not make it larger, by induction   *)
(* on how many are left out.                                               *)
LEMMA SumMonotone ==
    ASSUME NEW S, IsFiniteSet(S), NEW f, \A x \in S : f[x] \in Nat,
           NEW Z \in SUBSET S
    PROVE  SumFunctionOnSet(f, S \ Z) <= SumFunctionOnSet(f, S)
<1> DEFINE sum(s) == SumFunctionOnSet(f, s)
           T == {n \in Nat : \A z \in SUBSET Z : Cardinality(z) = n => sum(S \ z) <= sum(S)}
<1>1. \A s \in SUBSET S : IsFiniteSet(s) /\ Cardinality(s) \in Nat
  BY FS_Subset, FS_CardinalityType
<1>2. \A s \in SUBSET S : sum(s) \in Nat
  BY <1>1, SumNat
<1> HIDE DEF sum
<1>3. 0 \in T
  <2>1. \A z \in SUBSET Z : Cardinality(z) = 0 => sum(S \ z) = sum(S)
    BY <1>1, FS_EmptySet
  <2> QED BY <1>2, <2>1
<1>4. ASSUME NEW n \in Nat, n \in T PROVE n + 1 \in T
  <2> SUFFICES ASSUME NEW z \in SUBSET Z, Cardinality(z) = n + 1 PROVE sum(S \ z) <= sum(S)
    OBVIOUS
  <2>1. PICK x : x \in z  BY <1>1, FS_EmptySet
  <2>2. z \ {x} \in SUBSET Z /\ Cardinality(z \ {x}) = n
    <3>1. IsFiniteSet(z) /\ Cardinality(z) = n + 1  BY <1>1
    <3>2. Cardinality(z \ {x}) = (n + 1) - 1  BY <2>1, <3>1, OneLess
    <3> QED BY <3>2
  <2> DEFINE kept == S \ (z \ {x})
  <2>3. sum(kept) <= sum(S)  BY <1>4, <2>2
  <2>4. kept \in SUBSET S /\ x \in kept /\ kept \ {x} = S \ z  BY <2>1
  <2>5. IsFiniteSet(kept) /\ \A y \in kept : f[y] \in Int  BY <1>1, <2>4
  <2> HIDE DEF kept
  <2>6. sum(kept) = sum(kept \ {x}) + f[x]  BY <2>4, <2>5, SumRemove DEF sum
  <2>7. sum(kept \ {x}) = sum(S \ z)  BY <2>4
  <2>8. sum(S \ z) \in Nat /\ sum(kept) \in Nat /\ sum(S) \in Nat /\ f[x] \in Nat
    BY <1>2, <2>1, <2>4
  <2> QED BY <2>3, <2>6, <2>7, <2>8
<1>5. \A n \in Nat : n \in T
  <2> HIDE DEF T
  <2> QED BY <1>3, <1>4, NatSetInduction
<1>6. IsFiniteSet(Z) /\ Cardinality(Z) \in Nat  BY <1>1
<1> QED BY <1>5, <1>6 DEF sum

(* One value changed changes the sum by as much. *)
LEMMA SumUpdate ==
    ASSUME NEW S, IsFiniteSet(S), NEW f \in [S -> Int], NEW x \in S, NEW d \in Int
    PROVE  SumFunctionOnSet([f EXCEPT ![x] = @ + d], S) = SumFunctionOnSet(f, S) + d
<1> DEFINE e == [f EXCEPT ![x] = @ + d]
<1>1. /\ \A y \in S : f[y] \in Int /\ e[y] \in Int
      /\ \A y \in S \ {x} : e[y] = f[y]
      /\ e[x] = f[x] + d
  OBVIOUS
<1> HIDE DEF e
<1>2. SumFunctionOnSet(f, S) = SumFunctionOnSet(f, S \ {x}) + f[x]  BY <1>1, SumRemove
<1>3. SumFunctionOnSet(e, S) = SumFunctionOnSet(e, S \ {x}) + e[x]  BY <1>1, SumRemove
<1>4. IsFiniteSet(S \ {x})  BY FS_RemoveElement
<1>5. SumFunctionOnSet(f, S \ {x}) = SumFunctionOnSet(e, S \ {x})
  <2>1. \A y \in S \ {x} : f[y] \in Int /\ f[y] = e[y]  BY <1>1
  <2> QED BY ONLY <1>4, <2>1, SumSame
<1>6. SumFunctionOnSet(f, S \ {x}) \in Int
  <2>1. \A y \in S \ {x} : f[y] \in Int  BY <1>1
  <2> QED BY ONLY <1>4, <2>1, SumType
<1>7. SumFunctionOnSet(e, S) = SumFunctionOnSet(f, S) + d
  BY <1>1, <1>2, <1>3, <1>5, <1>6
<1> QED BY <1>7 DEF e

(* The places of a sequence before and after it grows by an entry. *)
LEMMA PlacesGrow ==
    ASSUME NEW n, n \in Nat
    PROVE  IsFiniteSet(1 .. n) /\ n + 1 \notin 1 .. n /\ 1 .. n + 1 = (1 .. n) \cup {n + 1}
<1>1. IsFiniteSet(1 .. n)  BY FS_Interval
<1>2. n + 1 \notin 1 .. n /\ 1 .. n + 1 = (1 .. n) \cup {n + 1}  OBVIOUS
<1> QED BY <1>1, <1>2

(* The sum over some places of a sequence, before and after it grows by an *)
(* entry that may or may not count.                                        *)
LEMMA SumStep ==
    ASSUME NEW D, IsFiniteSet(D), NEW k, k \notin D, NEW D2, NEW f, NEW e, NEW x, x \in Nat,
           (D2 = D \cup {k} /\ e[k] = x) \/ (D2 = D /\ x = 0),
           \A i \in D : f[i] \in Nat /\ e[i] = f[i]
    PROVE  /\ SumFunctionOnSet(f, D) \in Nat
           /\ SumFunctionOnSet(e, D2) = SumFunctionOnSet(f, D) + x
<1>1. \A i \in D : f[i] \in Int /\ f[i] = e[i]
  OBVIOUS
<1>2. SumFunctionOnSet(f, D) \in Nat
  BY SumNat
<1>3. CASE D2 = D /\ x = 0
  <2>1. SumFunctionOnSet(f, D) = SumFunctionOnSet(e, D)  BY <1>1, SumSame
  <2>2. SumFunctionOnSet(e, D2) = SumFunctionOnSet(f, D)  BY <1>3, <2>1, Zenon
  <2> QED BY <1>2, <1>3, <2>2
<1>4. CASE D2 = D \cup {k} /\ e[k] = x
  <2>1. IsFiniteSet(D) /\ k \notin D /\ e[k] \in Int  BY <1>4
  <2>2. SumFunctionOnSet(e, D2) = SumFunctionOnSet(f, D) + e[k]
    BY ONLY <1>1, <1>4, <2>1, SumGrows
  <2>3. e[k] = x  BY <1>4
  <2> QED BY <1>2, <2>2, <2>3
<1> QED BY <1>2, <1>3, <1>4
========================================================================
