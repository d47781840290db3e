---------------------------- MODULE Rv32_proofs ----------------------------
(***************************************************************************)
(* What a proof that verifies binds, for every program and every value of  *)
(* the constants.  Two halves: the sponges of the three digests, as terms,  *)
(* have one header and one sequence of words each; and the rows that the   *)
(* rules of the cpu table let a prover write absorb exactly the words its  *)
(* tables hold, from the first to the last, before any instruction runs.   *)
(* A region's count and table are compared nowhere: that no row of it ends  *)
(* early follows from the count that drains to zero and from the digest    *)
(* bus, every entry of which is looked up once.                            *)
(* Then, that the rows behind the regions are the steps of the emulator:   *)
(* RunInv says where a hash group's rows stand, and one lemma per kind of  *)
(* row shows the step it is.                                               *)
(***************************************************************************)
EXTENDS MCRv32, SumTheorems, SequenceTheorems

-----------------------------------------------------------------------------
(* Arithmetic. *)

(* The quotient by the rate of a number within a block. *)
LEMMA DivIs ==
    ASSUME NEW x \in Nat, NEW q \in Nat, Rate * q <= x, x < Rate * q + Rate
    PROVE  x \div Rate = q
BY RateAssumption

(* A difference in the field, of numbers below its size. *)
LEMMA SubIs ==
    ASSUME NEW a \in Nat, NEW b \in Nat, a < P, b <= P
    PROVE  Sub(a, b) = IF a >= b THEN a - b ELSE a + P - b
BY FieldAssumption DEF Sub

-----------------------------------------------------------------------------
(* The sponge.  The states of a sponge are a recursive function, which     *)
(* exists, is unique, and so does not depend on how far it is computed.    *)

Step(g, seed, ws, k) == IF k = 0 THEN seed ELSE Perm(Overwrite(g[k - 1], Block(ws, k)))
Sponge(g, seed, ws, n) == g = [k \in 0..n |-> Step(g, seed, ws, k)]

(* A sponge of any number of blocks has states. *)
LEMMA SpongeExists ==
    ASSUME NEW seed, NEW ws
    PROVE  \A n \in Nat : \E g : Sponge(g, seed, ws, n)
<1> DEFINE T == {n \in Nat : \E g : Sponge(g, seed, ws, n)}
<1>1. 0 \in T
  <2> DEFINE g == [k \in 0..0 |-> seed]
  <2>1. Sponge(g, seed, ws, 0)  BY DEF Sponge, Step
  <2> QED BY <2>1
<1>2. ASSUME NEW n \in Nat, n \in T PROVE n + 1 \in T
  <2>1. PICK g : Sponge(g, seed, ws, n)  BY <1>2
  <2> DEFINE h == [k \in 0..(n + 1) |-> Step(g, seed, ws, k)]
  <2>2. \A k \in 0..(n + 1) : k = 0 \/ (k - 1 \in 0..n /\ h[k - 1] = g[k - 1])
    <3>1. \A j \in 0..n : h[j] = g[j]
      <4>1. \A j \in 0..n : h[j] = Step(g, seed, ws, j)  OBVIOUS
      <4>2. \A j \in 0..n : g[j] = Step(g, seed, ws, j)  BY <2>1 DEF Sponge
      <4> QED BY <4>1, <4>2
    <3> HIDE DEF h
    <3> QED BY <3>1
  <2>3. h = [k \in 0..(n + 1) |-> Step(g, seed, ws, k)]  OBVIOUS
  <2> HIDE DEF h
  <2>4. \A k \in 0..(n + 1) : Step(h, seed, ws, k) = Step(g, seed, ws, k)
    BY <2>2 DEF Step
  <2>5. h = [k \in 0..(n + 1) |-> Step(h, seed, ws, k)]  BY <2>3, <2>4
  <2>6. Sponge(h, seed, ws, n + 1)  BY <2>5 DEF Sponge
  <2> QED BY <2>6
<1> HIDE DEF T
<1>3. \A n \in Nat : n \in T  BY <1>1, <1>2, NatSetInduction
<1> QED BY <1>3 DEF T

(* And Absorbed takes the last of them. *)
LEMMA AbsorbedIs ==
    ASSUME NEW seed, NEW ws, NEW n \in Nat
    PROVE  \E g : Sponge(g, seed, ws, n) /\ Absorbed(seed, ws, n) = g[n]
<1> DEFINE iter == CHOOSE g : g = [k \in 0..n |->
                     IF k = 0 THEN seed ELSE Perm(Overwrite(g[k - 1], Block(ws, k)))]
<1>1. PICK g : g = [k \in 0..n |->
                     IF k = 0 THEN seed ELSE Perm(Overwrite(g[k - 1], Block(ws, k)))]
  <2>1. \E g : Sponge(g, seed, ws, n)  BY SpongeExists
  <2> QED BY <2>1 DEF Sponge, Step
<1>2. iter = [k \in 0..n |->
                IF k = 0 THEN seed ELSE Perm(Overwrite(iter[k - 1], Block(ws, k)))]
  BY <1>1
<1>3. Absorbed(seed, ws, n) = iter[n]  BY DEF Absorbed
<1> HIDE DEF iter
<1> QED BY <1>2, <1>3 DEF Sponge, Step

(* Two of them agree as far as both go. *)
LEMMA SpongeUnique ==
    ASSUME NEW seed, NEW ws, NEW n \in Nat, NEW m \in Nat, n <= m,
           NEW g, Sponge(g, seed, ws, n), NEW h, Sponge(h, seed, ws, m)
    PROVE  \A k \in 0..n : g[k] = h[k]
<1> DEFINE T == {k \in Nat : k <= n => g[k] = h[k]}
<1>0. /\ \A k \in 0..n : g[k] = Step(g, seed, ws, k)
      /\ \A k \in 0..m : h[k] = Step(h, seed, ws, k)
  BY DEF Sponge
<1>1. 0 \in T  BY <1>0 DEF Step
<1>2. ASSUME NEW k \in Nat, k \in T PROVE k + 1 \in T
  <2> SUFFICES ASSUME k + 1 <= n PROVE g[k + 1] = h[k + 1]
    OBVIOUS
  <2>1. g[k] = h[k] /\ k + 1 \in 0..n /\ k + 1 \in 0..m /\ k + 1 # 0 /\ (k + 1) - 1 = k
    BY <1>2
  <2> QED BY <1>0, <2>1 DEF Step
<1> HIDE DEF T
<1>3. \A k \in Nat : k \in T  BY <1>1, <1>2, NatSetInduction
<1> QED BY <1>3 DEF T

(* Nothing absorbed leaves the seed, and a block more is one permutation.  *)
LEMMA AbsorbedNext ==
    ASSUME NEW seed, NEW ws
    PROVE  /\ Absorbed(seed, ws, 0) = seed
           /\ \A n \in Nat : Absorbed(seed, ws, n + 1)
                               = Perm(Overwrite(Absorbed(seed, ws, n), Block(ws, n + 1)))
<1>1. Absorbed(seed, ws, 0) = seed
  <2>1. PICK g : Sponge(g, seed, ws, 0) /\ Absorbed(seed, ws, 0) = g[0]  BY AbsorbedIs
  <2> QED BY <2>1 DEF Sponge, Step
<1>2. ASSUME NEW n \in Nat
      PROVE  Absorbed(seed, ws, n + 1)
               = Perm(Overwrite(Absorbed(seed, ws, n), Block(ws, n + 1)))
  <2>1. PICK g : Sponge(g, seed, ws, n) /\ Absorbed(seed, ws, n) = g[n]  BY AbsorbedIs
  <2>2. PICK h : Sponge(h, seed, ws, n + 1) /\ Absorbed(seed, ws, n + 1) = h[n + 1]
    BY AbsorbedIs
  <2>3. g[n] = h[n]  BY <2>1, <2>2, SpongeUnique
  <2>4. h[n + 1] = Step(h, seed, ws, n + 1)  BY <2>2 DEF Sponge
  <2>5. n + 1 # 0 /\ (n + 1) - 1 = n  OBVIOUS
  <2> QED BY <2>1, <2>2, <2>3, <2>4, <2>5 DEF Step
<1> QED BY <1>1, <1>2

(* A digest is a permutation, of what its last block leaves. *)
LEMMA LastBlock ==
    ASSUME NEW seed, NEW ws, NEW n \in Nat \ {0}
    PROVE  Absorbed(seed, ws, n)
             = Perm(Overwrite(Absorbed(seed, ws, n - 1), Block(ws, n)))
<1>1. PICK j \in Nat : n = j + 1 /\ n - 1 = j
  <2>1. n - 1 \in Nat /\ n = (n - 1) + 1  OBVIOUS
  <2> QED BY <2>1
<1>2. Absorbed(seed, ws, j + 1) = Perm(Overwrite(Absorbed(seed, ws, j), Block(ws, j + 1)))
  BY AbsorbedNext
<1> QED BY <1>1, <1>2

-----------------------------------------------------------------------------
(* Digests bind.  A capacity is a header or comes from one permutation, so *)
(* two sponges that meet have started alike and absorbed alike.            *)

Header(c) == \A s : c # <<"cap", s>>

LEMMA StateFacts ==
    ASSUME NEW s, NEW ws
    PROVE  /\ Perm(s).cap = <<"cap", s>>
           /\ Perm(s).rate = [i \in 1..Rate |-> <<"lane", i, s>>]
           /\ \A c : Seed(c).cap = c
BY DEF Perm, Seed

(* A permutation output is of one state. *)
LEMMA PermBinds ==
    ASSUME NEW s, NEW t, Perm(s).rate = Perm(t).rate
    PROVE  s = t
<1>1. 1 \in 1..Rate  BY RateAssumption
<1>2. Perm(s).rate[1] = <<"lane", 1, s>> /\ Perm(t).rate[1] = <<"lane", 1, t>>
  BY <1>1 DEF Perm
<1>3. <<"lane", 1, s>> = <<"lane", 1, t>>  BY <1>2
<1> QED BY <1>3

Recorded(s) == s = [rate |-> s.rate, cap |-> s.cap]

LEMMA OverwriteFacts ==
    ASSUME NEW s, Recorded(s), NEW ws
    PROVE  /\ Recorded(Overwrite(s, ws))
           /\ Overwrite(s, ws).cap = s.cap
           /\ Overwrite(s, ws).rate
                = [i \in 1..Rate |-> IF i <= Len(ws) THEN ws[i] ELSE s.rate[i]]
<1> DEFINE r == s.rate
           c == s.cap
           new == [i \in 1..Rate |-> IF i <= Len(ws) THEN ws[i] ELSE s.rate[i]]
<1>1. s = [rate |-> r, cap |-> c]  BY DEF Recorded
<1>2. Overwrite(s, ws) = [s EXCEPT !.rate = new]  BY DEF Overwrite
<1> HIDE DEF r, c, new
<1>3. Overwrite(s, ws) = [rate |-> new, cap |-> c]  BY <1>1, <1>2
<1>4. Overwrite(s, ws).cap = c /\ Overwrite(s, ws).rate = new  BY <1>3
<1> QED BY <1>3, <1>4 DEF r, c, new, Recorded

LEMMA OverwriteLane ==
    ASSUME NEW s, Recorded(s), NEW ws, NEW i \in 1..Rate, i <= Len(ws)
    PROVE  Overwrite(s, ws).rate[i] = ws[i]
<1>1. Overwrite(s, ws).rate = [k \in 1..Rate |-> IF k <= Len(ws) THEN ws[k] ELSE s.rate[k]]
  BY OverwriteFacts
<1> QED BY <1>1

(* A sponge is a record, and past its start a permutation. *)
LEMMA SpongeFacts ==
    ASSUME NEW c, NEW ws
    PROVE  /\ \A n \in Nat : Recorded(Absorbed(Seed(c), ws, n))
           /\ Absorbed(Seed(c), ws, 0).cap = c
           /\ \A n \in Nat : Absorbed(Seed(c), ws, n + 1).cap
                = <<"cap", Overwrite(Absorbed(Seed(c), ws, n), Block(ws, n + 1))>>
<1>1. Recorded(Seed(c)) /\ Seed(c).cap = c  BY DEF Recorded, Seed
<1>2. \A s : Recorded(Perm(s)) /\ Perm(s).cap = <<"cap", s>>  BY DEF Recorded, Perm
<1>3. Absorbed(Seed(c), ws, 0) = Seed(c)  BY AbsorbedNext
<1>4. ASSUME NEW n \in Nat
      PROVE  Absorbed(Seed(c), ws, n + 1)
               = Perm(Overwrite(Absorbed(Seed(c), ws, n), Block(ws, n + 1)))
  BY AbsorbedNext
<1>5. ASSUME NEW n \in Nat PROVE Recorded(Absorbed(Seed(c), ws, n))
  <2>1. CASE n = 0  BY <1>1, <1>3, <2>1
  <2>2. CASE n # 0
    <3>1. n - 1 \in Nat /\ (n - 1) + 1 = n  BY <2>2
    <3>2. Absorbed(Seed(c), ws, (n - 1) + 1)
            = Perm(Overwrite(Absorbed(Seed(c), ws, n - 1), Block(ws, (n - 1) + 1)))
      BY <3>1, <1>4
    <3> QED BY <1>2, <3>1, <3>2
  <2> QED BY <2>1, <2>2
<1> QED BY <1>1, <1>2, <1>3, <1>4, <1>5

(* What the n blocks up to a state overwrote, in two sponges. *)
SameBlocks(c, vs, ws, n) ==
    \A k \in 1..n : Overwrite(Absorbed(Seed(c), vs, k - 1), Block(vs, k))
                      = Overwrite(Absorbed(Seed(c), ws, k - 1), Block(ws, k))

(* Two capacities are alike only after as many blocks of the same words, *)
(* from the same header.                                                 *)
LEMMA CapsBind ==
    ASSUME NEW c, Header(c), NEW d, Header(d), NEW vs, NEW ws
    PROVE  \A n \in Nat : \A m \in Nat :
              Absorbed(Seed(c), vs, n).cap = Absorbed(Seed(d), ws, m).cap
                => n = m /\ c = d /\ SameBlocks(c, vs, ws, n)
<1> DEFINE V(n) == Absorbed(Seed(c), vs, n)
           U(n) == Absorbed(Seed(d), ws, n)
           Goal(n, m) == V(n).cap = U(m).cap => n = m /\ c = d /\ SameBlocks(c, vs, ws, n)
           T == {n \in Nat : \A m \in Nat : Goal(n, m)}
<1>1. /\ V(0).cap = c /\ U(0).cap = d
      /\ \A n \in Nat : Recorded(V(n)) /\ Recorded(U(n))
      /\ \A n \in Nat : V(n + 1).cap = <<"cap", Overwrite(V(n), Block(vs, n + 1))>>
      /\ \A n \in Nat : U(n + 1).cap = <<"cap", Overwrite(U(n), Block(ws, n + 1))>>
  BY SpongeFacts
<1>2. \A m \in Nat : m = 0 \/ (m - 1 \in Nat /\ (m - 1) + 1 = m)  OBVIOUS
<1>3. \A n, m \in Nat : c = d /\ n = m /\ SameBlocks(c, vs, ws, n)
                          => (\A k \in 1..n : Overwrite(V(k - 1), Block(vs, k))
                                                = Overwrite(U(k - 1), Block(ws, k)))
  BY DEF SameBlocks
<1>4. \A n \in Nat : c = d /\ (\A k \in 1..n : Overwrite(V(k - 1), Block(vs, k))
                                                = Overwrite(U(k - 1), Block(ws, k)))
                       => SameBlocks(c, vs, ws, n)
  BY DEF SameBlocks
<1> HIDE DEF V, U
<1>5. 0 \in T
  <2> SUFFICES ASSUME NEW m \in Nat, V(0).cap = U(m).cap
               PROVE  0 = m /\ c = d /\ SameBlocks(c, vs, ws, 0)
    OBVIOUS
  <2>1. m = 0
    <3> SUFFICES ASSUME m # 0 PROVE FALSE
      OBVIOUS
    <3>1. U(m).cap = <<"cap", Overwrite(U(m - 1), Block(ws, (m - 1) + 1))>>  BY <1>1, <1>2
    <3> QED BY <1>1, <3>1 DEF Header
  <2>2. c = d  BY <1>1, <2>1
  <2>3. SameBlocks(c, vs, ws, 0)  BY DEF SameBlocks
  <2> QED BY <2>1, <2>2, <2>3
<1>6. ASSUME NEW n \in Nat, n \in T PROVE n + 1 \in T
  <2> SUFFICES ASSUME NEW m \in Nat, V(n + 1).cap = U(m).cap
               PROVE  n + 1 = m /\ c = d /\ SameBlocks(c, vs, ws, n + 1)
    OBVIOUS
  <2> DEFINE v == Overwrite(V(n), Block(vs, n + 1))
             u == Overwrite(U(m - 1), Block(ws, (m - 1) + 1))
  <2>1. V(n + 1).cap = <<"cap", v>>  BY <1>1
  <2>2. m # 0  BY <1>1, <2>1 DEF Header
  <2>3. m - 1 \in Nat /\ (m - 1) + 1 = m  BY <1>2, <2>2
  <2>4. U(m).cap = <<"cap", u>>  BY <1>1, <2>3
  <2>5. v = u  BY <2>1, <2>4
  <2>6. V(n).cap = U(m - 1).cap
    <3>1. v.cap = V(n).cap  BY <1>1, OverwriteFacts
    <3>2. u.cap = U(m - 1).cap  BY <1>1, <2>3, OverwriteFacts
    <3> QED BY <2>5, <3>1, <3>2
  <2>7. n = m - 1 /\ c = d /\ SameBlocks(c, vs, ws, n)  BY <1>6, <2>3, <2>6
  <2>8. n + 1 = m  BY <2>3, <2>7
  <2>9. ASSUME NEW k \in 1..(n + 1)
        PROVE  Overwrite(V(k - 1), Block(vs, k)) = Overwrite(U(k - 1), Block(ws, k))
    <3>1. CASE k = n + 1
      <4>1. k - 1 = n /\ k - 1 = m - 1 /\ k = m  BY <2>8, <3>1
      <4> QED BY <2>3, <2>5, <3>1, <4>1
    <3>2. CASE k # n + 1
      <4>1. k \in 1..n  BY <3>2
      <4> QED BY <1>3, <2>7, <4>1
    <3> QED BY <3>1, <3>2
  <2>10. SameBlocks(c, vs, ws, n + 1)  BY <1>4, <2>7, <2>9
  <2> QED BY <2>7, <2>8, <2>10
<1>7. \A n \in Nat : n \in T
  <2> HIDE DEF T
  <2> QED BY <1>5, <1>6, NatSetInduction
<1> QED BY <1>7 DEF V, U

(* The words of a block. *)
LEMMA BlockFacts ==
    ASSUME NEW S, NEW ws \in Seq(S), NEW j \in Nat, Rate * j <= Len(ws)
    PROVE  LET len == IF Rate * j + Rate < Len(ws) THEN Rate ELSE Len(ws) - Rate * j
           IN  /\ Len(Block(ws, j + 1)) = len
               /\ \A i \in 1..len : Block(ws, j + 1)[i] = ws[Rate * j + i]
<1> DEFINE a == Rate * j
           size == Len(ws)
           len == IF a + Rate < size THEN Rate ELSE size - a
           from == a + 1
           to == IF a + Rate < size THEN a + Rate ELSE size
<1>1. Rate \in Nat /\ Rate > 0 /\ size \in Nat /\ a \in Nat /\ a <= size
  BY RateAssumption
<1>2. Block(ws, j + 1) = SubSeq(ws, from, to)
  <2>1. Rate * ((j + 1) - 1) = a /\ Rate * (j + 1) = a + Rate  BY <1>1
  <2> QED BY <2>1 DEF Block
<1> HIDE DEF a
<1>3. from \in Int /\ to \in Int /\ \A i \in from..to : i \in 1..size
  BY <1>1
<1>4. \A i \in from..to : ws[i] \in S
  <2> HIDE DEF from, to
  <2> QED BY <1>3, ElementOfSeq
<1>5. /\ Len(SubSeq(ws, from, to)) = IF from <= to THEN to - from + 1 ELSE 0
      /\ \A i \in 1..(to - from + 1) : SubSeq(ws, from, to)[i] = ws[from + i - 1]
  <2> HIDE DEF from, to
  <2>1. from \in Int /\ to \in Int  BY <1>3
  <2> QED BY ONLY <1>4, <2>1, SubSeqProperties
<1>6. /\ len = to - from + 1 /\ len = IF from <= to THEN to - from + 1 ELSE 0
      /\ \A i \in 1..len : from + i - 1 = a + i
  BY <1>1
<1>7. Len(Block(ws, j + 1)) = len /\ \A i \in 1..len : Block(ws, j + 1)[i] = ws[a + i]
  <2> HIDE DEF from, to, len
  <2> QED BY <1>2, <1>5, <1>6
<1> QED BY <1>7 DEF a, len, size

(* Words of one length that made the same states are the same. *)
LEMMA WordsBind ==
    ASSUME NEW S, NEW vs \in Seq(S), NEW ws \in Seq(S), Len(vs) = Len(ws),
           NEW c, NEW n \in Nat, Len(vs) <= Rate * n, SameBlocks(c, vs, ws, n)
    PROVE  vs = ws
<1>1. Rate \in Nat /\ Rate > 0 /\ Len(vs) \in Nat  BY RateAssumption
<1>2. ASSUME NEW i \in 1..Len(vs) PROVE vs[i] = ws[i]
  <2> DEFINE q == (i - 1) \div Rate
             o == i - Rate * q
             len == IF Rate * q + Rate < Len(vs) THEN Rate ELSE Len(vs) - Rate * q
  <2>1. q \in Nat /\ Rate * q <= i - 1 /\ i - 1 < Rate * q + Rate  BY <1>1
  <2> HIDE DEF q
  <2>2. Rate * q \in Nat /\ Rate * q <= Len(vs)  BY <1>1, <2>1
  <2>3. o \in 1..Rate /\ Rate * q + o = i /\ o \in 1..len /\ len \in Nat
    <3> DEFINE a == Rate * q
    <3>1. a \in Nat /\ a <= i - 1 /\ i - 1 < a + Rate /\ a <= Len(vs)  BY <2>1, <2>2
    <3> HIDE DEF a
    <3>2. i - a \in 1..Rate /\ a + (i - a) = i  BY <1>1, <3>1
    <3> DEFINE l == IF a + Rate < Len(vs) THEN Rate ELSE Len(vs) - a
    <3>3. i - a \in 1..l /\ l \in Nat  BY <1>1, <3>1
    <3> QED BY <3>2, <3>3 DEF a
  <2>4. q < n
    <3> SUFFICES ASSUME q >= n PROVE FALSE
      BY <2>1
    <3>1. Rate * q >= Rate * n  BY <1>1, <2>1
    <3> QED BY <1>1, <2>1, <2>2, <3>1
  <2>5. q + 1 \in 1..n /\ (q + 1) - 1 = q  BY <2>1, <2>4
  <2>6. Overwrite(Absorbed(Seed(c), vs, q), Block(vs, q + 1))
          = Overwrite(Absorbed(Seed(c), ws, q), Block(ws, q + 1))
    BY <2>5 DEF SameBlocks
  <2>7. /\ Len(Block(vs, q + 1)) = len /\ Block(vs, q + 1)[o] = vs[i]
        /\ Len(Block(ws, q + 1)) = len /\ Block(ws, q + 1)[o] = ws[i]
    <3>1. Len(Block(vs, q + 1)) = len /\ \A k \in 1..len : Block(vs, q + 1)[k] = vs[Rate * q + k]
      BY ONLY <2>1, <2>2, vs \in Seq(S), BlockFacts
    <3>2. Rate * q <= Len(ws)
          /\ len = IF Rate * q + Rate < Len(ws) THEN Rate ELSE Len(ws) - Rate * q
      BY <2>2
    <3>3. Len(Block(ws, q + 1)) = len /\ \A k \in 1..len : Block(ws, q + 1)[k] = ws[Rate * q + k]
      <4> HIDE DEF len
      <4>1. LET l == IF Rate * q + Rate < Len(ws) THEN Rate ELSE Len(ws) - Rate * q
            IN  /\ Len(Block(ws, q + 1)) = l
                /\ \A k \in 1..l : Block(ws, q + 1)[k] = ws[Rate * q + k]
        BY ONLY <2>1, <3>2, ws \in Seq(S), BlockFacts
      <4> QED BY <3>2, <4>1
    <3> HIDE DEF len, o
    <3> QED BY <2>3, <3>1, <3>3
  <2>8. Recorded(Absorbed(Seed(c), vs, q)) /\ Recorded(Absorbed(Seed(c), ws, q))
    BY <2>1, SpongeFacts
  <2> HIDE DEF o, len
  <2>9. o <= len  BY <2>3
  <2>10. /\ Overwrite(Absorbed(Seed(c), vs, q), Block(vs, q + 1)).rate[o] = vs[i]
         /\ Overwrite(Absorbed(Seed(c), ws, q), Block(ws, q + 1)).rate[o] = ws[i]
    <3>1. o \in 1..Rate  BY <2>3
    <3>2. o <= Len(Block(vs, q + 1)) /\ o <= Len(Block(ws, q + 1))  BY <2>7, <2>9
    <3> QED BY <2>7, <2>8, <3>1, <3>2, OverwriteLane
  <2> QED BY <2>6, <2>10
<1> QED BY <1>1, <1>2, SeqEqual

(* The rows of a region: enough for its words, and no more. *)
LEMMA RowsFacts ==
    ASSUME NEW n \in Nat
    PROVE  /\ BlocksOf(n) \in Nat /\ n <= Rate * BlocksOf(n)
           /\ \A q \in Nat : Rate * q < n /\ n <= Rate * q + Rate => BlocksOf(n) = q + 1
           /\ AtLeastOne(BlocksOf(n)) \in Nat \ {0} /\ n <= Rate * AtLeastOne(BlocksOf(n))
           /\ n = 0 => BlocksOf(n) = 0
<1>1. Rate \in Nat /\ Rate > 0  BY RateAssumption
<1>2. BlocksOf(n) \in Nat /\ n <= Rate * BlocksOf(n)
  <2> DEFINE x == n + Rate - 1
             q == x \div Rate
  <2>1. x \in Nat /\ x >= 0  BY <1>1
  <2>2. q \in Nat /\ x < Rate * q + Rate  BY <1>1, <2>1
  <2> HIDE DEF q
  <2>3. n <= Rate * q  BY <1>1, <2>2
  <2> QED BY <2>2, <2>3 DEF q, BlocksOf
<1>3. ASSUME NEW q \in Nat, Rate * q < n, n <= Rate * q + Rate PROVE BlocksOf(n) = q + 1
  <2> DEFINE x == n + Rate - 1
  <2>1. x \in Nat /\ Rate * (q + 1) = Rate * q + Rate /\ q + 1 \in Nat  BY <1>1
  <2>2. Rate * (q + 1) <= x /\ x < Rate * (q + 1) + Rate  BY <1>1, <1>3, <2>1
  <2> HIDE DEF x
  <2>3. x \div Rate = q + 1  BY <2>1, <2>2, DivIs
  <2> QED BY <2>3 DEF x, BlocksOf
<1>4. n = 0 => BlocksOf(n) = 0
  <2> SUFFICES ASSUME n = 0 PROVE BlocksOf(0) = 0
    OBVIOUS
  <2>1. 0 + Rate - 1 \in Nat /\ Rate * 0 <= 0 + Rate - 1 /\ 0 + Rate - 1 < Rate * 0 + Rate  BY <1>1
  <2>2. (0 + Rate - 1) \div Rate = 0  BY <2>1, DivIs
  <2> QED BY <2>2 DEF BlocksOf
<1>5. AtLeastOne(BlocksOf(n)) \in Nat \ {0} /\ n <= Rate * AtLeastOne(BlocksOf(n))
  <2>1. CASE BlocksOf(n) = 0
    <3>1. n <= Rate * 0  BY <1>2, <2>1
    <3>2. AtLeastOne(BlocksOf(n)) = 1  BY <2>1 DEF AtLeastOne
    <3> QED BY <1>1, <3>1, <3>2
  <2>2. CASE BlocksOf(n) # 0
    BY <1>2, <2>2 DEF AtLeastOne
  <2> QED BY <2>1, <2>2
<1> QED BY <1>2, <1>3, <1>4, <1>5

(* Sponges from two headers that end alike. *)
LEMMA SpongesBind ==
    ASSUME NEW c, Header(c), NEW d, Header(d), NEW vs, NEW ws,
           NEW n \in Nat \ {0}, NEW m \in Nat \ {0},
           Absorbed(Seed(c), vs, n).rate = Absorbed(Seed(d), ws, m).rate
    PROVE  n = m /\ c = d /\ SameBlocks(c, vs, ws, n)
<1> DEFINE v == Overwrite(Absorbed(Seed(c), vs, n - 1), Block(vs, n))
           u == Overwrite(Absorbed(Seed(d), ws, m - 1), Block(ws, m))
<1>1. Absorbed(Seed(c), vs, n) = Perm(v)  BY LastBlock
<1>2. Absorbed(Seed(d), ws, m) = Perm(u)  BY LastBlock
<1>3. Absorbed(Seed(c), vs, n).cap = Absorbed(Seed(d), ws, m).cap
  <2> HIDE DEF v, u
  <2>1. Perm(v).rate = Perm(u).rate  BY <1>1, <1>2
  <2>2. v = u  BY <2>1, PermBinds
  <2> QED BY <1>1, <1>2, <2>2
<1> QED BY <1>3, CapsBind

(* A program's digest has one program, of one base. *)
LEMMA ProgramBinds ==
    ASSUME NEW S, NEW vs \in Seq(S), NEW ws \in Seq(S), NEW a, NEW b,
           ProgramDigest(a, vs) = ProgramDigest(b, ws)
    PROVE  a = b /\ vs = ws
<1> DEFINE c == <<"HC", a, Len(vs)>>
           d == <<"HC", b, Len(ws)>>
           n == ProgramRows(vs)
           m == ProgramRows(ws)
<1>1. Len(vs) \in Nat /\ Len(ws) \in Nat  OBVIOUS
<1>2. Header(c) /\ Header(d)  BY DEF Header
<1>3. n \in Nat \ {0} /\ m \in Nat \ {0} /\ Len(vs) <= Rate * n
  BY <1>1, RowsFacts DEF ProgramRows
<1>4. Absorbed(Seed(c), vs, n).rate = Absorbed(Seed(d), ws, m).rate
  BY DEF ProgramDigest, ProgramSeed
<1>5. c = d /\ SameBlocks(c, vs, ws, n)
  <2> HIDE DEF c, d, n, m
  <2> QED BY <1>2, <1>3, <1>4, SpongesBind
<1>6. a = b /\ Len(vs) = Len(ws)  BY <1>5
<1> HIDE DEF c, d, n, m
<1> QED BY <1>3, <1>5, <1>6, WordsBind

(* And a public digest its words. *)
LEMMA PublicBinds ==
    ASSUME NEW S, NEW vs \in Seq(S), NEW ws \in Seq(S), PublicDigest(vs) = PublicDigest(ws)
    PROVE  vs = ws
<1> DEFINE c == <<"PUB", Len(vs)>>
           d == <<"PUB", Len(ws)>>
           n == PublicRows(vs)
           m == PublicRows(ws)
<1>1. Len(vs) \in Nat /\ Len(ws) \in Nat  OBVIOUS
<1>2. Header(c) /\ Header(d)  BY DEF Header
<1>3. n \in Nat \ {0} /\ m \in Nat \ {0} /\ Len(vs) <= Rate * n
  BY <1>1, RowsFacts DEF PublicRows
<1>4. Absorbed(Seed(c), vs, n).rate = Absorbed(Seed(d), ws, m).rate
  BY DEF PublicDigest, PublicSeed
<1>5. c = d /\ SameBlocks(c, vs, ws, n)
  <2> HIDE DEF c, d, n, m
  <2> QED BY <1>2, <1>3, <1>4, SpongesBind
<1>6. Len(vs) = Len(ws)  BY <1>5
<1> HIDE DEF c, d, n, m
<1> QED BY <1>3, <1>5, <1>6, WordsBind

-----------------------------------------------------------------------------
(* The invariant.  Inside a digest region, the row has absorbed its share  *)
(* of the region's words, in order and from the first; behind it, each     *)
(* region's digest is pinned.                                              *)

\* What the rows of a region have absorbed, up to row r: full is what the
\* region is to absorb, pre the words of it that are no entry of its table,
\* and seen the entries looked up.
Reading(r, seen, seed, full, pre) ==
  /\ r.idx \in Nat /\ r.act \in 0..Rate /\ r.left \in Counts /\ r.n \in Nat
  /\ r.hs = Absorbed(seed, full, r.idx)
  /\ r.hv = [i \in 1..Rate |-> IF i <= r.act THEN full[Rate * r.idx + i] ELSE r.hs.rate[i]]
  /\ pre <= Rate * r.idx + r.act /\ Rate * r.idx + r.act <= Len(full)
  /\ r.act = 0 => r.idx = 0
  /\ seen = 1..(Rate * r.idx + r.act - pre)
  /\ r.left = IF r.idx = 0 THEN r.n ELSE r.n + pre - Rate * r.idx
  /\ IF r.last THEN r.left = Drain(r) ELSE r.act = Rate

\* A table read from its second entry on: its first is never looked up.
Skipping == row.idx \in Nat /\ 1 \notin claimed /\ Len(table.words) >= 1

DigestInv ==
  row.kind = "digest" =>
    IF row.next = table.base
    THEN Reading(row, claimed, ProgramSeed(table.base, row.n), table.words, 0)
    ELSE Skipping
IndigestInv ==
  row.kind = "indigest" =>
    \E salt \in Salts : Reading(row, claimed, InputSeed(row.n), salt \o tape, Rate)
PubdigestInv ==
  row.kind = "pubdigest" => Reading(row, claimed, PublicSeed(row.n), pubs, 0)

PlaceInv ==
  /\ row.kind \in Regions \cup {"start", "absorb", "out", "instr"}
  /\ row.kind \in Regions \cup {"start"} => row.sys = "none"
  /\ row.kind \in {"start", "digest"} => row.next \in {table.base, table.base + 4}
  /\ row.kind \in Regions => row.salt = (row.kind = "indigest" /\ row.idx = 0)

GasInv ==
  /\ row.at \in 0..Height /\ row.gas \in Nat
  /\ row.gas <= row.at * (AbsorbGas + ChipGas)

PinInv ==
  /\ DOMAIN pinned = Regions
  /\ row.kind \notin {"start", "digest"} =>
       pinned["digest"] = ProgramDigest(table.base, table.words)
  /\ row.kind \notin {"start", "digest", "indigest"} =>
       \E salt \in Salts : pinned["indigest"] = InputDigest(salt, tape)
  /\ row.kind \notin Regions \cup {"start"} => pinned["pubdigest"] = PublicDigest(pubs)

\* A proof is the last thing a run writes, from what it pinned and put out.
ProofInv ==
  proof # None =>
    /\ row.kind = "instr" /\ row.sys = "halt"
    /\ proof.pinned = pinned
    /\ proof.out = [s \in 0..(NumOutputs - 1) |-> IF s \in DOMAIN outs THEN outs[s] ELSE <<0>>]
    /\ row.gas <= proof.gas

-----------------------------------------------------------------------------
(* The rows of a region. *)

LEMMA Sizes ==
    /\ Rate \in Nat /\ Rate > 0 /\ P \in Nat /\ MaxCount \in Nat /\ MaxCount + Rate < P
    /\ Counts = 0..MaxCount
BY RateAssumption, FieldAssumption, CountAssumption DEF Counts

(* The length of a sequence written as a function. *)
LEMMA LenIs ==
    ASSUME NEW n \in Nat, NEW f, f = [i \in 1..n |-> f[i]]
    PROVE  Len(f) = n
<1> DEFINE S == {f[i] : i \in 1..n}
<1>1. f \in [1..n -> S]  OBVIOUS
<1>2. f \in Seq(S)  BY <1>1
<1> QED BY <1>1, <1>2

(* What a row drains off a count is what stands there. *)
LEMMA DrainIs ==
    ASSUME NEW left \in Counts, NEW d \in 0..Rate
    PROVE  /\ Sub(left, d) = 0 => left = d
           /\ Sub(left, d) \in Counts => left >= d /\ Sub(left, d) = left - d
<1>1. left \in Nat /\ left <= MaxCount /\ left < P /\ d \in Nat /\ d <= P /\ d <= Rate
  BY Sizes
<1>2. Sub(left, d) = IF left >= d THEN left - d ELSE left + P - d
  BY <1>1, SubIs
<1> QED BY <1>1, <1>2, Sizes

(* A row whose lanes are the next words, all that are left or a block,     *)
(* enters the permutation with the next block.                             *)
LEMMA LanesAreBlock ==
    ASSUME NEW S, NEW full \in Seq(S), NEW s, Recorded(s), NEW hv, NEW idx \in Nat,
           NEW act \in 0..Rate, Rate * idx + act <= Len(full),
           act = Rate \/ Rate * idx + act = Len(full),
           hv = [i \in 1..Rate |-> IF i <= act THEN full[Rate * idx + i] ELSE s.rate[i]]
    PROVE  Overwrite(s, hv) = Overwrite(s, Block(full, idx + 1))
<1> DEFINE off == Rate * idx
           b == Block(full, idx + 1)
           len == IF off + Rate < Len(full) THEN Rate ELSE Len(full) - off
<1>1. off \in Nat /\ Len(full) \in Nat  BY Sizes
<1>2. off <= Len(full)
  <2> HIDE DEF off
  <2> QED BY <1>1 DEF off
<1>3. Len(b) = len /\ \A i \in 1..len : b[i] = full[off + i]
  BY <1>2, BlockFacts
<1>4. len = act
  <2>1. off + act <= Len(full) /\ (act = Rate \/ off + act = Len(full))  OBVIOUS
  <2> HIDE DEF off
  <2> QED BY <1>1, <1>2, <2>1, Sizes
<1>5. Len(hv) = Rate
  <2>1. hv = [i \in 1..Rate |-> hv[i]]  OBVIOUS
  <2> QED BY <2>1, LenIs, Sizes
<1>6. /\ Overwrite(s, hv).rate = [i \in 1..Rate |-> IF i <= Len(hv) THEN hv[i] ELSE s.rate[i]]
      /\ Overwrite(s, b).rate = [i \in 1..Rate |-> IF i <= Len(b) THEN b[i] ELSE s.rate[i]]
  BY OverwriteFacts
<1> HIDE DEF b, off, len
<1>7. ASSUME NEW i \in 1..Rate
      PROVE  (IF i <= Len(hv) THEN hv[i] ELSE s.rate[i]) = IF i <= Len(b) THEN b[i] ELSE s.rate[i]
  <2>1. i <= Len(hv)  BY <1>5
  <2>2. hv[i] = IF i <= act THEN full[off + i] ELSE s.rate[i]  BY DEF off
  <2>3. i <= act => b[i] = full[off + i]  BY <1>3, <1>4
  <2> QED BY <1>3, <1>4, <2>1, <2>2, <2>3
<1>8. Overwrite(s, hv).rate = Overwrite(s, b).rate  BY <1>6, <1>7
<1>9. /\ Recorded(Overwrite(s, hv)) /\ Recorded(Overwrite(s, b))
      /\ Overwrite(s, hv).cap = s.cap /\ Overwrite(s, b).cap = s.cap
  BY OverwriteFacts
<1> QED BY <1>8, <1>9 DEF Recorded, b

(* Two counts with the same entries are one. *)
LEMMA SameEntries ==
    ASSUME NEW a \in Nat, NEW b \in Nat, 1..a = 1..b
    PROVE  a = b
<1>1. a > b => a \in 1..a /\ a \notin 1..b  OBVIOUS
<1>2. b > a => b \in 1..b /\ b \notin 1..a  OBVIOUS
<1> QED BY <1>1, <1>2

(* A row that reads on, or whose region ends with it, leaves the state     *)
(* after one block more.                                                   *)
LEMMA LeavesBlock ==
    ASSUME NEW S, NEW full \in Seq(S), NEW c, NEW pre, NEW r, NEW seen,
           Reading(r, seen, Seed(c), full, pre),
           r.act = Rate \/ Rate * r.idx + r.act = Len(full)
    PROVE  Perm(Entered(r)) = Absorbed(Seed(c), full, r.idx + 1)
<1>1. r.idx \in Nat /\ r.act \in 0..Rate /\ Rate * r.idx + r.act <= Len(full)
  BY DEF Reading
<1>2. r.hs = Absorbed(Seed(c), full, r.idx)  BY DEF Reading
<1>3. Recorded(r.hs)
  <2>1. Recorded(Absorbed(Seed(c), full, r.idx))  BY <1>1, SpongeFacts
  <2> QED BY <1>2, <2>1
<1>4. r.hv = [i \in 1..Rate |-> IF i <= r.act THEN full[Rate * r.idx + i] ELSE r.hs.rate[i]]
  BY DEF Reading
<1>5. Overwrite(r.hs, r.hv) = Overwrite(r.hs, Block(full, r.idx + 1))
  BY <1>1, <1>3, <1>4, LanesAreBlock
<1>6. Absorbed(Seed(c), full, r.idx + 1)
        = Perm(Overwrite(Absorbed(Seed(c), full, r.idx), Block(full, r.idx + 1)))
  BY <1>1, AbsorbedNext
<1> QED BY <1>2, <1>5, <1>6 DEF Entered

(* The end of a region: its count is the length of its table, and its rows *)
(* are as many as the sponge of that many words takes.                     *)
LEMMA RegionEnds ==
    ASSUME NEW S, NEW full \in Seq(S), NEW c, NEW pre \in {0, Rate}, NEW m \in Nat,
           Len(full) = pre + m, NEW r, Reading(r, 1..m, Seed(c), full, pre), r.last,
           Drain(r) = IF pre # 0 /\ r.idx = 0 THEN 0 ELSE r.act
    PROVE  /\ r.n = m
           /\ Perm(Entered(r)) = Absorbed(Seed(c), full, r.idx + 1)
           /\ r.idx + 1 = IF pre = 0 THEN AtLeastOne(BlocksOf(m)) ELSE 1 + BlocksOf(m)
<1> DEFINE off == Rate * r.idx
<1>1. /\ r.idx \in Nat /\ r.act \in 0..Rate /\ r.n \in Nat /\ off \in Nat
      /\ pre <= off + r.act /\ (r.act = 0 => r.idx = 0)
      /\ r.left = IF r.idx = 0 THEN r.n ELSE r.n + pre - off
      /\ r.left = Drain(r)
  BY Sizes DEF Reading
<1>2. r.idx = 0 => off = 0  BY Sizes
<1>3. 1..m = 1..(off + r.act - pre)  BY DEF Reading
<1>4. Rate \in Nat /\ Rate > 0 /\ pre \in Nat  BY Sizes
<1> HIDE DEF off
<1>5. off + r.act - pre \in Nat  BY <1>1, <1>4
<1>6. off + r.act - pre = m  BY <1>3, <1>5, SameEntries
<1>7. r.n = m
  <2>1. CASE r.idx = 0  BY <1>1, <1>2, <1>4, <1>6, <2>1
  <2>2. CASE r.idx # 0  BY <1>1, <1>4, <1>6, <2>2
  <2> QED BY <2>1, <2>2
<1>8. Perm(Entered(r)) = Absorbed(Seed(c), full, r.idx + 1)
  <2>1. off + r.act = Len(full)
    <3>1. r.act \in Nat /\ off \in Nat  BY <1>1, <1>4
    <3>2. Len(full) = pre + m  OBVIOUS
    <3> QED BY <1>4, <1>6, <3>1, <3>2
  <2> QED BY <2>1, LeavesBlock DEF off
<1>9. CASE pre = 0
  <2>1. CASE m = 0
    <3>1. r.act = 0 /\ r.idx = 0  BY <1>1, <1>6, <1>9, <2>1
    <3>2. AtLeastOne(BlocksOf(m)) = 1  BY <2>1, RowsFacts DEF AtLeastOne
    <3> QED BY <1>7, <1>8, <1>9, <3>1, <3>2
  <2>2. CASE m # 0
    <3>1. off < m /\ m <= off + Rate
      <4>1. r.act > 0  BY <1>1, <1>2, <1>6, <1>9, <2>2
      <4> QED BY <1>1, <1>4, <1>6, <1>9, <4>1
    <3>2. BlocksOf(m) = r.idx + 1  BY <1>1, <3>1, RowsFacts DEF off
    <3>3. AtLeastOne(BlocksOf(m)) = r.idx + 1  BY <1>1, <3>2 DEF AtLeastOne
    <3> QED BY <1>7, <1>8, <1>9, <3>3
  <2> QED BY <2>1, <2>2
<1>10. CASE pre = Rate
  <2>1. CASE r.idx = 0
    <3>1. m = 0  BY <1>1, <1>2, <1>4, <1>6, <1>10, <2>1
    <3>2. BlocksOf(m) = 0  BY <3>1, RowsFacts
    <3> QED BY <1>4, <1>7, <1>8, <1>10, <2>1, <3>2
  <2>2. CASE r.idx # 0
    <3>1. r.idx - 1 \in Nat /\ Rate * (r.idx - 1) = off - Rate
      <4>1. r.idx \in Nat /\ r.idx # 0  BY <1>1, <2>2
      <4> QED BY <1>4, <4>1 DEF off
    <3>2. r.act > 0 /\ r.act <= Rate /\ r.act \in Nat /\ off \in Nat  BY <1>1, <1>4, <2>2
    <3>3. Rate * (r.idx - 1) < m /\ m <= Rate * (r.idx - 1) + Rate
      <4>1. m = off + r.act - Rate  BY <1>6, <1>10
      <4> QED BY <1>4, <3>1, <3>2, <4>1
    <3>4. BlocksOf(m) = (r.idx - 1) + 1  BY <3>1, <3>3, RowsFacts
    <3>5. 1 + BlocksOf(m) = r.idx + 1  BY <1>1, <3>4
    <3> QED BY <1>4, <1>7, <1>8, <1>10, <3>5
  <2> QED BY <2>1, <2>2
<1> QED BY <1>9, <1>10

(* The first row of a region.                                              *)
LEMMA RegionStarts ==
    ASSUME NEW full, NEW c, NEW pre \in {0, Rate}, NEW m \in Nat, Len(full) = pre + m,
           NEW q, NEW seen, NEW ws,
           q.idx = 0, q.act \in 0..Rate, q.n \in Nat, q.left = q.n, q.left \in Counts,
           q.hs = Seed(c), ws = [k \in 1..q.act |-> full[k]],
           q.hv = Overwrite(q.hs, ws).rate,
           pre = Rate => q.act = Rate,
           Drained(q.last, q.left, Drain(q), q.act),
           Drain(q) = IF pre = Rate THEN 0 ELSE q.act,
           seen = (IF pre = Rate THEN {} ELSE {k : k \in 1..q.act}), seen \subseteq 1..m
    PROVE  Reading(q, seen, Seed(c), full, pre)
<1>1. Recorded(q.hs)  BY DEF Recorded, Seed
<1>2. q.act \in Nat /\ 0 + q.act = q.act /\ Rate * 0 = 0 /\ \A k \in 1..q.act : 0 + k = k
  BY Sizes
<1>3. q.hv = [i \in 1..Rate |-> IF i <= q.act THEN full[Rate * q.idx + i] ELSE q.hs.rate[i]]
  <2>1. ws = [k \in 1..q.act |-> ws[k]]  OBVIOUS
  <2>2. q.act \in Nat  BY <1>2
  <2>3. Overwrite(q.hs, ws).rate
          = [i \in 1..Rate |-> IF i <= q.act THEN ws[i] ELSE q.hs.rate[i]]
    <3>1. Len(ws) = q.act  BY <2>1, <2>2, LenIs
    <3> QED BY <1>1, <3>1, OverwriteFacts
  <2>4. \A i \in 1..Rate : i <= q.act => ws[i] = full[Rate * q.idx + i]
    <3> SUFFICES ASSUME NEW i \in 1..Rate, i <= q.act PROVE ws[i] = full[Rate * q.idx + i]
      OBVIOUS
    <3>1. i \in 1..q.act /\ Rate * q.idx = 0  BY <1>2, Sizes
    <3>2. 0 + i = i  OBVIOUS
    <3> QED BY <3>1, <3>2
  <2>5. [i \in 1..Rate |-> IF i <= q.act THEN ws[i] ELSE q.hs.rate[i]]
          = [i \in 1..Rate |-> IF i <= q.act THEN full[Rate * q.idx + i] ELSE q.hs.rate[i]]
    BY <2>4
  <2>6. q.hv = Overwrite(q.hs, ws).rate  OBVIOUS
  <2> QED BY <2>3, <2>5, <2>6, Zenon
<1>4. q.hs = Absorbed(Seed(c), full, q.idx)  BY AbsorbedNext
<1>5. pre <= Rate * q.idx + q.act /\ Rate * q.idx + q.act <= Len(full)
      /\ seen = 1..(Rate * q.idx + q.act - pre)
  <2>1. Rate * q.idx = 0  BY <1>2
  <2>2. CASE pre = Rate
    <3>1. q.act = Rate /\ seen = {}  BY <2>2
    <3>2. 1..(0 + Rate - Rate) = {}  BY Sizes
    <3> QED BY <2>1, <2>2, <3>1, <3>2, Sizes
  <2>3. CASE pre # Rate
    <3>1. pre = 0 /\ seen = 1..q.act  BY <2>3
    <3>2. q.act <= m
      <4>1. CASE q.act = 0  BY <4>1
      <4>2. CASE q.act # 0
        <5>1. q.act \in 1..q.act  BY <1>2, <4>2
        <5> QED BY <3>1, <5>1
      <4> QED BY <4>1, <4>2
    <3>3. 0 + q.act - 0 = q.act /\ 0 + q.act <= 0 + m /\ 0 <= 0 + q.act  BY <1>2, <3>2
    <3>4. Len(full) = 0 + m  BY <3>1
    <3> QED BY <1>2, <2>1, <3>1, <3>3, <3>4
  <2> QED BY <2>2, <2>3
<1>6. Drain(q) \in 0..Rate  BY Sizes
<1>7. IF q.last THEN q.left = Drain(q) ELSE q.act = Rate
  <2>1. CASE q.last
    <3>1. Sub(q.left, Drain(q)) = 0  BY <2>1 DEF Drained
    <3> QED BY <1>6, <2>1, <3>1, DrainIs
  <2>2. CASE ~q.last
    BY <2>2 DEF Drained
  <2> QED BY <2>1, <2>2
<1>8. q.idx \in Nat /\ q.act \in 0..Rate /\ q.left \in Counts /\ q.n \in Nat
  OBVIOUS
<1>9. q.left = IF q.idx = 0 THEN q.n ELSE q.n + pre - Rate * q.idx
  OBVIOUS
<1>10. q.act = 0 => q.idx = 0
  OBVIOUS
<1> QED BY <1>3, <1>4, <1>5, <1>7, <1>8, <1>9, <1>10 DEF Reading

(* The next row of a region.                                               *)
LEMMA RegionGoesOn ==
    ASSUME NEW S, NEW full \in Seq(S), NEW c, NEW pre \in {0, Rate}, NEW m \in Nat,
           Len(full) = pre + m, NEW r, NEW seen, Reading(r, seen, Seed(c), full, pre), ~r.last,
           Drain(r) = IF pre # 0 /\ r.idx = 0 THEN 0 ELSE r.act,
           NEW q, NEW new, NEW ws,
           q.idx = r.idx + 1, q.act \in 0..Rate, q.act > 0, q.n = r.n,
           q.left = Sub(r.left, Drain(r)), q.left \in Counts,
           q.hs = Perm(Entered(r)), ws = [k \in 1..q.act |-> full[Rate * q.idx + k]],
           q.hv = Overwrite(q.hs, ws).rate,
           Drained(q.last, q.left, q.act, q.act), Drain(q) = q.act,
           new = {Rate * q.idx - pre + k : k \in 1..q.act}, new \subseteq 1..m
    PROVE  Reading(q, new \cup seen, Seed(c), full, pre)
<1> DEFINE off == Rate * r.idx
           at == Rate * q.idx
<1>1. /\ r.idx \in Nat /\ r.act = Rate /\ r.n \in Nat /\ r.left \in Counts
  BY Sizes DEF Reading
<1>2. off \in Nat /\ pre <= off + Rate
  <2>1. Rate \in Nat  BY Sizes
  <2>2. off \in Nat  BY ONLY <2>1, <1>1
  <2>3. pre <= Rate * r.idx + r.act  BY DEF Reading
  <2> QED BY <1>1, <2>2, <2>3
<1>3. Rate \in Nat /\ Rate > 0  BY Sizes
<1>4. seen = 1..(off + Rate - pre)  BY <1>1 DEF Reading
<1>5. r.left = IF r.idx = 0 THEN r.n ELSE r.n + pre - off  BY DEF Reading
<1>6. at = off + Rate /\ at \in Nat
  <2>1. q.idx = r.idx + 1 /\ r.idx \in Nat  BY <1>1
  <2>2. Rate * (r.idx + 1) = Rate * r.idx + Rate  BY <1>3, <2>1
  <2> QED BY <1>2, <1>3, <2>1, <2>2
<1>7. pre \in Nat /\ q.act \in Nat /\ q.act <= Rate  BY Sizes
<1>8. Recorded(q.hs)  BY DEF Recorded, Perm
<1>9. q.hs = Absorbed(Seed(c), full, q.idx)  BY <1>1, LeavesBlock
<1>10. q.hv = [i \in 1..Rate |-> IF i <= q.act THEN full[Rate * q.idx + i] ELSE q.hs.rate[i]]
  <2> HIDE DEF at
  <2>1. ws = [k \in 1..q.act |-> ws[k]]  OBVIOUS
  <2>2. q.act \in Nat  BY <1>7
  <2>3. Overwrite(q.hs, ws).rate
          = [i \in 1..Rate |-> IF i <= q.act THEN ws[i] ELSE q.hs.rate[i]]
    <3>1. Len(ws) = q.act  BY <2>1, <2>2, LenIs
    <3>2. Overwrite(q.hs, ws).rate
            = [i \in 1..Rate |-> IF i <= Len(ws) THEN ws[i] ELSE q.hs.rate[i]]
      BY ONLY <1>8, OverwriteFacts
    <3> QED BY <3>1, <3>2
  <2>4. \A i \in 1..Rate : i <= q.act => ws[i] = full[Rate * q.idx + i]
    <3> SUFFICES ASSUME NEW i \in 1..Rate, i <= q.act PROVE ws[i] = full[Rate * q.idx + i]
      OBVIOUS
    <3>1. i \in 1..q.act  BY <1>7, Sizes
    <3> QED BY <3>1
  <2>5. [i \in 1..Rate |-> IF i <= q.act THEN ws[i] ELSE q.hs.rate[i]]
          = [i \in 1..Rate |-> IF i <= q.act THEN full[Rate * q.idx + i] ELSE q.hs.rate[i]]
    BY <2>4
  <2>6. q.hv = Overwrite(q.hs, ws).rate  OBVIOUS
  <2> QED BY <2>3, <2>5, <2>6, Zenon
<1>11. pre <= at + q.act /\ at + q.act <= Len(full)
  <2> HIDE DEF at, off
  <2>1. q.act \in 1..q.act  BY <1>7
  <2>2. at - pre + q.act \in new  BY <2>1 DEF at
  <2>3. at - pre + q.act <= m  BY <2>2
  <2>4. Len(full) = pre + m  OBVIOUS
  <2> QED BY <1>2, <1>3, <1>6, <1>7, <2>3, <2>4
<1>12. new \cup seen = 1..(at + q.act - pre)
  <2> HIDE DEF at, off
  <2>1. ASSUME NEW e \in 1..(at + q.act - pre) PROVE e \in new \cup seen
    <3>1. CASE e <= at - pre
      <4>1. e \in 1..(off + Rate - pre)  BY <1>2, <1>3, <1>6, <1>7, <3>1
      <4> QED BY <1>4, <4>1
    <3>2. CASE e > at - pre
      <4>1. e - (at - pre) \in 1..q.act /\ (at - pre) + (e - (at - pre)) = e
        BY <1>2, <1>3, <1>6, <1>7, <3>2
      <4>2. (at - pre) + (e - (at - pre)) \in new  BY <4>1 DEF at
      <4> QED BY <4>1, <4>2
    <3> QED BY <1>6, <1>7, <3>1, <3>2
  <2>2. ASSUME NEW e \in new PROVE e \in 1..(at + q.act - pre)
    <3>1. PICK k \in 1..q.act : e = at - pre + k  BY DEF at
    <3> QED BY <1>2, <1>3, <1>6, <1>7, <3>1
  <2>3. ASSUME NEW e \in seen PROVE e \in 1..(at + q.act - pre)
    BY <1>2, <1>3, <1>4, <1>6, <1>7
  <2> QED BY <2>1, <2>2, <2>3
<1>13. Drain(r) \in 0..Rate /\ Drain(q) \in 0..Rate  BY <1>1, Sizes
<1>14. q.left = r.left - Drain(r)  BY <1>1, <1>13, DrainIs
<1>15. q.left = q.n + pre - at
  <2> HIDE DEF at
  <2>1. CASE r.idx = 0
    <3>1. off = 0  BY <2>1, Sizes
    <3> HIDE DEF off
    <3>2. CASE pre = 0  BY <1>1, <1>5, <1>6, <1>14, <2>1, <3>1, <3>2, Sizes
    <3>3. CASE pre # 0  BY <1>1, <1>5, <1>6, <1>14, <2>1, <3>1, <3>3, Sizes
    <3> QED BY <3>2, <3>3
  <2>2. CASE r.idx # 0
    <3> HIDE DEF off
    <3>1. Drain(r) = Rate /\ r.n \in Nat /\ q.n = r.n  BY <1>1, <2>2
    <3> QED
      BY <1>2, <1>3, <1>5, <1>6, <1>7, <1>14, <2>2, <3>1
  <2> QED BY <2>1, <2>2
<1>16. IF q.last THEN q.left = Drain(q) ELSE q.act = Rate
  <2>1. CASE q.last
    <3>1. Sub(q.left, Drain(q)) = 0  BY <2>1 DEF Drained
    <3> QED BY <1>13, <2>1, <3>1, DrainIs
  <2>2. CASE ~q.last
    BY <2>2 DEF Drained
  <2> QED BY <2>1, <2>2
<1>17. /\ q.idx \in Nat /\ q.idx # 0 /\ q.act \in 0..Rate /\ q.left \in Counts /\ q.n \in Nat
       /\ q.act # 0
  BY <1>1
<1> QED BY <1>9, <1>10, <1>11, <1>12, <1>15, <1>16, <1>17 DEF Reading

-----------------------------------------------------------------------------
(* Steps. *)

\* The words a table holds.
Ops == {"add", "addi", "lui", "auipc", "jal", "jalr", "beq", "lw", "sw", "ecall"}
Cells ==
  {<<x>> : x \in Nat}
    \cup {<<"w", ins>> : ins \in [op : Ops, rd : Nat, rs1 : Nat, rs2 : Nat, imm : Nat]}
    \cup {s[i] : s \in Salts, i \in 1..Rate}

\* The words of a program, and a program whose base is a word's address.
Instrs ==
  {<<"w", ins>> : ins \in [op : Ops, rd : Regs, rs1 : Regs, rs2 : Regs, imm : Nat]}
ProgramInv ==
  /\ table.base \in Nat /\ table.base % 4 = 0 /\ PcWindow
  /\ table.words \in Seq(Instrs)

TypeInv ==
  /\ table \in [base : Nat, words : Seq(Cells)]
  /\ tape \in Seq(Cells) /\ pubs \in Seq(Cells)

TableInv ==
  /\ TypeInv /\ PlaceInv /\ GasInv /\ PinInv /\ ProofInv
  /\ DigestInv /\ IndigestInv /\ PubdigestInv

(* What an absorbing row is, field by field. *)
LEMMA AbsorbingRowIs ==
    ASSUME NEW kind, AbsorbingRow(kind)
    PROVE  /\ Follows(row, kind, FALSE) /\ Leave(kind)
           /\ UNCHANGED <<tables, outs, proof>> /\ mem' = mem
           /\ row'.ptr \in IF kind = "absorb" THEN Ptrs(row) ELSE {0}
           /\ row'.kind = kind /\ row'.sys = "none" /\ row'.next = row.next
           /\ row'.at = row.at + 1 /\ row'.gas = row.gas + Weight(kind, "none")
           /\ row'.salt = (kind = "indigest" /\ row.kind = "digest")
           /\ row'.n \in Ns(row, kind) /\ row'.left \in Lefts(row, kind, row'.n)
           /\ row'.left \in Counts /\ row'.idx \in Idxs(row, kind)
           /\ row'.hs \in States(row, kind, row'.n) /\ row'.act \in 0..Rate
           /\ LanesOk(kind, row'.salt, row'.act, row'.idx)
           /\ Drained(row'.last, row'.left, Drain(row'), row'.act)
           /\ kind \in Regions =>
                Entries(kind, row'.salt, row'.idx, row'.act) \subseteq EntriesOf(kind)
           /\ claimed' = Entries(kind, row'.salt, row'.idx, row'.act)
                           \cup IF kind = row.kind THEN claimed ELSE {}
           /\ \E ws \in Words(kind, row'.salt, row'.ptr, row'.idx, row'.act) :
                row'.hv = Overwrite(row'.hs, ws).rate
<1> DEFINE salt == kind = "indigest" /\ row.kind = "digest"
<1>1. PICK n \in Ns(row, kind), ptr \in IF kind = "absorb" THEN Ptrs(row) ELSE {0} :
      \E left \in Lefts(row, kind, n), idx \in Idxs(row, kind),
         hs \in States(row, kind, n), act \in 0..Rate, last \in BOOLEAN :
        /\ left \in Counts
        /\ idx < IF kind = "absorb" THEN MaxWords \div Rate ELSE MaxRows
        /\ LanesOk(kind, salt, act, idx)
        /\ Drained(last, left, IF salt THEN 0 ELSE act, act)
        /\ kind \in Regions => Entries(kind, salt, idx, act) \subseteq EntriesOf(kind)
        /\ kind = row.kind => Entries(kind, salt, idx, act) \cap claimed = {}
        /\ claimed' = Entries(kind, salt, idx, act) \cup IF kind = row.kind THEN claimed ELSE {}
        /\ \E ws \in Words(kind, salt, ptr, idx, act) :
             row' = [RowOf(kind, "none", row.next) EXCEPT
                       !.salt = salt, !.last = last, !.ptr = ptr, !.n = n, !.left = left,
                       !.idx = idx, !.act = act, !.hs = hs, !.hv = Overwrite(hs, ws).rate]
  BY Zenon DEF AbsorbingRow
<1> HIDE DEF salt
<1>2. PICK left \in Lefts(row, kind, n), idx \in Idxs(row, kind),
           hs \in States(row, kind, n), act \in 0..Rate, last \in BOOLEAN :
        /\ left \in Counts
        /\ idx < IF kind = "absorb" THEN MaxWords \div Rate ELSE MaxRows
        /\ LanesOk(kind, salt, act, idx)
        /\ Drained(last, left, IF salt THEN 0 ELSE act, act)
        /\ kind \in Regions => Entries(kind, salt, idx, act) \subseteq EntriesOf(kind)
        /\ kind = row.kind => Entries(kind, salt, idx, act) \cap claimed = {}
        /\ claimed' = Entries(kind, salt, idx, act) \cup IF kind = row.kind THEN claimed ELSE {}
        /\ \E ws \in Words(kind, salt, ptr, idx, act) :
             row' = [RowOf(kind, "none", row.next) EXCEPT
                       !.salt = salt, !.last = last, !.ptr = ptr, !.n = n, !.left = left,
                       !.idx = idx, !.act = act, !.hs = hs, !.hv = Overwrite(hs, ws).rate]
  BY <1>1, Zenon
<1>3. PICK ws \in Words(kind, salt, ptr, idx, act) :
        row' = [RowOf(kind, "none", row.next) EXCEPT
                  !.salt = salt, !.last = last, !.ptr = ptr, !.n = n, !.left = left,
                  !.idx = idx, !.act = act, !.hs = hs, !.hv = Overwrite(hs, ws).rate]
  BY <1>2
<1>4. /\ row'.kind = kind /\ row'.sys = "none" /\ row'.next = row.next
      /\ row'.at = row.at + 1 /\ row'.gas = row.gas + Weight(kind, "none")
      /\ row'.salt = salt /\ row'.last = last /\ row'.ptr = ptr /\ row'.n = n
      /\ row'.left = left /\ row'.idx = idx /\ row'.act = act /\ row'.hs = hs
      /\ row'.hv = Overwrite(hs, ws).rate
  BY <1>3 DEF RowOf, Blank
<1>5. Drain(row') = IF salt THEN 0 ELSE act  BY <1>4 DEF Drain
<1>6. /\ Follows(row, kind, FALSE) /\ Leave(kind) /\ UNCHANGED <<tables, outs, proof>>
      /\ mem' = mem
  BY DEF AbsorbingRow
<1>7. row'.ptr \in IF kind = "absorb" THEN Ptrs(row) ELSE {0}  BY <1>1, <1>4
<1> QED BY <1>2, <1>3, <1>4, <1>5, <1>6, <1>7 DEF salt

(* The gas chain. *)
LEMMA GasStep ==
    ASSUME GasInv, NEW kind, NEW sys, row.at < Height, row'.at = row.at + 1,
           row'.gas = row.gas + Weight(kind, sys)
    PROVE  GasInv'
<1> DEFINE w == Weight(kind, sys)
           g == AbsorbGas + ChipGas
<1>1. AbsorbGas \in Nat /\ ChipGas \in Nat /\ AbsorbGas > 0 /\ Height \in Nat
  BY LimitAssumption, HeightAssumption
<1>2. w \in Nat /\ w <= g  BY <1>1 DEF Weight
<1>3. row.at \in Nat /\ row.gas \in Nat /\ row.gas <= row.at * g /\ row'.gas = row.gas + w
  BY DEF GasInv
<1> HIDE DEF w
<1>4. row'.at \in 0..Height  BY <1>1, <1>3
<1>5. (row.at + 1) * g = row.at * g + g
  <2>1. g \in Nat  BY <1>1
  <2> HIDE DEF g
  <2> QED BY <1>3, <2>1
<1>6. row'.gas \in Nat /\ row'.gas <= row'.at * g
  <2>1. g \in Nat /\ row.at * g \in Nat  BY <1>1, <1>3
  <2> DEFINE x == row.at * g
             y == (row.at + 1) * g
  <2>2. x \in Nat /\ y = x + g /\ row.gas <= x  BY <1>3, <1>5, <2>1
  <2> HIDE DEF x, y
  <2>3. row.gas + w \in Nat /\ row.gas + w <= y
    <3> HIDE DEF g
    <3> QED BY <1>2, <1>3, <2>1, <2>2
  <2>4. row'.at * g = y  BY DEF y
  <2> QED BY <1>3, <2>3, <2>4
<1> QED BY <1>4, <1>6 DEF GasInv

(* An entry of the program table, by its pc. *)
LEMMA WordAtIs ==
    ASSUME TypeInv, NEW e \in {0, 1}, NEW j \in Nat
    PROVE  WordAt(table.base + 4 * e + 4 * j) = table.words[e + j + 1]
<1>1. table.base \in Nat  BY DEF TypeInv
<1> DEFINE pc == table.base + 4 * e + 4 * j
<1>2. (pc - table.base) \div 4 = e + j  BY <1>1
<1> HIDE DEF pc
<1>3. WordAt(pc) = table.words[e + j + 1]  BY <1>2 DEF WordAt
<1> QED BY <1>3 DEF pc

(* Where a run of absorbing rows has come to when another kind follows. *)
LEMMA FollowsFacts ==
    ASSUME PlaceInv, NEW kind, NEW fin, Follows(row, kind, fin)
    PROVE  /\ row.sys # "halt" /\ row.at < Height
           /\ row.kind \in Regions => row.last = (kind # row.kind)
           /\ row.kind = "start" => kind = "digest"
           /\ kind = "digest" => row.kind \in {"start", "digest"}
           /\ kind = "indigest" => row.kind \in {"digest", "indigest"}
           /\ kind = "pubdigest" => row.kind \in {"indigest", "pubdigest"}
           /\ row.kind = "digest" => kind \in {"digest", "indigest"}
           /\ row.kind = "indigest" => kind \in {"indigest", "pubdigest"}
           /\ kind \in {"absorb", "out"} => row.kind \notin Regions \cup {"start"}
<1>1. row.kind \in Regions => Absorbs(row)  BY DEF Absorbs
<1>2. kind \in {"absorb", "out"} => SysHash(row) \/ row.kind \in {"absorb", "out"}
  BY DEF Follows, EntryGates
<1>3. row.kind \in Regions \cup {"start"} => ~SysHash(row) /\ row.kind \notin {"absorb", "out"}
  BY DEF PlaceInv, SysHash, Regions
<1> QED BY <1>1, <1>2, <1>3 DEF Follows, RegionOrder

(* What a finished proof says stays true, as nothing follows it. *)
LEMMA ProofKept ==
    ASSUME ProofInv, row.sys # "halt", UNCHANGED proof
    PROVE  ProofInv'
BY DEF ProofInv

(* Only the first row of the input region is the salt's. *)
LEMMA SaltFirst ==
    ASSUME PlaceInv
    PROVE  /\ row.kind \in {"digest", "pubdigest"} => ~row.salt
           /\ row.kind = "indigest" => (row.salt <=> row.idx = 0)
<1>1. row.kind \in {"digest", "pubdigest"} => ~row.salt
  <2> SUFFICES ASSUME row.kind \in {"digest", "pubdigest"} PROVE ~row.salt
    OBVIOUS
  <2>1. row.kind \in Regions /\ row.kind # "indigest"  BY DEF Regions
  <2>2. row.salt = FALSE  BY <2>1, Zenon DEF PlaceInv
  <2> QED BY <2>2, Zenon
<1>2. row.kind = "indigest" => (row.salt <=> row.idx = 0)
  <2> SUFFICES ASSUME row.kind = "indigest" PROVE row.salt <=> row.idx = 0
    OBVIOUS
  <2>1. row.kind \in Regions  BY DEF Regions
  <2>2. row.salt = (row.idx = 0)
    <3>1. (row.kind = "indigest" /\ row.idx = 0) = (row.idx = 0)  OBVIOUS
    <3> QED BY <2>1, <3>1, Zenon DEF PlaceInv
  <2> QED BY <2>2, Zenon
<1> QED BY <1>1, <1>2

-----------------------------------------------------------------------------
(* The program's region. *)

(* The entries and the words of a row of it, read from entry e on. *)
LEMMA DigestWords ==
    ASSUME TypeInv, NEW e \in {0, 1}, row.next = table.base + 4 * e,
           NEW idx \in Nat, NEW act \in 0..Rate, NEW salt, ~salt, NEW ptr, NEW ws,
           ws \in Words("digest", salt, ptr, idx, act)
    PROVE  /\ Entries("digest", salt, idx, act) = {e + Rate * idx + k : k \in 1..act}
           /\ ws = [k \in 1..act |-> table.words[e + (Rate * idx + k)]]
<1>1. table.base \in Nat /\ Rate * idx \in Nat /\ act \in Nat  BY Sizes DEF TypeInv
<1>2. (row.next - table.base) \div 4 = e  BY <1>1
<1>3. Entries("digest", salt, idx, act) = {e + Rate * idx + k : k \in 1..act}
  BY <1>2 DEF Entries
<1>4. ws = [k \in 1..act |-> WordAt(row.next + 4 * (Rate * idx + k - 1))]
  BY DEF Words
<1>5. ASSUME NEW k \in 1..act
      PROVE  WordAt(row.next + 4 * (Rate * idx + k - 1)) = table.words[e + (Rate * idx + k)]
  <2> DEFINE j == Rate * idx + k - 1
  <2>1. j \in Nat /\ (e + j) + 1 = e + (Rate * idx + k)  BY <1>1
  <2> HIDE DEF j
  <2>2. WordAt(table.base + 4 * e + 4 * j) = table.words[(e + j) + 1]  BY <2>1, WordAtIs
  <2>3. WordAt(row.next + 4 * j) = table.words[e + (Rate * idx + k)]  BY <2>1, <2>2, Zenon
  <2> QED BY <2>3 DEF j
<1> QED BY <1>3, <1>4, <1>5

(* It starts. *)
LEMMA DigestStarts ==
    ASSUME TypeInv, PlaceInv, AbsorbingRow("digest"), row.kind = "start"
    PROVE  DigestInv'
<1> DEFINE m == Len(table.words)
           c == <<"HC", table.base, row'.n>>
<1>1. /\ row.next \in {table.base, table.base + 4} /\ row.sys = "none"
      /\ table.base \in Nat /\ m \in Nat
  BY DEF PlaceInv, TypeInv
<1>2. /\ row'.kind = "digest" /\ row'.next = row.next /\ ~row'.salt
      /\ UNCHANGED tables
  BY AbsorbingRowIs
<1>3. row'.n \in Ns(row, "digest") /\ row'.left \in Lefts(row, "digest", row'.n)
      /\ row'.left \in Counts /\ row'.idx \in Idxs(row, "digest")
      /\ row'.hs \in States(row, "digest", row'.n) /\ row'.act \in 0..Rate
  BY AbsorbingRowIs
<1>4. row'.left = row'.n
  BY <1>1, <1>3 DEF Lefts, SysHash, SameRegion, Regions
<1>5. row'.idx = 0
  BY <1>1, <1>3 DEF Idxs, SysHash, SameRegion, Regions
<1>6. row'.hs = ProgramSeed(row.next, row'.n)
  BY <1>1, <1>3 DEF States
<1>7. row'.act > 0  BY <1>2, AbsorbingRowIs DEF LanesOk
<1>8. Drained(row'.last, row'.left, Drain(row'), row'.act) /\ Drain(row') = row'.act
  BY <1>2, AbsorbingRowIs DEF Drain
<1>9. PICK ws \in Words("digest", row'.salt, row'.ptr, row'.idx, row'.act) :
        row'.hv = Overwrite(row'.hs, ws).rate
  BY AbsorbingRowIs
<1>10. claimed' = Entries("digest", row'.salt, row'.idx, row'.act)
       /\ claimed' \subseteq 1..m
  BY AbsorbingRowIs DEF EntriesOf, Regions
<1>11. row'.n \in Nat  BY <1>3, <1>4, Sizes
<1>12. CASE row.next = table.base
  <2>1. row.next = table.base + 4 * 0 /\ 0 \in {0, 1} /\ 0 \in Nat  BY <1>1, <1>12
  <2>2. /\ claimed' = {0 + Rate * 0 + k : k \in 1..row'.act}
        /\ ws = [k \in 1..row'.act |-> table.words[0 + (Rate * 0 + k)]]
    BY <1>2, <1>3, <1>5, <1>9, <1>10, <2>1, DigestWords
  <2>3. \A k \in 1..row'.act : 0 + Rate * 0 + k = k /\ 0 + (Rate * 0 + k) = k  BY Sizes
  <2>4. /\ claimed' = {k : k \in 1..row'.act}
        /\ ws = [k \in 1..row'.act |-> table.words[k]]
    BY <2>2, <2>3
  <2>5. row'.hs = Seed(c)  BY <1>6, <1>12 DEF ProgramSeed
  <2>6. 0 \in {0, Rate} /\ m = 0 + m /\ 0 # Rate  BY <1>1, Sizes
  <2>7. Reading(row', claimed', Seed(c), table.words, 0)
    <3> HIDE DEF c, m
    <3>1. Len(table.words) = 0 + m  BY <2>6 DEF m
    <3> QED BY <1>1, <1>3, <1>4, <1>5, <1>8, <1>9, <1>10, <1>11, <2>4, <2>5, <2>6, <3>1,
               RegionStarts
  <2> QED BY <1>2, <1>12, <2>7 DEF DigestInv, tables, ProgramSeed
<1>13. CASE row.next # table.base
  <2>1. row.next = table.base + 4 * 1 /\ 1 \in {0, 1} /\ 0 \in Nat  BY <1>1, <1>13
  <2>2. claimed' = {1 + Rate * 0 + k : k \in 1..row'.act}
    BY <1>2, <1>3, <1>5, <1>9, <1>10, <2>1, DigestWords
  <2>3. \A k \in 1..row'.act : 1 + Rate * 0 + k = k + 1 /\ k + 1 # 1  BY Sizes
  <2>4. 1 \notin claimed'  BY <2>2, <2>3
  <2>5. m >= 1
    <3>1. 1 \in 1..row'.act  BY <1>3, <1>7, Sizes
    <3>2. 1 + 1 \in claimed'  BY <2>2, <2>3, <3>1
    <3> QED BY <1>1, <1>10, <3>2
  <2>6. Skipping'  BY <1>2, <1>5, <2>4, <2>5 DEF Skipping, tables
  <2>7. row'.next # table.base'  BY <1>2, <1>13 DEF tables
  <2> QED BY <2>6, <2>7 DEF DigestInv
<1> QED BY <1>12, <1>13

(* It goes on. *)
LEMMA DigestGoesOn ==
    ASSUME TypeInv, PlaceInv, DigestInv, AbsorbingRow("digest"), row.kind = "digest"
    PROVE  DigestInv'
<1> DEFINE m == Len(table.words)
           c == <<"HC", table.base, row.n>>
<1>1. /\ row.next \in {table.base, table.base + 4} /\ row.sys = "none" /\ ~row.salt
      /\ table.base \in Nat /\ m \in Nat
  BY SaltFirst DEF PlaceInv, TypeInv, Regions
<1>2. /\ row'.kind = "digest" /\ row'.next = row.next /\ ~row'.salt
      /\ UNCHANGED tables
  BY AbsorbingRowIs
<1>3. row'.n \in Ns(row, "digest") /\ row'.left \in Lefts(row, "digest", row'.n)
      /\ row'.left \in Counts /\ row'.idx \in Idxs(row, "digest")
      /\ row'.hs \in States(row, "digest", row'.n) /\ row'.act \in 0..Rate
  BY AbsorbingRowIs
<1>4. row'.n = row.n
  BY <1>1, <1>3 DEF Ns, SameRegion, Regions, Continues, SysHash
<1>5. row'.left = Sub(row.left, Drain(row))
  BY <1>1, <1>3 DEF Lefts, SysHash, SameRegion, Regions
<1>6. row'.idx = row.idx + 1
  BY <1>1, <1>3 DEF Idxs, SysHash, SameRegion, Regions
<1>7. row'.hs = Perm(Entered(row))
  BY <1>1, <1>3 DEF States, Absorbs, Regions
<1>8. row'.act > 0  BY <1>2, AbsorbingRowIs DEF LanesOk
<1>9. /\ Drained(row'.last, row'.left, Drain(row'), row'.act) /\ Drain(row') = row'.act
      /\ Drain(row) = row.act
  BY <1>1, <1>2, AbsorbingRowIs DEF Drain
<1>10. ~row.last
  <2>1. Follows(row, "digest", FALSE)  BY AbsorbingRowIs
  <2>2. "digest" \in Regions  BY DEF Regions
  <2> QED BY <2>1, <2>2, FollowsFacts
<1>11. PICK ws \in Words("digest", row'.salt, row'.ptr, row'.idx, row'.act) :
         row'.hv = Overwrite(row'.hs, ws).rate
  BY AbsorbingRowIs
<1> DEFINE new == Entries("digest", row'.salt, row'.idx, row'.act)
<1>12. claimed' = new \cup claimed /\ new \subseteq 1..m
  BY AbsorbingRowIs DEF EntriesOf, Regions
<1>13. CASE row.next = table.base
  <2>1. row.next = table.base + 4 * 0 /\ 0 \in {0, 1}  BY <1>1, <1>13
  <2>2. Reading(row, claimed, Seed(c), table.words, 0)
    BY <1>13 DEF DigestInv, ProgramSeed
  <2>3. row'.idx \in Nat  BY <1>6, <2>2 DEF Reading
  <2>4. /\ new = {0 + Rate * row'.idx + k : k \in 1..row'.act}
        /\ ws = [k \in 1..row'.act |-> table.words[0 + (Rate * row'.idx + k)]]
    BY <1>2, <1>3, <1>11, <2>1, <2>3, DigestWords
  <2>5. Rate * row'.idx \in Nat  BY <2>3, Sizes
  <2>6. \A k \in 1..row'.act : /\ 0 + Rate * row'.idx + k = Rate * row'.idx - 0 + k
                               /\ 0 + (Rate * row'.idx + k) = Rate * row'.idx + k
    BY <2>5
  <2>7. /\ new = {Rate * row'.idx - 0 + k : k \in 1..row'.act}
        /\ ws = [k \in 1..row'.act |-> table.words[Rate * row'.idx + k]]
    BY <2>4, <2>6
  <2>8. 0 \in {0, Rate} /\ Len(table.words) = 0 + m /\ 0 # Rate  BY <1>1, Sizes
  <2>9. table.words \in Seq(Cells)  BY DEF TypeInv
  <2>10. Reading(row', new \cup claimed, Seed(c), table.words, 0)
    <3> HIDE DEF c, m, new
    <3>1. Drain(row) = IF 0 # 0 /\ row.idx = 0 THEN 0 ELSE row.act  BY <1>9
    <3>2. Drained(row'.last, row'.left, row'.act, row'.act)  BY <1>9
    <3> QED BY <1>1, <1>3, <1>4, <1>5, <1>6, <1>7, <1>8, <1>9, <1>10, <1>11, <1>12,
               <2>2, <2>7, <2>8, <2>9, <3>1, <3>2, RegionGoesOn
  <2> QED BY <1>2, <1>4, <1>12, <1>13, <2>10 DEF DigestInv, tables, ProgramSeed
<1>14. CASE row.next # table.base
  <2>1. row.next = table.base + 4 * 1 /\ 1 \in {0, 1}  BY <1>1, <1>14
  <2>2. row.idx \in Nat /\ 1 \notin claimed /\ m >= 1  BY <1>14 DEF DigestInv, Skipping
  <2>3. row'.idx \in Nat /\ Rate * row'.idx \in Nat  BY <1>6, <2>2, Sizes
  <2>4. new = {1 + Rate * row'.idx + k : k \in 1..row'.act}
    BY <1>2, <1>3, <1>11, <2>1, <2>3, DigestWords
  <2>5. \A k \in 1..row'.act : 1 + Rate * row'.idx + k # 1  BY <2>3
  <2>6. 1 \notin claimed'  BY <1>12, <2>2, <2>4, <2>5
  <2>7. Skipping'  BY <1>2, <2>2, <2>3, <2>6 DEF Skipping, tables
  <2>8. row'.next # table.base'  BY <1>2, <1>14 DEF tables
  <2> QED BY <2>7, <2>8 DEF DigestInv
<1> QED BY <1>13, <1>14

(* And it ends with the digest of the program the table holds. *)
LEMMA DigestEnds ==
    ASSUME TypeInv, PlaceInv, PinInv, DigestInv, row.kind = "digest", row.last, Leave("indigest")
    PROVE  /\ DOMAIN pinned' = Regions
           /\ pinned'["digest"] = ProgramDigest(table.base, table.words)
           /\ row.next = table.base /\ row.idx + 1 = ProgramRows(table.words)
<1> DEFINE m == Len(table.words)
           c == <<"HC", table.base, row.n>>
<1>1. m \in Nat /\ ~row.salt /\ table.words \in Seq(Cells)
  BY SaltFirst DEF TypeInv
<1>2. /\ claimed = 1..m
      /\ pinned' = [pinned EXCEPT !["digest"] = Perm(Entered(row)).rate]
  BY DEF Leave, Claimed, EntriesOf, Regions
<1>3. row.next = table.base
  <2> SUFFICES ASSUME row.next # table.base PROVE FALSE
    OBVIOUS
  <2>1. 1 \notin claimed /\ m >= 1  BY DEF DigestInv, Skipping
  <2> QED BY <1>1, <1>2, <2>1
<1>4. Reading(row, 1..m, Seed(c), table.words, 0)
  BY <1>2, <1>3 DEF DigestInv, ProgramSeed
<1>5. Drain(row) = IF 0 # 0 /\ row.idx = 0 THEN 0 ELSE row.act  BY <1>1 DEF Drain
<1>6. 0 \in {0, Rate} /\ Len(table.words) = 0 + m  BY <1>1
<1>7. /\ row.n = m
      /\ Perm(Entered(row)) = Absorbed(Seed(c), table.words, row.idx + 1)
      /\ row.idx + 1 = AtLeastOne(BlocksOf(m))
  <2> HIDE DEF c, m
  <2> QED BY <1>1, <1>4, <1>5, <1>6, RegionEnds
<1>8. Perm(Entered(row)).rate = ProgramDigest(table.base, table.words)
  BY <1>7 DEF ProgramDigest, ProgramSeed, ProgramRows
<1>9. DOMAIN pinned = Regions /\ "digest" \in Regions  BY DEF PinInv, Regions
<1>10. row.idx + 1 = ProgramRows(table.words)  BY <1>7 DEF ProgramRows
<1> QED BY <1>2, <1>3, <1>8, <1>9, <1>10

-----------------------------------------------------------------------------
(* The input's region: a salt, then the input words. *)

LEMMA SaltFacts ==
    ASSUME TypeInv, NEW s \in Salts
    PROVE  /\ s \in Seq(Cells) /\ Len(s) = Rate
           /\ s \o tape \in Seq(Cells) /\ Len(s \o tape) = Rate + Len(tape)
           /\ \A k \in 1..Rate : (s \o tape)[k] = s[k]
           /\ \A k \in 1..Len(tape) : (s \o tape)[Rate + k] = tape[k]
<1>1. \A t \in Salts : t = [i \in 1..Rate |-> t[i]]  BY SaltAssumption
<1>2. \A t \in Salts : \A i \in 1..Rate : t[i] \in Cells  BY DEF Cells
<1>3. s \in [1..Rate -> Cells]
  <2> HIDE DEF Cells
  <2> QED BY <1>1, <1>2
<1>4. s \in Seq(Cells)
  <2> HIDE DEF Cells
  <2> QED BY <1>3, Sizes
<1>5. Len(s) = Rate
  <2> HIDE DEF Cells
  <2>1. s = [i \in 1..Rate |-> s[i]]  BY <1>3
  <2> QED BY <2>1, LenIs, Sizes
<1>6. tape \in Seq(Cells) /\ Len(tape) \in Nat  BY DEF TypeInv
<1>7. /\ s \o tape \in Seq(Cells) /\ Len(s \o tape) = Len(s) + Len(tape)
      /\ \A i \in 1..(Len(s) + Len(tape)) :
           (s \o tape)[i] = IF i <= Len(s) THEN s[i] ELSE tape[i - Len(s)]
  BY <1>4, <1>6, ConcatProperties
<1>8. ASSUME NEW k \in 1..Rate PROVE (s \o tape)[k] = s[k]
  <2>1. k \in 1..(Len(s) + Len(tape)) /\ k <= Len(s)  BY <1>5, <1>6, Sizes
  <2> QED BY <1>7, <2>1
<1>9. ASSUME NEW k \in 1..Len(tape) PROVE (s \o tape)[Rate + k] = tape[k]
  <2>1. /\ Rate + k \in 1..(Len(s) + Len(tape)) /\ ~(Rate + k <= Len(s))
        /\ (Rate + k) - Len(s) = k
    BY <1>5, <1>6, Sizes
  <2>2. (s \o tape)[Rate + k] = tape[(Rate + k) - Len(s)]  BY <1>7, <2>1
  <2> QED BY <2>1, <2>2
<1> QED BY <1>4, <1>5, <1>7, <1>8, <1>9

(* It starts with a salt. *)
LEMMA IndigestStarts ==
    ASSUME TypeInv, PlaceInv, AbsorbingRow("indigest"), row.kind = "digest"
    PROVE  IndigestInv' /\ row'.salt /\ row'.idx = 0
<1> DEFINE m == Len(tape)
           c == <<"IN", row'.n>>
<1>1. row.sys = "none" /\ tape \in Seq(Cells) /\ m \in Nat
  BY DEF PlaceInv, TypeInv, Regions
<1>2. row'.kind = "indigest" /\ UNCHANGED tables  BY AbsorbingRowIs
<1>3. row'.salt
  <2>1. row'.salt = ("indigest" = "indigest" /\ row.kind = "digest")  BY AbsorbingRowIs, Zenon
  <2> QED BY <2>1, Zenon
<1>4. row'.n \in Ns(row, "indigest") /\ row'.left \in Lefts(row, "indigest", row'.n)
      /\ row'.left \in Counts /\ row'.idx \in Idxs(row, "indigest")
      /\ row'.hs \in States(row, "indigest", row'.n) /\ row'.act \in 0..Rate
  BY AbsorbingRowIs
<1>5. row'.left = row'.n
  BY <1>1, <1>4 DEF Lefts, SysHash, SameRegion, Regions
<1>6. row'.idx = 0
  BY <1>1, <1>4 DEF Idxs, SysHash, SameRegion, Regions
<1>7. row'.hs = Seed(c)
  BY <1>1, <1>4 DEF States, InputSeed
<1>8. row'.act = Rate  BY <1>3, AbsorbingRowIs DEF LanesOk
<1>9. Drained(row'.last, row'.left, Drain(row'), row'.act) /\ Drain(row') = 0
  BY <1>3, AbsorbingRowIs DEF Drain
<1>10. PICK ws \in Words("indigest", row'.salt, row'.ptr, row'.idx, row'.act) :
         row'.hv = Overwrite(row'.hs, ws).rate
  BY AbsorbingRowIs
<1>11. claimed' = {}
  <2>1. Entries("indigest", row'.salt, row'.idx, row'.act) = {}  BY <1>3 DEF Entries
  <2> QED BY <1>1, <2>1, AbsorbingRowIs
<1>12. PICK s \in Salts : ws = SubSeq(s, 1, Rate)
  BY <1>3, <1>8, <1>10 DEF Words
<1>13. ws = [k \in 1..row'.act |-> (s \o tape)[k]]
  <2>1. s \in Seq(Cells) /\ Len(s) = Rate /\ \A k \in 1..Rate : (s \o tape)[k] = s[k]
    BY SaltFacts
  <2>2. SubSeq(s, 1, Rate) = [k \in 1..Rate |-> s[k]]  BY <2>1, Sizes
  <2> QED BY <1>8, <1>12, <2>1, <2>2
<1>14. Reading(row', {}, Seed(c), s \o tape, Rate)
  <2>1. Rate \in {0, Rate} /\ Len(s \o tape) = Rate + m  BY SaltFacts
  <2>2. Drain(row') = IF Rate = Rate THEN 0 ELSE row'.act  BY <1>9
  <2>3. {} = (IF Rate = Rate THEN {} ELSE {k : k \in 1..row'.act}) /\ {} \subseteq 1..m
    OBVIOUS
  <2>4. row'.n \in Nat  BY <1>4, <1>5, Sizes
  <2> HIDE DEF c, m
  <2> QED BY <1>1, <1>4, <1>5, <1>6, <1>7, <1>8, <1>9, <1>10, <1>13, <2>1, <2>2, <2>3, <2>4,
             RegionStarts
<1>15. IndigestInv'
  <2>1. Reading(row', claimed', InputSeed(row'.n), s \o tape', Rate)
    BY <1>2, <1>11, <1>14 DEF tables, InputSeed
  <2> QED BY <2>1 DEF IndigestInv
<1> QED BY <1>3, <1>6, <1>15

(* It goes on with input words. *)
LEMMA IndigestGoesOn ==
    ASSUME TypeInv, PlaceInv, IndigestInv, AbsorbingRow("indigest"), row.kind = "indigest"
    PROVE  IndigestInv' /\ ~row'.salt /\ row'.idx # 0
<1> DEFINE m == Len(tape)
           c == <<"IN", row.n>>
<1>1. row.sys = "none" /\ tape \in Seq(Cells) /\ m \in Nat
  BY DEF PlaceInv, TypeInv, Regions
<1>2. row'.kind = "indigest" /\ UNCHANGED tables  BY AbsorbingRowIs
<1>3. ~row'.salt
  <2>1. row'.salt = ("indigest" = "indigest" /\ row.kind = "digest")  BY AbsorbingRowIs, Zenon
  <2> QED BY <2>1, Zenon
<1>4. row'.n \in Ns(row, "indigest") /\ row'.left \in Lefts(row, "indigest", row'.n)
      /\ row'.left \in Counts /\ row'.idx \in Idxs(row, "indigest")
      /\ row'.hs \in States(row, "indigest", row'.n) /\ row'.act \in 0..Rate
  BY AbsorbingRowIs
<1>5. row'.n = row.n
  BY <1>1, <1>4 DEF Ns, SameRegion, Regions, Continues, SysHash
<1>6. row'.left = Sub(row.left, Drain(row))
  BY <1>1, <1>4 DEF Lefts, SysHash, SameRegion, Regions
<1>7. row'.idx = row.idx + 1
  BY <1>1, <1>4 DEF Idxs, SysHash, SameRegion, Regions
<1>8. row'.hs = Perm(Entered(row))
  BY <1>1, <1>4 DEF States, Absorbs, Regions
<1>9. row'.act > 0  BY <1>3, AbsorbingRowIs DEF LanesOk
<1>10. Drained(row'.last, row'.left, Drain(row'), row'.act) /\ Drain(row') = row'.act
  BY <1>3, AbsorbingRowIs DEF Drain
<1>11. Drain(row) = IF Rate # 0 /\ row.idx = 0 THEN 0 ELSE row.act
  <2>1. row.salt <=> row.idx = 0  BY SaltFirst
  <2>2. Rate # 0  BY Sizes
  <2> QED BY <2>1, <2>2 DEF Drain
<1>12. ~row.last
  <2>1. Follows(row, "indigest", FALSE)  BY AbsorbingRowIs
  <2>2. "indigest" \in Regions  BY DEF Regions
  <2> QED BY <2>1, <2>2, FollowsFacts
<1>13. PICK ws \in Words("indigest", row'.salt, row'.ptr, row'.idx, row'.act) :
         row'.hv = Overwrite(row'.hs, ws).rate
  BY AbsorbingRowIs
<1> DEFINE new == Entries("indigest", row'.salt, row'.idx, row'.act)
<1>14. claimed' = new \cup claimed /\ new \subseteq 1..m
  BY AbsorbingRowIs DEF EntriesOf, Regions
<1>15. PICK s \in Salts : Reading(row, claimed, Seed(c), s \o tape, Rate)
  BY DEF IndigestInv, InputSeed
<1>16. row.idx \in Nat /\ row'.act \in Nat
  <2>1. row.idx \in Nat  BY <1>15 DEF Reading
  <2> QED BY <1>4, <2>1, Sizes
<1>17. Rate * (row'.idx - 1) = Rate * row'.idx - Rate /\ Rate * row'.idx \in Nat
       /\ Rate * row'.idx - Rate \in Nat
  <2>1. row'.idx - 1 = row.idx /\ Rate * (row.idx + 1) = Rate * row.idx + Rate
        /\ Rate * row.idx \in Nat
    BY <1>7, <1>16, Sizes
  <2>2. Rate * row'.idx = Rate * row.idx + Rate  BY <1>7, <2>1
  <2> DEFINE x == Rate * row.idx
             y == Rate * row'.idx
  <2>3. x \in Nat /\ y = x + Rate /\ Rate \in Nat /\ Rate * (row'.idx - 1) = x
    BY <2>1, <2>2, Sizes
  <2> HIDE DEF x, y
  <2>4. Rate * (row'.idx - 1) = y - Rate /\ y \in Nat /\ y - Rate \in Nat  BY <2>3
  <2> QED BY <2>4 DEF y
<1>18. new = {Rate * row'.idx - Rate + k : k \in 1..row'.act}
  BY <1>3, <1>17 DEF Entries
<1>19. ws = [k \in 1..row'.act |-> (s \o tape)[Rate * row'.idx + k]]
  <2>1. ws = [k \in 1..row'.act |-> tape[Rate * (row'.idx - 1) + k]]
    BY <1>3, <1>13 DEF Words
  <2>2. ASSUME NEW k \in 1..row'.act
        PROVE  tape[Rate * (row'.idx - 1) + k] = (s \o tape)[Rate * row'.idx + k]
    <3> DEFINE j == Rate * row'.idx - Rate + k
    <3>1. j \in 1..Len(tape)  BY <1>14, <1>18
    <3>2. (s \o tape)[Rate + j] = tape[j]  BY <3>1, SaltFacts
    <3>3. Rate + j = Rate * row'.idx + k  BY <1>17, Sizes
    <3>4. Rate * (row'.idx - 1) + k = j  BY <1>17
    <3> QED BY <3>2, <3>3, <3>4
  <2> QED BY <2>1, <2>2
<1>20. Reading(row', new \cup claimed, Seed(c), s \o tape, Rate)
  <2>1. Rate \in {0, Rate} /\ Len(s \o tape) = Rate + m /\ s \o tape \in Seq(Cells)  BY SaltFacts
  <2>2. Drained(row'.last, row'.left, row'.act, row'.act)  BY <1>10
  <2> HIDE DEF c, m, new
  <2> QED BY <1>1, <1>4, <1>5, <1>6, <1>7, <1>8, <1>9, <1>10, <1>11, <1>12, <1>13, <1>14, <1>15,
             <1>18, <1>19, <2>1, <2>2, RegionGoesOn
<1>21. IndigestInv'
  <2>1. Reading(row', claimed', InputSeed(row'.n), s \o tape', Rate)
    BY <1>2, <1>5, <1>14, <1>20 DEF tables, InputSeed
  <2> QED BY <2>1 DEF IndigestInv
<1>22. row'.idx # 0  BY <1>7, <1>16
<1> QED BY <1>3, <1>21, <1>22

(* And it ends with the digest of the inputs the table holds, under a salt. *)
LEMMA IndigestEnds ==
    ASSUME TypeInv, PlaceInv, PinInv, IndigestInv, row.kind = "indigest", row.last,
           Leave("pubdigest")
    PROVE  /\ DOMAIN pinned' = Regions
           /\ pinned'["digest"] = pinned["digest"]
           /\ \E salt \in Salts : pinned'["indigest"] = InputDigest(salt, tape)
           /\ row.idx + 1 = InputRows(tape)
<1> DEFINE m == Len(tape)
           c == <<"IN", row.n>>
<1>1. m \in Nat  BY DEF TypeInv
<1>2. /\ claimed = 1..m
      /\ pinned' = [pinned EXCEPT !["indigest"] = Perm(Entered(row)).rate]
  BY DEF Leave, Claimed, EntriesOf, Regions
<1>3. PICK s \in Salts : Reading(row, 1..m, Seed(c), s \o tape, Rate)
  BY <1>2 DEF IndigestInv, InputSeed
<1>4. Drain(row) = IF Rate # 0 /\ row.idx = 0 THEN 0 ELSE row.act
  <2>1. row.salt <=> row.idx = 0  BY SaltFirst
  <2>2. Rate # 0  BY Sizes
  <2> QED BY <2>1, <2>2 DEF Drain
<1>5. Rate \in {0, Rate} /\ Len(s \o tape) = Rate + m /\ s \o tape \in Seq(Cells)  BY SaltFacts
<1>6. /\ row.n = m
      /\ Perm(Entered(row)) = Absorbed(Seed(c), s \o tape, row.idx + 1)
      /\ row.idx + 1 = IF Rate = 0 THEN AtLeastOne(BlocksOf(m)) ELSE 1 + BlocksOf(m)
  <2> DEFINE full == s \o tape
  <2>1. Reading(row, 1..m, Seed(c), full, Rate)  BY <1>3
  <2>2. full \in Seq(Cells) /\ Len(full) = Rate + m  BY <1>5
  <2>3. row.last  OBVIOUS
  <2>4. Rate \in {0, Rate}  OBVIOUS
  <2> HIDE DEF c, m, full
  <2>5. /\ row.n = m
        /\ Perm(Entered(row)) = Absorbed(Seed(c), full, row.idx + 1)
        /\ row.idx + 1 = IF Rate = 0 THEN AtLeastOne(BlocksOf(m)) ELSE 1 + BlocksOf(m)
    BY ONLY <1>1, <1>4, <2>1, <2>2, <2>3, <2>4, RegionEnds
  <2> QED BY <2>5 DEF full
<1>7. row.idx + 1 = 1 + BlocksOf(m)  BY <1>6, Sizes
<1>8. Perm(Entered(row)).rate = InputDigest(s, tape)
  BY <1>6, <1>7 DEF InputDigest, InputSeed, InputRows
<1>9. DOMAIN pinned = Regions /\ "indigest" \in Regions /\ "digest" \in Regions
  BY DEF PinInv, Regions
<1>10. row.idx + 1 = InputRows(tape)  BY <1>7 DEF InputRows
<1> QED BY <1>2, <1>8, <1>9, <1>10

-----------------------------------------------------------------------------
(* The public words' region, of a row at least. *)

(* It starts. *)
LEMMA PubdigestStarts ==
    ASSUME TypeInv, PlaceInv, AbsorbingRow("pubdigest"), row.kind = "indigest"
    PROVE  PubdigestInv'
<1> DEFINE m == Len(pubs)
           c == <<"PUB", row'.n>>
<1>1. row.sys = "none" /\ m \in Nat
  BY DEF PlaceInv, TypeInv, Regions
<1>2. row'.kind = "pubdigest" /\ ~row'.salt /\ UNCHANGED tables  BY AbsorbingRowIs
<1>3. row'.n \in Ns(row, "pubdigest") /\ row'.left \in Lefts(row, "pubdigest", row'.n)
      /\ row'.left \in Counts /\ row'.idx \in Idxs(row, "pubdigest")
      /\ row'.hs \in States(row, "pubdigest", row'.n) /\ row'.act \in 0..Rate
  BY AbsorbingRowIs
<1>4. row'.left = row'.n
  BY <1>1, <1>3 DEF Lefts, SysHash, SameRegion, Regions
<1>5. row'.idx = 0
  BY <1>1, <1>3 DEF Idxs, SysHash, SameRegion, Regions
<1>6. row'.hs = Seed(c)
  BY <1>1, <1>3 DEF States, PublicSeed
<1>7. Drained(row'.last, row'.left, Drain(row'), row'.act) /\ Drain(row') = row'.act
  BY <1>2, AbsorbingRowIs DEF Drain
<1>8. PICK ws \in Words("pubdigest", row'.salt, row'.ptr, row'.idx, row'.act) :
        row'.hv = Overwrite(row'.hs, ws).rate
  BY AbsorbingRowIs
<1>9. claimed' = Entries("pubdigest", row'.salt, row'.idx, row'.act) /\ claimed' \subseteq 1..m
  BY AbsorbingRowIs DEF EntriesOf, Regions
<1>10. \A k \in 1..row'.act : Rate * 0 + k = k  BY Sizes
<1>11. claimed' = {k : k \in 1..row'.act}
  <2>1. claimed' = {Rate * 0 + k : k \in 1..row'.act}  BY <1>2, <1>5, <1>9 DEF Entries
  <2> QED BY <1>10, <2>1
<1>12. ws = [k \in 1..row'.act |-> pubs[k]]
  <2>1. ws = [k \in 1..row'.act |-> pubs[Rate * 0 + k]]  BY <1>2, <1>5, <1>8 DEF Words
  <2> QED BY <1>10, <2>1
<1>13. Reading(row', claimed', Seed(c), pubs, 0)
  <2>1. 0 \in {0, Rate} /\ Len(pubs) = 0 + m /\ 0 # Rate  BY <1>1, Sizes
  <2>2. row'.n \in Nat  BY <1>3, <1>4, Sizes
  <2> HIDE DEF c, m
  <2> QED BY <1>1, <1>3, <1>4, <1>5, <1>6, <1>7, <1>8, <1>9, <1>11, <1>12, <2>1, <2>2, RegionStarts
<1> QED BY <1>2, <1>13 DEF PubdigestInv, tables, PublicSeed

(* It goes on. *)
LEMMA PubdigestGoesOn ==
    ASSUME TypeInv, PlaceInv, PubdigestInv, AbsorbingRow("pubdigest"), row.kind = "pubdigest"
    PROVE  PubdigestInv'
<1> DEFINE m == Len(pubs)
           c == <<"PUB", row.n>>
<1>1. row.sys = "none" /\ ~row.salt /\ m \in Nat /\ pubs \in Seq(Cells)
  BY SaltFirst DEF PlaceInv, TypeInv, Regions
<1>2. row'.kind = "pubdigest" /\ ~row'.salt /\ UNCHANGED tables  BY AbsorbingRowIs
<1>3. row'.n \in Ns(row, "pubdigest") /\ row'.left \in Lefts(row, "pubdigest", row'.n)
      /\ row'.left \in Counts /\ row'.idx \in Idxs(row, "pubdigest")
      /\ row'.hs \in States(row, "pubdigest", row'.n) /\ row'.act \in 0..Rate
  BY AbsorbingRowIs
<1>4. row'.n = row.n
  BY <1>1, <1>3 DEF Ns, SameRegion, Regions, Continues, SysHash
<1>5. row'.left = Sub(row.left, Drain(row))
  BY <1>1, <1>3 DEF Lefts, SysHash, SameRegion, Regions
<1>6. row'.idx = row.idx + 1
  BY <1>1, <1>3 DEF Idxs, SysHash, SameRegion, Regions
<1>7. row'.hs = Perm(Entered(row))
  BY <1>1, <1>3 DEF States, Absorbs, Regions
<1>8. Reading(row, claimed, Seed(c), pubs, 0)  BY DEF PubdigestInv, PublicSeed
<1>9. row.idx \in Nat  BY <1>8 DEF Reading
<1>10. row'.act > 0
  <2>1. row'.act > 0 \/ row'.idx = 0  BY <1>2, AbsorbingRowIs DEF LanesOk
  <2> QED BY <1>6, <1>9, <2>1
<1>11. /\ Drained(row'.last, row'.left, Drain(row'), row'.act) /\ Drain(row') = row'.act
       /\ Drain(row) = row.act
  BY <1>1, <1>2, AbsorbingRowIs DEF Drain
<1>12. ~row.last
  <2>1. Follows(row, "pubdigest", FALSE)  BY AbsorbingRowIs
  <2>2. "pubdigest" \in Regions  BY DEF Regions
  <2> QED BY <2>1, <2>2, FollowsFacts
<1>13. PICK ws \in Words("pubdigest", row'.salt, row'.ptr, row'.idx, row'.act) :
         row'.hv = Overwrite(row'.hs, ws).rate
  BY AbsorbingRowIs
<1> DEFINE new == Entries("pubdigest", row'.salt, row'.idx, row'.act)
<1>14. claimed' = new \cup claimed /\ new \subseteq 1..m
  BY AbsorbingRowIs DEF EntriesOf, Regions
<1>15. \A k \in 1..row'.act : Rate * row'.idx + k = Rate * row'.idx - 0 + k
  BY <1>6, <1>9, Sizes
<1>16. new = {Rate * row'.idx - 0 + k : k \in 1..row'.act}
  <2>1. new = {Rate * row'.idx + k : k \in 1..row'.act}  BY <1>2 DEF Entries
  <2> QED BY <1>15, <2>1
<1>17. ws = [k \in 1..row'.act |-> pubs[Rate * row'.idx + k]]
  BY <1>2, <1>13 DEF Words
<1>18. Reading(row', new \cup claimed, Seed(c), pubs, 0)
  <2>1. 0 \in {0, Rate} /\ Len(pubs) = 0 + m /\ 0 # Rate  BY <1>1, Sizes
  <2>2. Drain(row) = IF 0 # 0 /\ row.idx = 0 THEN 0 ELSE row.act  BY <1>11
  <2>3. Drained(row'.last, row'.left, row'.act, row'.act)  BY <1>11
  <2> HIDE DEF c, m, new
  <2> QED BY <1>1, <1>3, <1>4, <1>5, <1>6, <1>7, <1>8, <1>10, <1>11, <1>12, <1>13, <1>14,
             <1>16, <1>17, <2>1, <2>2, <2>3, RegionGoesOn
<1> QED BY <1>2, <1>4, <1>14, <1>18 DEF PubdigestInv, tables, PublicSeed

(* And it ends with the digest of the public words. *)
LEMMA PubdigestEnds ==
    ASSUME TypeInv, PlaceInv, PinInv, PubdigestInv, row.kind = "pubdigest", row.last,
           Leave("instr")
    PROVE  /\ DOMAIN pinned' = Regions
           /\ pinned'["digest"] = pinned["digest"] /\ pinned'["indigest"] = pinned["indigest"]
           /\ pinned'["pubdigest"] = PublicDigest(pubs)
           /\ row.idx + 1 = PublicRows(pubs)
<1> DEFINE m == Len(pubs)
           c == <<"PUB", row.n>>
<1>1. m \in Nat /\ ~row.salt /\ pubs \in Seq(Cells)
  BY SaltFirst DEF TypeInv
<1>2. /\ claimed = 1..m
      /\ pinned' = [pinned EXCEPT !["pubdigest"] = Perm(Entered(row)).rate]
  BY DEF Leave, Claimed, EntriesOf, Regions
<1>3. Reading(row, 1..m, Seed(c), pubs, 0)
  BY <1>2 DEF PubdigestInv, PublicSeed
<1>4. Drain(row) = IF 0 # 0 /\ row.idx = 0 THEN 0 ELSE row.act  BY <1>1 DEF Drain
<1>5. 0 \in {0, Rate} /\ Len(pubs) = 0 + m  BY <1>1
<1>6. /\ row.n = m
      /\ Perm(Entered(row)) = Absorbed(Seed(c), pubs, row.idx + 1)
      /\ row.idx + 1 = AtLeastOne(BlocksOf(m))
  <2> HIDE DEF c, m
  <2> QED BY <1>1, <1>3, <1>4, <1>5, RegionEnds
<1>7. Perm(Entered(row)).rate = PublicDigest(pubs)
  BY <1>6 DEF PublicDigest, PublicSeed, PublicRows
<1>8. DOMAIN pinned = Regions /\ "digest" \in Regions /\ "indigest" \in Regions
      /\ "pubdigest" \in Regions
  BY DEF PinInv, Regions
<1>9. row.idx + 1 = PublicRows(pubs)  BY <1>6 DEF PublicRows
<1> QED BY <1>2, <1>7, <1>8, <1>9

-----------------------------------------------------------------------------
(* Every step keeps the invariant. *)

(* The digests pinned so far, as a row of a region begins. *)
LEMMA AbsorbingPins ==
    ASSUME TypeInv, PlaceInv, PinInv, DigestInv, IndigestInv,
           NEW kind \in Regions \cup {"absorb"}, AbsorbingRow(kind)
    PROVE  PinInv'
<1>1. /\ Follows(row, kind, FALSE) /\ Leave(kind) /\ row'.kind = kind /\ UNCHANGED tables
  BY AbsorbingRowIs
<1>2. UNCHANGED <<table, tape, pubs>>  BY <1>1 DEF tables
<1>3. DOMAIN pinned = Regions  BY DEF PinInv
<1>4. CASE kind = row.kind
  <2>1. pinned' = pinned  BY <1>1, <1>4 DEF Leave
  <2> QED BY <1>1, <1>2, <1>4, <2>1 DEF PinInv
<1>5. CASE kind # row.kind
  <2>1. CASE kind = "digest"
    <3>1. row.kind = "start"  BY <1>1, <1>5, <2>1, FollowsFacts
    <3>2. pinned' = pinned  BY <1>1, <3>1 DEF Leave, Regions
    <3> QED BY <1>1, <1>3, <2>1, <3>2 DEF PinInv
  <2>2. CASE kind = "indigest"
    <3>1. row.kind = "digest"  BY <1>1, <1>5, <2>2, FollowsFacts
    <3>2. row.last  BY <1>1, <1>5, <3>1, FollowsFacts DEF Regions
    <3>3. /\ DOMAIN pinned' = Regions
          /\ pinned'["digest"] = ProgramDigest(table.base, table.words)
      BY <1>1, <2>2, <3>1, <3>2, DigestEnds
    <3> QED BY <1>1, <1>2, <2>2, <3>3 DEF PinInv
  <2>3. CASE kind = "pubdigest"
    <3>1. row.kind = "indigest"  BY <1>1, <1>5, <2>3, FollowsFacts
    <3>2. row.last  BY <1>1, <1>5, <3>1, FollowsFacts DEF Regions
    <3>3. /\ DOMAIN pinned' = Regions
          /\ pinned'["digest"] = pinned["digest"]
          /\ \E salt \in Salts : pinned'["indigest"] = InputDigest(salt, tape)
      BY <1>1, <2>3, <3>1, <3>2, IndigestEnds
    <3>4. pinned["digest"] = ProgramDigest(table.base, table.words)  BY <3>1 DEF PinInv
    <3> QED BY <1>1, <1>2, <2>3, <3>3, <3>4 DEF PinInv, Regions
  <2>4. CASE kind = "absorb"
    <3>1. row.kind \notin Regions \cup {"start"}  BY <1>1, <2>4, FollowsFacts
    <3>2. pinned' = pinned  BY <1>1, <3>1 DEF Leave
    <3> QED BY <1>1, <1>2, <3>1, <3>2 DEF PinInv, Regions
  <2> QED BY <2>1, <2>2, <2>3, <2>4 DEF Regions
<1> QED BY <1>4, <1>5

(* So an absorbing row keeps all of it. *)
LEMMA AbsorbingKeeps ==
    ASSUME TableInv, NEW kind \in Regions \cup {"absorb"}, AbsorbingRow(kind)
    PROVE  TableInv'
<1>1. /\ TypeInv /\ PlaceInv /\ GasInv /\ PinInv /\ ProofInv
      /\ DigestInv /\ IndigestInv /\ PubdigestInv
  BY DEF TableInv
<1>2. /\ Follows(row, kind, FALSE) /\ UNCHANGED <<tables, proof>>
      /\ row'.kind = kind /\ row'.sys = "none" /\ row'.next = row.next
      /\ row'.at = row.at + 1 /\ row'.gas = row.gas + Weight(kind, "none")
  BY AbsorbingRowIs
<1>3. UNCHANGED <<table, tape, pubs>>  BY <1>2 DEF tables
<1>4. row.sys # "halt" /\ row.at < Height  BY <1>1, <1>2, FollowsFacts
<1>5. TypeInv'  BY <1>1, <1>3 DEF TypeInv
<1>6. GasInv'  BY <1>1, <1>2, <1>4, GasStep
<1>7. ProofInv'  BY <1>1, <1>2, <1>4, ProofKept
<1>8. PinInv'  BY <1>1, AbsorbingPins
<1>9. DigestInv'
  <2>1. CASE kind = "digest"
    <3>1. row.kind \in {"start", "digest"}  BY <1>1, <1>2, <2>1, FollowsFacts
    <3> QED BY <1>1, <2>1, <3>1, DigestStarts, DigestGoesOn
  <2>2. CASE kind # "digest"  BY <1>2, <2>2 DEF DigestInv
  <2> QED BY <2>1, <2>2
<1>10. /\ IndigestInv'
       /\ kind = "indigest" => row'.salt = (row'.idx = 0)
  <2>1. CASE kind = "indigest"
    <3>1. row.kind \in {"digest", "indigest"}  BY <1>1, <1>2, <2>1, FollowsFacts
    <3>2. row'.salt = (kind = "indigest" /\ row.kind = "digest")  BY AbsorbingRowIs, Zenon
    <3>3. CASE row.kind = "digest"
      <4>1. IndigestInv' /\ row'.idx = 0  BY <1>1, <2>1, <3>3, IndigestStarts
      <4>2. (kind = "indigest" /\ row.kind = "digest") = (row'.idx = 0)  BY <2>1, <3>3, <4>1
      <4> QED BY <3>2, <4>1, <4>2, Zenon
    <3>4. CASE row.kind = "indigest"
      <4>1. IndigestInv' /\ row'.idx # 0  BY <1>1, <2>1, <3>4, IndigestGoesOn
      <4>2. (kind = "indigest" /\ row.kind = "digest") = (row'.idx = 0)  BY <2>1, <3>4, <4>1
      <4> QED BY <3>2, <4>1, <4>2, Zenon
    <3> QED BY <3>1, <3>3, <3>4
  <2>2. CASE kind # "indigest"  BY <1>2, <2>2 DEF IndigestInv
  <2> QED BY <2>1, <2>2
<1>11. PubdigestInv'
  <2>1. CASE kind = "pubdigest"
    <3>1. row.kind \in {"indigest", "pubdigest"}  BY <1>1, <1>2, <2>1, FollowsFacts
    <3> QED BY <1>1, <2>1, <3>1, PubdigestStarts, PubdigestGoesOn
  <2>2. CASE kind # "pubdigest"  BY <1>2, <2>2 DEF PubdigestInv
  <2> QED BY <2>1, <2>2
<1>12. PlaceInv'
  <2>1. row'.kind \in Regions \cup {"start", "absorb", "out", "instr"}  BY <1>2
  <2>2. row'.kind \in {"start", "digest"} => row'.next \in {table.base', table.base' + 4}
    <3> SUFFICES ASSUME row'.kind \in {"start", "digest"}
                 PROVE  row'.next \in {table.base', table.base' + 4}
      OBVIOUS
    <3>1. kind = "digest"  BY <1>2 DEF Regions
    <3>2. row.kind \in {"start", "digest"}  BY <1>1, <1>2, <3>1, FollowsFacts
    <3> QED BY <1>1, <1>2, <1>3, <3>2 DEF PlaceInv
  <2>3. row'.salt = (row'.kind = "indigest" /\ row'.idx = 0)
    <3>1. CASE kind = "indigest"
      <4>1. (row'.kind = "indigest" /\ row'.idx = 0) = (row'.idx = 0)  BY <1>2, <3>1
      <4> QED BY <1>10, <3>1, <4>1, Zenon
    <3>2. CASE kind # "indigest"
      <4>1. row'.salt = (kind = "indigest" /\ row.kind = "digest")  BY AbsorbingRowIs, Zenon
      <4>2. (kind = "indigest" /\ row.kind = "digest") = FALSE  BY <3>2
      <4>3. (row'.kind = "indigest" /\ row'.idx = 0) = FALSE  BY <1>2, <3>2
      <4> QED BY <4>1, <4>2, <4>3, Zenon
    <3> QED BY <3>1, <3>2
  <2> QED BY <1>2, <2>1, <2>2, <2>3, Zenon DEF PlaceInv
<1> QED BY <1>5, <1>6, <1>7, <1>8, <1>9, <1>10, <1>11, <1>12 DEF TableInv

(* A row that belongs to no region, after the regions. *)
LEMMA OrdinaryKeeps ==
    ASSUME TypeInv, PlaceInv, GasInv, row'.kind \in {"absorb", "out", "instr"}, UNCHANGED tables,
           row.at < Height, row'.at = row.at + 1,
           NEW kind, NEW sys, row'.gas = row.gas + Weight(kind, sys)
    PROVE  TypeInv' /\ PlaceInv' /\ GasInv' /\ DigestInv' /\ IndigestInv' /\ PubdigestInv'
<1>1. UNCHANGED <<table, tape, pubs>>  BY DEF tables
<1>2. row'.kind \notin Regions \cup {"start"}  BY DEF Regions
<1>3. TypeInv'  BY <1>1 DEF TypeInv
<1>4. PlaceInv'  BY <1>2 DEF PlaceInv, Regions
<1>5. GasInv'  BY GasStep
<1> QED BY <1>2, <1>3, <1>4, <1>5 DEF DigestInv, IndigestInv, PubdigestInv, Regions

(* A write-back row stands outside every region. *)
LEMMA WriteBackKeeps ==
    ASSUME TableInv, NEW fin, WriteBackRow(fin)
    PROVE  TableInv'
<1>1. /\ TypeInv /\ PlaceInv /\ GasInv /\ PinInv /\ ProofInv  BY DEF TableInv
<1>2. Follows(row, "out", fin) /\ UNCHANGED <<tables, pinned, proof>>
  BY DEF WriteBackRow
<1>3. row'.kind = "out" /\ row'.at = row.at + 1 /\ row'.gas = row.gas + Weight("out", "none")
  BY DEF WriteBackRow, RowOf, Blank
<1>4. /\ row.sys # "halt" /\ row.at < Height /\ row.kind \notin Regions \cup {"start"}
  BY <1>1, <1>2, FollowsFacts
<1>5. TypeInv' /\ PlaceInv' /\ GasInv' /\ DigestInv' /\ IndigestInv' /\ PubdigestInv'
  BY <1>1, <1>2, <1>3, <1>4, OrdinaryKeeps
<1>6. PinInv'  BY <1>1, <1>2, <1>3, <1>4 DEF PinInv, tables, Regions
<1>7. ProofInv'  BY <1>1, <1>2, <1>4, ProofKept
<1> QED BY <1>5, <1>6, <1>7 DEF TableInv

(* Any instruction row. *)
LEMMA FetchedKeeps ==
    ASSUME TableInv, Fetched, row'.kind = "instr", row'.at = row.at + 1,
           NEW sys, row'.gas = row.gas + Weight("instr", sys)
    PROVE  /\ row.sys # "halt"
           /\ TypeInv' /\ PlaceInv' /\ GasInv' /\ PinInv'
           /\ DigestInv' /\ IndigestInv' /\ PubdigestInv'
<1>1. /\ TypeInv /\ PlaceInv /\ GasInv /\ PinInv /\ PubdigestInv  BY DEF TableInv
<1>2. Follows(row, "instr", FALSE) /\ Leave("instr") /\ UNCHANGED tables
  BY DEF Fetched
<1>3. /\ row.sys # "halt" /\ row.at < Height /\ row.kind \notin {"start", "digest", "indigest"}
      /\ row.kind \in Regions => row.last = ("instr" # row.kind)
  BY <1>1, <1>2, FollowsFacts
<1>4. TypeInv' /\ PlaceInv' /\ GasInv' /\ DigestInv' /\ IndigestInv' /\ PubdigestInv'
  BY <1>1, <1>2, <1>3, OrdinaryKeeps
<1>5. PinInv'
  <2>1. UNCHANGED <<table, tape, pubs>>  BY <1>2 DEF tables
  <2>2. CASE row.kind = "pubdigest"
    <3>1. row.last  BY <1>3, <2>2 DEF Regions
    <3>2. /\ DOMAIN pinned' = Regions
          /\ pinned'["digest"] = pinned["digest"] /\ pinned'["indigest"] = pinned["indigest"]
          /\ pinned'["pubdigest"] = PublicDigest(pubs)
      BY <1>1, <1>2, <2>2, <3>1, PubdigestEnds
    <3>3. /\ pinned["digest"] = ProgramDigest(table.base, table.words)
          /\ \E salt \in Salts : pinned["indigest"] = InputDigest(salt, tape)
      BY <1>1, <2>2 DEF PinInv
    <3> QED BY <2>1, <3>2, <3>3 DEF PinInv
  <2>3. CASE row.kind # "pubdigest"
    <3>1. row.kind \notin Regions \cup {"start"}  BY <1>3, <2>3 DEF Regions
    <3>2. pinned' = pinned  BY <1>2, <3>1 DEF Leave
    <3> QED BY <1>1, <2>1, <3>1, <3>2 DEF PinInv, Regions
  <2> QED BY <2>2, <2>3
<1> QED BY <1>3, <1>4, <1>5

(* The HALT row writes the proof.  The run's gas is below the field's size *)
(* by 32 bits at least, so a limit 32 bits above it in the field is above  *)
(* it.                                                                     *)
LEMMA LimitIsAbove ==
    ASSUME GasInv', NEW limit \in GasLimits, Sub(limit, row'.gas) < W
    PROVE  row'.gas <= limit
<1> DEFINE g == AbsorbGas + ChipGas
           x == row'.at * g
           y == Height * g
<1>1. /\ AbsorbGas \in Nat /\ ChipGas \in Nat /\ Height \in Nat /\ W \in Nat /\ W > 0
      /\ P \in Nat /\ limit \in Nat
  BY LimitAssumption, HeightAssumption, WordAssumption, Sizes
<1>2. /\ row'.at \in Nat /\ row'.at <= Height /\ row'.gas \in Nat /\ row'.gas <= x
      /\ y + W <= P
  BY HeightAssumption DEF GasInv
<1>3. x <= y /\ x \in Nat /\ y \in Nat
  <2>1. g \in Nat  BY <1>1
  <2>2. Height - row'.at \in Nat  BY <1>1, <1>2
  <2>3. y = row'.at * g + (Height - row'.at) * g
    <3> HIDE DEF g
    <3> QED BY <1>1, <1>2, <2>1
  <2>4. (Height - row'.at) * g \in Nat
    <3> HIDE DEF g
    <3> QED BY <2>1, <2>2
  <2>5. x \in Nat
    <3> HIDE DEF g
    <3> QED BY <1>2, <2>1
  <2> DEFINE z == (Height - row'.at) * g
  <2>6. z \in Nat /\ y = x + z  BY <2>3, <2>4
  <2> HIDE DEF x, y, z
  <2> QED BY <2>5, <2>6
<1> HIDE DEF x, y
<1>4. row'.gas + W <= P  BY <1>1, <1>2, <1>3
<1>5. CASE limit >= P  BY <1>1, <1>2, <1>4, <1>5
<1>6. CASE limit < P
  <2>1. Sub(limit, row'.gas) = IF limit >= row'.gas THEN limit - row'.gas ELSE limit + P - row'.gas
    BY <1>1, <1>2, <1>4, <1>6, SubIs
  <2> QED BY <1>1, <1>2, <1>4, <2>1
<1> QED BY <1>1, <1>5, <1>6

(* The HALT row writes the proof: what no row put out is zero in it, and *)
(* the limit is above the gas.                                           *)
LEMMA HaltKeeps ==
    ASSUME TableInv, HaltRow
    PROVE  TableInv'
<1>1. /\ Fetched /\ UNCHANGED <<mem, outs>>
      /\ row' = RowOf("instr", "halt", row.next + 4)
  BY DEF HaltRow, Syscall
<1>2. /\ row'.kind = "instr" /\ row'.sys = "halt" /\ row'.at = row.at + 1
      /\ row'.gas = row.gas + Weight("instr", "halt")
  BY <1>1 DEF RowOf, Blank
<1>3. /\ TypeInv' /\ PlaceInv' /\ GasInv' /\ PinInv'
      /\ DigestInv' /\ IndigestInv' /\ PubdigestInv'
  BY <1>1, <1>2, FetchedKeeps
<1> DEFINE out(junk) ==
             [s \in 0..(NumOutputs - 1) |-> IF s \in DOMAIN outs THEN outs[s] ELSE junk]
<1>4. PICK limit \in GasLimits, junk \in JunkWords :
        /\ Sub(limit, row'.gas) < W
        /\ \A s \in DOMAIN out(junk) \ DOMAIN outs : out(junk)[s] = <<0>>
        /\ proof' = [pinned |-> pinned', out |-> out(junk), gas |-> limit]
  BY DEF HaltRow
<1>5. out(junk) = out(<<0>>)
  <2>1. \A s \in 0..(NumOutputs - 1) : s \notin DOMAIN outs => junk = <<0>>  BY <1>4
  <2> QED BY <2>1
<1>6. proof'.pinned = pinned' /\ proof'.gas = limit /\ proof'.out = out(<<0>>)
  BY <1>4, <1>5
<1>7. row'.gas <= limit  BY <1>3, <1>4, LimitIsAbove
<1>8. ProofInv'  BY <1>1, <1>2, <1>6, <1>7 DEF ProofInv
<1> QED BY <1>3, <1>8 DEF TableInv

(* The other instruction rows write none. *)
LEMMA InstrKeeps ==
    ASSUME TableInv, Fetched, row'.kind = "instr", row'.at = row.at + 1,
           NEW sys, row'.gas = row.gas + Weight("instr", sys), UNCHANGED proof
    PROVE  TableInv'
<1>1. /\ row.sys # "halt"
      /\ TypeInv' /\ PlaceInv' /\ GasInv' /\ PinInv'
      /\ DigestInv' /\ IndigestInv' /\ PubdigestInv'
  BY FetchedKeeps
<1>2. ProofInv'  BY <1>1, ProofKept DEF TableInv
<1> QED BY <1>1, <1>2 DEF TableInv

(* Every row keeps the invariant. *)
LEMMA NextKeeps ==
    ASSUME TableInv, [Next]_vars
    PROVE  TableInv'
<1>1. ASSUME NEW kind \in Regions \cup {"absorb"}, AbsorbingRow(kind) PROVE TableInv'
  BY <1>1, AbsorbingKeeps
<1>2. CASE WriteBackRow(FALSE) \/ WriteBackRow(TRUE)
  BY <1>2, WriteBackKeeps
<1>3. CASE PlainRow
  <2>1. Fetched /\ UNCHANGED proof  BY <1>3 DEF PlainRow
  <2>2. \E next : row' = RowOf("instr", "none", next)  BY <1>3 DEF PlainRow
  <2>3. row'.kind = "instr" /\ row'.at = row.at + 1 /\ row'.gas = row.gas + Weight("instr", "none")
    BY <2>2 DEF RowOf, Blank
  <2> QED BY <2>1, <2>3, InstrKeeps
<1>4. CASE MemoryRow
  <2>1. Fetched /\ UNCHANGED proof  BY <1>4 DEF MemoryRow
  <2>2. row'.kind = "instr" /\ row'.at = row.at + 1 /\ row'.gas = row.gas + Weight("instr", "none")
    BY <1>4 DEF MemoryRow, RowOf, Blank
  <2> QED BY <2>1, <2>2, InstrKeeps
<1>5. CASE OutputRow
  <2>1. Fetched /\ UNCHANGED proof  BY <1>5 DEF OutputRow, Syscall
  <2>2. row'.kind = "instr" /\ row'.at = row.at + 1 /\ row'.gas = row.gas + Weight("instr", "write")
    BY <1>5 DEF OutputRow, RowOf, Blank
  <2> QED BY <2>1, <2>2, InstrKeeps
<1>6. ASSUME NEW num, NEW words, ReadRow(num, words) PROVE TableInv'
  <2>1. Fetched /\ UNCHANGED proof  BY <1>6 DEF ReadRow, Syscall
  <2>2. row'.kind = "instr" /\ row'.at = row.at + 1 /\ row'.gas = row.gas + Weight("instr", "read")
    BY <1>6 DEF ReadRow, RowOf, Blank
  <2> QED BY <2>1, <2>2, InstrKeeps
<1>7. CASE ChipRow
  <2>1. Fetched /\ UNCHANGED proof  BY <1>7 DEF ChipRow, Syscall
  <2>2. row'.kind = "instr" /\ row'.at = row.at + 1 /\ row'.gas = row.gas + Weight("instr", "chip")
    BY <1>7 DEF ChipRow, RowOf, Blank
  <2> QED BY <2>1, <2>2, InstrKeeps
<1>8. ASSUME NEW num, NEW sys, HashRow(num, sys) PROVE TableInv'
  <2>1. Fetched /\ UNCHANGED proof  BY <1>8 DEF HashRow, Syscall
  <2>2. row'.kind = "instr" /\ row'.at = row.at + 1 /\ row'.gas = row.gas + Weight("instr", sys)
    BY <1>8 DEF HashRow, RowOf, Blank
  <2> QED BY <2>1, <2>2, InstrKeeps
<1>9. CASE HaltRow  BY <1>9, HaltKeeps
<1>10. CASE UNCHANGED vars
  <2>1. /\ UNCHANGED <<table, tape, pubs>> /\ UNCHANGED row /\ UNCHANGED claimed
        /\ UNCHANGED pinned /\ UNCHANGED outs /\ UNCHANGED proof
    BY <1>10, Zenon DEF vars, tables
  <2>2. TypeInv'  BY <2>1, Zenon DEF TableInv, TypeInv
  <2>3. PlaceInv'  BY <2>1, Zenon DEF TableInv, PlaceInv
  <2>4. GasInv'  BY <2>1, Zenon DEF TableInv, GasInv
  <2>5. PinInv'  BY <2>1, Zenon DEF TableInv, PinInv
  <2>6. ProofInv'  BY <2>1, Zenon DEF TableInv, ProofInv
  <2>7. DigestInv'  BY <2>1, Zenon DEF TableInv, DigestInv, Skipping, Reading, Drain
  <2>8. IndigestInv'  BY <2>1, Zenon DEF TableInv, IndigestInv, Reading, Drain
  <2>9. PubdigestInv'  BY <2>1, Zenon DEF TableInv, PubdigestInv, Reading, Drain
  <2> QED BY <2>2, <2>3, <2>4, <2>5, <2>6, <2>7, <2>8, <2>9 DEF TableInv
<1> QED BY <1>1, <1>2, <1>3, <1>4, <1>5, <1>6, <1>7, <1>8, <1>9, <1>10 DEF Next
-----------------------------------------------------------------------------
(* The first row. *)

(* An instruction is a word, and a word is a cell of its table. *)
LEMMA WordIs ==
    ASSUME NEW op \in Ops, NEW rd \in Regs, NEW rs1 \in Regs, NEW rs2 \in Regs, NEW imm \in Nat
    PROVE  Word(op, rd, rs1, rs2, imm) \in Instrs
BY DEF Word, Instrs

LEMMA InstrsAre ==
    ASSUME NEW ws \in Seq(Instrs)
    PROVE  ws \in Seq(Cells)
<1>1. Regs \subseteq Nat  BY RegAssumption, WordAssumption
<1>2. ASSUME NEW w \in Instrs PROVE w \in Cells
  <2>1. PICK ins \in [op : Ops, rd : Regs, rs1 : Regs, rs2 : Regs, imm : Nat] :
          w = <<"w", ins>>
    BY DEF Instrs
  <2>2. ins \in [op : Ops, rd : Nat, rs1 : Nat, rs2 : Nat, imm : Nat]  BY <1>1
  <2> QED BY <2>1, <2>2 DEF Cells
<1>3. \A i \in 1..Len(ws) : ws[i] \in Instrs  OBVIOUS
<1>4. \A i \in 1..Len(ws) : ws[i] \in Cells  BY <1>2, <1>3
<1>5. ws = [i \in 1..Len(ws) |-> ws[i]] /\ Len(ws) \in Nat  OBVIOUS
<1> QED BY <1>4, <1>5

LEMMA RegsAre ==
    A0 \in Regs /\ A1 \in Regs /\ A7 \in Regs /\ T0 \in Regs /\ X0 \in Regs
BY RegAssumption, CallAssumption, Zenon DEF X0

(* The words the programs are written with. *)
LEMMA WordsOf ==
    ASSUME NEW r \in {T0, A0, A1, A7}, NEW n \in Nat
    PROVE  /\ Li(r, n) \in Instrs /\ Lw(r, n) \in Instrs
           /\ Sw(r, n) \in Instrs /\ Sw(X0, n) \in Instrs /\ Ecall \in Instrs
<1>1. r \in Regs /\ A0 \in Regs /\ A7 \in Regs /\ X0 \in Regs /\ 0 \in Nat
  BY RegsAre
<1>2. Word("addi", r, X0, X0, n) \in Instrs  BY <1>1, WordIs DEF Ops
<1>3. Word("lw", r, X0, X0, n) \in Instrs  BY <1>1, WordIs DEF Ops
<1>4. Word("sw", X0, X0, r, n) \in Instrs  BY <1>1, WordIs DEF Ops
<1>5. Word("sw", X0, X0, X0, n) \in Instrs  BY <1>1, WordIs DEF Ops
<1>6. Word("ecall", A0, A7, A0, 0) \in Instrs  BY <1>1, WordIs DEF Ops
<1> QED BY <1>2, <1>3, <1>4, <1>5, <1>6 DEF Li, Lw, Sw, Ecall

LEMMA CallsAre ==
    ASSUME NEW k \in Nat, NEW x \in Nat, NEW y \in Nat
    PROVE  /\ Call(k) \in Seq(Instrs) /\ CallWith(k, x, y) \in Seq(Instrs)
           /\ Stop \in Seq(Instrs) /\ Call(WRITE_OUTPUT) \in Seq(Instrs)
<1>1. ASSUME NEW n \in Nat PROVE Call(n) \in Seq(Instrs)
  <2>1. Li(A7, n) \in Instrs /\ Ecall \in Instrs  BY WordsOf
  <2> QED BY <2>1 DEF Call
<1>2. <<Li(A0, x), Li(A1, y)>> \in Seq(Instrs)
  <2>1. Li(A0, x) \in Instrs /\ Li(A1, y) \in Instrs  BY WordsOf
  <2> QED BY <2>1
<1>3. CallWith(k, x, y) \in Seq(Instrs)
  <2>1. Call(k) \in Seq(Instrs)  BY <1>1
  <2> QED BY <1>2, <2>1, ConcatProperties DEF CallWith
<1>4. Stop \in Seq(Instrs)  BY <1>1 DEF Stop, HALT
<1>5. Call(WRITE_OUTPUT) \in Seq(Instrs)  BY <1>1 DEF WRITE_OUTPUT
<1> QED BY <1>1, <1>3, <1>4, <1>5

LEMMA SingleIs ==
    ASSUME NEW k \in Nat, NEW x \in Nat, NEW y \in Nat
    PROVE  Single(k, x, y) \in Seq(Instrs)
<1>1. Li(T0, 9) \in Instrs /\ Sw(T0, 8) \in Instrs  BY WordsOf
<1>2. <<Li(T0, 9), Sw(T0, 8)>> \in Seq(Instrs)  BY <1>1
<1>3. CallWith(k, x, y) \in Seq(Instrs) /\ Stop \in Seq(Instrs)  BY CallsAre
<1> QED BY <1>2, <1>3, ConcatProperties DEF Single

(* The programs the runs are made with are sequences of words. *)
LEMMA CombinedAre ==
    ASSUME NEW ws \in Combined
    PROVE  ws \in Seq(Instrs)
<1>1. ASSUME NEW k \in Nat, NEW x \in Nat, NEW y \in Nat
      PROVE  CallWith(k, x, y) \in Seq(Instrs)
  BY CallsAre
<1>2. Stop \in Seq(Instrs) /\ Call(WRITE_OUTPUT) \in Seq(Instrs)  BY CallsAre
<1>3. /\ READ_INPUT \in Nat /\ POSEIDON2 \in Nat /\ POSEIDON2_LEN \in Nat
      /\ READ_PUBLIC \in Nat /\ WRITE_OUTPUT \in Nat /\ CHIP \in Nat
  BY DEF READ_INPUT, POSEIDON2, POSEIDON2_LEN, READ_PUBLIC, WRITE_OUTPUT, CHIP
<1>4. ASSUME NEW a \in Seq(Instrs), NEW b \in Seq(Instrs) PROVE a \o b \in Seq(Instrs)
  BY ConcatProperties
<1>5. HashOut \in Seq(Instrs)
  <2>1. Sw(A0, 12) \in Instrs /\ Lw(A1, 12) \in Instrs /\ Li(A0, 1) \in Instrs  BY WordsOf
  <2>2. <<Sw(A0, 12)>> \in Seq(Instrs) /\ <<Lw(A1, 12), Li(A0, 1)>> \in Seq(Instrs)  BY <2>1
  <2>3. CallWith(READ_INPUT, 1, 0) \in Seq(Instrs) /\ CallWith(POSEIDON2, 2, 3) \in Seq(Instrs)
    BY <1>1, <1>3
  <2> QED BY <1>2, <1>4, <2>2, <2>3 DEF HashOut
<1>6. TwoEmpty \in Seq(Instrs)
  <2>1. /\ Li(T0, 9) \in Instrs /\ Sw(T0, 8) \in Instrs /\ Sw(T0, 20) \in Instrs
        /\ Lw(A1, 8) \in Instrs /\ Li(A0, 0) \in Instrs
        /\ Lw(A1, 20) \in Instrs /\ Li(A0, 1) \in Instrs
    BY WordsOf
  <2>2. /\ <<Li(T0, 9), Sw(T0, 8), Sw(T0, 20)>> \in Seq(Instrs)
        /\ <<Lw(A1, 8), Li(A0, 0)>> \in Seq(Instrs) /\ <<Lw(A1, 20), Li(A0, 1)>> \in Seq(Instrs)
    BY <2>1
  <2>3. CallWith(POSEIDON2, 2, 0) \in Seq(Instrs) /\ CallWith(POSEIDON2_LEN, 2, 0) \in Seq(Instrs)
    BY <1>1, <1>3
  <2> QED BY <1>2, <1>4, <2>2, <2>3 DEF TwoEmpty
<1>7. Jumps \in Seq(Instrs)
  <2> DEFINE mid == <<Sw(A0, 16), Word("lui", T0, X0, X0, 4), Word("add", A0, T0, X0, 0),
                      Word("auipc", T0, X0, X0, 13), Word("jalr", T0, T0, X0, 0),
                      Sw(X0, 16), Li(A7, CHIP), Ecall, Word("beq", X0, X0, X0, 8), Sw(X0, 16),
                      Lw(A1, 16), Li(A0, 0)>>
  <2>1. A0 \in Regs /\ T0 \in Regs /\ X0 \in Regs  BY RegsAre
  <2>2. /\ Word("lui", T0, X0, X0, 4) \in Instrs /\ Word("add", A0, T0, X0, 0) \in Instrs
        /\ Word("auipc", T0, X0, X0, 13) \in Instrs /\ Word("jalr", T0, T0, X0, 0) \in Instrs
        /\ Word("beq", X0, X0, X0, 8) \in Instrs
    <3>1. Word("lui", T0, X0, X0, 4) \in Instrs  BY <2>1, WordIs DEF Ops
    <3>2. Word("add", A0, T0, X0, 0) \in Instrs  BY <2>1, WordIs DEF Ops
    <3>3. Word("auipc", T0, X0, X0, 13) \in Instrs  BY <2>1, WordIs DEF Ops
    <3>4. Word("jalr", T0, T0, X0, 0) \in Instrs  BY <2>1, WordIs DEF Ops
    <3>5. Word("beq", X0, X0, X0, 8) \in Instrs  BY <2>1, WordIs DEF Ops
    <3> QED BY <3>1, <3>2, <3>3, <3>4, <3>5
  <2>3. /\ Sw(A0, 16) \in Instrs /\ Sw(X0, 16) \in Instrs /\ Li(A7, CHIP) \in Instrs
        /\ Ecall \in Instrs /\ Lw(A1, 16) \in Instrs /\ Li(A0, 0) \in Instrs
    BY <1>3, WordsOf
  <2>4. mid \in Seq(Instrs)  BY <2>2, <2>3
  <2>5. CallWith(READ_PUBLIC, 0, 0) \in Seq(Instrs)  BY <1>1, <1>3
  <2> HIDE DEF mid
  <2>6. Jumps = CallWith(READ_PUBLIC, 0, 0) \o mid \o Call(WRITE_OUTPUT) \o Stop
    BY DEF Jumps, mid
  <2> QED BY <1>2, <1>4, <2>4, <2>5, <2>6
<1>8. Misaligned \in Seq(Instrs)
  <2>1. A1 \in Regs /\ X0 \in Regs  BY RegsAre
  <2>2. Word("lw", A1, X0, X0, 6) \in Instrs  BY <2>1, WordIs DEF Ops
  <2>3. Li(T0, 9) \in Instrs  BY WordsOf
  <2>4. <<Li(T0, 9), Word("lw", A1, X0, X0, 6)>> \in Seq(Instrs)  BY <2>2, <2>3
  <2> QED BY <1>2, <1>4, <2>4 DEF Misaligned
<1>9. Twice \in Seq(Instrs)
  <2>1. CallWith(WRITE_OUTPUT, 0, 9) \in Seq(Instrs)  BY <1>1, <1>3
  <2> QED BY <1>2, <1>4, <2>1 DEF Twice
<1>10. Chained \in Seq(Instrs)
  <2>1. /\ Lw(A0, 8) \in Instrs /\ Li(A1, 1) \in Instrs
        /\ Word("beq", X0, A0, X0, 8) \in Instrs
    <3>1. A0 \in Regs /\ X0 \in Regs  BY RegsAre
    <3>2. Word("beq", X0, A0, X0, 8) \in Instrs  BY <3>1, WordIs DEF Ops
    <3> QED BY <3>2, WordsOf
  <2>2. /\ <<Lw(A0, 8), Li(A1, 1)>> \in Seq(Instrs)
        /\ <<Word("beq", X0, A0, X0, 8)>> \in Seq(Instrs)
    BY <2>1
  <2>3. CallWith(POSEIDON2, 2, 1) \in Seq(Instrs) /\ Call(POSEIDON2) \in Seq(Instrs)
    BY <1>1, <1>3, CallsAre
  <2> QED BY <1>2, <1>4, <2>2, <2>3 DEF Chained
<1> QED BY <1>5, <1>6, <1>7, <1>8, <1>9, <1>10 DEF Combined

LEMMA ProgramsAre ==
    ASSUME NEW p \in Programs
    PROVE  /\ p \in [base : Nat, words : Seq(Instrs)] /\ p.base % 4 = 0
           /\ p \in [base : Nat, words : Seq(Cells)]
<1>1. ASSUME NEW k \in Calls, NEW x \in Ptrs0, NEW y \in Lens0
      PROVE  Single(k, x, y) \in Seq(Instrs)
  BY CallAssumption, SingleIs
<1>2. PICK ws \in {Single(k, x, y) : k \in Calls, x \in Ptrs0, y \in Lens0} \cup Combined :
        p = [base |-> 4, words |-> ws]
  BY DEF Programs
<1>3. ws \in Seq(Instrs)  BY <1>1, CombinedAre
<1>4. ws \in Seq(Cells)  BY <1>3, InstrsAre
<1> QED BY <1>2, <1>3, <1>4

(* What a prover may put in its program table instead. *)
LEMMA AlteredAre ==
    ASSUME NEW p \in [base : Nat, words : Seq(Instrs)], p.base % 4 = 0, NEW q \in Altered(p)
    PROVE  q \in [base : Nat, words : Seq(Instrs)] /\ q.base % 4 = 0
<1>1. Stop \in Seq(Instrs) /\ Li(A0, 50) \in Instrs  BY CallsAre, WordsOf
<1>2. CASE q = [p EXCEPT !.base = 0]  BY <1>2
<1>3. CASE q = [p EXCEPT !.words = @ \o Stop]
  <2>1. p.words \o Stop \in Seq(Instrs)  BY <1>1, ConcatProperties
  <2> QED BY <1>3, <2>1
<1>4. CASE q = [p EXCEPT !.words[1] = Li(A0, 50)]
  <2>1. [p.words EXCEPT ![1] = Li(A0, 50)] \in Seq(Instrs)
    <3>1. PICK n \in Nat : p.words \in [1..n -> Instrs]
      <4>1. p.words \in Seq(Instrs)  OBVIOUS
      <4> QED BY <4>1, SeqDef
    <3>2. [p.words EXCEPT ![1] = Li(A0, 50)] \in [1..n -> Instrs]  BY <1>1, <3>1
    <3> QED BY <3>2
  <2> QED BY <1>4, <2>1
<1>5. CASE q = [p EXCEPT !.words = SubSeq(@, 1, Len(@) - 1)]
  <2>1. SubSeq(p.words, 1, Len(p.words) - 1) \in Seq(Instrs)  BY SubSeqProperties
  <2> QED BY <1>5, <2>1
<1> QED BY <1>2, <1>3, <1>4, <1>5 DEF Altered

LEMMA PublicWordsAre ==
    ASSUME NEW words \in PublicWords
    PROVE  words \in Seq(Cells)
<1>1. <<7>> \in Cells /\ <<8>> \in Cells  BY DEF Cells
<1>2. /\ <<>> \in Seq(Cells) /\ <<<<7>>>> \in Seq(Cells)
      /\ <<<<7>>, <<8>>>> \in Seq(Cells)
  BY <1>1
<1> QED BY <1>2 DEF PublicWords

LEMMA InitTypes ==
    ASSUME MCInit
    PROVE  TypeInv /\ ProgramInv
<1>1. table \in [base : Nat, words : Seq(Instrs)] /\ table.base % 4 = 0
  <2>1. CASE table \in Programs  BY <2>1, ProgramsAre
  <2>2. ASSUME NEW ws \in Combined, table \in Altered([base |-> 4, words |-> ws])
        PROVE  table \in [base : Nat, words : Seq(Instrs)] /\ table.base % 4 = 0
    <3> DEFINE p == [base |-> 4, words |-> ws]
    <3>1. ws \in Seq(Instrs)  BY CombinedAre
    <3>2. p \in [base : Nat, words : Seq(Instrs)] /\ p.base % 4 = 0  BY <3>1
    <3>3. table \in Altered(p)  BY <2>2
    <3> HIDE DEF p
    <3> QED BY <3>2, <3>3, AlteredAre
  <2>3. table \in Programs \/ \E ws \in Combined : table \in Altered([base |-> 4, words |-> ws])
    BY Zenon DEF MCInit
  <2> QED BY <2>1, <2>2, <2>3
<1>2. table \in [base : Nat, words : Seq(Cells)]
  <2>1. table.words \in Seq(Cells)  BY <1>1, InstrsAre
  <2> QED BY <1>1, <2>1
<1>3. \A x \in Nat : <<x>> \in Cells  BY DEF Cells
<1>4. tape \in Seq(Cells)
  <2>1. <<3>> \in Cells /\ <<6>> \in Cells  BY <1>3
  <2>2. <<>> \in Seq(Cells) /\ <<<<3>>, <<6>>>> \in Seq(Cells)  BY <2>1
  <2>3. tape \in {<<>>, <<<<3>>, <<6>>>>}  BY Zenon DEF MCInit
  <2> QED BY <2>2, <2>3
<1>5. pubs \in PublicWords  BY Zenon DEF MCInit
<1>6. PcWindow  BY Zenon DEF MCInit, Init
<1>7. TypeInv  BY <1>2, <1>4, <1>5, PublicWordsAre DEF TypeInv
<1>8. ProgramInv  BY <1>1, <1>6 DEF ProgramInv
<1> QED BY <1>7, <1>8

(* Whatever the tables hold, the first row stands before the regions. *)
LEMMA InitKeeps ==
    ASSUME Init, TypeInv
    PROVE  TableInv
<1>1. PICK at \in {table.base, table.base + 4} :
        row = [Blank EXCEPT !.kind = "start", !.next = at]
  BY DEF Init
<1>2. /\ row.kind = "start" /\ row.sys = "none" /\ row.next = at
      /\ row.at = 0 /\ row.gas = 0
  BY <1>1 DEF Blank
<1>3. row.kind \notin Regions /\ row.kind \notin {"digest", "indigest", "pubdigest"}
  BY <1>2 DEF Regions
<1>4. pinned = [r \in Regions |-> None] /\ proof = None  BY DEF Init
<1>5. PlaceInv  BY <1>1, <1>2, <1>3 DEF PlaceInv
<1>6. GasInv
  <2>1. Height \in Nat /\ AbsorbGas \in Nat /\ ChipGas \in Nat
    BY HeightAssumption, LimitAssumption
  <2> QED BY <1>2, <2>1 DEF GasInv
<1>7. PinInv  BY <1>2, <1>4 DEF PinInv
<1>8. ProofInv  BY <1>4 DEF ProofInv
<1>9. DigestInv /\ IndigestInv /\ PubdigestInv
  BY <1>3 DEF DigestInv, IndigestInv, PubdigestInv
<1> QED BY <1>5, <1>6, <1>7, <1>8, <1>9 DEF TableInv

-----------------------------------------------------------------------------

(* In every reachable state of the cpu table the rows of a digest region   *)
(* have absorbed its table's words from the first on, each looked up once,  *)
(* what is pinned behind a region is the digest of its whole table, and the *)
(* gas column is a sum that never wraps: TableInv is inductive (the digest  *)
(* regions, the gas chain and the HALT row of research/src/tables/cpu.rs).  *)
THEOREM TableInvariant == MCSpec => []TableInv
<1>1. MCInit => TableInv
  <2>1. MCInit => Init  BY Zenon DEF MCInit
  <2> QED BY <2>1, InitTypes, InitKeeps
<1>2. TableInv /\ [Next]_vars => TableInv'  BY NextKeeps
<1> QED BY <1>1, <1>2, PTL DEF MCSpec

\* What a proof binds that verifies against a program and public words.
Binds(p, words) ==
  proof # None /\ Verifies(proof, p, words) =>
    /\ table = p /\ pubs = words
    /\ \E salt \in Salts : proof.pinned["indigest"] = InputDigest(salt, tape)
    /\ proof.out = [s \in 0..(NumOutputs - 1) |-> IF s \in DOMAIN outs THEN outs[s] ELSE <<0>>]
    /\ row.gas <= proof.gas

(* The public values of a finished proof determine what its tables hold. *)
LEMMA InvBinds ==
    ASSUME TableInv, NEW p \in [base : Nat, words : Seq(Cells)], NEW words \in Seq(Cells)
    PROVE  Binds(p, words)
<1> SUFFICES ASSUME proof # None, Verifies(proof, p, words)
             PROVE  /\ table = p /\ pubs = words
                    /\ \E salt \in Salts : proof.pinned["indigest"] = InputDigest(salt, tape)
                    /\ proof.out = [s \in 0..(NumOutputs - 1) |->
                                      IF s \in DOMAIN outs THEN outs[s] ELSE <<0>>]
                    /\ row.gas <= proof.gas
  BY DEF Binds
<1>1. /\ row.kind = "instr" /\ row.sys = "halt" /\ proof.pinned = pinned
      /\ proof.out = [s \in 0..(NumOutputs - 1) |-> IF s \in DOMAIN outs THEN outs[s] ELSE <<0>>]
      /\ row.gas <= proof.gas
  BY DEF TableInv, ProofInv
<1>2. row.kind \notin {"start", "digest", "indigest"} /\ row.kind \notin Regions \cup {"start"}
  BY <1>1 DEF Regions
<1>3. /\ pinned["digest"] = ProgramDigest(table.base, table.words)
      /\ \E salt \in Salts : pinned["indigest"] = InputDigest(salt, tape)
      /\ pinned["pubdigest"] = PublicDigest(pubs)
  BY <1>2 DEF TableInv, PinInv
<1>4. /\ table \in [base : Nat, words : Seq(Cells)] /\ p \in [base : Nat, words : Seq(Cells)]
      /\ pubs \in Seq(Cells) /\ words \in Seq(Cells)
  BY DEF TableInv, TypeInv
<1>5. table = p
  <2>1. ProgramDigest(table.base, table.words) = ProgramDigest(p.base, p.words)
    BY <1>1, <1>3 DEF Verifies
  <2>2. table.words \in Seq(Cells) /\ p.words \in Seq(Cells)  BY <1>4
  <2>3. table.base = p.base /\ table.words = p.words  BY <2>1, <2>2, ProgramBinds
  <2> QED BY <1>4, <2>3
<1>6. pubs = words
  <2>1. PublicDigest(pubs) = PublicDigest(words)  BY <1>1, <1>3 DEF Verifies
  <2> QED BY <1>4, <2>1, PublicBinds
<1> QED BY <1>1, <1>3, <1>5, <1>6

(* A proof that verifies is of the program and the public words its        *)
(* verifier holds: its public values pin their digests, the digest of the   *)
(* inputs the run read, the outputs it put, and a gas limit the run kept    *)
(* within (Machine::verify_public, research/src/machine.rs).                *)
THEOREM AcceptedProofsBind == MCSpec => []AcceptedBinds
<1>1. TableInv => AcceptedBinds
  BY InvBinds, ProgramsAre, PublicWordsAre DEF AcceptedBinds, Binds
<1> QED BY <1>1, TableInvariant, PTL

AnySpec == Init /\ TypeInv /\ [][Next]_vars
EveryProofBinds ==
  \A p \in [base : Nat, words : Seq(Cells)], words \in Seq(Cells) : Binds(p, words)

(* The same of every program, not only of those the runs are made with:     *)
(* whatever words a prover's tables and a verifier's program are made of.   *)
THEOREM EveryProgramBinds == AnySpec => []EveryProofBinds
<1>1. Init /\ TypeInv => TableInv  BY InitKeeps
<1>2. TableInv /\ [Next]_vars => TableInv'  BY NextKeeps
<1>3. TableInv => EveryProofBinds  BY InvBinds DEF EveryProofBinds
<1> QED BY <1>1, <1>2, <1>3, PTL DEF AnySpec

-----------------------------------------------------------------------------
(* Keys of the memory log: registers below PtrBound, words of memory above. *)

(* The sizes of the machine, as numbers. *)
LEMMA MachineSizes ==
    /\ PtrBound \in Nat /\ PtrBound > 0 /\ W = 4 * PtrBound /\ W \in Nat
    /\ P \in Nat /\ P > 6 * PtrBound
    /\ Rate \in Nat /\ Rate > 0 /\ 2 * Rate <= PtrBound
    /\ MaxWords \in Nat /\ MaxWords <= PtrBound /\ AbsorbGas \in Nat
BY WordAssumption, FieldAssumption, RateAssumption, LimitAssumption

(* A register's key is its number. *)
LEMMA RegIs ==
    ASSUME NEW r \in Regs
    PROVE  Reg(r) = r /\ r \in 0..(PtrBound - 1) /\ r \in 0..(P - 1)
<1>1. r \in 0..(PtrBound - 1)  BY RegAssumption
<1>2. r \in Nat /\ r < P  BY <1>1, MachineSizes
<1>3. 0 * PtrBound + r = r  BY <1>2, MachineSizes
<1>4. r % P = r  BY <1>2, MachineSizes
<1> QED BY <1>1, <1>2, <1>3, <1>4, MachineSizes DEF Reg, Key

(* A word's key is its address above the registers, as far as none wraps. *)
LEMMA CellIs ==
    ASSUME NEW a \in 0..(P - 1 - PtrBound)
    PROVE  Cell(a) = PtrBound + a /\ Cell(a) \in PtrBound..(P - 1)
<1>1. PtrBound + a \in Nat /\ PtrBound + a < P  BY MachineSizes
<1>2. 1 * PtrBound + a = PtrBound + a  BY MachineSizes
<1>3. (PtrBound + a) % P = PtrBound + a  BY <1>1, MachineSizes
<1> QED BY <1>1, <1>2, <1>3, MachineSizes DEF Cell, Key

\* The addresses the machine reads and writes.
Addrs == 0..(3 * PtrBound)

(* As none does of the addresses the machine reads and writes. *)
LEMMA AddrIs ==
    ASSUME NEW a \in Addrs
    PROVE  Cell(a) = PtrBound + a /\ Cell(a) \in PtrBound..(P - 1) /\ a \in 0..(P - 1 - PtrBound)
<1>1. a \in 0..(P - 1 - PtrBound)  BY MachineSizes DEF Addrs
<1> QED BY <1>1, CellIs

MemoryOf(m) == [a \in {k - PtrBound : k \in DOMAIN m \ 0..(PtrBound - 1)} |-> m[Cell(a)]]

(* The words of memory are the entries of the log above the registers. *)
LEMMA MemoryIs ==
    ASSUME NEW m, DOMAIN m \subseteq 0..(P - 1)
    PROVE  /\ DOMAIN MemoryOf(m) \subseteq 0..(P - 1 - PtrBound)
           /\ \A a \in 0..(P - 1 - PtrBound) :
                /\ a \in DOMAIN MemoryOf(m) <=> PtrBound + a \in DOMAIN m
                /\ a \in DOMAIN MemoryOf(m) => MemoryOf(m)[a] = m[PtrBound + a]
<1> DEFINE D == {k - PtrBound : k \in DOMAIN m \ 0..(PtrBound - 1)}
<1>1. DOMAIN MemoryOf(m) = D /\ \A a \in D : MemoryOf(m)[a] = m[Cell(a)]  BY DEF MemoryOf
<1>2. ASSUME NEW a \in D PROVE a \in 0..(P - 1 - PtrBound) /\ PtrBound + a \in DOMAIN m
  <2>1. PICK k \in DOMAIN m \ 0..(PtrBound - 1) : a = k - PtrBound  OBVIOUS
  <2>2. k \in 0..(P - 1) /\ k \notin 0..(PtrBound - 1)  OBVIOUS
  <2>3. PtrBound + a = k  BY <2>1, <2>2, MachineSizes
  <2> QED BY <2>1, <2>2, <2>3, MachineSizes
<1>3. ASSUME NEW a \in 0..(P - 1 - PtrBound), PtrBound + a \in DOMAIN m PROVE a \in D
  <2>1. a \in Int /\ a >= 0  BY MachineSizes
  <2>2. PtrBound + a \notin 0..(PtrBound - 1) /\ (PtrBound + a) - PtrBound = a
    BY <2>1, MachineSizes
  <2> QED BY <1>3, <2>2
<1>4. \A a \in D : Cell(a) = PtrBound + a  BY <1>2, CellIs
<1> QED BY <1>1, <1>2, <1>3, <1>4

(* The emulator's memory is that of the log, before a step and after it. *)
LEMMA MemoryNow ==
    Memory = MemoryOf(mem) /\ Memory' = MemoryOf(mem')
<1>1. Memory = MemoryOf(mem)  BY DEF Memory, MemoryOf
<1>2. Memory' = MemoryOf(mem')  BY DEF Memory, MemoryOf, Cell, Key
<1> QED BY <1>1, <1>2

(* A word the emulator reads is the one the log's read returns. *)
LEMMA RamIs ==
    ASSUME DOMAIN mem \subseteq 0..(P - 1), NEW a \in Addrs
    PROVE  Emulator!Ram(a) = Log(Cell(a))
<1>1. Cell(a) = PtrBound + a /\ a \in 0..(P - 1 - PtrBound)  BY AddrIs
<1>2. /\ a \in DOMAIN Memory <=> PtrBound + a \in DOMAIN mem
      /\ a \in DOMAIN Memory => Memory[a] = mem[PtrBound + a]
  BY <1>1, MemoryIs, MemoryNow
<1> QED BY <1>1, <1>2 DEF Emulator!Ram, Log

(* What words of memory are written, and no register. *)
Writes(X, v) ==
  /\ DOMAIN mem' = DOMAIN mem \cup {PtrBound + x : x \in X}
  /\ \A x \in X : mem'[PtrBound + x] = v[x]
  /\ \A c \in DOMAIN mem \ {PtrBound + x : x \in X} : mem'[c] = mem[c]

\* f with v at the keys of X.
Over(f, X, v) == [a \in DOMAIN f \cup X |-> IF a \in X THEN v[a] ELSE f[a]]

LEMMA Written ==
    ASSUME DOMAIN mem \subseteq 0..(P - 1), NEW X \in SUBSET Addrs, NEW v, Writes(X, v)
    PROVE  /\ DOMAIN mem' \subseteq 0..(P - 1)
           /\ Registers' = Registers
           /\ Memory' = Over(Memory, X, v)
<1>0. /\ DOMAIN mem' = DOMAIN mem \cup {PtrBound + x : x \in X}
      /\ \A x \in X : mem'[PtrBound + x] = v[x]
      /\ \A c \in DOMAIN mem \ {PtrBound + x : x \in X} : mem'[c] = mem[c]
  BY DEF Writes
<1>1. \A x \in X : x \in 0..(P - 1 - PtrBound) /\ PtrBound + x \in PtrBound..(P - 1)
  BY AddrIs
<1>2. DOMAIN mem' \subseteq 0..(P - 1)
  <2>1. \A x \in X : PtrBound + x \in 0..(P - 1)  BY <1>1, MachineSizes
  <2> QED BY <1>0, <2>1
<1>3. ASSUME NEW r \in Regs PROVE Log(Reg(r))' = Log(Reg(r))
  <2>1. Reg(r) = r /\ r \in 0..(PtrBound - 1)  BY RegIs
  <2>2. \A x \in X : PtrBound + x # r  BY <1>1, <2>1, MachineSizes
  <2>3. r \in DOMAIN mem' <=> r \in DOMAIN mem  BY <1>0, <2>2
  <2>4. r \in DOMAIN mem => mem'[r] = mem[r]  BY <1>0, <2>2
  <2>5. Reg(r)' = r  BY <2>1 DEF Reg, Key
  <2> QED BY <2>1, <2>3, <2>4, <2>5 DEF Log
<1>4. Registers' = Registers  BY <1>3 DEF Registers
<1> DEFINE M == [a \in DOMAIN Memory \cup X |-> IF a \in X THEN v[a] ELSE Memory[a]]
<1>5. /\ DOMAIN Memory \subseteq 0..(P - 1 - PtrBound)
      /\ \A a \in 0..(P - 1 - PtrBound) :
           /\ a \in DOMAIN Memory <=> PtrBound + a \in DOMAIN mem
           /\ a \in DOMAIN Memory => Memory[a] = mem[PtrBound + a]
  BY MemoryIs, MemoryNow
<1>6. /\ DOMAIN Memory' \subseteq 0..(P - 1 - PtrBound)
      /\ \A a \in 0..(P - 1 - PtrBound) :
           /\ a \in DOMAIN Memory' <=> PtrBound + a \in DOMAIN mem'
           /\ a \in DOMAIN Memory' => Memory'[a] = mem'[PtrBound + a]
  BY <1>2, MemoryIs, MemoryNow
<1>7. ASSUME NEW a \in 0..(P - 1 - PtrBound)
      PROVE  /\ PtrBound + a \in {PtrBound + x : x \in X} <=> a \in X
             /\ a \in DOMAIN Memory' <=> a \in DOMAIN M
             /\ a \in DOMAIN Memory' => Memory'[a] = M[a]
  <2>1. a \in Int /\ X \subseteq Int  BY MachineSizes DEF Addrs
  <2>2. PtrBound + a \in {PtrBound + x : x \in X} <=> a \in X
    BY <2>1, MachineSizes
  <2>3. a \in DOMAIN Memory' <=> a \in DOMAIN M  BY <1>0, <1>5, <1>6, <2>2
  <2>4. CASE a \in X  BY <1>0, <1>6, <2>2, <2>3, <2>4
  <2>5. CASE a \notin X  BY <1>0, <1>5, <1>6, <2>2, <2>3, <2>5
  <2> QED BY <2>2, <2>3, <2>4, <2>5
<1>8. DOMAIN M \subseteq 0..(P - 1 - PtrBound)  BY <1>1, <1>5
<1>9. DOMAIN Memory' = DOMAIN M /\ \A a \in DOMAIN M : Memory'[a] = M[a]
  BY <1>6, <1>7, <1>8
<1>10. Memory' = M
  <2>1. Memory' = [a \in DOMAIN Memory' |-> Memory'[a]]  BY MemoryNow DEF MemoryOf
  <2>2. M = [a \in DOMAIN M |-> M[a]]  OBVIOUS
  <2> HIDE DEF M
  <2> QED BY <1>9, <2>1, <2>2
<1> QED BY <1>2, <1>4, <1>10 DEF Over

(* A register written. *)
LEMMA WrittenReg ==
    ASSUME DOMAIN mem \subseteq 0..(P - 1), NEW r \in Regs, NEW w, WriteReg(r, w)
    PROVE  /\ DOMAIN mem' \subseteq 0..(P - 1)
           /\ Registers' = Emulator!SetReg(r, w)
           /\ Memory' = Memory
<1>1. CASE r = 0
  <2>1. mem' = mem  BY <1>1 DEF WriteReg
  <2>2. Registers' = Registers /\ Memory' = Memory
    BY <2>1, MemoryNow DEF Registers, Log, Reg, Key
  <2> QED BY <1>1, <2>1, <2>2 DEF Emulator!SetReg
<1>2. CASE r # 0
  <2>1. mem' = Write(r, w)  BY <1>2, RegIs DEF WriteReg
  <2>2. /\ DOMAIN mem' = {r} \cup DOMAIN mem
        /\ mem'[r] = w /\ \A k \in DOMAIN mem \ {r} : mem'[k] = mem[k]
    BY <2>1 DEF Write, Put
  <2>3. DOMAIN mem' \subseteq 0..(P - 1)  BY <2>2, RegIs
  <2>4. ASSUME NEW s \in Regs
        PROVE  Log(Reg(s))' = IF s = r THEN w ELSE Log(Reg(s))
    <3>1. Reg(s) = s  BY RegIs
    <3>2. Reg(s)' = s  BY <3>1 DEF Reg, Key
    <3> QED BY <2>2, <3>1, <3>2 DEF Log
  <2>5. Registers' = [Registers EXCEPT ![r] = w]  BY <2>4 DEF Registers
  <2>6. Memory' = Memory
    <3> DEFINE D(m) == {k - PtrBound : k \in DOMAIN m \ 0..(PtrBound - 1)}
    <3>1. r \in 0..(PtrBound - 1)  BY RegIs
    <3>2. DOMAIN mem' \ 0..(PtrBound - 1) = DOMAIN mem \ 0..(PtrBound - 1)  BY <2>2, <3>1
    <3>3. ASSUME NEW a \in D(mem) PROVE mem'[Cell(a)] = mem[Cell(a)]
      <4>1. a \in 0..(P - 1 - PtrBound) /\ PtrBound + a \in DOMAIN mem
        <5>1. DOMAIN MemoryOf(mem) = D(mem)  BY DEF MemoryOf
        <5> QED BY <5>1, MemoryIs
      <4>2. Cell(a) = PtrBound + a /\ Cell(a) \in PtrBound..(P - 1)  BY <4>1, CellIs
      <4>3. Cell(a) # r  BY <3>1, <4>2, MachineSizes
      <4> QED BY <2>2, <4>1, <4>2, <4>3
    <3>4. MemoryOf(mem') = MemoryOf(mem)  BY <3>2, <3>3 DEF MemoryOf
    <3> QED BY <3>4, MemoryNow
  <2> QED BY <1>2, <2>3, <2>5, <2>6 DEF Emulator!SetReg
<1> QED BY <1>1, <1>2

(* A word of memory written. *)
LEMMA WrittenCell ==
    ASSUME DOMAIN mem \subseteq 0..(P - 1), NEW a \in Addrs, NEW w, mem' = Write(Cell(a), w)
    PROVE  /\ DOMAIN mem' \subseteq 0..(P - 1)
           /\ Registers' = Registers
           /\ Memory' = Emulator!Put(Memory, a, w)
<1> DEFINE v == [x \in {a} |-> w]
           X == {a}
<1>1. Cell(a) = PtrBound + a  BY AddrIs
<1>2. Writes(X, v)  BY <1>1 DEF Writes, Write, Put
<1>3. X \in SUBSET Addrs  OBVIOUS
<1>4. /\ DOMAIN mem' \subseteq 0..(P - 1)
      /\ Registers' = Registers
      /\ Memory' = Over(Memory, X, v)
  <2> HIDE DEF v, X
  <2> QED BY <1>2, <1>3, Written
<1>5. Emulator!Put(Memory, a, w) = Over(Memory, X, v)  BY DEF Emulator!Put, Over
<1> QED BY <1>4, <1>5

(* A run of words written to memory. *)
LEMMA CellsWritten ==
    ASSUME DOMAIN mem \subseteq 0..(P - 1), NEW s \in Nat, NEW n \in Nat,
           s + n <= 3 * PtrBound, NEW ws, DOMAIN ws = 1..n, WriteCells(s, ws)
    PROVE  /\ DOMAIN mem' \subseteq 0..(P - 1) /\ Registers' = Registers
           /\ Emulator!WriteRam(s, n, ws)
<1> DEFINE X == s..(s + n - 1)
           at(k) == Cell(s + k - 1)
           v == [x \in X |-> ws[x - s + 1]]
<1>0. mem' = [c \in DOMAIN mem \cup {at(k) : k \in 1..n} |->
                IF \E k \in 1..n : at(k) = c
                THEN ws[CHOOSE k \in 1..n : at(k) = c] ELSE mem[c]]
  BY DEF WriteCells
<1>1. PtrBound \in Nat  BY MachineSizes
<1>2. X \subseteq Addrs  BY <1>1 DEF Addrs
<1>3. ASSUME NEW k \in 1..n
      PROVE  s + k - 1 \in X /\ at(k) = PtrBound + (s + k - 1)
  <2>1. s + k - 1 \in X  OBVIOUS
  <2> QED BY <1>2, <2>1, AddrIs
<1>4. ASSUME NEW x \in X
      PROVE  /\ x - s + 1 \in 1..n /\ at(x - s + 1) = PtrBound + x
             /\ \A k \in 1..n : at(k) = PtrBound + x => k = x - s + 1
  <2> HIDE DEF at
  <2>1. x - s + 1 \in 1..n /\ s + (x - s + 1) - 1 = x  OBVIOUS
  <2>2. at(x - s + 1) = PtrBound + x  BY <1>3, <2>1
  <2>3. ASSUME NEW k \in 1..n, at(k) = PtrBound + x PROVE k = x - s + 1
    <3>1. PtrBound + (s + k - 1) = PtrBound + x  BY <1>3, <2>3
    <3> QED BY <1>1, <3>1
  <2> QED BY <2>1, <2>2, <2>3
<1>5. {at(k) : k \in 1..n} = {PtrBound + x : x \in X}
  <2> HIDE DEF X, at
  <2>1. \A k \in 1..n : \E x \in X : at(k) = PtrBound + x  BY <1>3
  <2>2. \A x \in X : \E k \in 1..n : at(k) = PtrBound + x  BY <1>4
  <2> QED BY <2>1, <2>2
<1>6. DOMAIN mem' = DOMAIN mem \cup {PtrBound + x : x \in X}  BY <1>0, <1>5
<1>7. ASSUME NEW x \in X PROVE mem'[PtrBound + x] = v[x]
  <2> DEFINE c == PtrBound + x
             j == CHOOSE k \in 1..n : at(k) = c
  <2>1. c \in {at(k) : k \in 1..n}  BY <1>5
  <2>2. \E k \in 1..n : at(k) = c  BY <2>1
  <2>3. j = x - s + 1
    <3>1. j \in 1..n /\ at(j) = c  BY <2>2
    <3> QED BY <1>4, <3>1
  <2>4. mem'[c] = ws[j]  BY <1>0, <2>1, <2>2
  <2>5. v[x] = ws[x - s + 1]  OBVIOUS
  <2> HIDE DEF v, j, at
  <2> QED BY <2>3, <2>4, <2>5
<1>8. ASSUME NEW c \in DOMAIN mem \ {PtrBound + x : x \in X} PROVE mem'[c] = mem[c]
  <2>1. ~\E k \in 1..n : at(k) = c  BY <1>5
  <2> QED BY <1>0, <2>1
<1>9. /\ DOMAIN mem' \subseteq 0..(P - 1) /\ Registers' = Registers
      /\ Memory' = Over(Memory, X, v)
  <2> HIDE DEF X, v
  <2>1. X \in SUBSET Addrs  BY <1>2
  <2>2. Writes(X, v)  BY <1>6, <1>7, <1>8 DEF Writes
  <2> QED BY <2>1, <2>2, Written
<1>10. Over(Memory, X, v)
         = [a \in DOMAIN Memory \cup X |-> IF a \in X THEN ws[a - s + 1] ELSE Memory[a]]
  BY DEF Over
<1> QED BY <1>9, <1>10 DEF Emulator!WriteRam
-----------------------------------------------------------------------------
(* The emulator's copies of what it shares with the tables. *)

LEMMA SameIsa ==
    /\ Emulator!Zero = Zero /\ \A n : Emulator!LenSeed(n) = LenSeed(n)
    /\ \A w : Emulator!Val(w) = Val(w) /\ \A n : Emulator!Num(n) = Num(n)
    /\ \A s : Emulator!Perm(s) = Perm(s)
    /\ \A s, ws : Emulator!Overwrite(s, ws) = Overwrite(s, ws)
    /\ \A lanes, h : Emulator!DigestHalf(lanes, h) = DigestHalf(lanes, h)
    /\ Emulator!PrefixGas = PrefixGas
    /\ \A at : Emulator!Fetchable(at) = Fetchable(at)
<1>1. Emulator!Zero = Zero /\ \A n : Emulator!LenSeed(n) = LenSeed(n)
  BY DEF Emulator!Zero, Zero, Emulator!LenSeed, LenSeed, Emulator!Seed, Seed
<1>2. \A w : Emulator!Val(w) = Val(w) /\ \A n : Emulator!Num(n) = Num(n)
  BY DEF Emulator!Val, Val, Emulator!Num, Num
<1>3. \A s : Emulator!Perm(s) = Perm(s)  BY DEF Emulator!Perm, Perm
<1>4. \A s, ws : Emulator!Overwrite(s, ws) = Overwrite(s, ws)
  BY DEF Emulator!Overwrite, Overwrite
<1>5. \A lanes, h : Emulator!DigestHalf(lanes, h) = DigestHalf(lanes, h)
  BY DEF Emulator!DigestHalf, DigestHalf, Emulator!Lo, Lo, Emulator!Hi, Hi
<1>6. Emulator!PrefixGas = PrefixGas
  BY DEF Emulator!PrefixGas, PrefixGas, Emulator!ProgramRows, ProgramRows,
         Emulator!InputRows, InputRows, Emulator!PublicRows, PublicRows,
         Emulator!AtLeastOne, AtLeastOne, Emulator!BlocksOf, BlocksOf
<1>7. \A at : Emulator!Fetchable(at) = Fetchable(at)
  BY DEF Emulator!Fetchable, Fetchable
<1> QED BY <1>1, <1>2, <1>3, <1>4, <1>5, <1>6, <1>7

(* A word is always some number. *)
LEMMA ValIs ==
    ASSUME NEW w
    PROVE  Val(w) \in Nat
<1>1. CASE Len(w) = 1 /\ w[1] \in Nat  BY <1>1 DEF Val
<1>2. CASE ~(Len(w) = 1 /\ w[1] \in Nat)
  <2>1. CASE DigestNum(w) \in 0..(W - 1)
    <3>1. Val(w) = DigestNum(w)  BY <1>2, <2>1 DEF Val
    <3>2. DigestNum(w) \in Nat  BY <2>1, MachineSizes
    <3> QED BY <3>1, <3>2
  <2>2. CASE DigestNum(w) \notin 0..(W - 1)  BY <1>2, <2>2 DEF Val
  <2> QED BY <2>1, <2>2
<1> QED BY <1>1, <1>2

(* A fetch: the instruction, and that the pc does not wrap behind it. *)
LEMMA FetchIs ==
    ASSUME ProgramInv, NEW at \in Nat, Fetchable(at)
    PROVE  /\ WordAt(at)[2] \in [op : Ops, rd : Regs, rs1 : Regs, rs2 : Regs, imm : Nat]
           /\ at % 4 = 0 /\ at < W /\ (at + 4) % W = at + 4
<1>1. /\ table.base \in Nat /\ table.base % 4 = 0 /\ table.words \in Seq(Instrs)
      /\ table.base + 4 * (Len(table.words) + 1) <= W
  BY DEF ProgramInv, PcWindow
<1> DEFINE d == at - table.base
           n == Len(table.words)
<1>2. d \in Nat /\ at = table.base + d /\ d % 4 = 0 /\ d \div 4 < n /\ n \in Nat
  BY <1>1 DEF Fetchable
<1>3. PICK j \in Nat : d = 4 * j /\ d \div 4 = j  BY <1>2
<1>4. j < n /\ at = table.base + 4 * j  BY <1>2, <1>3
<1>5. table.words[j + 1] \in Instrs  BY <1>1, <1>4
<1>6. WordAt(at) = table.words[j + 1]  BY <1>3 DEF WordAt
<1>7. at + 4 < W /\ at % 4 = 0
  <2> HIDE DEF n, d
  <2>1. table.base + 4 * (n + 1) <= W  BY <1>1 DEF n
  <2> QED BY <1>1, <1>2, <1>4, <2>1, MachineSizes
<1>8. (at + 4) % W = at + 4  BY <1>7, MachineSizes
<1> QED BY <1>5, <1>6, <1>7, <1>8, MachineSizes DEF Instrs
-----------------------------------------------------------------------------
(* The invariant of the rows that follow: the gas of the regions, the keys *)
(* of the log, and where a hash group's rows stand.                        *)

PrefixGasInv ==
  /\ row.kind = "start" => row.gas = 0
  /\ row.kind = "digest" /\ row.next = table.base => row.gas = (row.idx + 1) * AbsorbGas
  /\ row.kind = "indigest" =>
       /\ row.next = table.base
       /\ row.gas = (ProgramRows(table.words) + (row.idx + 1)) * AbsorbGas
  /\ row.kind = "pubdigest" =>
       /\ row.next = table.base
       /\ row.gas = (ProgramRows(table.words) + InputRows(tape) + (row.idx + 1)) * AbsorbGas

MemoryInv == DOMAIN mem \subseteq 0..(P - 1) /\ row.next \in Nat

\* The pc is still at the hash call whose rows these are.
AtHashCall ==
  Fetchable(row.next) /\ Ins.op = "ecall" /\ Val(A) \in {POSEIDON2, POSEIDON2_LEN}

\* A hash group's rows: the call's, an absorb row, a write-back row.
CallInv ==
  SysHash(row) =>
    /\ row.kind = "instr" /\ AtHashCall
    /\ row.ptr \in 0..(PtrBound - 1) /\ row.n \in 0..MaxWords
    /\ row.left = row.n /\ row.idx = 0
AbsorbInv ==
  row.kind = "absorb" =>
    /\ row.salt = FALSE /\ row.sys = "none" /\ AtHashCall
    /\ row.ptr \in 0..(PtrBound - 1) /\ row.n \in 0..MaxWords
    /\ row.left \in Counts /\ row.idx \in Nat /\ row.act \in 0..Rate
    /\ Rate * row.idx + row.left = row.n
    /\ IF row.last THEN row.left = row.act ELSE row.act = Rate /\ row.left >= Rate
    /\ Recorded(row.hs) /\ row.hv = [i \in 1..Rate |-> row.hv[i]]
OutInv ==
  row.kind = "out" =>
    /\ row.sys = "none"
    /\ ~row.fin => Fetchable(row.next) /\ row.ptr \in 0..(PtrBound - 1)

RunInv ==
  /\ ProgramInv /\ PrefixGasInv /\ MemoryInv /\ CallInv /\ AbsorbInv /\ OutInv

(* What an instruction or a halt leaves of the emulator's state. *)
LEMMA AfterInstr ==
    ASSUME row'.kind = "instr", row'.sys \notin {"hash", "hashlen", "halt"}
    PROVE  /\ Pc' = row'.next /\ Gas' = row'.gas /\ Group' = Emulator!NoGroup
           /\ Halted' = FALSE
<1>1. ~SysHash(row)'  BY DEF SysHash
<1>2. InPrefix' = FALSE  BY DEF InPrefix, Regions
<1>3. Group' = Emulator!NoGroup
  BY <1>1, SameIsa DEF Group, Emulator!NoGroup
<1>4. Halted' = FALSE  BY DEF Halted
<1>5. Pc' = row'.next  BY <1>2 DEF Pc
<1>6. Gas' = row'.gas  BY <1>2 DEF Gas
<1> QED BY <1>3, <1>4, <1>5, <1>6

(* Where an instruction is fetched, but in a hash group, the emulator runs. *)
LEMMA Idle ==
    ASSUME TableInv, RunInv, Fetched, row.kind # "absorb"
    PROVE  /\ Pc = row.next /\ Gas = row.gas /\ Group = Emulator!NoGroup /\ Halted = FALSE
           /\ row.sys # "halt" /\ ~SysHash(row)
<1>1. /\ PlaceInv /\ PinInv /\ PubdigestInv /\ TypeInv /\ PrefixGasInv
  BY DEF TableInv, RunInv
<1>2. Follows(row, "instr", FALSE) /\ Leave("instr") /\ row.kind # "start"  BY DEF Fetched
<1>3. /\ row.sys # "halt" /\ row.kind \notin {"start", "digest", "indigest"}
      /\ row.kind \in Regions => row.last = ("instr" # row.kind)
  <2>1. /\ row.sys # "halt"
        /\ row.kind = "digest" => "instr" \in {"digest", "indigest"}
        /\ row.kind = "indigest" => "instr" \in {"indigest", "pubdigest"}
    BY <1>1, <1>2, FollowsFacts
  <2>2. row.kind \in Regions => row.last = ("instr" # row.kind)
    BY <1>1, <1>2, FollowsFacts
  <2>3. row.kind \notin {"start", "digest", "indigest"}  BY <1>2, <2>1
  <2> QED BY <2>1, <2>2, <2>3
<1>4. ~SysHash(row) /\ (row.kind = "out" => row.fin)
  BY <1>2 DEF Follows, Routing, SysHash
<1>5. Group = Emulator!NoGroup
  BY <1>4, SameIsa DEF Group, Emulator!NoGroup
<1>6. Halted = FALSE  BY <1>3 DEF Halted
<1>7. CASE row.kind = "pubdigest"
  <2>1. row.last  BY <1>3, <1>7 DEF Regions
  <2>2. row.idx + 1 = PublicRows(pubs)  BY <1>1, <1>2, <1>7, <2>1, PubdigestEnds
  <2>3. row.next = table.base /\ row.gas = PrefixGas
    BY <1>1, <1>7, <2>2 DEF PrefixGasInv, PrefixGas
  <2>4. InPrefix  BY <1>7 DEF InPrefix, Regions
  <2> QED BY <1>3, <1>4, <1>5, <1>6, <2>3, <2>4 DEF Pc, Gas
<1>8. CASE row.kind # "pubdigest"
  <2>1. ~InPrefix  BY <1>3, <1>8 DEF InPrefix, Regions
  <2> QED BY <1>3, <1>4, <1>5, <1>6, <2>1 DEF Pc, Gas
<1> QED BY <1>7, <1>8

(* The emulator is at the same instruction, with the same operands. *)
LEMMA SameIns ==
    ASSUME RunInv, Pc = row.next, Fetchable(row.next)
    PROVE  /\ Emulator!Ins = Ins /\ Emulator!A = A /\ Emulator!B = B /\ Emulator!Arg1 = Arg1
           /\ Ins \in [op : Ops, rd : Regs, rs1 : Regs, rs2 : Regs, imm : Nat]
<1>1. ProgramInv /\ row.next \in Nat  BY DEF RunInv, MemoryInv
<1>2. Ins \in [op : Ops, rd : Regs, rs1 : Regs, rs2 : Regs, imm : Nat]
  BY <1>1, FetchIs DEF Ins
<1>3. Emulator!Ins = Ins  BY DEF Emulator!Ins, Ins, WordAt
<1>4. A1 \in Regs  BY RegsAre
<1> QED BY <1>2, <1>3, <1>4 DEF Emulator!A, A, Emulator!B, B, Emulator!Arg1, Arg1, Registers

(* No instruction follows an absorb row: it would be the hash call again,  *)
(* and the state that call starts from is no permutation's.                *)
LEMMA AfterAbsorb ==
    ASSUME RunInv, row.kind = "absorb", Fetched
    PROVE  /\ Ins.op = "ecall" /\ Val(A) \in {POSEIDON2, POSEIDON2_LEN}
           /\ \A ptr, n : ~Arrives(ptr, n)
<1>1. AtHashCall /\ row.sys = "none"  BY DEF RunInv, AbsorbInv
<1>2. ASSUME NEW n PROVE Zero \notin States(row, "instr", n)
  <2>1. ~(row.kind = "start" \/ row.kind = "digest" \/ row.kind = "indigest")  OBVIOUS
  <2>2. Absorbs(row)  BY DEF Absorbs
  <2>3. States(row, "instr", n) = {Perm(Entered(row))}  BY <1>1, <2>2 DEF States
  <2>4. Zero.cap = <<0>> /\ Perm(Entered(row)).cap = <<"cap", Entered(row)>>
    BY DEF Zero, Seed, Perm
  <2>5. <<0>> # <<"cap", Entered(row)>>  OBVIOUS
  <2> QED BY <2>3, <2>4, <2>5
<1> QED BY <1>1, <1>2 DEF AtHashCall, Arrives

(* An instruction row, as the emulator sees it. *)
LEMMA Runs ==
    ASSUME TableInv, RunInv, Fetched, row.kind # "absorb"
    PROVE  /\ Emulator!Running /\ Pc = row.next /\ Gas = row.gas
           /\ Group = Emulator!NoGroup /\ Halted = FALSE
           /\ Emulator!Ins = Ins /\ Emulator!A = A /\ Emulator!B = B /\ Emulator!Arg1 = Arg1
           /\ Emulator!ByteAddr = AluOut /\ Emulator!Target = Target
           /\ Ins \in [op : Ops, rd : Regs, rs1 : Regs, rs2 : Regs, imm : Nat]
           /\ AluOut \in 0..(W - 1) /\ Target \in 0..(W - 1) /\ row.next \in Nat
           /\ (row.next + 4) % W = row.next + 4 /\ Fetchable(row.next)
           /\ DOMAIN mem \subseteq 0..(P - 1) /\ UNCHANGED <<table, tape, pubs>>
<1>1. Fetchable(row.next) /\ UNCHANGED tables  BY DEF Fetched
<1>2. ProgramInv /\ row.next \in Nat /\ DOMAIN mem \subseteq 0..(P - 1)  BY DEF RunInv, MemoryInv
<1>3. Pc = row.next /\ Gas = row.gas /\ Group = Emulator!NoGroup /\ Halted = FALSE
  BY Idle
<1>4. /\ Emulator!Ins = Ins /\ Emulator!A = A /\ Emulator!B = B /\ Emulator!Arg1 = Arg1
      /\ Ins \in [op : Ops, rd : Regs, rs1 : Regs, rs2 : Regs, imm : Nat]
  BY <1>1, <1>3, SameIns
<1>5. Emulator!Running
  <2>1. Group.todo = "none"  BY <1>3 DEF Emulator!NoGroup
  <2>2. Emulator!Fetchable(Pc)  BY <1>1, <1>3, SameIsa
  <2>3. ~Halted  BY <1>3
  <2> QED BY <2>1, <2>2, <2>3 DEF Emulator!Running
<1>6. Emulator!ByteAddr = AluOut  BY <1>4, SameIsa DEF Emulator!ByteAddr, AluOut
<1>7. Emulator!Target = Target  BY <1>3, <1>4 DEF Emulator!Target, Target
<1>8. AluOut \in 0..(W - 1) /\ Target \in 0..(W - 1)
  <2>1. Val(A) \in Nat /\ Ins.imm \in Nat /\ W \in Nat /\ W > 0  BY <1>4, ValIs, MachineSizes
  <2>2. (Val(A) + Ins.imm) % W \in 0..(W - 1)  BY <2>1
  <2>3. (row.next + Ins.imm) % W \in 0..(W - 1)  BY <1>2, <2>1
  <2> QED BY <2>2, <2>3 DEF AluOut, Target
<1>9. (row.next + 4) % W = row.next + 4  BY <1>1, <1>2, FetchIs
<1> QED BY <1>1, <1>2, <1>3, <1>4, <1>5, <1>6, <1>7, <1>8, <1>9 DEF tables

(* An instruction's row that is no hash call's keeps the invariant. *)
LEMMA InstrRuns ==
    ASSUME RunInv, row'.kind = "instr", ~SysHash(row)', UNCHANGED <<table, tape, pubs>>,
           DOMAIN mem' \subseteq 0..(P - 1), row'.next \in Nat
    PROVE  RunInv'
<1>1. ProgramInv'  BY DEF RunInv, ProgramInv, PcWindow
<1>2. PrefixGasInv'  BY DEF PrefixGasInv
<1>3. MemoryInv'  BY DEF MemoryInv
<1>4. CallInv'  BY DEF CallInv
<1>5. AbsorbInv' /\ OutInv'  BY DEF AbsorbInv, OutInv
<1> QED BY <1>1, <1>2, <1>3, <1>4, <1>5 DEF RunInv

(* A row of arithmetic, a jump or a branch: a JALR's target is a word's      *)
(* address, so the bit its row takes off is the one that is set.            *)
LEMMA PlainRuns ==
    ASSUME TableInv, RunInv, PlainRow
    PROVE  Emulator!Ordinary /\ RunInv'
<1>1. Fetched /\ Ins.op \notin {"ecall", "lw", "sw"} /\ UNCHANGED outs  BY DEF PlainRow
<1>2. row.kind # "absorb"  BY <1>1, AfterAbsorb
<1>3. /\ Emulator!Running /\ Pc = row.next /\ Gas = row.gas
      /\ Group = Emulator!NoGroup /\ Halted = FALSE
      /\ Emulator!Ins = Ins /\ Emulator!A = A /\ Emulator!B = B
      /\ Emulator!ByteAddr = AluOut /\ Emulator!Target = Target
      /\ Ins \in [op : Ops, rd : Regs, rs1 : Regs, rs2 : Regs, imm : Nat]
      /\ AluOut \in 0..(W - 1) /\ Target \in 0..(W - 1) /\ row.next \in Nat
      /\ (row.next + 4) % W = row.next + 4 /\ Fetchable(row.next)
      /\ DOMAIN mem \subseteq 0..(P - 1) /\ UNCHANGED <<table, tape, pubs>>
  BY <1>1, <1>2, Runs
<1> DEFINE next(bit) ==
             CASE Ins.op = "jal" -> Target
               [] Ins.op = "jalr" -> AluOut - bit
               [] Ins.op = "beq" /\ Val(A) = Val(B) -> Target
               [] OTHER -> row.next + 4
<1>4. PICK bit \in IF Ins.op = "jalr" THEN {0, 1} ELSE {0} :
        /\ Ins.op = "jalr" => AluOut >= bit /\ Fetchable(next(bit))
        /\ row' = RowOf("instr", "none", next(bit))
  BY DEF PlainRow
<1>5. next(bit) = Emulator!NextPc /\ next(bit) \in Nat
  <2>1. CASE Ins.op = "jalr"
    <3>1. next(bit) = AluOut - bit /\ AluOut >= bit /\ bit \in {0, 1}  BY <1>4, <2>1
    <3>2. AluOut \in Nat /\ AluOut - bit \in Nat  BY <1>3, <3>1, MachineSizes
    <3>3. Fetchable(AluOut - bit)  BY <1>4, <2>1, <3>1
    <3>4. (AluOut - bit) % 4 = 0  BY <3>2, <3>3, FetchIs DEF RunInv
    <3>5. bit = AluOut % 2
      <4> DEFINE a == AluOut
      <4>1. a \in Nat /\ a - bit \in Nat /\ (a - bit) % 4 = 0 /\ bit \in {0, 1}
        BY <3>1, <3>2, <3>4
      <4> HIDE DEF a
      <4>2. bit = a % 2  BY <4>1
      <4> QED BY <4>2 DEF a
    <3>6. Emulator!NextPc = AluOut - (AluOut % 2)  BY <1>3, <2>1 DEF Emulator!NextPc
    <3> QED BY <3>1, <3>2, <3>5, <3>6
  <2>2. CASE Ins.op # "jalr"
    <3>1. Emulator!Val(A) = Val(A) /\ Emulator!Val(B) = Val(B)  BY SameIsa
    <3>2. Target \in Nat /\ row.next + 4 \in Nat  BY <1>3, MachineSizes
    <3>3. CASE Ins.op = "jal"  BY <1>3, <3>2, <3>3 DEF Emulator!NextPc
    <3>4. CASE Ins.op = "beq" /\ Val(A) = Val(B)
      BY <1>3, <3>1, <3>2, <3>4 DEF Emulator!NextPc
    <3>5. CASE Ins.op # "jal" /\ ~(Ins.op = "beq" /\ Val(A) = Val(B))
      BY <1>3, <2>2, <3>1, <3>2, <3>5 DEF Emulator!NextPc
    <3> QED BY <3>3, <3>4, <3>5
  <2> QED BY <2>1, <2>2
<1> HIDE DEF next
<1>6. /\ row'.kind = "instr" /\ row'.sys = "none" /\ row'.next = next(bit)
      /\ row'.gas = row.gas + 1
  BY <1>4 DEF RowOf, Blank, Weight, Regions
<1>7. /\ Pc' = next(bit) /\ Gas' = Gas + 1 /\ Group' = Group /\ Halted' = Halted
  <2>1. /\ Pc' = row'.next /\ Gas' = row'.gas /\ Group' = Emulator!NoGroup
        /\ Halted' = FALSE
    BY <1>6, AfterInstr
  <2> QED BY <1>3, <1>6, <2>1, Zenon
<1>8. /\ DOMAIN mem' \subseteq 0..(P - 1) /\ Memory' = Memory
      /\ Registers' = IF Ins.op \in {"sw", "beq"} THEN Registers
                      ELSE Emulator!SetReg(Ins.rd, Emulator!Value)
  <2>1. CASE Ins.op = "beq"
    <3>1. mem' = mem  BY <2>1 DEF PlainRow
    <3>2. Registers' = Registers /\ Memory' = Memory
      BY <3>1, MemoryNow DEF Registers, Log, Reg, Key
    <3> QED BY <1>3, <2>1, <3>1, <3>2
  <2>2. CASE Ins.op # "beq"
    <3>1. Ins.rd \in Regs /\ Ins.op \in Ops  BY <1>3
    <3>2. WriteReg(Ins.rd, Emulator!Value)
      <4>1. Emulator!Val(A) = Val(A) /\ Emulator!Val(B) = Val(B)
            /\ \A n : Emulator!Num(n) = <<n % W>> /\ Num(n) = <<n % W>>
        BY SameIsa DEF Num
      <4>2. AluOut = (Val(A) + Ins.imm) % W /\ Target % W = Target
        BY <1>3, MachineSizes DEF AluOut
      <4>3. CASE Ins.op = "add"
        <5>1. WriteReg(Ins.rd, Num(Val(A) + Val(B)))  BY <4>3 DEF PlainRow
        <5>2. Emulator!Value = <<(Val(A) + Val(B)) % W>>
          BY <1>3, <4>1, <4>3 DEF Emulator!Value, Emulator!Plus
        <5> QED BY <4>1, <5>1, <5>2
      <4>4. CASE Ins.op = "addi"
        <5>1. WriteReg(Ins.rd, <<AluOut>>)  BY <4>4 DEF PlainRow
        <5>2. Emulator!Value = <<(Val(A) + Ins.imm) % W>>
          BY <1>3, <4>1, <4>4 DEF Emulator!Value, Emulator!Plus
        <5> QED BY <4>2, <5>1, <5>2
      <4>5. CASE Ins.op = "lui"
        <5>1. WriteReg(Ins.rd, Num(Ins.imm))  BY <4>5 DEF PlainRow
        <5>2. Emulator!Value = <<Ins.imm % W>>  BY <1>3, <4>1, <4>5 DEF Emulator!Value
        <5> QED BY <4>1, <5>1, <5>2
      <4>6. CASE Ins.op = "auipc"
        <5>1. WriteReg(Ins.rd, <<Target>>)  BY <4>6 DEF PlainRow
        <5>2. Emulator!Value = <<Target % W>>  BY <1>3, <4>1, <4>6 DEF Emulator!Value
        <5> QED BY <4>2, <5>1, <5>2
      <4>7. CASE Ins.op \in {"jal", "jalr"}
        <5>1. WriteReg(Ins.rd, <<row.next + 4>>)  BY <4>7 DEF PlainRow
        <5>2. Emulator!Value = <<(row.next + 4) % W>>  BY <1>3, <4>1, <4>7 DEF Emulator!Value
        <5> QED BY <1>3, <5>1, <5>2
      <4> QED BY <1>1, <2>2, <3>1, <4>3, <4>4, <4>5, <4>6, <4>7 DEF Ops
    <3>3. /\ DOMAIN mem' \subseteq 0..(P - 1) /\ Memory' = Memory
          /\ Registers' = Emulator!SetReg(Ins.rd, Emulator!Value)
      BY <1>3, <3>1, <3>2, WrittenReg
    <3> QED BY <1>1, <2>2, <3>3
  <2> QED BY <2>1, <2>2
<1>9. RunInv'
  <2>1. ~SysHash(row)'  BY <1>6 DEF SysHash
  <2> QED BY <1>3, <1>5, <1>6, <1>8, <2>1, InstrRuns
<1>10. Emulator!Ordinary
  <2>1. Emulator!Row(Emulator!NextPc, 1)  BY <1>5, <1>7 DEF Emulator!Row
  <2>2. UNCHANGED <<Emulator!args, outs, Group, Halted>>
    BY <1>1, <1>3, <1>7 DEF Emulator!args
  <2>3. Ins.op \notin {"ecall", "lw", "sw"}  BY <1>1
  <2>4. /\ Registers' = IF Ins.op \in {"sw", "beq"} THEN Registers
                        ELSE Emulator!SetReg(Ins.rd, Emulator!Value)
        /\ Memory' = Memory
    BY <1>8
  <2> QED BY <1>3, <2>1, <2>2, <2>3, <2>4 DEF Emulator!Ordinary
<1> QED BY <1>9, <1>10

(* A load or a store: the quotient by 4 in the field is the one of numbers. *)
LEMMA MemoryRuns ==
    ASSUME TableInv, RunInv, MemoryRow
    PROVE  Emulator!Ordinary /\ RunInv'
<1>1. Fetched /\ Ins.op \in {"lw", "sw"} /\ UNCHANGED outs  BY DEF MemoryRow
<1>2. row.kind # "absorb"  BY <1>1, AfterAbsorb
<1>3. /\ Emulator!Running /\ Pc = row.next /\ Gas = row.gas
      /\ Group = Emulator!NoGroup /\ Halted = FALSE
      /\ Emulator!Ins = Ins /\ Emulator!A = A /\ Emulator!B = B /\ Emulator!ByteAddr = AluOut
      /\ Ins \in [op : Ops, rd : Regs, rs1 : Regs, rs2 : Regs, imm : Nat]
      /\ AluOut \in 0..(W - 1) /\ row.next \in Nat
      /\ (row.next + 4) % W = row.next + 4 /\ Fetchable(row.next)
      /\ DOMAIN mem \subseteq 0..(P - 1) /\ UNCHANGED <<table, tape, pubs>>
  BY <1>1, <1>2, Runs
<1>4. PICK m \in WordAddrs(AluOut) :
        IF Ins.op = "lw" THEN WriteReg(Ins.rd, Log(Cell(m))) ELSE mem' = Write(Cell(m), B)
  BY DEF MemoryRow
<1>5. m \in Addrs /\ AluOut % 4 = 0 /\ AluOut \div 4 = m
  <2>1. m \in 0..(PtrBound - 1) /\ (4 * m) % P = AluOut  BY DEF WordAddrs
  <2>2. m \in Nat /\ m < PtrBound /\ 4 * m \in Nat /\ 4 * m < P  BY <2>1, MachineSizes
  <2>3. (4 * m) % P = 4 * m  BY <2>2, MachineSizes
  <2>4. AluOut = 4 * m  BY <2>1, <2>3
  <2>5. m \in Addrs  BY <2>2, MachineSizes DEF Addrs
  <2> QED BY <2>2, <2>4, <2>5
<1>6. /\ row'.kind = "instr" /\ row'.sys = "none" /\ row'.next = row.next + 4
      /\ row'.gas = row.gas + 1
  BY DEF MemoryRow, RowOf, Blank, Weight, Regions
<1>7. /\ Pc' = (Pc + 4) % W /\ Gas' = Gas + 1 /\ Group' = Group /\ Halted' = Halted
  <2>1. /\ Pc' = row'.next /\ Gas' = row'.gas /\ Group' = Emulator!NoGroup
        /\ Halted' = FALSE
    BY <1>6, AfterInstr
  <2> QED BY <1>3, <1>6, <2>1, Zenon
<1>8. /\ DOMAIN mem' \subseteq 0..(P - 1)
      /\ Registers' = IF Ins.op \in {"sw", "beq"} THEN Registers
                      ELSE Emulator!SetReg(Ins.rd, Emulator!Value)
      /\ Memory' = IF Ins.op = "sw" THEN Emulator!Put(Memory, AluOut \div 4, B) ELSE Memory
  <2>1. CASE Ins.op = "lw"
    <3>1. WriteReg(Ins.rd, Log(Cell(m))) /\ Ins.rd \in Regs  BY <1>3, <1>4, <2>1
    <3>2. Emulator!Value = Emulator!Ram(AluOut \div 4)  BY <1>3, <2>1 DEF Emulator!Value
    <3>3. Emulator!Ram(m) = Log(Cell(m))  BY <1>3, <1>5, RamIs
    <3>4. WriteReg(Ins.rd, Emulator!Value)  BY <1>5, <3>1, <3>2, <3>3
    <3>5. /\ DOMAIN mem' \subseteq 0..(P - 1) /\ Memory' = Memory
          /\ Registers' = Emulator!SetReg(Ins.rd, Emulator!Value)
      BY <1>3, <3>1, <3>4, WrittenReg
    <3> QED BY <2>1, <3>5
  <2>2. CASE Ins.op = "sw"
    <3>1. mem' = Write(Cell(m), B)  BY <1>4, <2>2
    <3>2. /\ DOMAIN mem' \subseteq 0..(P - 1) /\ Registers' = Registers
          /\ Memory' = Emulator!Put(Memory, m, B)
      BY <1>3, <1>5, <3>1, WrittenCell
    <3> QED BY <1>5, <2>2, <3>2
  <2> QED BY <1>1, <2>1, <2>2
<1>9. RunInv'
  <2>1. ~SysHash(row)'  BY <1>6 DEF SysHash
  <2>2. row'.next \in Nat  BY <1>3, <1>6
  <2> QED BY <1>3, <1>6, <1>8, <2>1, <2>2, InstrRuns
<1>10. Emulator!Ordinary
  <2>1. Emulator!NextPc = (Pc + 4) % W  BY <1>1, <1>3 DEF Emulator!NextPc
  <2>2. Emulator!Row(Emulator!NextPc, 1)  BY <1>7, <2>1 DEF Emulator!Row
  <2>3. UNCHANGED <<Emulator!args, outs, Group, Halted>>
    BY <1>1, <1>3, <1>7 DEF Emulator!args
  <2>4. Emulator!Ins.op # "ecall" /\ Emulator!ByteAddr % 4 = 0  BY <1>1, <1>3, <1>5
  <2> QED BY <1>3, <1>8, <2>2, <2>3, <2>4 DEF Emulator!Ordinary
<1> QED BY <1>9, <1>10

(* A call's row that is not a hash call's, as the emulator sees it. *)
LEMMA CallRuns ==
    ASSUME TableInv, RunInv, NEW num, num \notin {POSEIDON2, POSEIDON2_LEN}, Syscall(num)
    PROVE  /\ Emulator!Ecall(num) /\ row.kind # "absorb" /\ Fetched
           /\ Emulator!Val(Emulator!B) = Val(B)
<1>1. Fetched /\ Ins.op = "ecall" /\ Val(A) = num  BY DEF Syscall
<1>2. row.kind # "absorb"  BY <1>1, AfterAbsorb
<1>3. /\ Emulator!Running /\ Emulator!Ins = Ins /\ Emulator!A = A /\ Emulator!B = B
  BY <1>1, <1>2, Runs
<1>4. Emulator!Val(Emulator!A) = num /\ Emulator!Val(Emulator!B) = Val(B)
  BY <1>1, <1>3, SameIsa
<1> QED BY <1>1, <1>2, <1>3, <1>4 DEF Emulator!Ecall

(* And the row it leaves. *)
LEMMA CallEnds ==
    ASSUME TableInv, RunInv, Fetched, row.kind # "absorb",
           row'.kind = "instr", NEW sys \in {"write", "read", "chip"}, row'.sys = sys,
           row'.next = row.next + 4, NEW weight, row'.gas = row.gas + weight
    PROVE  /\ Emulator!Row((Pc + 4) % W, weight)
           /\ UNCHANGED <<Emulator!args, Group, Halted>>
           /\ DOMAIN mem' \subseteq 0..(P - 1) => RunInv'
<1>1. /\ Pc = row.next /\ Gas = row.gas /\ Group = Emulator!NoGroup /\ Halted = FALSE
      /\ row.next \in Nat /\ (row.next + 4) % W = row.next + 4
      /\ UNCHANGED <<table, tape, pubs>>
  BY Runs
<1>2. row'.sys \notin {"hash", "hashlen", "halt"}  OBVIOUS
<1>3. /\ Pc' = row'.next /\ Gas' = row'.gas /\ Group' = Emulator!NoGroup
      /\ Halted' = FALSE
  BY <1>2, AfterInstr
<1>4. Emulator!Row((Pc + 4) % W, weight)  BY <1>1, <1>3 DEF Emulator!Row
<1>5. Group' = Group /\ Halted' = Halted  BY <1>1, <1>3, Zenon
<1>6. ASSUME DOMAIN mem' \subseteq 0..(P - 1) PROVE RunInv'
  <2>1. ~SysHash(row)'  BY <1>2 DEF SysHash
  <2>2. row'.next \in Nat  BY <1>1
  <2> QED BY <1>1, <1>6, <2>1, <2>2, InstrRuns
<1> QED BY <1>1, <1>4, <1>5, <1>6 DEF Emulator!args

(* An output row selects the slot the call names, not yet selected. *)
LEMMA OutputRuns ==
    ASSUME TableInv, RunInv, OutputRow
    PROVE  Emulator!WriteOutput /\ RunInv'
<1>1. Syscall(WRITE_OUTPUT) /\ UNCHANGED mem  BY DEF OutputRow
<1>2. WRITE_OUTPUT \notin {POSEIDON2, POSEIDON2_LEN}
  BY DEF WRITE_OUTPUT, POSEIDON2, POSEIDON2_LEN
<1>3. /\ Emulator!Ecall(WRITE_OUTPUT) /\ row.kind # "absorb" /\ Fetched
      /\ Emulator!Val(Emulator!B) = Val(B)
  BY <1>1, <1>2, CallRuns
<1>4. Emulator!Arg1 = Arg1 /\ DOMAIN mem \subseteq 0..(P - 1)  BY <1>3, Runs
<1>5. /\ row'.kind = "instr" /\ row'.sys = "write" /\ row'.next = row.next + 4
      /\ row'.gas = row.gas + 1
  BY DEF OutputRow, RowOf, Blank, Weight, Regions
<1>6. /\ Emulator!Row((Pc + 4) % W, 1) /\ UNCHANGED <<Emulator!args, Group, Halted>>
      /\ RunInv'
  BY <1>1, <1>3, <1>4, <1>5, CallEnds
<1>7. /\ Val(B) < NumOutputs /\ Val(B) \notin DOMAIN outs /\ outs' = Put(outs, Val(B), Arg1)
  <2>1. PICK s \in 0..(NumOutputs - 1) :
          Val(B) = s /\ s \notin DOMAIN outs /\ outs' = Put(outs, s, Arg1)
    BY DEF OutputRow
  <2> QED BY <2>1, LimitAssumption
<1>8. Registers' = Registers /\ Memory' = Memory
  BY <1>1, MemoryNow DEF Registers, Log, Reg, Key
<1>9. outs' = Emulator!Put(outs, Emulator!Val(Emulator!B), Emulator!Arg1)
  BY <1>3, <1>4, <1>7 DEF Emulator!Put, Put
<1>10. Emulator!Ecall(Emulator!WRITE_OUTPUT)  BY <1>3 DEF Emulator!WRITE_OUTPUT, WRITE_OUTPUT
<1> QED BY <1>3, <1>6, <1>7, <1>8, <1>9, <1>10 DEF Emulator!WriteOutput

(* A read of a tape: the entry looked up is the one at the index asked for. *)
LEMMA ReadRuns ==
    ASSUME TableInv, RunInv, NEW num, num \notin {POSEIDON2, POSEIDON2_LEN},
           NEW words, Len(words) \in Nat, ReadRow(num, words)
    PROVE  Emulator!ReadTape(num, words) /\ RunInv'
<1>1. Syscall(num) /\ UNCHANGED outs  BY DEF ReadRow
<1>2. /\ Emulator!Ecall(num) /\ row.kind # "absorb" /\ Fetched
      /\ Emulator!Val(Emulator!B) = Val(B)
  BY <1>1, CallRuns
<1>3. /\ Emulator!Ins = Ins /\ DOMAIN mem \subseteq 0..(P - 1)
      /\ Ins \in [op : Ops, rd : Regs, rs1 : Regs, rs2 : Regs, imm : Nat]
  BY <1>2, Runs
<1>4. /\ row'.kind = "instr" /\ row'.sys = "read" /\ row'.next = row.next + 4
      /\ row'.gas = row.gas + 1
  BY DEF ReadRow, RowOf, Blank, Weight, Regions
<1>5. Val(B) < Len(words) /\ WriteReg(Ins.rd, words[Val(B) + 1])
  <2>1. PICK i \in 1..Len(words) : Val(B) = i - 1 /\ WriteReg(Ins.rd, words[i])
    BY DEF ReadRow
  <2>2. i = Val(B) + 1 /\ Val(B) < Len(words)  BY <2>1
  <2> QED BY <2>1, <2>2
<1>6. Ins.rd \in Regs  BY <1>3
<1>7. /\ DOMAIN mem' \subseteq 0..(P - 1) /\ Memory' = Memory
      /\ Registers' = Emulator!SetReg(Ins.rd, words[Val(B) + 1])
  BY <1>3, <1>5, <1>6, WrittenReg
<1>8. /\ Emulator!Row((Pc + 4) % W, 1) /\ UNCHANGED <<Emulator!args, Group, Halted>>
      /\ RunInv'
  BY <1>2, <1>4, <1>7, CallEnds
<1> QED BY <1>1, <1>2, <1>3, <1>5, <1>7, <1>8 DEF Emulator!ReadTape

(* A top nibble of 0, 1 or 2 is three quarters of memory at most. *)
LEMMA QuarterIs ==
    ASSUME NEW x \in Nat, NEW n \in Nat, n > 0, x \div n \in {0, 1, 2}
    PROVE  x < 3 * n
<1>1. ASSUME x >= 3 * n PROVE x \div n >= 3  BY <1>1
<1> QED BY <1>1

\* The row is no chip call past the emulator's limit.
ChipsWithinLimit == row.sys = "chip" => row.ptr <= Emulator!ChipLimit

(* A chip's row is the call, at a pointer below ChipBound: the emulator's    *)
(* step, or the call at a pointer it refuses.                              *)
LEMMA ChipRuns ==
    ASSUME TableInv, RunInv, ChipRow
    PROVE  (Emulator!Chip \/ (RefusedChip /\ ~ChipsWithinLimit')) /\ RunInv'
<1>1. Syscall(CHIP) /\ UNCHANGED outs  BY DEF ChipRow
<1>2. CHIP \notin {POSEIDON2, POSEIDON2_LEN}  BY DEF CHIP, POSEIDON2, POSEIDON2_LEN
<1>3. /\ Emulator!Ecall(CHIP) /\ row.kind # "absorb" /\ Fetched
      /\ Emulator!Val(Emulator!B) = Val(B)
  BY <1>1, <1>2, CallRuns
<1>4. DOMAIN mem \subseteq 0..(P - 1)  BY <1>3, Runs
<1>5. /\ row'.kind = "instr" /\ row'.sys = "chip" /\ row'.next = row.next + 4
      /\ row'.gas = row.gas + ChipGas /\ row'.ptr = Val(B)
  BY DEF ChipRow, RowOf, Blank, Weight, Regions
<1> DEFINE b == Val(B)
           words == [k \in 1..ChipWords |-> Log(Cell(b + k - 1))]
           put == [k \in 1..ChipWords |-> ChipOf(words, k)]
<1>6. /\ b \in Nat /\ b < ChipBound /\ b + ChipWords <= PtrBound
      /\ ChipWords \in Nat /\ ChipBound \in Nat /\ ChipWords <= ChipBound
  <2>1. b \in Nat /\ b < PtrBound /\ (4 * b) \div PtrBound \in {0, 1, 2}
    BY ValIs DEF ChipRow
  <2> HIDE DEF b
  <2>2. /\ PtrBound \in Nat /\ PtrBound > 0 /\ ChipBound \in Nat /\ 4 * ChipBound = 3 * PtrBound
        /\ ChipWords \in 1..(PtrBound - ChipBound)
    BY MachineSizes, WordAssumption
  <2>3. 4 * b \in Nat  BY <2>1
  <2>4. 4 * b < 3 * PtrBound  BY <2>1, <2>2, <2>3, QuarterIs
  <2> QED BY <2>1, <2>2, <2>4
<1>7. words = [k \in 1..ChipWords |-> Emulator!Ram(b + k - 1)]
  <2> HIDE DEF b
  <2>1. ASSUME NEW k \in 1..ChipWords PROVE Emulator!Ram(b + k - 1) = Log(Cell(b + k - 1))
    <3>1. b + k - 1 \in Addrs  BY <1>6, MachineSizes DEF Addrs
    <3> QED BY <1>4, <3>1, RamIs
  <2> QED BY <2>1
<1>8. /\ DOMAIN mem' \subseteq 0..(P - 1) /\ Registers' = Registers
      /\ Emulator!WriteRam(b, ChipWords, put)
  <2>1. WriteCells(b, put)  BY DEF ChipRow
  <2>2. DOMAIN put = 1..ChipWords  OBVIOUS
  <2> HIDE DEF b, put
  <2>3. b + ChipWords <= 3 * PtrBound  BY <1>6, MachineSizes
  <2> QED BY <1>4, <1>6, <2>1, <2>2, <2>3, CellsWritten
<1>9. /\ Emulator!Row((Pc + 4) % W, ChipGas) /\ UNCHANGED <<Emulator!args, Group, Halted>>
      /\ RunInv'
  BY <1>3, <1>5, <1>8, CallEnds
<1>10. Emulator!ChipCall
  <2>1. Emulator!Ecall(Emulator!CHIP)  BY <1>3 DEF Emulator!CHIP, CHIP
  <2>2. /\ put = [k \in 1..ChipWords |-> ChipOf([i \in 1..ChipWords |-> Emulator!Ram(b + i - 1)], k)]
        /\ Emulator!Val(Emulator!B) = b
    BY <1>3, <1>7
  <2> HIDE DEF b, put
  <2> QED BY <1>1, <1>8, <1>9, <2>1, <2>2 DEF Emulator!ChipCall
<1>11. CASE b <= Emulator!ChipLimit
  BY <1>3, <1>9, <1>10, <1>11 DEF Emulator!Chip
<1>12. CASE ~(b <= Emulator!ChipLimit)
  <2>1. b \in (Emulator!ChipLimit + 1)..(ChipBound - 1)  BY <1>6, <1>12 DEF Emulator!ChipLimit
  <2>2. RefusedChip  BY <1>3, <1>10, <2>1, SameIsa DEF RefusedChip
  <2>3. ~ChipsWithinLimit'  BY <1>5, <1>12 DEF ChipsWithinLimit, Emulator!ChipLimit
  <2> QED BY <1>9, <2>2, <2>3
<1> QED BY <1>11, <1>12

(* The HALT row keeps the pc it is at. *)
LEMMA HaltRuns ==
    ASSUME TableInv, RunInv, HaltRow
    PROVE  Emulator!Halt /\ RunInv'
<1>1. Syscall(HALT) /\ UNCHANGED <<mem, outs>>  BY DEF HaltRow
<1>2. HALT \notin {POSEIDON2, POSEIDON2_LEN}  BY DEF HALT, POSEIDON2, POSEIDON2_LEN
<1>3. Emulator!Ecall(HALT) /\ row.kind # "absorb" /\ Fetched  BY <1>1, <1>2, CallRuns
<1>4. /\ Pc = row.next /\ Gas = row.gas /\ Group = Emulator!NoGroup
      /\ DOMAIN mem \subseteq 0..(P - 1) /\ row.next \in Nat /\ UNCHANGED <<table, tape, pubs>>
  BY <1>3, Runs
<1>5. /\ row'.kind = "instr" /\ row'.sys = "halt" /\ row'.next = row.next + 4
      /\ row'.gas = row.gas + 1 /\ row'.pc = row.next
  BY DEF HaltRow, RowOf, Blank, Weight, Regions
<1>6. InPrefix' = FALSE  BY <1>5 DEF InPrefix, Regions
<1>7. ~SysHash(row)'  BY <1>5 DEF SysHash
<1>8. Pc' = Pc /\ Gas' = Gas + 1  BY <1>4, <1>5, <1>6 DEF Pc, Gas
<1>9. Group' = Group  BY <1>4, <1>5, <1>7, SameIsa DEF Group, Emulator!NoGroup
<1>10. Halted' = TRUE  BY <1>5 DEF Halted
<1>11. Registers' = Registers /\ Memory' = Memory
  BY <1>1, MemoryNow DEF Registers, Log, Reg, Key
<1>12. Emulator!Ecall(Emulator!HALT)  BY <1>3 DEF Emulator!HALT, HALT
<1>13. RunInv'
  <2>1. row'.next \in Nat /\ mem' = mem  BY <1>1, <1>4, <1>5
  <2> QED BY <1>4, <1>5, <1>7, <2>1, InstrRuns
<1>14. UNCHANGED Emulator!args  BY <1>4 DEF Emulator!args
<1> QED BY <1>1, <1>8, <1>9, <1>10, <1>11, <1>12, <1>13, <1>14 DEF Emulator!Halt

(* As many blocks as the bound on HASH_IDX leaves are of as many words as   *)
(* the emulator hashes.                                                    *)
LEMMA BlocksWithin ==
    ASSUME NEW n \in Nat, BlocksOf(n) <= MaxWords \div Rate
    PROVE  n \in 0..MaxWords
<1> DEFINE b == BlocksOf(n)
           c == MaxWords \div Rate
<1>1. Rate \in Nat /\ Rate > 0 /\ MaxWords \in Nat  BY MachineSizes
<1>2. b \in Nat /\ n <= Rate * b  BY RowsFacts
<1>3. c \in Nat /\ Rate * c = MaxWords  BY <1>1, CountAssumption
<1>4. b <= c  OBVIOUS
<1> HIDE DEF b, c
<1>5. Rate * b <= Rate * c  BY <1>1, <1>2, <1>3, <1>4
<1>6. Rate * b \in Int  BY <1>1, <1>2
<1> QED BY <1>1, <1>2, <1>3, <1>5, <1>6


(* The ecall row of a hash group. *)
LEMMA HashRuns ==
    ASSUME TableInv, RunInv, NEW num, NEW sys, HashRow(num, sys),
           \/ num = POSEIDON2 /\ sys = "hash"
           \/ num = POSEIDON2_LEN /\ sys = "hashlen"
    PROVE  Emulator!HashCall /\ RunInv'
<1>1. Syscall(num) /\ Arrives(Val(B), Val(Arg1)) /\ UNCHANGED <<mem, outs>>  BY DEF HashRow
<1>2. Fetched /\ Ins.op = "ecall" /\ Val(A) = num  BY <1>1 DEF Syscall
<1>3. row.kind # "absorb"  BY <1>1, <1>2, AfterAbsorb
<1>4. /\ Emulator!Running /\ Pc = row.next /\ Gas = row.gas
      /\ Group = Emulator!NoGroup /\ Halted = FALSE
      /\ Emulator!Ins = Ins /\ Emulator!A = A /\ Emulator!B = B /\ Emulator!Arg1 = Arg1
      /\ row.next \in Nat /\ Fetchable(row.next)
      /\ DOMAIN mem \subseteq 0..(P - 1) /\ UNCHANGED <<table, tape, pubs>>
  BY <1>2, <1>3, Runs
<1> DEFINE b == Val(B)
           n == Val(Arg1)
<1>5. /\ row'.kind = "instr" /\ row'.sys = sys /\ row'.next = row.next
      /\ row'.gas = row.gas + 1 /\ row'.ptr = b /\ row'.n = n /\ row'.left = n /\ row'.idx = 0
  BY DEF HashRow, RowOf, Blank, Weight, Regions
<1>6. b \in 0..(PtrBound - 1) /\ n \in 0..MaxWords
  <2>1. b \in Nat /\ n \in Nat  BY ValIs
  <2>2. b < PtrBound /\ BlocksOf(n) <= MaxWords \div Rate  BY DEF HashRow
  <2> HIDE DEF b, n
  <2>3. n \in 0..MaxWords  BY <2>1, <2>2, BlocksWithin
  <2> QED BY <2>1, <2>2, <2>3, MachineSizes
<1> HIDE DEF b, n
<1>7. /\ SysHash(row)' /\ InPrefix' = FALSE /\ Halted' = Halted
  <2>1. sys \in {"hash", "hashlen"}  OBVIOUS
  <2>2. SysHash(row)'  BY <1>5, <2>1 DEF SysHash
  <2>3. InPrefix' = FALSE  BY <1>5 DEF InPrefix, Regions
  <2>4. Halted' = FALSE  BY <1>5, <2>1 DEF Halted
  <2> QED BY <1>4, <2>2, <2>3, <2>4, Zenon
<1>8. Pc' = Pc /\ Gas' = Gas + 1
  <2>1. row'.sys # "halt"  BY <1>5
  <2> QED BY <1>4, <1>5, <1>7, <2>1 DEF Pc, Gas
<1>9. Group' = [todo |-> IF num = POSEIDON2 /\ n = 0 THEN "out1" ELSE "absorb",
                ptr |-> b, left |-> n, idx |-> 0,
                state |-> IF num = POSEIDON2 THEN Zero ELSE LenSeed(n)]
  <2>1. Group' = [todo |-> IF row'.sys = "hash" /\ row'.n = 0 THEN "out1" ELSE "absorb",
                  ptr |-> row'.ptr, left |-> row'.n, idx |-> 0,
                  state |-> IF row'.sys = "hash" THEN Zero ELSE LenSeed(row'.n)]
    BY <1>5, <1>7 DEF Group
  <2>2. (row'.sys = "hash") <=> (num = POSEIDON2)
    BY <1>5 DEF POSEIDON2, POSEIDON2_LEN
  <2> QED BY <1>5, <2>1, <2>2
<1>10. Registers' = Registers /\ Memory' = Memory
  BY <1>1, MemoryNow DEF Registers, Log, Reg, Key
<1>11. Emulator!HashCall
  <2>1. Emulator!Ecall(num)  BY <1>2, <1>4, SameIsa DEF Emulator!Ecall
  <2>2. Emulator!Val(Emulator!B) = b /\ Emulator!Val(Emulator!Arg1) = n
    BY <1>4, SameIsa DEF b, n
  <2>3. Emulator!Row(Pc, 1)  BY <1>8 DEF Emulator!Row
  <2>4. UNCHANGED <<Emulator!args, Registers, Memory, outs, Halted>>
    BY <1>1, <1>4, <1>7, <1>10 DEF Emulator!args
  <2>5. n <= MaxWords /\ b < PtrBound  BY <1>6, MachineSizes
  <2>6. /\ num \in {Emulator!POSEIDON2, Emulator!POSEIDON2_LEN}
        /\ Emulator!POSEIDON2 = POSEIDON2
    BY DEF Emulator!POSEIDON2, Emulator!POSEIDON2_LEN, POSEIDON2, POSEIDON2_LEN
  <2>7. Group' = [todo |-> IF num = Emulator!POSEIDON2 /\ n = 0 THEN "out1" ELSE "absorb",
                  ptr |-> b, left |-> n, idx |-> 0,
                  state |-> IF num = Emulator!POSEIDON2 THEN Emulator!Zero
                            ELSE Emulator!LenSeed(n)]
    BY <1>9, <2>6, SameIsa
  <2> QED BY <2>1, <2>2, <2>3, <2>4, <2>5, <2>6, <2>7 DEF Emulator!HashCall
<1>12. RunInv'
  <2>1. ProgramInv'  BY <1>4 DEF RunInv, ProgramInv, PcWindow
  <2>2. PrefixGasInv' /\ AbsorbInv' /\ OutInv'
    BY <1>5 DEF PrefixGasInv, AbsorbInv, OutInv
  <2>3. MemoryInv'  BY <1>1, <1>4, <1>5 DEF MemoryInv
  <2>4. AtHashCall'
    <3>1. Ins' = Ins /\ Fetchable(row.next)' = Fetchable(row.next) /\ row'.next = row.next
      BY <1>4, <1>5 DEF Ins, WordAt, Fetchable
    <3>2. Fetchable(row.next)'
      BY <1>4, <1>5 DEF Fetchable
    <3>3. A' = A  BY <1>1, <3>1 DEF A, Log, Reg, Key
    <3>4. Val(A)' = Val(A)  BY <3>3 DEF Val
    <3>5. num \in {POSEIDON2, POSEIDON2_LEN}  OBVIOUS
    <3> QED BY <1>2, <3>1, <3>2, <3>4, <3>5 DEF AtHashCall
  <2>5. CallInv'  BY <1>5, <1>6, <2>4 DEF CallInv
  <2> QED BY <2>1, <2>2, <2>3, <2>5 DEF RunInv
<1> QED BY <1>11, <1>12
-----------------------------------------------------------------------------
(* The rows of the digest regions: the emulator has not started. *)

(* The index of a region's row, and where a region is left from. *)
LEMMA RegionIdx ==
    ASSUME TableInv, RunInv, NEW kind \in Regions, AbsorbingRow(kind)
    PROVE  /\ row.kind = kind => row'.idx = row.idx + 1
           /\ row.kind # kind => row'.idx = 0
           /\ row.kind = "indigest" \/ row.kind = "pubdigest"
                \/ (row.kind = "digest" /\ row.next = table.base) => row.idx \in Nat
           /\ row.kind = "digest" /\ kind = "indigest" =>
                row.next = table.base /\ row.idx + 1 = ProgramRows(table.words)
           /\ row.kind = "indigest" /\ kind = "pubdigest" => row.idx + 1 = InputRows(tape)
<1>1. TypeInv /\ PlaceInv /\ PinInv /\ DigestInv /\ IndigestInv /\ PubdigestInv
  BY DEF TableInv
<1>2. /\ Follows(row, kind, FALSE) /\ Leave(kind) /\ row'.idx \in Idxs(row, kind)
  BY AbsorbingRowIs
<1>3. row.kind \in {"start", "digest", "indigest", "pubdigest"}
  BY <1>1, <1>2, FollowsFacts DEF Regions
<1>4. ~SysHash(row)  BY <1>1, <1>3 DEF PlaceInv, SysHash, Regions
<1>5. ASSUME row.kind = kind PROVE row'.idx = row.idx + 1
  <2>1. SameRegion(row, kind) /\ kind \notin Regions \ {row.kind}  BY <1>5 DEF SameRegion
  <2>2. Idxs(row, kind) = {row.idx + 1}  BY <1>4, <2>1 DEF Idxs
  <2> QED BY <1>2, <1>5, <2>2
<1>6. ASSUME row.kind # kind PROVE row'.idx = 0
  <2>1. ~SameRegion(row, kind) /\ ~(row.kind = "absorb" /\ kind = "absorb")
    BY <1>3, <1>6 DEF SameRegion
  <2>2. kind \in Regions \ {row.kind}  BY <1>6
  <2>3. Idxs(row, kind) = {0}  BY <1>4, <2>1, <2>2 DEF Idxs
  <2> QED BY <1>2, <1>6, <2>3
<1>7. row.kind = "digest" /\ row.next = table.base => row.idx \in Nat
  BY <1>1 DEF DigestInv, Reading
<1>8. row.kind = "indigest" => row.idx \in Nat  BY <1>1 DEF IndigestInv, Reading
<1>9. row.kind = "pubdigest" => row.idx \in Nat  BY <1>1 DEF PubdigestInv, Reading
<1>10. ASSUME row.kind = "digest", kind = "indigest"
       PROVE  row.next = table.base /\ row.idx + 1 = ProgramRows(table.words)
  <2>1. row.last  BY <1>1, <1>2, <1>10, FollowsFacts DEF Regions
  <2> QED BY <1>1, <1>2, <1>10, <2>1, DigestEnds
<1>11. ASSUME row.kind = "indigest", kind = "pubdigest"
       PROVE  row.idx + 1 = InputRows(tape)
  <2>1. row.last  BY <1>1, <1>2, <1>11, FollowsFacts DEF Regions
  <2> QED BY <1>1, <1>2, <1>11, <2>1, IndigestEnds
<1> QED BY <1>5, <1>6, <1>7, <1>8, <1>9, <1>10, <1>11

(* One row's gas more. *)
LEMMA MoreGas ==
    ASSUME NEW x \in Nat
    PROVE  (x + 1) * AbsorbGas = x * AbsorbGas + AbsorbGas
BY MachineSizes

(* A digest region's row is no step of the emulator. *)
LEMMA PrefixRuns ==
    ASSUME TableInv, RunInv, NEW kind \in Regions, AbsorbingRow(kind)
    PROVE  UNCHANGED Emulator!vars /\ RunInv'
<1>1. /\ Follows(row, kind, FALSE) /\ UNCHANGED <<tables, outs>> /\ mem' = mem
      /\ row'.kind = kind /\ row'.sys = "none" /\ row'.next = row.next
      /\ row'.gas = row.gas + AbsorbGas
  <2>1. Weight(kind, "none") = AbsorbGas  BY DEF Weight
  <2> QED BY <2>1, AbsorbingRowIs
<1>2. UNCHANGED <<table, tape, pubs>>  BY <1>1 DEF tables
<1>3. TypeInv /\ PlaceInv /\ ProgramInv /\ PrefixGasInv /\ MemoryInv  BY DEF TableInv, RunInv
<1>4. /\ row.kind \in {"start", "digest", "indigest", "pubdigest"}
      /\ kind = "digest" => row.kind \in {"start", "digest"}
      /\ kind = "indigest" => row.kind \in {"digest", "indigest"}
      /\ kind = "pubdigest" => row.kind \in {"indigest", "pubdigest"}
  BY <1>1, <1>3, FollowsFacts DEF Regions
<1>5. row.sys = "none"  BY <1>3, <1>4 DEF PlaceInv, Regions
<1>6. InPrefix = TRUE /\ InPrefix' = TRUE  BY <1>1, <1>4 DEF InPrefix, Regions
<1>7. ~SysHash(row) /\ ~SysHash(row)'  BY <1>1, <1>5 DEF SysHash
<1>8. /\ row.kind \notin {"absorb", "out"} /\ row'.kind \notin {"absorb", "out"}
  BY <1>1, <1>4 DEF Regions
<1>9. Group' = Group  BY <1>7, <1>8 DEF Group
<1>10. Pc' = Pc /\ Gas' = Gas
  <2>1. Pc' = Pc  BY <1>2, <1>6 DEF Pc
  <2>2. Gas' = Gas  BY <1>2, <1>6 DEF Gas, PrefixGas
  <2> QED BY <2>1, <2>2
<1>11. Halted' = Halted
  <2>1. Halted = FALSE /\ Halted' = FALSE  BY <1>1, <1>5 DEF Halted
  <2> QED BY <2>1, Zenon
<1>12. Registers' = Registers /\ Memory' = Memory
  BY <1>1, MemoryNow DEF Registers, Log, Reg, Key
<1>13. UNCHANGED Emulator!vars
  BY <1>1, <1>2, <1>9, <1>10, <1>11, <1>12 DEF Emulator!vars, Emulator!args
<1>14. /\ row.kind = kind => row'.idx = row.idx + 1
       /\ row.kind # kind => row'.idx = 0
       /\ row.kind = "indigest" \/ row.kind = "pubdigest"
            \/ (row.kind = "digest" /\ row.next = table.base) => row.idx \in Nat
       /\ row.kind = "digest" /\ kind = "indigest" =>
            row.next = table.base /\ row.idx + 1 = ProgramRows(table.words)
       /\ row.kind = "indigest" /\ kind = "pubdigest" => row.idx + 1 = InputRows(tape)
  BY RegionIdx
<1> DEFINE p == ProgramRows(table.words)
           i == InputRows(tape)
<1>15. p \in Nat /\ i \in Nat
  <2>1. Len(table.words) \in Nat /\ Len(tape) \in Nat  BY <1>3 DEF TypeInv
  <2>2. AtLeastOne(BlocksOf(Len(table.words))) \in Nat /\ BlocksOf(Len(tape)) \in Nat
    BY <2>1, RowsFacts
  <2> QED BY <2>2 DEF ProgramRows, InputRows
<1>16. p' = p /\ i' = i  BY <1>2 DEF ProgramRows, InputRows
<1>17. PrefixGasInv'
  <2> HIDE DEF p, i
  <2>1. AbsorbGas \in Nat  BY MachineSizes
  <2>2. kind = "digest" /\ row.next = table.base => row'.gas = (row'.idx + 1) * AbsorbGas
    <3> SUFFICES ASSUME kind = "digest", row.next = table.base
                 PROVE  row'.gas = (row'.idx + 1) * AbsorbGas
      OBVIOUS
    <3>1. CASE row.kind = "start"
      <4>1. row.gas = 0 /\ row'.idx = 0  BY <1>3, <1>14, <3>1 DEF PrefixGasInv
      <4> QED BY <1>1, <2>1, <4>1
    <3>2. CASE row.kind = "digest"
      <4>1. row.gas = (row.idx + 1) * AbsorbGas /\ row'.idx = row.idx + 1 /\ row.idx \in Nat
        BY <1>3, <1>14, <3>2 DEF PrefixGasInv
      <4>2. (row.idx + 1 + 1) * AbsorbGas = (row.idx + 1) * AbsorbGas + AbsorbGas
        BY <4>1, MoreGas
      <4> QED BY <1>1, <4>1, <4>2
    <3> QED BY <1>4, <3>1, <3>2
  <2>3. kind = "indigest" =>
          row.next = table.base /\ row'.gas = (p + (row'.idx + 1)) * AbsorbGas
    <3> SUFFICES ASSUME kind = "indigest"
                 PROVE  row.next = table.base /\ row'.gas = (p + (row'.idx + 1)) * AbsorbGas
      OBVIOUS
    <3>1. CASE row.kind = "digest"
      <4>1. row.next = table.base /\ row.idx + 1 = p /\ row'.idx = 0 /\ row.idx \in Nat
        BY <1>14, <3>1 DEF p
      <4>2. row.gas = p * AbsorbGas  BY <1>3, <3>1, <4>1 DEF PrefixGasInv
      <4>3. (p + 1) * AbsorbGas = p * AbsorbGas + AbsorbGas  BY <1>15, MoreGas
      <4>4. p + (0 + 1) = p + 1  BY <1>15
      <4> QED BY <1>1, <4>1, <4>2, <4>3, <4>4
    <3>2. CASE row.kind = "indigest"
      <4>1. /\ row.next = table.base /\ row.gas = (p + (row.idx + 1)) * AbsorbGas
            /\ row'.idx = row.idx + 1 /\ row.idx \in Nat
        BY <1>3, <1>14, <3>2 DEF PrefixGasInv, p
      <4> DEFINE x == p + (row.idx + 1)
      <4>2. x \in Nat /\ p + (row.idx + 1 + 1) = x + 1  BY <1>15, <4>1
      <4>3. (x + 1) * AbsorbGas = x * AbsorbGas + AbsorbGas  BY <4>2, MoreGas
      <4>4. row.gas = x * AbsorbGas  BY <4>1
      <4> HIDE DEF x
      <4> QED BY <1>1, <4>1, <4>2, <4>3, <4>4
    <3> QED BY <1>4, <3>1, <3>2
  <2>4. kind = "pubdigest" =>
          row.next = table.base /\ row'.gas = (p + i + (row'.idx + 1)) * AbsorbGas
    <3> SUFFICES ASSUME kind = "pubdigest"
                 PROVE  row.next = table.base /\ row'.gas = (p + i + (row'.idx + 1)) * AbsorbGas
      OBVIOUS
    <3>1. CASE row.kind = "indigest"
      <4>1. row.next = table.base /\ row.idx + 1 = i /\ row'.idx = 0 /\ row.idx \in Nat
        BY <1>3, <1>14, <3>1 DEF PrefixGasInv, i
      <4>2. row.gas = (p + i) * AbsorbGas  BY <1>3, <3>1, <4>1 DEF PrefixGasInv, p
      <4>3. (p + i + 1) * AbsorbGas = (p + i) * AbsorbGas + AbsorbGas  BY <1>15, MoreGas
      <4>4. p + i + (0 + 1) = p + i + 1  BY <1>15
      <4> QED BY <1>1, <4>1, <4>2, <4>3, <4>4
    <3>2. CASE row.kind = "pubdigest"
      <4>1. /\ row.next = table.base /\ row.gas = (p + i + (row.idx + 1)) * AbsorbGas
            /\ row'.idx = row.idx + 1 /\ row.idx \in Nat
        BY <1>3, <1>14, <3>2 DEF PrefixGasInv, p, i
      <4> DEFINE x == p + i + (row.idx + 1)
      <4>2. x \in Nat /\ p + i + (row.idx + 1 + 1) = x + 1  BY <1>15, <4>1
      <4>3. (x + 1) * AbsorbGas = x * AbsorbGas + AbsorbGas  BY <4>2, MoreGas
      <4>4. row.gas = x * AbsorbGas  BY <4>1
      <4> HIDE DEF x
      <4> QED BY <1>1, <4>1, <4>2, <4>3, <4>4
    <3> QED BY <1>4, <3>1, <3>2
  <2>5. row'.kind # "start"  BY <1>1 DEF Regions
  <2> QED BY <1>1, <1>2, <1>16, <2>2, <2>3, <2>4, <2>5 DEF PrefixGasInv, p, i
<1>18. RunInv'
  <2>1. ProgramInv'  BY <1>2, <1>3 DEF ProgramInv, PcWindow
  <2>2. MemoryInv'  BY <1>1, <1>3 DEF MemoryInv
  <2>3. CallInv'  BY <1>7 DEF CallInv
  <2>4. AbsorbInv' /\ OutInv'  BY <1>8 DEF AbsorbInv, OutInv
  <2> QED BY <1>17, <2>1, <2>2, <2>3, <2>4 DEF RunInv
<1> QED BY <1>13, <1>18
-----------------------------------------------------------------------------
(* The rows of a hash group. *)

(* How far the pc stays at a call. *)
LEMMA CallKept ==
    ASSUME AtHashCall, table' = table, mem' = mem, row'.next = row.next
    PROVE  AtHashCall'
<1>1. Ins' = Ins  BY DEF Ins, WordAt
<1>2. Fetchable(row.next)'  BY DEF AtHashCall, Fetchable
<1>3. A' = A  BY <1>1 DEF A, Log, Reg, Key
<1>4. Val(A)' = Val(A)  BY <1>3 DEF Val
<1> QED BY <1>1, <1>2, <1>4 DEF AtHashCall

(* What a row absorbs of a count: all that is left, or a block. *)
LEMMA DrainedIs ==
    ASSUME NEW last, NEW left \in Counts, NEW act \in 0..Rate, Drained(last, left, act, act)
    PROVE  /\ IF last THEN left = act ELSE act = Rate /\ left >= Rate
           /\ act = IF left < Rate THEN left ELSE Rate
           /\ act > 0 => left > 0
           /\ Sub(left, act) = left - act /\ left - act \in Nat
<1>1. Rate \in Nat /\ Rate > 0 /\ left \in Nat /\ act \in Nat  BY Sizes
<1>2. CASE last
  <2>1. Sub(left, act) = 0  BY <1>2 DEF Drained
  <2>2. left = act  BY <2>1, DrainIs
  <2> QED BY <1>1, <1>2, <2>1, <2>2
<1>3. CASE ~last
  <2>1. act = Rate /\ Sub(left, act) \in Counts  BY <1>3 DEF Drained
  <2>2. left >= act /\ Sub(left, act) = left - act  BY <2>1, DrainIs
  <2> QED BY <1>1, <1>3, <2>1, <2>2
<1> QED BY <1>2, <1>3

(* The state an absorb row permutes. *)
LEMMA EnteredIs ==
    ASSUME NEW r, Recorded(r.hs), r.hv = [i \in 1..Rate |-> r.hv[i]]
    PROVE  Entered(r) = [rate |-> r.hv, cap |-> r.hs.cap]
<1>1. Rate \in Nat  BY Sizes
<1>2. Len(r.hv) = Rate  BY <1>1, LenIs
<1>3. /\ Recorded(Entered(r)) /\ Entered(r).cap = r.hs.cap
      /\ Entered(r).rate = [i \in 1..Rate |-> IF i <= Len(r.hv) THEN r.hv[i] ELSE r.hs.rate[i]]
  BY OverwriteFacts DEF Entered
<1>4. [i \in 1..Rate |-> IF i <= Len(r.hv) THEN r.hv[i] ELSE r.hs.rate[i]]
        = [i \in 1..Rate |-> r.hv[i]]
  BY <1>1, <1>2
<1>5. Entered(r).rate = r.hv  BY <1>3, <1>4
<1> QED BY <1>3, <1>5 DEF Recorded

(* The group that an absorb row goes on with, whatever row is before it. *)
LEMMA AbsorbGroup ==
    ASSUME TableInv, RunInv, AbsorbingRow("absorb")
    PROVE  /\ Group = [todo |-> "absorb", ptr |-> row'.ptr, left |-> row'.left,
                       idx |-> row'.idx, state |-> row'.hs]
           /\ AtHashCall /\ row'.ptr \in 0..(PtrBound - 1) /\ row'.n \in 0..MaxWords
           /\ row'.idx \in Nat /\ Rate * row'.idx + row'.left = row'.n
           /\ Recorded(row'.hs) /\ row'.salt = FALSE
           /\ Pc = row.next /\ Gas = row.gas /\ Halted = FALSE
<1> DEFINE q == row'
<1>1. /\ Follows(row, "absorb", FALSE)
      /\ q.ptr \in Ptrs(row) /\ q.n \in Ns(row, "absorb") /\ q.left \in Lefts(row, "absorb", q.n)
      /\ q.left \in Counts /\ q.idx \in Idxs(row, "absorb")
      /\ q.hs \in States(row, "absorb", q.n) /\ q.act \in 0..Rate
      /\ LanesOk("absorb", q.salt, q.act, q.idx)
      /\ Drained(q.last, q.left, Drain(q), q.act)
  BY AbsorbingRowIs
<1>2. q.salt = FALSE
  <2>1. q.salt = ("absorb" = "indigest" /\ row.kind = "digest")  BY AbsorbingRowIs, Zenon
  <2>2. ("absorb" = "indigest" /\ row.kind = "digest") = FALSE  OBVIOUS
  <2> QED BY <2>1, <2>2, Zenon
<1>3. Drained(q.last, q.left, q.act, q.act)
  <2>1. Drain(q) = q.act  BY <1>2 DEF Drain
  <2> QED BY <1>1, <2>1
<1>4. q.act > 0 \/ (q.idx = 0 /\ row.sys # "hash")
  BY <1>1, <1>2 DEF LanesOk
<1>5. q.act > 0 => q.left > 0  BY <1>1, <1>3, DrainedIs
<1>6. q.left \in Nat  BY <1>1, Sizes
<1>7. SysHash(row) \/ row.kind = "absorb"  BY <1>1 DEF Follows, EntryGates
<1>8. Continues(row)  BY <1>7 DEF Continues
<1>9. q.ptr = row.ptr /\ q.n = row.n  BY <1>1, <1>8 DEF Ptrs, Ns
<1>10. Rate \in Nat /\ Rate > 0  BY Sizes
<1>11. CASE SysHash(row)
  <2>1. /\ row.kind = "instr" /\ AtHashCall
        /\ row.ptr \in 0..(PtrBound - 1) /\ row.n \in 0..MaxWords
        /\ row.left = row.n /\ row.idx = 0
    BY <1>11 DEF RunInv, CallInv
  <2>2. q.left = row.n
    <3>1. ~SameRegion(row, "absorb") /\ "absorb" \notin Regions \ {row.kind}
      BY DEF SameRegion, Regions
    <3>2. Lefts(row, "absorb", q.n) = {row.left}  BY <1>11, <2>1, <3>1 DEF Lefts
    <3> QED BY <1>1, <2>1, <3>2
  <2>3. q.idx = 0
    <3>1. ~SameRegion(row, "absorb") /\ "absorb" \notin Regions \ {row.kind}
      BY DEF SameRegion, Regions
    <3>2. Idxs(row, "absorb") = {row.idx}  BY <1>11, <2>1, <3>1 DEF Idxs
    <3> QED BY <1>1, <2>1, <3>2
  <2>4. row.sys \in {"hash", "hashlen"} /\ row.sys # "halt"  BY <1>11 DEF SysHash
  <2>5. q.hs = IF row.sys = "hash" THEN Zero ELSE LenSeed(row.n)
    <3>1. /\ row.sys = "hash" => States(row, "absorb", q.n) = {Zero}
          /\ row.sys = "hashlen" => States(row, "absorb", q.n) = {LenSeed(row.n)}
      BY <2>1 DEF States
    <3> QED BY <1>1, <2>4, <3>1
  <2>6. ~(row.sys = "hash" /\ row.n = 0)
    BY <1>4, <1>5, <1>6, <2>2
  <2>7. Group = [todo |-> "absorb", ptr |-> q.ptr, left |-> q.left, idx |-> q.idx,
                 state |-> q.hs]
    <3>1. Group = [todo |-> IF row.sys = "hash" /\ row.n = 0 THEN "out1" ELSE "absorb",
                   ptr |-> row.ptr, left |-> row.n, idx |-> 0,
                   state |-> IF row.sys = "hash" THEN Zero ELSE LenSeed(row.n)]
      BY <1>11, <2>1 DEF Group
    <3>2. Group = [todo |-> "absorb", ptr |-> row.ptr, left |-> row.n, idx |-> 0,
                   state |-> IF row.sys = "hash" THEN Zero ELSE LenSeed(row.n)]
      BY <2>6, <3>1, Zenon
    <3> QED BY <1>9, <2>2, <2>3, <2>5, <3>2
  <2>8. Recorded(q.hs)
    <3>1. Recorded(Zero) /\ Recorded(LenSeed(row.n))  BY DEF Recorded, Zero, LenSeed, Seed
    <3> QED BY <2>5, <3>1
  <2>9. Rate * q.idx + q.left = q.n
    <3>1. Rate * 0 = 0  BY <1>10
    <3> QED BY <1>6, <1>9, <2>2, <2>3, <3>1
  <2>10. ~InPrefix  BY <2>1 DEF InPrefix, Regions
  <2>11. Pc = row.next /\ Gas = row.gas /\ Halted = FALSE
    BY <2>4, <2>10 DEF Pc, Gas, Halted
  <2> QED BY <1>2, <1>9, <2>1, <2>3, <2>7, <2>8, <2>9, <2>11
<1>12. CASE row.kind = "absorb"
  <2>1. /\ row.salt = FALSE /\ row.sys = "none" /\ AtHashCall
        /\ row.ptr \in 0..(PtrBound - 1) /\ row.n \in 0..MaxWords
        /\ row.left \in Counts /\ row.idx \in Nat /\ row.act \in 0..Rate
        /\ Rate * row.idx + row.left = row.n
        /\ IF row.last THEN row.left = row.act ELSE row.act = Rate /\ row.left >= Rate
        /\ Recorded(row.hs) /\ row.hv = [i \in 1..Rate |-> row.hv[i]]
    BY <1>12 DEF RunInv, AbsorbInv
  <2>2. ~SysHash(row) /\ ~SameRegion(row, "absorb") /\ "absorb" \notin Regions \ {row.kind}
    BY <2>1 DEF SysHash, SameRegion, Regions
  <2>3. row.act = Rate /\ row.left >= Rate
    <3>1. row.last = ("absorb" # row.kind)  BY <1>1, <1>12 DEF Follows, Absorbs
    <3>2. ("absorb" # row.kind) = FALSE  BY <1>12
    <3>3. row.last = FALSE  BY <3>1, <3>2, Zenon
    <3> QED BY <2>1, <3>3
  <2>4. Drain(row) = Rate  BY <2>1, <2>3 DEF Drain
  <2>5. Sub(row.left, Rate) = row.left - Rate /\ row.left \in Nat
    <3>1. row.left \in Nat /\ row.left < P /\ Rate <= P  BY <2>1, Sizes
    <3> QED BY <1>10, <2>3, <3>1, SubIs
  <2>6. q.left = row.left - Rate
    <3>1. Lefts(row, "absorb", q.n) = {Sub(row.left, Rate)}
      BY <1>12, <2>2, <2>4 DEF Lefts
    <3> QED BY <1>1, <2>5, <3>1
  <2>7. q.idx = row.idx + 1
    <3>1. Idxs(row, "absorb") = {row.idx + 1}  BY <1>12, <2>2 DEF Idxs
    <3> QED BY <1>1, <3>1
  <2>8. q.hs = Perm(Entered(row))
    <3>1. Absorbs(row)  BY <1>12 DEF Absorbs
    <3>2. States(row, "absorb", q.n) = {Perm(Entered(row))}
      BY <1>12, <2>1, <3>1 DEF States
    <3> QED BY <1>1, <3>2
  <2>9. q.left # 0
    <3>1. q.idx # 0  BY <2>1, <2>7
    <3> QED BY <1>4, <1>5, <3>1
  <2>10. Group = [todo |-> "absorb", ptr |-> q.ptr, left |-> q.left, idx |-> q.idx,
                  state |-> q.hs]
    <3>1. Sub(row.left, row.act) = q.left  BY <2>3, <2>5, <2>6
    <3>2. Perm([rate |-> row.hv, cap |-> row.hs.cap]) = q.hs  BY <2>1, <2>8, EnteredIs
    <3>3. Group = [todo |-> IF Sub(row.left, row.act) = 0 THEN "out1" ELSE "absorb",
                   ptr |-> row.ptr, left |-> Sub(row.left, row.act),
                   idx |-> IF Sub(row.left, row.act) = 0 THEN 0 ELSE row.idx + 1,
                   state |-> Perm([rate |-> row.hv, cap |-> row.hs.cap])]
      BY <1>12, <2>2 DEF Group
    <3> QED BY <1>9, <2>7, <2>9, <3>1, <3>2, <3>3
  <2>11. Recorded(q.hs)  BY <2>8 DEF Recorded, Perm
  <2>12. Rate * q.idx + q.left = q.n /\ q.idx \in Nat
    <3>1. Rate * (row.idx + 1) = Rate * row.idx + Rate /\ Rate * row.idx \in Nat
      <4>1. row.idx \in Nat  BY <2>1
      <4> QED BY <1>10, <4>1
    <3> DEFINE x == Rate * row.idx
               y == Rate * (row.idx + 1)
    <3>2. y = x + Rate /\ x \in Nat /\ x + row.left = row.n  BY <2>1, <3>1
    <3> HIDE DEF x, y
    <3>3. y + (row.left - Rate) = row.n  BY <1>10, <2>5, <3>2
    <3> QED BY <1>9, <2>1, <2>6, <2>7, <3>3 DEF y
  <2>13. ~InPrefix  BY <1>12 DEF InPrefix, Regions
  <2>14. Pc = row.next /\ Gas = row.gas /\ Halted = FALSE
    BY <2>1, <2>13 DEF Pc, Gas, Halted
  <2> QED BY <1>2, <1>9, <2>1, <2>10, <2>11, <2>12, <2>14
<1> QED BY <1>7, <1>11, <1>12

(* An absorb row takes the block the emulator takes. *)
LEMMA AbsorbRuns ==
    ASSUME TableInv, RunInv, AbsorbingRow("absorb")
    PROVE  Emulator!AbsorbRow /\ RunInv'
<1> DEFINE q == row'
           G == [todo |-> "absorb", ptr |-> q.ptr, left |-> q.left, idx |-> q.idx,
                 state |-> q.hs]
           at == q.ptr + Rate * q.idx
           words == [k \in 1..q.act |-> Log(Cell(q.ptr + Rate * q.idx + k - 1))]
<1>1. /\ Group = G /\ AtHashCall /\ q.ptr \in 0..(PtrBound - 1) /\ q.n \in 0..MaxWords
      /\ q.idx \in Nat /\ Rate * q.idx + q.left = q.n
      /\ Recorded(q.hs) /\ q.salt = FALSE
      /\ Pc = row.next /\ Gas = row.gas /\ Halted = FALSE
  BY AbsorbGroup
<1>2. /\ UNCHANGED <<tables, outs>> /\ mem' = mem /\ q.kind = "absorb" /\ q.sys = "none"
      /\ q.next = row.next /\ q.gas = row.gas + AbsorbGas
      /\ q.left \in Counts /\ q.act \in 0..Rate
  <2>1. Weight("absorb", "none") = AbsorbGas  BY DEF Weight
  <2> QED BY <2>1, AbsorbingRowIs
<1>3. UNCHANGED <<table, tape, pubs>>  BY <1>2 DEF tables
<1>4. q.hv = Overwrite(q.hs, words).rate
  <2>1. PICK ws \in Words("absorb", q.salt, q.ptr, q.idx, q.act) :
          q.hv = Overwrite(q.hs, ws).rate
    BY AbsorbingRowIs
  <2>2. Words("absorb", q.salt, q.ptr, q.idx, q.act) = {words}  BY <1>1 DEF Words
  <2> QED BY <2>1, <2>2
<1>5. /\ IF q.last THEN q.left = q.act ELSE q.act = Rate /\ q.left >= Rate
      /\ q.act = IF q.left < Rate THEN q.left ELSE Rate
      /\ Sub(q.left, q.act) = q.left - q.act /\ q.left - q.act \in Nat
  <2>1. Drained(q.last, q.left, Drain(q), q.act)  BY AbsorbingRowIs
  <2>2. Drain(q) = q.act  BY <1>1 DEF Drain
  <2>3. Drained(q.last, q.left, q.act, q.act)  BY <2>1, <2>2
  <2>4. q.left \in Counts /\ q.act \in 0..Rate  BY <1>2
  <2>5. \A last : \A left \in Counts, act \in 0..Rate : Drained(last, left, act, act) =>
          /\ IF last THEN left = act ELSE act = Rate /\ left >= Rate
          /\ act = IF left < Rate THEN left ELSE Rate
          /\ Sub(left, act) = left - act /\ left - act \in Nat
    BY DrainedIs
  <2>6. \A left \in Counts, act \in 0..Rate : Drained(q.last, left, act, act) =>
          /\ IF q.last THEN left = act ELSE act = Rate /\ left >= Rate
          /\ act = IF left < Rate THEN left ELSE Rate
          /\ Sub(left, act) = left - act /\ left - act \in Nat
    BY <2>5
  <2> QED BY <2>3, <2>4, <2>6
<1>6. DOMAIN mem \subseteq 0..(P - 1)  BY DEF RunInv, MemoryInv
<1>7. ASSUME NEW k \in 1..q.act
      PROVE  Emulator!Ram(q.ptr + Rate * q.idx + k - 1) = Log(Cell(q.ptr + Rate * q.idx + k - 1))
  <2> DEFINE x == Rate * q.idx
  <2>1. /\ x \in Nat /\ x + q.left = q.n /\ q.left \in Nat /\ q.n <= PtrBound
        /\ q.ptr \in Nat /\ q.ptr < PtrBound /\ k \in Nat /\ k >= 1 /\ k <= PtrBound
    <3>1. x \in Nat  BY <1>1, MachineSizes
    <3>2. q.left \in Nat /\ q.n <= PtrBound /\ q.ptr \in Nat /\ q.ptr < PtrBound
      BY <1>1, <1>2, Sizes, MachineSizes
    <3>3. k \in Nat /\ k >= 1 /\ k <= PtrBound
      <4>1. q.act \in Nat /\ q.act <= Rate  BY <1>2, MachineSizes
      <4> QED BY <4>1, MachineSizes
    <3> QED BY <1>1, <3>1, <3>2, <3>3
  <2> HIDE DEF x
  <2>2. q.ptr + x + k - 1 \in Addrs  BY <2>1, MachineSizes DEF Addrs
  <2>3. Emulator!Ram(q.ptr + x + k - 1) = Log(Cell(q.ptr + x + k - 1))
    BY <1>6, <2>2, RamIs
  <2> QED BY <2>3 DEF x
<1>8. Pc' = Pc /\ Gas' = Gas + AbsorbGas /\ Halted' = Halted
  <2>1. InPrefix' = FALSE  BY <1>2 DEF InPrefix, Regions
  <2>2. Halted' = FALSE  BY <1>2 DEF Halted
  <2>3. Pc' = q.next /\ Gas' = q.gas  BY <1>2, <2>1 DEF Pc, Gas
  <2>4. Halted' = Halted  BY <1>1, <2>2, Zenon
  <2> QED BY <1>1, <1>2, <2>3, <2>4
<1> DEFINE left == q.left - q.act
           H == [todo |-> IF left = 0 THEN "out1" ELSE "absorb", ptr |-> q.ptr,
                 left |-> left, idx |-> IF left = 0 THEN 0 ELSE q.idx + 1,
                 state |-> Perm(Overwrite(q.hs, words))]
<1>9. Group' = H
  <2>1. ~SysHash(row)'  BY <1>2 DEF SysHash
  <2>2. Group' = [todo |-> IF Sub(q.left, q.act) = 0 THEN "out1" ELSE "absorb",
                  ptr |-> q.ptr, left |-> Sub(q.left, q.act),
                  idx |-> IF Sub(q.left, q.act) = 0 THEN 0 ELSE q.idx + 1,
                  state |-> Perm([rate |-> q.hv, cap |-> q.hs.cap])]
    BY <1>2, <2>1 DEF Group, Sub, Perm
  <2>3. Overwrite(q.hs, words) = [rate |-> q.hv, cap |-> q.hs.cap]
    <3>1. /\ Recorded(Overwrite(q.hs, words)) /\ Overwrite(q.hs, words).cap = q.hs.cap
      BY <1>1, OverwriteFacts
    <3> QED BY <1>4, <3>1 DEF Recorded
  <2> HIDE DEF words
  <2> QED BY <1>5, <2>2, <2>3
<1>10. Emulator!AbsorbRow
  <2> DEFINE cnt == IF Group.left < Rate THEN Group.left ELSE Rate
             ews == [k \in 1..cnt |-> Emulator!Ram(Group.ptr + Rate * Group.idx + k - 1)]
             rest == Group.left - cnt
             next == [todo |-> IF rest = 0 THEN "out1" ELSE "absorb", ptr |-> Group.ptr,
                      left |-> rest, idx |-> IF rest = 0 THEN 0 ELSE Group.idx + 1,
                      state |-> Emulator!Perm(Emulator!Overwrite(Group.state, ews))]
  <2>1. /\ Group.todo = "absorb" /\ Group.left = q.left /\ Group.ptr = q.ptr
        /\ Group.idx = q.idx /\ Group.state = q.hs
    BY <1>1
  <2>2. cnt = q.act /\ rest = left  BY <1>5, <2>1
  <2>3. ews = words
    <3> HIDE DEF cnt
    <3>1. ews = [k \in 1..q.act |-> Emulator!Ram(q.ptr + Rate * q.idx + k - 1)]
      BY <2>1, <2>2
    <3> QED BY <1>7, <3>1
  <2>4. /\ Emulator!Perm(Emulator!Overwrite(q.hs, words)) = Perm(Overwrite(q.hs, words))
    BY SameIsa
  <2>5. next = H  BY <2>1, <2>2, <2>3, <2>4
  <2>6. Group' = next  BY <1>9, <2>5
  <2>7. Emulator!Row(Pc, AbsorbGas)  BY <1>8 DEF Emulator!Row
  <2>8. Registers' = Registers /\ Memory' = Memory
    BY <1>2, MemoryNow DEF Registers, Log, Reg, Key
  <2>9. UNCHANGED <<Emulator!args, Registers, Memory, outs, Halted>>
    BY <1>2, <1>3, <1>8, <2>8 DEF Emulator!args
  <2> HIDE DEF H, words, left, G
  <2> QED BY <2>1, <2>6, <2>7, <2>9 DEF Emulator!AbsorbRow
<1>11. RunInv'
  <2>1. ProgramInv'  BY <1>3 DEF RunInv, ProgramInv, PcWindow
  <2>2. PrefixGasInv' /\ OutInv'  BY <1>2 DEF PrefixGasInv, OutInv
  <2>3. MemoryInv'  BY <1>2 DEF RunInv, MemoryInv
  <2>4. CallInv'  BY <1>2 DEF CallInv, SysHash
  <2>5. AtHashCall'  BY <1>1, <1>2, <1>3, CallKept
  <2>6. q.hv = [i \in 1..Rate |-> q.hv[i]]
    <3>1. Overwrite(q.hs, words).rate
            = [i \in 1..Rate |-> IF i <= Len(words) THEN words[i] ELSE q.hs.rate[i]]
      BY <1>1, OverwriteFacts
    <3> HIDE DEF words
    <3> QED BY <1>4, <3>1
  <2>7. AbsorbInv'
    <3> HIDE DEF words
    <3> QED BY <1>1, <1>2, <1>5, <2>5, <2>6 DEF AbsorbInv
  <2> QED BY <2>1, <2>2, <2>3, <2>4, <2>7 DEF RunInv
<1> QED BY <1>10, <1>11

(* What a write-back row leaves. *)
LEMMA OutRowIs ==
    ASSUME NEW fin \in BOOLEAN, WriteBackRow(fin)
    PROVE  /\ Follows(row, "out", fin) /\ UNCHANGED <<tables, outs>>
           /\ row'.kind = "out" /\ row'.fin = fin /\ row'.sys = "none"
           /\ row'.ptr \in Ptrs(row) /\ row'.hs \in States(row, "out", row'.n)
           /\ row'.next = IF fin THEN row.next + 4 ELSE row.next
           /\ row'.gas = row.gas + 1
           /\ WriteCells(row'.ptr + IF fin THEN Rate ELSE 0,
                         DigestHalf(row'.hs.rate, IF fin THEN 1 ELSE 0))
<1>1. PICK n \in Ns(row, "out"), ptr \in Ptrs(row) : \E hs \in States(row, "out", n) :
        LET hv == DigestHalf(hs.rate, IF fin THEN 1 ELSE 0)
        IN  /\ ~fin => 0 \in Lefts(row, "out", n)
            /\ WriteCells(ptr + IF fin THEN Rate ELSE 0, hv)
            /\ row' = [RowOf("out", "none", IF fin THEN row.next + 4 ELSE row.next)
                         EXCEPT !.fin = fin, !.ptr = ptr, !.n = n, !.hs = hs, !.hv = hv]
  BY DEF WriteBackRow
<1>2. PICK hs \in States(row, "out", n) :
        LET hv == DigestHalf(hs.rate, IF fin THEN 1 ELSE 0)
        IN  /\ WriteCells(ptr + IF fin THEN Rate ELSE 0, hv)
            /\ row' = [RowOf("out", "none", IF fin THEN row.next + 4 ELSE row.next)
                         EXCEPT !.fin = fin, !.ptr = ptr, !.n = n, !.hs = hs, !.hv = hv]
  BY <1>1
<1>3. /\ row'.kind = "out" /\ row'.fin = fin /\ row'.sys = "none"
      /\ row'.ptr = ptr /\ row'.n = n /\ row'.hs = hs
      /\ row'.next = IF fin THEN row.next + 4 ELSE row.next
      /\ row'.gas = row.gas + Weight("out", "none")
  BY <1>2 DEF RowOf, Blank
<1>4. Weight("out", "none") = 1  BY DEF Weight, Regions
<1>5. Follows(row, "out", fin) /\ UNCHANGED <<tables, outs>>  BY DEF WriteBackRow
<1>6. WriteCells(ptr + IF fin THEN Rate ELSE 0, DigestHalf(hs.rate, IF fin THEN 1 ELSE 0))
  BY <1>2
<1> QED BY <1>1, <1>2, <1>3, <1>4, <1>5, <1>6

(* The group whose first write-back row comes next: a call with no word to *)
(* absorb, or an absorb row that leaves none.                              *)
LEMMA OutGroup ==
    ASSUME TableInv, RunInv, WriteBackRow(FALSE)
    PROVE  /\ Group = [todo |-> "out1", ptr |-> row'.ptr, left |-> 0, idx |-> 0,
                       state |-> row'.hs]
           /\ Fetchable(row.next) /\ row'.ptr \in 0..(PtrBound - 1)
           /\ Pc = row.next /\ Gas = row.gas /\ Halted = FALSE
<1> DEFINE q == row'
<1>1. /\ Follows(row, "out", FALSE) /\ q.ptr \in Ptrs(row) /\ q.hs \in States(row, "out", q.n)
  BY OutRowIs
<1>2. /\ row.sys = "hash" => row.n = 0
      /\ row.sys # "hashlen" /\ ~(row.kind = "out" /\ ~row.fin)
  BY <1>1 DEF Follows, Routing
<1>3. (SysHash(row) \/ row.kind \in {"absorb", "out"}) /\ ~row.fin
  BY <1>1 DEF Follows, EntryGates
<1>4. SysHash(row) \/ row.kind = "absorb"  BY <1>2, <1>3
<1>5. q.ptr = row.ptr  BY <1>1, <1>4 DEF Ptrs, Continues
<1>6. CASE SysHash(row)
  <2>1. row.sys = "hash" /\ row.n = 0  BY <1>2, <1>6 DEF SysHash
  <2>2. row.kind = "instr" /\ AtHashCall /\ row.ptr \in 0..(PtrBound - 1)
    BY <1>6 DEF RunInv, CallInv
  <2>3. q.hs = Zero
    <3>1. States(row, "out", q.n) = {Zero}  BY <2>1, <2>2 DEF States
    <3> QED BY <1>1, <3>1
  <2>4. Group = [todo |-> "out1", ptr |-> q.ptr, left |-> 0, idx |-> 0, state |-> q.hs]
    <3>1. Group = [todo |-> IF row.sys = "hash" /\ row.n = 0 THEN "out1" ELSE "absorb",
                   ptr |-> row.ptr, left |-> row.n, idx |-> 0,
                   state |-> IF row.sys = "hash" THEN Zero ELSE LenSeed(row.n)]
      BY <1>6, <2>2 DEF Group
    <3>2. Group = [todo |-> "out1", ptr |-> row.ptr, left |-> row.n, idx |-> 0,
                   state |-> Zero]
      BY <2>1, <3>1, Zenon
    <3> QED BY <1>5, <2>1, <2>3, <3>2
  <2>5. ~InPrefix  BY <2>2 DEF InPrefix, Regions
  <2>6. Pc = row.next /\ Gas = row.gas /\ Halted = FALSE
    BY <2>1, <2>5 DEF Pc, Gas, Halted
  <2> QED BY <1>5, <2>2, <2>4, <2>6 DEF AtHashCall
<1>7. CASE row.kind = "absorb"
  <2>1. /\ row.sys = "none" /\ AtHashCall /\ row.ptr \in 0..(PtrBound - 1)
        /\ row.left \in Counts
        /\ IF row.last THEN row.left = row.act ELSE row.act = Rate /\ row.left >= Rate
        /\ Recorded(row.hs) /\ row.hv = [i \in 1..Rate |-> row.hv[i]]
    BY <1>7 DEF RunInv, AbsorbInv
  <2>2. row.left = row.act
    <3>1. row.last = ("out" # row.kind)  BY <1>1, <1>7 DEF Follows, Absorbs
    <3>2. ("out" # row.kind) = TRUE  BY <1>7
    <3>3. row.last = TRUE  BY <3>1, <3>2, Zenon
    <3> QED BY <2>1, <3>3
  <2>3. Sub(row.left, row.act) = 0
    <3>1. row.left \in Nat /\ row.left < P /\ row.left <= P  BY <2>1, Sizes
    <3> QED BY <2>2, <3>1, SubIs
  <2>4. q.hs = Perm([rate |-> row.hv, cap |-> row.hs.cap])
    <3>1. Absorbs(row)  BY <1>7 DEF Absorbs
    <3>2. States(row, "out", q.n) = {Perm(Entered(row))}  BY <1>7, <2>1, <3>1 DEF States
    <3>3. Entered(row) = [rate |-> row.hv, cap |-> row.hs.cap]  BY <2>1, EnteredIs
    <3> QED BY <1>1, <3>2, <3>3
  <2>5. ~SysHash(row)  BY <2>1 DEF SysHash
  <2>6. Group = [todo |-> "out1", ptr |-> q.ptr, left |-> 0, idx |-> 0, state |-> q.hs]
    BY <1>5, <1>7, <2>3, <2>4, <2>5 DEF Group
  <2>7. ~InPrefix  BY <1>7 DEF InPrefix, Regions
  <2>8. Pc = row.next /\ Gas = row.gas /\ Halted = FALSE
    BY <2>1, <2>7 DEF Pc, Gas, Halted
  <2> QED BY <1>5, <2>1, <2>6, <2>8 DEF AtHashCall
<1> QED BY <1>4, <1>6, <1>7

(* And the one whose second comes next. *)
LEMMA OutsGroup ==
    ASSUME TableInv, RunInv, WriteBackRow(TRUE)
    PROVE  /\ Group = [todo |-> "out2", ptr |-> row'.ptr, left |-> 0, idx |-> 0,
                       state |-> row'.hs]
           /\ Fetchable(row.next) /\ row'.ptr \in 0..(PtrBound - 1)
           /\ Pc = row.next /\ Gas = row.gas /\ Halted = FALSE
<1> DEFINE q == row'
<1>1. /\ Follows(row, "out", TRUE) /\ q.ptr \in Ptrs(row) /\ q.hs \in States(row, "out", q.n)
  BY OutRowIs
<1>2. row.sys # "hash" /\ row.sys # "hashlen" /\ row.kind # "absorb"
  BY <1>1 DEF Follows, Routing
<1>3. (SysHash(row) \/ row.kind \in {"absorb", "out"}) /\ ~row.fin
  BY <1>1 DEF Follows, EntryGates
<1>4. row.kind = "out" /\ ~row.fin /\ ~SysHash(row)  BY <1>2, <1>3 DEF SysHash
<1>5. row.sys = "none" /\ Fetchable(row.next) /\ row.ptr \in 0..(PtrBound - 1)
  BY <1>4 DEF RunInv, OutInv
<1>6. q.ptr = row.ptr  BY <1>1, <1>4 DEF Ptrs, Continues
<1>7. q.hs = row.hs
  <2>1. ~Absorbs(row)  BY <1>4 DEF Absorbs, Regions
  <2>2. States(row, "out", q.n) = {row.hs}  BY <1>4, <1>5, <2>1 DEF States
  <2> QED BY <1>1, <2>2
<1>8. Group = [todo |-> "out2", ptr |-> q.ptr, left |-> 0, idx |-> 0, state |-> q.hs]
  BY <1>4, <1>6, <1>7 DEF Group
<1>9. ~InPrefix  BY <1>4 DEF InPrefix, Regions
<1>10. Pc = row.next /\ Gas = row.gas /\ Halted = FALSE
  BY <1>5, <1>9 DEF Pc, Gas, Halted
<1> QED BY <1>5, <1>6, <1>8, <1>10

(* A write-back row keeps the invariant. *)
LEMMA OutKeeps ==
    ASSUME RunInv, NEW fin \in BOOLEAN, WriteBackRow(fin), DOMAIN mem' \subseteq 0..(P - 1),
           Fetchable(row.next), row'.ptr \in 0..(PtrBound - 1)
    PROVE  RunInv'
<1>1. /\ UNCHANGED <<tables, outs>> /\ row'.kind = "out" /\ row'.fin = fin
      /\ row'.sys = "none" /\ row'.next = IF fin THEN row.next + 4 ELSE row.next
  BY OutRowIs
<1>2. UNCHANGED <<table, tape, pubs>>  BY <1>1 DEF tables
<1>3. ProgramInv /\ row.next \in Nat  BY DEF RunInv, MemoryInv
<1>4. ProgramInv'  BY <1>2, <1>3 DEF ProgramInv, PcWindow
<1>5. PrefixGasInv' /\ CallInv' /\ AbsorbInv'
  BY <1>1 DEF PrefixGasInv, CallInv, AbsorbInv, SysHash
<1>6. MemoryInv'
  <2>1. row'.next \in Nat
    <3>1. CASE fin  BY <1>1, <1>3, <3>1
    <3>2. CASE ~fin  BY <1>1, <1>3, <3>2
    <3> QED BY <3>1, <3>2
  <2> QED BY <2>1 DEF MemoryInv
<1>7. OutInv'
  <2>1. ASSUME ~row'.fin PROVE Fetchable(row.next)'
    <3>1. ~fin  BY <1>1, <2>1
    <3>2. row'.next = row.next  BY <1>1, <3>1
    <3> QED BY <1>2, <3>2 DEF Fetchable
  <2> QED BY <1>1, <2>1 DEF OutInv
<1> QED BY <1>4, <1>5, <1>6, <1>7 DEF RunInv

(* The first half of a digest written back. *)
LEMMA Out1Runs ==
    ASSUME TableInv, RunInv, WriteBackRow(FALSE)
    PROVE  Emulator!WriteOut1 /\ RunInv'
<1> DEFINE q == row'
<1>1. /\ Group = [todo |-> "out1", ptr |-> q.ptr, left |-> 0, idx |-> 0, state |-> q.hs]
      /\ Fetchable(row.next) /\ q.ptr \in 0..(PtrBound - 1)
      /\ Pc = row.next /\ Gas = row.gas /\ Halted = FALSE
  BY OutGroup
<1>2. /\ UNCHANGED <<tables, outs>> /\ q.kind = "out" /\ q.fin = FALSE /\ q.sys = "none"
      /\ q.next = row.next /\ q.gas = row.gas + 1
      /\ WriteCells(q.ptr + 0, DigestHalf(q.hs.rate, 0))
  BY OutRowIs
<1>3. DOMAIN mem \subseteq 0..(P - 1)  BY DEF RunInv, MemoryInv
<1>4. /\ DOMAIN mem' \subseteq 0..(P - 1) /\ Registers' = Registers
      /\ Emulator!WriteRam(q.ptr + 0, Rate, DigestHalf(q.hs.rate, 0))
  <2> DEFINE s == q.ptr + 0
             ws == DigestHalf(q.hs.rate, 0)
  <2>1. s \in Nat /\ s + Rate <= 3 * PtrBound  BY <1>1, MachineSizes
  <2>2. DOMAIN ws = 1..Rate  BY DEF DigestHalf
  <2>3. WriteCells(s, ws)  BY <1>2
  <2> HIDE DEF s, ws
  <2>4. /\ DOMAIN mem' \subseteq 0..(P - 1) /\ Registers' = Registers
        /\ Emulator!WriteRam(s, Rate, ws)
    BY <1>3, <2>1, <2>2, <2>3, CellsWritten, MachineSizes
  <2> QED BY <2>4 DEF s, ws
<1>5. Emulator!WriteBack(0)
  <2>1. Rate * 0 = 0  BY MachineSizes
  <2>2. Group.ptr = q.ptr /\ Group.state = q.hs  BY <1>1
  <2>3. Emulator!DigestHalf(q.hs.rate, 0) = DigestHalf(q.hs.rate, 0)  BY SameIsa
  <2> QED BY <1>4, <2>1, <2>2, <2>3 DEF Emulator!WriteBack
<1>6. Group' = [Group EXCEPT !.todo = "out2"]
  <2>1. Group' = [todo |-> "out2", ptr |-> q.ptr, left |-> 0, idx |-> 0, state |-> q.hs]
    BY <1>2 DEF Group, SysHash
  <2> QED BY <1>1, <2>1
<1>7. Emulator!Row(Pc, 1) /\ Halted' = Halted
  <2>1. InPrefix' = FALSE  BY <1>2 DEF InPrefix, Regions
  <2>2. Halted' = FALSE  BY <1>2 DEF Halted
  <2>3. Pc' = q.next /\ Gas' = q.gas  BY <1>2, <2>1 DEF Pc, Gas
  <2>4. Halted' = Halted  BY <1>1, <2>2, Zenon
  <2> QED BY <1>1, <1>2, <2>3, <2>4 DEF Emulator!Row
<1>8. UNCHANGED <<Emulator!args, Registers, outs, Halted>>
  BY <1>2, <1>4, <1>7 DEF Emulator!args, tables
<1>9. Group.todo = "out1"  BY <1>1
<1>10. RunInv'  BY <1>1, <1>4, OutKeeps
<1> QED BY <1>5, <1>6, <1>7, <1>8, <1>9, <1>10 DEF Emulator!WriteOut1

(* The second half, behind which the pc goes on. *)
LEMMA Out2Runs ==
    ASSUME TableInv, RunInv, WriteBackRow(TRUE)
    PROVE  Emulator!WriteOut2 /\ RunInv'
<1> DEFINE q == row'
<1>1. /\ Group = [todo |-> "out2", ptr |-> q.ptr, left |-> 0, idx |-> 0, state |-> q.hs]
      /\ Fetchable(row.next) /\ q.ptr \in 0..(PtrBound - 1)
      /\ Pc = row.next /\ Gas = row.gas /\ Halted = FALSE
  BY OutsGroup
<1>2. /\ UNCHANGED <<tables, outs>> /\ q.kind = "out" /\ q.fin = TRUE /\ q.sys = "none"
      /\ q.next = row.next + 4 /\ q.gas = row.gas + 1
      /\ WriteCells(q.ptr + Rate, DigestHalf(q.hs.rate, 1))
  BY OutRowIs
<1>3. DOMAIN mem \subseteq 0..(P - 1) /\ ProgramInv /\ row.next \in Nat
  BY DEF RunInv, MemoryInv
<1>4. /\ DOMAIN mem' \subseteq 0..(P - 1) /\ Registers' = Registers
      /\ Emulator!WriteRam(q.ptr + Rate, Rate, DigestHalf(q.hs.rate, 1))
  <2> DEFINE s == q.ptr + Rate
             ws == DigestHalf(q.hs.rate, 1)
  <2>1. s \in Nat /\ s + Rate <= 3 * PtrBound  BY <1>1, MachineSizes
  <2>2. DOMAIN ws = 1..Rate  BY DEF DigestHalf
  <2>3. WriteCells(s, ws)  BY <1>2
  <2> HIDE DEF s, ws
  <2>4. /\ DOMAIN mem' \subseteq 0..(P - 1) /\ Registers' = Registers
        /\ Emulator!WriteRam(s, Rate, ws)
    BY <1>3, <2>1, <2>2, <2>3, CellsWritten, MachineSizes
  <2> QED BY <2>4 DEF s, ws
<1>5. Emulator!WriteBack(1)
  <2>1. Rate * 1 = Rate  BY MachineSizes
  <2>2. Group.ptr = q.ptr /\ Group.state = q.hs  BY <1>1
  <2>3. Emulator!DigestHalf(q.hs.rate, 1) = DigestHalf(q.hs.rate, 1)  BY SameIsa
  <2> QED BY <1>4, <2>1, <2>2, <2>3 DEF Emulator!WriteBack
<1>6. Group' = Emulator!NoGroup
  <2>1. ~SysHash(row)'  BY <1>2 DEF SysHash
  <2> QED BY <1>2, <2>1, SameIsa DEF Group, Emulator!NoGroup
<1>7. Emulator!Row((Pc + 4) % W, 1) /\ Halted' = Halted
  <2>1. InPrefix' = FALSE  BY <1>2 DEF InPrefix, Regions
  <2>2. Halted' = FALSE  BY <1>2 DEF Halted
  <2>3. Pc' = q.next /\ Gas' = q.gas  BY <1>2, <2>1 DEF Pc, Gas
  <2>4. Halted' = Halted  BY <1>1, <2>2, Zenon
  <2>5. (row.next + 4) % W = row.next + 4  BY <1>1, <1>3, FetchIs
  <2> QED BY <1>1, <1>2, <2>3, <2>4, <2>5 DEF Emulator!Row
<1>8. UNCHANGED <<Emulator!args, Registers, outs, Halted>>
  BY <1>2, <1>4, <1>7 DEF Emulator!args, tables
<1>9. Group.todo = "out2"  BY <1>1
<1>10. RunInv'  BY <1>1, <1>4, OutKeeps
<1> QED BY <1>5, <1>6, <1>7, <1>8, <1>9, <1>10 DEF Emulator!WriteOut2
-----------------------------------------------------------------------------
(* Steps and the first row. *)

(* A step that changes nothing the rows are made of. *)
LEMMA RunStutters ==
    ASSUME RunInv, UNCHANGED vars
    PROVE  UNCHANGED Emulator!vars /\ RunInv'
<1>1. UNCHANGED <<table, tape, pubs>> /\ row' = row /\ mem' = mem /\ outs' = outs
  BY Zenon DEF vars, tables
<1>2. Registers' = Registers /\ Memory' = Memory
  BY <1>1, MemoryNow DEF Registers, Log, Reg, Key
<1>3. Group' = Group  BY <1>1, Zenon DEF Group, SysHash, Sub, Perm
<1>4. Pc' = Pc  BY <1>1, Zenon DEF Pc, InPrefix
<1>5. Gas' = Gas  BY <1>1, Zenon DEF Gas, InPrefix, PrefixGas
<1>6. Halted' = Halted  BY <1>1, Zenon DEF Halted
<1>7. UNCHANGED Emulator!vars
  BY <1>1, <1>2, <1>3, <1>4, <1>5, <1>6, Zenon DEF Emulator!vars, Emulator!args
<1>8. ProgramInv' /\ PrefixGasInv'
  BY <1>1, Zenon DEF RunInv, ProgramInv, PcWindow, PrefixGasInv
<1>9. MemoryInv'  BY <1>1, Zenon DEF RunInv, MemoryInv
<1>10. AtHashCall' = AtHashCall
  BY <1>1, Zenon DEF AtHashCall, Fetchable, Ins, WordAt, A, Log, Reg, Key, Val
<1>11. CallInv'  BY <1>1, <1>10, Zenon DEF RunInv, CallInv, SysHash
<1>12. AbsorbInv'  BY <1>1, <1>10, Zenon DEF RunInv, AbsorbInv, Recorded
<1>13. OutInv'  BY <1>1, Zenon DEF RunInv, OutInv, Fetchable
<1> QED BY <1>7, <1>8, <1>9, <1>11, <1>12, <1>13 DEF RunInv

(* Every row is a step of the emulator, or a chip call it refuses, or none  *)
(* of its steps.                                                           *)
LEMMA NextRuns ==
    ASSUME TableInv, RunInv, [Next]_vars
    PROVE  /\ Emulator!Next \/ (RefusedChip /\ ~ChipsWithinLimit') \/ UNCHANGED Emulator!vars
           /\ RunInv'
<1>1. ASSUME NEW kind \in Regions \cup {"absorb"}, AbsorbingRow(kind)
      PROVE  (Emulator!Next \/ UNCHANGED Emulator!vars) /\ RunInv'
  <2>1. CASE kind \in Regions  BY <1>1, <2>1, PrefixRuns
  <2>2. CASE kind = "absorb"
    <3>1. AbsorbingRow("absorb")  BY <1>1, <2>2
    <3> QED BY <3>1, AbsorbRuns DEF Emulator!Next
  <2> QED BY <2>1, <2>2
<1>2. CASE WriteBackRow(FALSE)  BY <1>2, Out1Runs DEF Emulator!Next
<1>3. CASE WriteBackRow(TRUE)  BY <1>3, Out2Runs DEF Emulator!Next
<1>4. CASE PlainRow  BY <1>4, PlainRuns DEF Emulator!Next
<1>5. CASE MemoryRow  BY <1>5, MemoryRuns DEF Emulator!Next
<1>6. CASE OutputRow  BY <1>6, OutputRuns DEF Emulator!Next
<1>7. TypeInv  BY DEF TableInv
<1>8. CASE ReadRow(READ_INPUT, tape)
  <2>1. Len(tape) \in Nat  BY <1>7 DEF TypeInv
  <2>2. READ_INPUT \notin {POSEIDON2, POSEIDON2_LEN}
    BY DEF READ_INPUT, POSEIDON2, POSEIDON2_LEN
  <2>3. Emulator!ReadTape(READ_INPUT, tape) /\ RunInv'  BY <1>8, <2>1, <2>2, ReadRuns
  <2>4. Emulator!READ_INPUT = READ_INPUT  BY DEF Emulator!READ_INPUT, READ_INPUT
  <2> QED BY <2>3, <2>4 DEF Emulator!Next
<1>9. CASE ReadRow(READ_PUBLIC, pubs)
  <2>1. Len(pubs) \in Nat  BY <1>7 DEF TypeInv
  <2>2. READ_PUBLIC \notin {POSEIDON2, POSEIDON2_LEN}
    BY DEF READ_PUBLIC, POSEIDON2, POSEIDON2_LEN
  <2>3. Emulator!ReadTape(READ_PUBLIC, pubs) /\ RunInv'  BY <1>9, <2>1, <2>2, ReadRuns
  <2>4. Emulator!READ_PUBLIC = READ_PUBLIC  BY DEF Emulator!READ_PUBLIC, READ_PUBLIC
  <2> QED BY <2>3, <2>4 DEF Emulator!Next
<1>10. CASE ChipRow  BY <1>10, ChipRuns DEF Emulator!Next
<1>11. CASE HashRow(POSEIDON2, "hash")
  <2>1. Emulator!HashCall /\ RunInv'
    <3> DEFINE num == POSEIDON2
               sys == "hash"
    <3>1. \/ num = POSEIDON2 /\ sys = "hash"
          \/ num = POSEIDON2_LEN /\ sys = "hashlen"
      OBVIOUS
    <3>2. HashRow(num, sys)  BY <1>11
    <3> HIDE DEF num, sys
    <3> QED BY <3>1, <3>2, HashRuns
  <2> QED BY <2>1 DEF Emulator!Next
<1>12. CASE HashRow(POSEIDON2_LEN, "hashlen")
  <2>1. Emulator!HashCall /\ RunInv'
    <3> DEFINE num == POSEIDON2_LEN
               sys == "hashlen"
    <3>1. \/ num = POSEIDON2 /\ sys = "hash"
          \/ num = POSEIDON2_LEN /\ sys = "hashlen"
      OBVIOUS
    <3>2. HashRow(num, sys)  BY <1>12
    <3> HIDE DEF num, sys
    <3> QED BY <3>1, <3>2, HashRuns
  <2> QED BY <2>1 DEF Emulator!Next
<1>13. CASE HaltRow  BY <1>13, HaltRuns DEF Emulator!Next
<1>14. CASE UNCHANGED vars  BY <1>14, RunStutters
<1> QED BY <1>1, <1>2, <1>3, <1>4, <1>5, <1>6, <1>8, <1>9, <1>10, <1>11, <1>12, <1>13, <1>14
        DEF Next

(* Before the first row the emulator is at the start of its program. *)
LEMMA InitRuns ==
    ASSUME Init, ProgramInv
    PROVE  Emulator!Init /\ RunInv
<1>1. mem = <<>> /\ outs = <<>>  BY Zenon DEF Init
<1>2. PICK at \in {table.base, table.base + 4} :
        row = [Blank EXCEPT !.kind = "start", !.next = at]
  BY DEF Init
<1>3. /\ row.kind = "start" /\ row.sys = "none" /\ row.next = at
      /\ row.gas = 0
  BY <1>2 DEF Blank
<1>4. InPrefix = TRUE /\ Halted = FALSE  BY <1>3 DEF InPrefix, Halted
<1>5. Pc = table.base /\ Gas = Emulator!PrefixGas  BY <1>4, SameIsa DEF Pc, Gas
<1>6. Group = Emulator!NoGroup
  <2>1. ~SysHash(row)  BY <1>3 DEF SysHash
  <2> QED BY <1>3, <2>1, SameIsa DEF Group, Emulator!NoGroup
<1>7. DOMAIN mem = {}  BY <1>1
<1>8. Registers = [r \in Regs |-> <<0>>]  BY <1>7 DEF Registers, Log
<1>9. Memory = <<>>
  <2>1. {k - PtrBound : k \in DOMAIN mem \ 0..(PtrBound - 1)} = {}  BY <1>7
  <2>2. Memory = [a \in {} |-> mem[Cell(a)]]  BY <2>1 DEF Memory
  <2>3. DOMAIN Memory = {} /\ DOMAIN mem = {}  BY <1>7, <2>2
  <2>4. Memory = [a \in {} |-> mem[a]] /\ mem = [a \in {} |-> mem[a]]  BY <1>1, <2>2
  <2> QED BY <1>1, <2>4
<1>10. Emulator!Init  BY <1>1, <1>4, <1>5, <1>6, <1>8, <1>9 DEF Emulator!Init
<1>11. RunInv
  <2>1. PrefixGasInv  BY <1>3 DEF PrefixGasInv
  <2>2. MemoryInv  BY <1>3, <1>7 DEF ProgramInv, MemoryInv
  <2>3. CallInv /\ AbsorbInv /\ OutInv  BY <1>3 DEF CallInv, AbsorbInv, OutInv, SysHash
  <2> QED BY <2>1, <2>2, <2>3 DEF RunInv
<1> QED BY <1>10, <1>11
-----------------------------------------------------------------------------

(* Where a refused chip call is the next row, the emulator has none: it     *)
(* returns its error.                                                      *)
LEMMA RefusedIsAnError ==
    ASSUME RefusedChip
    PROVE  ~Emulator!CanStep /\ ~Emulator!Chip
<1>1. Emulator!Ecall(Emulator!CHIP) /\ Val(Emulator!B) > Emulator!ChipLimit
  <2>1. Val(Emulator!B) \in (Emulator!ChipLimit + 1)..(ChipBound - 1)  BY DEF RefusedChip
  <2>2. Emulator!ChipLimit \in Int  BY WordAssumption DEF Emulator!ChipLimit
  <2>3. Emulator!Ecall(Emulator!CHIP)  BY DEF RefusedChip, Emulator!ChipCall
  <2> QED BY <2>1, <2>2, <2>3
<1>2. /\ Group.todo = "none" /\ Emulator!Ins.op = "ecall"
      /\ Emulator!Val(Emulator!A) = 4 /\ Emulator!Val(Emulator!B) = Val(Emulator!B)
  BY <1>1, SameIsa DEF Emulator!Ecall, Emulator!Running, Emulator!CHIP
<1>3. ~(Val(Emulator!B) <= Emulator!ChipLimit)
  <2>1. Emulator!ChipLimit \in Int /\ Val(Emulator!B) \in Nat
    BY ValIs, WordAssumption DEF Emulator!ChipLimit
  <2> HIDE DEF Emulator!ChipLimit
  <2> QED BY <1>1, <2>1
<1>4. ~Emulator!CanStep
  BY <1>2, <1>3 DEF Emulator!CanStep, Emulator!HALT, Emulator!WRITE_OUTPUT, Emulator!READ_INPUT,
     Emulator!READ_PUBLIC, Emulator!CHIP, Emulator!POSEIDON2, Emulator!POSEIDON2_LEN
<1> QED BY <1>2, <1>3, <1>4 DEF Emulator!Chip

(* What a step shows of the emulator, with the invariants it needs. *)
LEMMA StepRuns ==
    ASSUME TableInv, RunInv, [Next]_vars
    PROVE  /\ [Emulator!Next \/ RefusedChip]_(Emulator!vars)
           /\ ChipsWithinLimit' => [Emulator!Next]_(Emulator!vars)
           /\ TableInv' /\ RunInv'
BY NextKeeps, NextRuns

(* Whatever rows the rules of the tables let a prover write, they are the  *)
(* steps of the emulator on the program and the tapes its tables hold, one *)
(* step per row, with the gas of those steps; the rows of the digest       *)
(* regions are no step (research/src/tables/cpu.rs against                 *)
(* research/src/emulator.rs).  The one other step is a chip call at a       *)
(* pointer between the emulator's limit and the tables' bound, which does  *)
(* what a chip call does.  Of the programs the runs are made with.         *)
THEOREM RowsAreTheEmulators == MCSpec => ImplementsEmulator
<1>1. MCInit => TableInv /\ RunInv /\ Emulator!Init
  <2>1. MCInit => Init  BY Zenon DEF MCInit
  <2> QED BY <2>1, InitTypes, InitKeeps, InitRuns
<1>2. TableInv /\ RunInv /\ [Next]_vars =>
        TableInv' /\ RunInv' /\ [Emulator!Next \/ RefusedChip]_(Emulator!vars)
  BY StepRuns
<1> QED BY <1>1, <1>2, PTL DEF MCSpec, ImplementsEmulator

\* A program of instructions at a word's address, and tapes of words.
AnyRun == Init /\ TypeInv /\ ProgramInv /\ [][Next]_vars

\* What the rows of a run are: the emulator's steps and chip calls that it
\* refuses at just that place, and the emulator's alone if there is no such call.
RowsAreSteps ==
  /\ ImplementsEmulator
  /\ [][RefusedChip => ~Emulator!CanStep]_(Emulator!vars)
  /\ []ChipsWithinLimit => Emulator!Spec

(* The same of every program of the instructions the module models, at any *)
(* base that is a word's address, and of any tapes: the rows are steps of  *)
(* the emulator up to a chip call where the emulator returns an error      *)
(* (KECCAK_PTR_LIMIT and its like, research/src/emulator.rs), and a run    *)
(* that makes no such call is a run of the emulator.                       *)
THEOREM EveryRunIsTheEmulators == AnyRun => RowsAreSteps
<1>1. Init /\ TypeInv /\ ProgramInv => TableInv /\ RunInv /\ Emulator!Init
  BY InitKeeps, InitRuns
<1>2. TableInv /\ RunInv /\ [Next]_vars =>
        /\ TableInv' /\ RunInv' /\ [Emulator!Next \/ RefusedChip]_(Emulator!vars)
        /\ ChipsWithinLimit' => [Emulator!Next]_(Emulator!vars)
  BY StepRuns
<1>3. [RefusedChip => ~Emulator!CanStep]_(Emulator!vars)  BY RefusedIsAnError
<1> QED BY <1>1, <1>2, <1>3, PTL DEF AnyRun, RowsAreSteps, ImplementsEmulator, Emulator!Spec

\* What it means that a proof verifies against a program and public words: the
\* emulator has halted, over just these, with the outputs and within the gas.
VerifiedRun(p, words) ==
  proof # None /\ Verifies(proof, p, words) =>
    /\ table = p /\ pubs = words /\ Halted
    /\ \E salt \in Salts : proof.pinned["indigest"] = InputDigest(salt, tape)
    /\ proof.out = [s \in 0..(NumOutputs - 1) |-> IF s \in DOMAIN outs THEN outs[s] ELSE <<0>>]
    /\ Gas <= proof.gas
EveryProofIsOfARun ==
  \A p \in [base : Nat, words : Seq(Cells)], words \in Seq(Cells) : VerifiedRun(p, words)

(* Soundness of the machine's proofs: the emulator's state follows the rows *)
(* by its own steps and by chip calls past its limit, if the run makes any, *)
(* and when a proof verifies that state is a halted one, on the verifier's  *)
(* program and public words and on inputs whose digest is published, with   *)
(* the published outputs and within the declared gas                        *)
(* (Machine::verify_public, research/src/machine.rs).                       *)
THEOREM VerifiedRunsAreTheEmulators == AnyRun => RowsAreSteps /\ []EveryProofIsOfARun
<1>1. Init /\ TypeInv /\ ProgramInv => TableInv  BY InitKeeps
<1>2. TableInv /\ [Next]_vars => TableInv'  BY NextKeeps
<1>3. TableInv => EveryProofIsOfARun
  <2> SUFFICES ASSUME TableInv, NEW p \in [base : Nat, words : Seq(Cells)],
                      NEW words \in Seq(Cells), proof # None, Verifies(proof, p, words)
               PROVE  VerifiedRun(p, words)
    BY DEF EveryProofIsOfARun, VerifiedRun
  <2>1. /\ table = p /\ pubs = words
        /\ \E salt \in Salts : proof.pinned["indigest"] = InputDigest(salt, tape)
        /\ proof.out = [s \in 0..(NumOutputs - 1) |->
                          IF s \in DOMAIN outs THEN outs[s] ELSE <<0>>]
        /\ row.gas <= proof.gas
    BY InvBinds DEF Binds
  <2>2. row.kind = "instr" /\ row.sys = "halt"  BY DEF TableInv, ProofInv
  <2>3. Halted /\ Gas = row.gas  BY <2>2 DEF Halted, Gas, InPrefix, Regions
  <2> QED BY <2>1, <2>3 DEF VerifiedRun
<1> QED BY <1>1, <1>2, <1>3, EveryRunIsTheEmulators, PTL DEF AnyRun

=============================================================================
