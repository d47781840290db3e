----------------------------- MODULE DslHash ----------------------------
(***************************************************************************)
(* The hashes of the inner proof system as sequences of the DSL            *)
(* (recursion/src/dsl/hash.rs): the padding-free leaf sponge, the seeded   *)
(* and the staged one, the compressor and the Merkle walk.  A digest is    *)
(* the pointer to its Rate cells.  With precompiles a block is one SPONGE  *)
(* and a level one COMPRESS, without them it is copies, arithmetic and     *)
(* POSEIDON2.                                                              *)
(***************************************************************************)
EXTENDS RecursionBuilder

(* The lanes the first block does not reach start at zero, none later. *)
Fresh(b, st, n) ==
    LET first == Min({n, Rate}) IN ZeroCells(b, Offset(st, first), Width - first)

(* A partial block is copied over its own lanes and permuted. *)
Partial(b, st, src, n) == Poseidon2(CopyCells(b, st, src, n), st)

AbsorbBlocks(b0, st, src, n) ==
    LET whole == n - (n % Rate)
        b1 == Each(LAMBDA b, j : SpongeAbsorb(b, st, Offset(src, Rate * j)), b0, Cells(n \div Rate))
    IN  IF whole = n THEN b1 ELSE Partial(b1, st, Offset(src, whole), n - whole)
AbsorbCompiled(b0, st, src, n) ==
    Each(LAMBDA b, j : Partial(b, st, Offset(src, Rate * j), Min({n - Rate * j, Rate})),
             b0, Cells((n + Rate - 1) \div Rate))

(* Mutation: the rest of the rate is zeroed under a partial block. *)
Absorb_Padded(b, st, src, n) ==
    LET tail == n % Rate
        whole == AbsorbBlocks(b, st, src, n - tail)
    IN  IF tail = 0 THEN whole
        ELSE Partial(ZeroCells(whole, st, Rate), st, Offset(src, n - tail), tail)

Absorb(b, st, src, n) == IF b.precompiles THEN AbsorbBlocks(b, st, src, n) ELSE AbsorbCompiled(b, st, src, n)

(* sponge and, without precompiles, sponge_compiled. *)
Sponge(b0, src, n, out) ==
    LET b == HashScratch(b0)
        st == b.hash[1]
    IN  CopyCells(Absorb(Fresh(b, st, n), st, src, n), out, st, Rate)

(* In a state of the caller's, with the digest left in its rate. *)
SpongeState(b, st, src, n) ==
    IF b.precompiles THEN Absorb(Fresh(b, st, n), st, src, n) ELSE Sponge(b, src, n, st)

(* The domain and the length in the capacity. *)
SpongeSeeded(b0, domain, src, n, out) ==
    LET b1 == HashScratch(b0)
        st == b1.hash[1]
        b2 == Constant(ZeroCells(b1, st, Rate), domain)
        b3 == Constant(Store(b2, st, Rate, Newest(b2), 1), n)
        b4 == ZeroCells(Store(b3, st, Rate + 1, Newest(b3), 1), Offset(st, Rate + 2), Rate - 2)
    IN  CopyCells(Absorb(b4, st, src, n), out, st, Rate)

CompressIntoState(b0, left, right) ==
    LET b == HashScratch(b0)
        st == b.hash[1]
    IN  Poseidon2(CopyCells(CopyCells(b, st, left, Rate), Offset(st, Rate), right, Rate), st)

Same(p, q) == AddrOf(p) = AddrOf(q)

Compress(b, left, right, out) ==
    IF b.precompiles /\ ~Same(out, right)
    THEN CompressStep(IF Same(out, left) THEN b ELSE CopyCells(b, out, left, Rate), out, right, ZeroHandle)
    ELSE LET c == CompressIntoState(b, left, right) IN CopyCells(c, out, c.hash[1], Rate)

(* One word into a running sponge: a full block is permuted when the next  *)
(* word comes, so one block is always pending.                             *)
AtEnd(b0, st, cursor) ==
    LET b == Constant(Load(b0, cursor, 0, 1), AddrOf(st) + Rate) IN IfTop(b, Newest(b) - 1, Newest(b))
BlockPermuted(top, st, cursor) ==
    LET b == Constant(Poseidon2(top, st), AddrOf(st))
    IN  IfEnd(Store(b, cursor, 0, Newest(b), 1), Len(top.ops) - 1)
WordStaged(b0, cursor, v) ==
    LET b == Load(b0, cursor, 0, 1)
        next == Un(StoreIndirect(b, Newest(b), v), "faddi", Newest(b), 1, 1)
    IN  Store(next, cursor, 0, Newest(next), 1)
AbsorbStaged(b, st, cursor, v) == WordStaged(BlockPermuted(AtEnd(b, st, cursor), st, cursor), cursor, v)

-----------------------------------------------------------------------------
(* The two children in the order of the bit, without a handle. *)
SelectChildren(b0, st, sib, bit) ==
    LET b1 == Materialise(Begin(b0), bit)
        b2 == Materialise(b1, st.holder)
        b3 == Materialise(b2, sib.holder)
        rst == RefOf(b2, st.holder)
        d == ScratchRef(b3.scratch)
        s == ScratchRef(b3.scratch + 1)
        m == ScratchRef(b3.scratch + 2)
        lane(k) == << <<"load", d, rst, At(st, k)>>,
                      <<"load", s, RefOf(b3, sib.holder), At(sib, k)>>,
                      <<"fsub", m, s, d>>,
                      <<"fmul", m, RefOf(b1, bit), m>>,
                      <<"fsub", s, s, m>>,
                      <<"fadd", d, d, m>>,
                      <<"store", d, rst, At(st, k)>>,
                      <<"store", s, rst, At(st, Rate + k)>> >>
    IN  Each(LAMBDA b, k : EmitAll(b, lane(k)), TakeScratch(b3, 3), Cells(Rate))

(* A walk consumes its leaf.  An injection is the cells of all matrices of *)
(* the height reached after a level, so there is at most one for a level;  *)
(* the leaf overlaps neither them nor the siblings nor the hash scratch.   *)
InjectionOf(rows, n) == [rows |-> rows, n |-> n]

LevelOn(b, leaf, bit, sibling, injected) ==
    LET c == CompressStep(b, leaf, sibling, bit)
        st == b.hash[1]
    IN  IF injected = <<>> THEN c
        ELSE CompressStep(SpongeState(c, st, injected[1].rows, injected[1].n), leaf, st, ZeroHandle)

(* The running digest is in the scratch's lanes, and steps aside for an    *)
(* injection's sponge.                                                     *)
LevelOff(b, bit, sibling, injected) ==
    LET st == b.hash[1]
        c == Poseidon2(SelectChildren(b, st, sibling, bit), st)
        aside == Offset(st, Width)
        tmp == Offset(st, Width + Rate)
    IN  IF injected = <<>> THEN c
        ELSE CompressIntoState(Sponge(CopyCells(c, aside, st, Rate), injected[1].rows, injected[1].n, tmp), aside, tmp)

MerkleWalk(b0, leaf, bits, siblings, injections) ==
    LET b == HashScratch(b0)
        st == b.hash[1]
        sibling(l) == Offset(siblings, Rate * l)
        injected(l) == IF l \in DOMAIN injections THEN <<injections[l]>> ELSE <<>>
        on(c, l) == LevelOn(c, leaf, bits[l + 1], sibling(l), injected(l))
        off(c, l) == LevelOff(c, bits[l + 1], sibling(l), injected(l))
        levels == Cells(Len(bits))
    IN  IF b.precompiles THEN Each(on, b, levels)
        ELSE CopyCells(Each(off, CopyCells(b, st, leaf, Rate), levels), leaf, st, Rate)

(* The cap's entry at the two bits that are left, read by address. *)
EntryEquals(b0, got, caps, at) ==
    LET check(b, k) ==
          LET c == Load(LoadOffset(b, caps, k, at, 1), got, k, 1)
          IN  AssertEq(c, Newest(c), Newest(c) - 1)
    IN  Each(check, b0, Cells(Rate))
AssertCapEntry(b0, got, caps, lo, hi) ==
    LET b1 == Un(Un(b0, "fmuli", lo, Rate, 1), "fmuli", hi, 2 * Rate, 1)
        at == Newest(b1) + 1
    IN  EntryEquals(Bin(b1, "fadd", at - 2, at - 1, 1), got, caps, at)

-----------------------------------------------------------------------------
(* The Fiat-Shamir transcript as a sequence of the DSL                     *)
(* (recursion/src/dsl/transcript.rs).  The lengths of the two buffers are  *)
(* known when the program is built, so they hold handles and only the      *)
(* duplexing is emitted.  A transcript t carries its builder; the handle   *)
(* a draw returns is t.got.  sample_index_bits is left out: its range      *)
(* argument needs an address space of at least 2^8 cells and less than a   *)
(* limb, which no field this small has.                                    *)

CONSTANT Limb           \* the order is 2^(2 * Limb) - 2^Limb + 1; 32 in the code
ASSUME LimbAssumption == Limb \in Nat \ {0} /\ P = 2 ^ (2 * Limb) - 2 ^ Limb + 1

NewChallenger(b0) ==
    LET state == Pointer(Newest(b0) + 1, b0.nextCell)
    IN  [b |-> ZeroCells(Alloc(b0, Width), state, Width), state |-> state,
         buffered |-> <<>>, output |-> <<>>, got |-> ZeroHandle]

(* An absorb clears the rest of the rate and adds its length to the        *)
(* capacity; a squeeze permutes the state as it stands.                    *)
Tagged(b0, state, k) ==
    LET b1 == Load(ZeroCells(b0, Offset(state, k), Rate - k), state, Rate, 1)
        b2 == Un(b1, "faddi", Newest(b1), k, 1)
    IN  Store(b2, state, Rate, Newest(b2), 1)
Squeezed(t) ==
    [t EXCEPT !.b = Each(LAMBDA b, i : Load(b, t.state, i, 1), @, Cells(Rate)), !.buffered = <<>>,
              !.output = [i \in 1 .. Rate |-> Newest(t.b) + i]]
Duplex(t) ==
    LET k == Len(t.buffered)
        stored == Each(LAMBDA b, i : Store(b, t.state, i, t.buffered[i + 1], 1), t.b, Cells(k))
        permuted == Poseidon2(IF k = 0 THEN stored ELSE Tagged(stored, t.state, k), t.state)
    IN  Squeezed([t EXCEPT !.b = permuted])

Flushed(t) == IF Len(t.buffered) = Rate THEN Duplex(t) ELSE t
Observe(t, v) == Flushed([t EXCEPT !.output = <<>>, !.buffered = Append(@, v)])

ObserveExt(t, x) ==
    LET b == ExtParts(t.b, x)
    IN  Observe(Observe([t EXCEPT !.b = b], Newest(b) - 1), Newest(b))
ObserveLoad(t, d, k) == LET b == Load(t.b, d, k, 1) IN Observe([t EXCEPT !.b = b], Newest(b))
ObserveDigest(t, d) == FoldLeft(LAMBDA u, k : ObserveLoad(u, d, k), t, Cells(Rate))
ObserveUsize(t, v) ==
    LET b == Constant(t.b, v) IN Observe(Observe([t EXCEPT !.b = b], Newest(b)), ZeroHandle)

(* The rate is handed out from its back. *)
Drawn(t) == [t EXCEPT !.output = Front(@), !.got = Last(t.output)]
Sample(t) == Drawn(IF t.buffered # <<>> \/ t.output = <<>> THEN Duplex(t) ELSE t)

Joined(t, first) == [t EXCEPT !.b = ExtFromParts(@, first, t.got), !.got = Newest(t.b) + 1]
SampleExt(t) == LET c == Sample(t) IN Joined(Sample(c), c.got)

-----------------------------------------------------------------------------
(* sample_bits: the 2 * Limb hinted bits of a sampled element. *)

(* An operation on x and the newest handle, and an assertion about it. *)
WithNewest(b, op, x) == Bin(b, op, x, Newest(b), 1)
NewestEquals(b, x) == AssertEq(b, Newest(b), x)

Boolean(b, bit) == NewestEquals(WithNewest(Un(b, "faddi", bit, P - 1, 1), "fmul", bit), ZeroHandle)

(* From the top, the newest handle is the sum so far. *)
Horner(b0, bits) ==
    LET n == Len(bits)
        top == Un(b0, "fmuli", bits[n], 2, 1)
        sum(b, k) == Bin(b, "fadd", Newest(b), bits[n - k], 1)
        double(b) == Un(b, "fmuli", Newest(b), 2, 1)
    IN  Each(LAMBDA b, k : sum(double(b), k + 1), sum(top, 1), [k \in 1 .. n - 2 |-> k])

(* The bits are the canonical ones: of two decompositions of one element,  *)
(* the other has its high limb all ones and its low limb not zero.         *)
NotBoth(b, lo, allHi) ==
    LET checked == NewestEquals(WithNewest(b, "fmul", lo), lo)
    IN  NewestEquals(Bin(checked, "fmul", allHi, Newest(b), 1), ZeroHandle)
Canonical(b, lo, allHi) == NotBoth(WithNewest(Hint(b), "fmul", lo), lo, allHi)

AllOnes(b0, bits) ==
    Each(LAMBDA b, bit : Bin(b, "fmul", Newest(b), bit, 1),
         Bin(b0, "fmul", bits[1], bits[2], 1), SubSeq(bits, 3, Len(bits)))

(* The limbs make up x; the newest handle is whether the high one is full. *)
MakeUp(b, low, high, x) ==
    LET shifted == Un(Canonical(b, low, Newest(b)), "fmuli", high, 2 ^ Limb, 1)
    IN  NewestEquals(WithNewest(shifted, "fadd", low), x)
Decomposed(b0, bits, x) ==
    LET lo == SubSeq(bits, 1, Limb)
        hi == SubSeq(bits, Limb + 1, 2 * Limb)
        b1 == Horner(Each(Boolean, b0, bits), lo)
        b2 == Horner(b1, hi)
    IN  MakeUp(AllOnes(b2, hi), Newest(b1), Newest(b2), x)

WithBits(t, bits) ==
    [t EXCEPT !.b = Decomposed(Each(LAMBDA b, k : Hint(b), @, bits), bits, t.got), !.got = bits]
SampleBits(t0) ==
    LET t == Sample(t0) IN WithBits(t, [k \in 1 .. 2 * Limb |-> Newest(t.b) + k])

(* The low bits after a witness of work are zero; none are asked for, none *)
(* is observed.                                                            *)
LowBitsZero(t, bits) ==
    [t EXCEPT !.b = Each(LAMBDA b, k : AssertEq(b, t.got[k + 1], ZeroHandle), @, Cells(bits))]
CheckWitness(t, bits, w) ==
    IF bits = 0 THEN t ELSE LowBitsZero(SampleBits(Observe(t, w)), bits)
=========================================================================
