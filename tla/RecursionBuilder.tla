------------------------ MODULE RecursionBuilder ------------------------
(***************************************************************************)
(* The recursion DSL's builder (recursion/src/dsl/builder.rs) up to its    *)
(* replay: every call buffers operations over handles, which are numbered  *)
(* in the order they are defined and stand for one field element or, for   *)
(* an extension element, two.  No register is named yet.                   *)
(*                                                                         *)
(* A reference of a buffered instruction is a handle's home, the output of *)
(* an earlier materialise, a scratch slot of the group, a register of its  *)
(* own, or an immediate.                                                   *)
(***************************************************************************)
EXTENDS RecursionVm, FiniteSets, Functions, SequencesExt, FiniteSetsExt

CONSTANTS
    MemBase,    \* MEM_BASE: the first cell of a program, above the spills
    NumScratch  \* the length of SCRATCH, the registers no handle gets

ASSUME ArenaAssumption == MemBase \in 0 .. MemLimit - 1 /\ NumScratch \in Nat

ZeroHandle == 0
Home(id, lane) == <<"home", id, lane>>
Mat(entry, lane) == <<"mat", entry, lane>>
ScratchRef(sym) == <<"scratch", sym, 0>>
Raw(reg) == <<"raw", reg, 0>>
Imm(v) == <<"imm", v % P, 0>>

(* with_opts: whether handles die, and whether HINTN, SPONGE and COMPRESS  *)
(* are used.                                                               *)
NewBuilder(live, precompiles) ==
    [ops |-> <<>>, width |-> <<>>, mutable |-> {}, scratch |-> 0, nextCell |-> MemBase,
     hash |-> <<>>, layout |-> <<>>, refused |-> FALSE, live |-> live, precompiles |-> precompiles]

-----------------------------------------------------------------------------
Put(b, o) == [b EXCEPT !.ops = Append(@, o)]
Begin(b) == [Put(b, [kind |-> "group"]) EXCEPT !.scratch = 0]
Emit(b, op, rd, ra, rb) ==
    Put(b, [kind |-> "instr", op |-> op, rd |-> rd, ra |-> ra, b |-> rb, target |-> 0])

(* The reference to a handle is that of the entry which materialises it.   *)
Materialise(b, id) == IF id = ZeroHandle THEN b ELSE Put(b, [kind |-> "mat", id |-> id])
RefOf(b, id) == IF id = ZeroHandle THEN Raw(0) ELSE Mat(Len(b.ops), 0)
Lane1(ref) == <<ref[1], ref[2], 1>>

(* The slots taken are those from b.scratch on. *)
TakeScratch(b, n) ==
    [Put(b, [kind |-> "scratch", n |-> n])
       EXCEPT !.scratch = @ + n, !.refused = @ \/ b.scratch + n > NumScratch]

Newest(b) == Len(b.width)
NewHandle(b, w) ==
    [Put(b, [kind |-> "def", id |-> Newest(b) + 1, width |-> w]) EXCEPT !.width = Append(@, w)]

(* One call for each element, up to a refused one. *)
Each(call(_, _), b0, s) ==
    LET b[k \in 0 .. Len(s)] ==
          IF k = 0 THEN b0
          ELSE LET c == b[k - 1] IN IF c.refused THEN c ELSE call(c, s[k])
    IN  b[Len(s)]

Target(b, at, to) == [b EXCEPT !.ops[at].target = to]

-----------------------------------------------------------------------------
(* Values. *)

(* One instruction that defines a handle of width w, of one operand or two. *)
Un(b0, op, x, v, w) ==
    LET b == Materialise(Begin(b0), x)
    IN  Emit(NewHandle(b, w), op, Home(Newest(b) + 1, 0), RefOf(b, x), Imm(v))
Bin(b0, op, x, y, w) ==
    LET b1 == Materialise(Begin(b0), x)
        b2 == Materialise(b1, y)
    IN  Emit(NewHandle(b2, w), op, Home(Newest(b2) + 1, 0), RefOf(b1, x), RefOf(b2, y))

Constant(b, v) == Un(b, "faddi", ZeroHandle, v, 1)
Hint(b) == Un(b, "hint", ZeroHandle, 0, 1)
HintExt(b) == Un(b, "hinte", ZeroHandle, 0, 2)

(* ext_constant, ext_lift, ext_from_parts: a handle of two instructions. *)
ExtConstant(b, c0, c1) ==
    Emit(Un(b, "faddi", ZeroHandle, c0, 2), "faddi", Home(Newest(b) + 1, 1), Raw(0), Imm(c1))
ExtFromParts(b0, x, y) ==
    LET b1 == Materialise(Begin(b0), x)
        b2 == Materialise(b1, y)
        id == Newest(b2) + 1
        b3 == Emit(NewHandle(b2, 2), "mov", Home(id, 0), RefOf(b1, x), Imm(0))
    IN  Emit(b3, "mov", Home(id, 1), RefOf(b2, y), Imm(0))
ExtLift(b, x) == ExtFromParts(b, x, ZeroHandle)

ExtParts(b0, x) ==
    LET b == Materialise(Begin(b0), x)
        id == Newest(b) + 1
        b1 == Emit(NewHandle(b, 1), "mov", Home(id, 0), RefOf(b, x), Imm(0))
    IN  Emit(NewHandle(b1, 1), "mov", Home(id + 1, 0), Lane1(RefOf(b, x)), Imm(0))

-----------------------------------------------------------------------------
(* Memory.  A pointer is the handle that holds its base, or the zero       *)
(* handle for an absolute one, its base, and what it adds to that.         *)

(* alloc gives Pointer(Newest, b.nextCell), alloc_absolute                 *)
(* Pointer(ZeroHandle, b.nextCell); both refuse what does not fit.         *)
Pointer(holder, base) == [holder |-> holder, base |-> base, delta |-> 0]
AllocAbsolute(b, n) ==
    [b EXCEPT !.nextCell = @ + n, !.refused = @ \/ b.nextCell + n > MemLimit]
Alloc(b, n) == AllocAbsolute(Constant(b, b.nextCell), n)
Offset(p, cells) == [p EXCEPT !.delta = @ + cells]

(* address: the immediate; the register is the holder's. *)
At(p, off) == IF p.holder = ZeroHandle THEN Imm(p.base + p.delta + off) ELSE Imm(p.delta + off)

Sized(w, one, two) == IF w = 1 THEN one ELSE two

(* load and load_ext; load_offset and load_ext_offset. *)
Load(b0, p, off, w) ==
    LET b == Materialise(Begin(b0), p.holder)
    IN  Emit(NewHandle(b, w), Sized(w, "load", "loade"),
             Home(Newest(b) + 1, 0), RefOf(b, p.holder), At(p, off))
LoadOffset(b, p, k, off, w) == Un(b, Sized(w, "load", "loade"), off, p.base + p.delta + k, w)

(* store and store_ext. *)
Store(b0, p, off, x, w) ==
    LET b1 == Materialise(Begin(b0), x)
        b2 == Materialise(b1, p.holder)
    IN  Emit(b2, Sized(w, "store", "storee"), RefOf(b1, x), RefOf(b2, p.holder), At(p, off))
StoreIndirect(b0, addr, x) ==
    LET b1 == Materialise(Begin(b0), addr)
        b2 == Materialise(b1, x)
    IN  Emit(b2, "store", RefOf(b2, x), RefOf(b1, addr), Imm(0))

Cells(n) == [k \in 1 .. n |-> k - 1]

(* copy_cells through one scratch register; with an absolute side, the     *)
(* other's holder is materialised for every cell.                          *)
CopyCell(b, rs, src, rd, dst, k) ==
    LET t == ScratchRef(b.scratch - 1)
    IN  Emit(Emit(b, "load", t, rs, At(src, k)), "store", t, rd, At(dst, k))
CopyCells(b0, dst, src, n) ==
    LET b1 == Materialise(Begin(b0), src.holder)
        b2 == Materialise(b1, dst.holder)
        copy(b, k) == CopyCell(b, RefOf(b1, src.holder), src, RefOf(b2, dst.holder), dst, k)
        again(b, k) ==
          LET c1 == Materialise(b, src.holder)
              c2 == Materialise(c1, dst.holder)
          IN  CopyCell(c2, RefOf(c1, src.holder), src, RefOf(c2, dst.holder), dst, k)
    IN  IF ZeroHandle \in {src.holder, dst.holder}
        THEN Each(again, TakeScratch(Begin(b0), 1), Cells(n))
        ELSE Each(copy, TakeScratch(b2, 1), Cells(n))

ZeroCells(b0, p, n) ==
    LET b1 == Materialise(Begin(b0), p.holder)
        zero(b, k) == Emit(b, "store", Raw(0), RefOf(b1, p.holder), At(p, k))
    IN  Each(zero, b1, Cells(n))

(* hint_array: n words of the tape into n fresh cells, in blocks, then two *)
(* at a time, then one.                                                    *)
HintInto(b0, rp, n) ==
    LET one == ScratchRef(b0.scratch)
        two == ScratchRef(b0.scratch + 1)
        block(b, j) == Emit(b, "hintn", Raw(0), rp, Imm(Block * j))
        pair(b, k) == Emit(Emit(b, "hinte", two, Raw(0), Imm(0)), "storee", two, rp, Imm(k))
        single(b, k) == Emit(Emit(b, "hint", one, Raw(0), Imm(0)), "store", one, rp, Imm(k))
        b1 == TakeScratch(b0, 1)
        blocks == n \div Block
        pairs == (n % Block) \div 2
        b2 == TakeScratch(Each(block, b1, Cells(blocks)), 2)
        b3 == Each(pair, b2, [k \in 1 .. pairs |-> Block * blocks + 2 * (k - 1)])
    IN  IF ~b0.precompiles THEN Each(single, b1, Cells(n))
        ELSE IF n % Block = 2 * pairs THEN b3
        ELSE single(b3, n - 1)
HintArray(b0, n) ==
    LET b == Materialise(Begin(Alloc(b0, n)), Newest(b0) + 1) IN HintInto(b, Mat(Len(b.ops), 0), n)

-----------------------------------------------------------------------------
(* Hashing. *)

AddrOf(p) == p.base + p.delta

(* hash_scratch: the cells the hash layer works in, allocated once. *)
HashScratch(b) ==
    IF b.hash # <<>> THEN b
    ELSE [Alloc(b, 2 * Width) EXCEPT !.hash = <<Pointer(Newest(b) + 1, b.nextCell)>>]

(* The register a pointer's address is in, its delta added first. *)
PtrReg(b, p) ==
    LET held == Materialise(b, p.holder)
        t == ScratchRef(held.scratch)
        ref == RefOf(held, p.holder)
    IN  IF p.holder # ZeroHandle /\ p.delta = 0 THEN [b |-> held, ref |-> ref]
        ELSE [b |-> Emit(TakeScratch(held, 1), "faddi", t, ref, At(p, 0)), ref |-> t]

Poseidon2(b, p) ==
    LET r == PtrReg(Begin(b), p) IN Emit(r.b, "poseidon2", Raw(0), r.ref, Imm(0))
SpongeAbsorb(b, state, src) ==
    LET r == PtrReg(Begin(b), state) IN Emit(r.b, "sponge", Raw(0), r.ref, Imm(AddrOf(src)))
CompressStep(b, state, sib, bit) ==
    LET r == PtrReg(Begin(b), state)
        m == Materialise(r.b, bit)
    IN  Emit(m, "compress", RefOf(m, bit), r.ref, Imm(AddrOf(sib)))

-----------------------------------------------------------------------------
(* The long instructions. *)

(* reduce: a chain's runs back to back, each with its layout entry. *)
Reduce(b0, runs, alpha, res) ==
    LET entry(j) == [vals |-> AddrOf(runs[j].vals), row |-> AddrOf(runs[j].row), len |-> runs[j].len,
                     key |-> AddrOf(runs[j].key), alpha |-> AddrOf(alpha), res |-> AddrOf(res),
                     start |-> j = 1, carry |-> j < Len(runs)]
        run(b, j) == [Emit(Begin(b), "reduce", Raw(0), Raw(0), Imm(Len(b.layout)))
                        EXCEPT !.layout = Append(@, entry(j))]
    IN  Each(run, b0, [j \in DOMAIN runs |-> j])

(* fold_run and pow_run: a pair read through rd, a result read back. *)
FoldRun(b0, msg, arity, u) ==
    LET b == Materialise(Begin(b0), u)
        r == PtrReg(b, msg)
    IN  Load(Emit(r.b, "fold", RefOf(b, u), r.ref, Imm(arity)), msg, 2 * arity + SaltCells, 2)
PowRun(b0, bits, off, len, g, base) ==
    LET b1 == ExtConstant(b0, g, base)
        b2 == Materialise(Begin(b1), Newest(b1))
        r == PtrReg(b2, bits)
    IN  Load(Emit(r.b, "pow", RefOf(b2, Newest(b1)), r.ref, Imm(off + PowRadix * len)), bits, PowBits, 1)

(* A load whose value goes nowhere bounds its address. *)
RangeLoad(b0, v, off) ==
    LET b == Materialise(Begin(b0), v) IN Emit(b, "load", Raw(0), RefOf(b, v), Imm(off))

EmitAll(b, rows) == Each(LAMBDA c, r : Emit(c, r[1], r[2], r[3], r[4]), b, rows)

-----------------------------------------------------------------------------
(* Control. *)

Trap(b) == Emit(b, "inv", Raw(1), Raw(0), Imm(0))

(* assert_eq, and assert_zero where y is the zero handle: a branch over    *)
(* the trap, to whatever comes next.                                       *)
AssertEq(b0, x, y) ==
    LET b1 == Materialise(Begin(b0), x)
        b2 == Materialise(b1, y)
        b3 == Emit(b2, "jeq", RefOf(b1, x), RefOf(b2, y), Imm(0))
    IN  Trap(Target(b3, Len(b3.ops), Len(b3.ops) + 2))

AssertNonzero(b0, x) ==
    LET b1 == Materialise(Begin(b0), x)
        t == ScratchRef(b1.scratch)
    IN  Emit(TakeScratch(b1, 1), "inv", t, RefOf(b1, x), Imm(0))

(* if_eq, up to its body and from it.  The branch, which is entry at,      *)
(* lands on the group after the body.                                      *)
IfTop(b0, x, y) ==
    LET b1 == Materialise(Begin(b0), x)
        b2 == Materialise(b1, y)
    IN  Put(Emit(b2, "jne", RefOf(b1, x), RefOf(b2, y), Imm(0)), [kind |-> "branchtop"])
IfEnd(b0, at) ==
    LET b == Begin(Put(b0, [kind |-> "branchend"]))
    IN  Target(b, at, Len(b.ops))

(* counted_loop: the counter is a handle, decremented in place.            *)
LoopTop(b0, n) ==
    LET b == Un(b0, "mov", n, 0, 1)
    IN  Put([b EXCEPT !.mutable = @ \cup {Newest(b)}], [kind |-> "looptop"])
LoopEnd(b0, top, ctr) ==
    LET b1 == Begin(Put(b0, [kind |-> "loopend"]))
        b2 == Emit(b1, "faddi", Home(ctr, 0), Home(ctr, 0), Imm(P - 1))
        b3 == Emit(b2, "jne", Home(ctr, 0), Raw(0), Imm(0))
    IN  Target(b3, Len(b3.ops), top + 1)

(* counted_loop_mem: the counter is a cell, and the back edge is inside    *)
(* the markers.                                                            *)
MemLoopTop(b, cell, n) == Put(Store(b, cell, 0, n, 1), [kind |-> "looptop"])

(* The cell's reload, decrement and store, and the branch. *)
BackEdge(b0, top, cell) ==
    LET b1 == Load(b0, cell, 0, 1)
        b2 == Un(b1, "faddi", Newest(b1), P - 1, 1)
        dec == Newest(b2)
        b3 == Materialise(Begin(Store(b2, cell, 0, dec, 1)), dec)
        b4 == Emit(b3, "jne", RefOf(b3, dec), Raw(0), Imm(0))
    IN  Target(b4, Len(b4.ops), top + 1)

(* Mutation: the back edge comes after the loop's end marker. *)
MemLoopEnd_EdgeOutside(b, top, cell) == BackEdge(Put(b, [kind |-> "loopend"]), top, cell)

MemLoopEnd(b, top, cell) == Put(BackEdge(b, top, cell), [kind |-> "loopend"])

(* public and public_ext. *)
Public(b0, x) ==
    LET b == Materialise(Begin(b0), x)
        b1 == Emit(b, "public", Raw(0), RefOf(b, x), Imm(0))
    IN  IF x = ZeroHandle \/ b.width[x] = 1 THEN b1
        ELSE Emit(b1, "public", Raw(0), Lane1(RefOf(b, x)), Imm(0))

Halt(b) == Emit(b, "halt", Raw(0), Raw(0), Imm(0))
=========================================================================
