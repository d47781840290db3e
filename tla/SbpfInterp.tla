----------------------------- MODULE SbpfInterp -----------------------------
(***************************************************************************)
(* The interpreter (sbpf-core's interp.rs and syscalls.rs): fetch, meter,  *)
(* dispatch, one instruction a step.  Its state is the record m: pc, regs, *)
(* mem, heap (the allocator's cursor), frames, meter and halt.  sol_sha256 *)
(* and the syscalls that only log, but for sol_log_, are left out.         *)
(***************************************************************************)
EXTENDS SbpfCode

CONSTANT Chunk          \* CHUNK, in cells
ASSUME ChunkAssumption == Chunk \in Nat \ {0}

VARIABLE m

InterpInit(input) ==
  m = [pc |-> prog.entry, regs |-> FirstRegs, mem |-> FirstMem(input), heap |-> 0,
       frames |-> <<>>, meter |-> 0, halt |-> <<>>]

\* Goes on at pc, unless something before it halted.
To(s, pc) == IF Ran(s) THEN [s EXCEPT !.pc = pc % W] ELSE s
\* As To, where the target is fetched in the same step.
ToCode(s, pc) == IF ~Ran(s) \/ InText(pc % W) THEN To(s, pc) ELSE Halt(s, BadJump)

-----------------------------------------------------------------------------
(* The syscalls whose algorithm is the interpreter's own (syscalls.rs).    *)

\* A chunk is read whole before it is written; from the back if the target is the
\* higher of two overlapping ranges.
CopiedInChunks(mem, dst, src, n) ==
  LET backwards == dst > src /\ ~Nonoverlapping(dst, src, n)
      at(done, k) == IF backwards THEN n - done - k ELSE done
      chunk(was, o, k) == Written(was, dst + o, [x \in 1..k |-> Cell(was, src + o + x - 1)])
      next(was, done, k) == chunk(was, at(done, k), k)
  IN  FoldLeft(LAMBDA was, j : next(was, j * Chunk, Min({Chunk, n - j * Chunk})), mem,
               [j \in 1..((n + Chunk - 1) \div Chunk) |-> j - 1])

\* A size is taken as a usize, and only its check as a u64 keeps a wide one out.
Alloc(s, size) ==
  LET base == Aligned(s.heap)
      end == base + Low(size)
  IN  IF end <= HeapCells /\ size <= HeapCells
      THEN Returns([s EXCEPT !.heap = end], 3 * U32 + base)
      ELSE Returns(s, 0)

Dispatch(s, hash) ==
  LET call == Named(hash)
      r == s.regs
  IN  IF call = "alloc_free" THEN IF r[2] # 0 THEN Returns(s, 0) ELSE Alloc(s, r[1])
      ELSE LET t == Checked(s, call, hash)
           IN  IF Ran(t) /\ call \in Copies
               THEN [t EXCEPT !.mem = CopiedInChunks(@, r[1], r[2], r[3])] ELSE t

-----------------------------------------------------------------------------
(* Calls.                                                                  *)

PushFrame(s) ==
  LET frame == [ret |-> s.pc + 1, saved |-> [r \in 6..9 |-> s.regs[r]], fp |-> s.regs[10]]
      pushed == [s EXCEPT !.frames = Append(@, frame)]
  IN  IF Len(pushed.frames) = MaxDepth THEN Halt(pushed, <<"depth", 0>>)
      ELSE [pushed EXCEPT !.regs[10] = (@ + Frame) % W]

Exit(s) ==
  IF s.frames = <<>> THEN Halt(s, <<"exit", s.regs[0]>>)
  ELSE LET f == Last(s.frames)
       IN  ToCode([s EXCEPT !.frames = Front(@),
                            !.regs = [r \in 0..10 |-> IF r = 10 THEN f.fp
                                                      ELSE IF r \in 6..9 THEN f.saved[r] ELSE @[r]]],
                  f.ret)

-----------------------------------------------------------------------------
\* The arm of i, at s.pc, with its meter tick taken.
Arm(s, i) ==
  CASE i.k = "lddw" ->
         IF InText(s.pc + 1) THEN To(SetReg(s, i.dst, Imm64(s.pc)), s.pc + 2) ELSE Halt(s, BadJump)
    [] i.k \in Plain -> To(Moved(s, i), s.pc + 1)
    [] i.k = "ja" -> To(s, s.pc + 1 + i.off)
    [] i.k = "jcc" -> To(s, s.pc + 1 + (IF Taken(s, i) THEN i.off ELSE 0))
    [] i.k = "call" /\ i.src = 1 -> To(Dispatch(s, i.imm), s.pc + 1)
    [] i.k = "call" /\ i.src = 0 -> ToCode(PushFrame(s), s.pc + 1 + i.imm)
    [] i.k = "callx" /\ i.imm \in 0..10 -> ToCode(PushFrame(s), CallXTarget(s.regs[i.imm]))
    [] i.k = "exit" -> Exit(s)
    [] OTHER -> BadInsn(s, i)

Step(s) ==
  IF s.meter = prog.limit THEN Halt(s, <<"limit", 0>>)
  ELSE LET t == [s EXCEPT !.meter = @ + 1]
       IN  IF ~InText(s.pc) THEN Halt(t, BadJump)
           ELSE IF BadRegister(Insn(s.pc)) THEN BadInsn(t, Insn(s.pc))
           ELSE Arm(t, Insn(s.pc))

InterpStep == Ran(m) /\ m' = Step(m)
=============================================================================
