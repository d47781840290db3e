----------------------------- MODULE SbpfRuntime -----------------------------
(***************************************************************************)
(* The translated program as the C that emit.rs puts out runs over         *)
(* sbpf_rt.c: one function per host, one label per block, one statement    *)
(* per instruction.  Its state is the record c: the host and block it is   *)
(* in, i the next statement (0: the block's charge), regs, mem, heap,      *)
(* frames (what each C call holds of its caller), budget and halt.         *)
(***************************************************************************)
EXTENDS SbpfLift

VARIABLES emitted,     \* what the emitter made of prog
          c

RuntimeInit(input) ==
  /\ emitted = <<>>
  /\ c = [host |-> prog.entry, at |-> prog.entry, i |-> 0, regs |-> FirstRegs, mem |-> FirstMem(input),
          heap |-> 0, frames |-> <<>>, budget |-> prog.limit, halt |-> <<>>]

Translated == emitted # <<>>
Translate ==
  /\ ~Translated
  /\ emitted' = EmitProgram
  /\ c' = [c EXCEPT !.host = emitted'.host[prog.entry]]

Block == emitted.blocks[c.host][c.at]
InBody == c.i \in DOMAIN Block.pcs
Here == Block.pcs[c.i]

Goto(s, pc) == [s EXCEPT !.at = pc, !.i = 0]
Trap(s, why) == Halt(s, why)

-----------------------------------------------------------------------------
(* Between instructions.                                                   *)

\* The head of a block: the charge, and unless it is deferred the check.
BlockHead ==
  /\ Ran(c) /\ c.i = 0
  /\ LET left == c.budget - Block.cost
         s == [c EXCEPT !.budget = left]
     IN  c' = IF Block.checked /\ left < 0 THEN Trap(s, <<"limit", 0>>) ELSE [s EXCEPT !.i = 1]

FallOn ==
  /\ Ran(c) /\ c.i = Len(Block.pcs) + 1 /\ Block.term = "fall"
  /\ c' = Goto(c, After(Last(Block.pcs)))

-----------------------------------------------------------------------------
(* Syscalls: a byte at a time, and a size that stays a u64.                *)

\* From the back if the target is the higher of two overlapping ranges.
CopiedInOrder(mem, dst, src, n) ==
  LET backwards == dst > src /\ ~Nonoverlapping(dst, src, n)
      at(x) == IF backwards THEN n - x ELSE x - 1
  IN  FoldLeft(LAMBDA was, x : Written(was, dst + at(x), <<Cell(was, src + at(x))>>), mem,
               [x \in 1..n |-> x])

AllocFree(s, size) ==
  LET base == Aligned(s.heap)
  IN  IF size > HeapCells \/ base + size > HeapCells THEN Returns(s, 0)
      ELSE Returns([s EXCEPT !.heap = base + size], 3 * U32 + base)

Syscall(s, hash) ==
  LET call == Named(hash)
      r == s.regs
  IN  IF call = "alloc_free" THEN IF r[2] # 0 THEN Returns(s, 0) ELSE AllocFree(s, r[1])
      ELSE LET t == Checked(s, call, hash)
           IN  IF Ran(t) /\ call \in Copies
               THEN [t EXCEPT !.mem = CopiedInOrder(@, r[1], r[2], r[3])] ELSE t

-----------------------------------------------------------------------------
(* Calls.                                                                  *)

TooDeep == Len(c.frames) + 1 = MaxDepth
DepthTrap == Trap(c, <<"depth", 0>>)

\* f called with its arguments: 0 for a register it is not passed, r10 a frame up.
Called(f, passed, copied) ==
  LET frame == [host |-> c.host, next |-> Edge(Here + 1), regs |-> c.regs, copied |-> copied]
      args == [r \in 0..10 |-> CASE r = 10 -> (c.regs[10] + Frame) % W
                                    [] r \in passed -> c.regs[r]
                                    [] OTHER -> 0]
  IN  Goto([c EXCEPT !.frames = Append(@, frame), !.regs = args, !.host = emitted.host[f]], f)

Call ==
  LET f == Target(Here)
  IN  IF TooDeep THEN DepthTrap ELSE Called(f, emitted.live[f], emitted.modified[f])

\* A slot too wide for the switch is no function's.
CallX ==
  LET slot == CallXTarget(c.regs[Insn(Here).imm])
  IN  IF TooDeep THEN DepthTrap
      ELSE IF slot >= U32 \/ slot \notin DOMAIN emitted.host THEN Trap(c, BadJump)
      ELSE Called(slot, emitted.callxPassed, emitted.callxCopied)

CallBadTarget == IF TooDeep THEN DepthTrap ELSE Trap(c, BadJump)

\* Back in the caller: its own registers, but for those copied back.
Return ==
  IF c.frames = <<>> THEN Halt(c, <<"exit", c.regs[0]>>)
  ELSE LET f == Last(c.frames)
           s == [c EXCEPT !.frames = Front(@),
                          !.regs = [r \in 0..10 |-> IF r \in f.copied THEN @[r] ELSE f.regs[r]]]
       IN  IF f.next = NoCode THEN Trap(s, BadJump) ELSE Goto([s EXCEPT !.host = f.host], f.next)

-----------------------------------------------------------------------------
Statement(i) ==
  LET s == IF i.k # "lddw" THEN Moved(c, i)
           ELSE IF InText(Here + 1) THEN SetReg(c, i.dst, Imm64(Here)) ELSE Trap(c, BadJump)
  IN  IF Ran(s) THEN [s EXCEPT !.i = @ + 1] ELSE s

Goes(t) == Goto(c, Edge(t))
Terminator(i) ==
  CASE i.k = "ja" -> Goes(Target(Here))
    [] i.k = "jcc" -> Goes(IF Taken(c, i) THEN Target(Here) ELSE Here + 1)
    [] i.k = "exit" -> Return
    [] i.k = "callx" -> CallX
    [] i.k = "call" /\ i.src = 1 ->
         LET s == Syscall(c, i.imm) IN IF Ran(s) THEN Goto(s, Edge(Here + 1)) ELSE s
    [] i.k = "call" /\ i.src = 0 -> IF Block.term = "badjump" THEN CallBadTarget ELSE Call

\* One instruction, or the fetch that fails after a block's last.
Op ==
  /\ Ran(c) /\ c.i > 0 /\ (InBody \/ Block.term = "badjump")
  /\ c' = IF ~InBody THEN Trap(c, BadJump)
          ELSE LET i == Insn(Here)
               IN  IF c.i = Len(Block.pcs) /\ Block.term = "badinsn" THEN BadInsn(c, i)
                   ELSE IF i.k \in Plain \cup {"lddw"} THEN Statement(i)
                   ELSE Terminator(i)
=============================================================================
