------------------------------- MODULE MCSbpf -------------------------------
(***************************************************************************)
(* A program run by the interpreter and, translated, as C: an instruction  *)
(* of one with the same instruction of the other, the heads and ends of    *)
(* blocks between them, and each alone once the other has halted.          *)
(***************************************************************************)
EXTENDS SbpfInterp, SbpfRuntime

vars == <<prog, emitted, m, c>>
SomeInput == <<11, 12, 13, 14, 15, 16>>

-----------------------------------------------------------------------------
(* Assembly: an immediate's form, and where a name ends in R a register's. *)

Form(k, op, size, reg, dst, src, off, imm) ==
  [k |-> k, op |-> op, size |-> size, reg |-> reg, dst |-> dst, src |-> src, off |-> off, imm |-> imm]
Alu_(op, d, k) == Form("alu", op, 2, FALSE, d, 0, 0, k)
Alu32(op, d, k) == Form("alu", op, 1, FALSE, d, 0, 0, k)
AluR(op, d, s) == Form("alu", op, 2, TRUE, d, s, 0, 0)
Mov(d, k) == Alu_("mov", d, k)
MovR(d, s) == AluR("mov", d, s)
Add(d, k) == Alu_("add", d, k)
Ldx(d, s, off, size) == Form("ldx", "", size, FALSE, d, s, off, 0)
St(d, off, k) == Form("st", "", 1, FALSE, d, 0, off, k)
StR(d, off, s, size) == Form("st", "", size, TRUE, d, s, off, 0)
Ja(off) == Form("ja", "", 1, FALSE, 0, 0, off, 0)
J(op, d, k, off) == Form("jcc", op, 1, FALSE, d, 0, off, k)
JR(op, d, s, off) == Form("jcc", op, 1, TRUE, d, s, off, 0)
CallImm(src, k) == Form("call", "", 1, FALSE, 0, src, 0, k)
Sys(n) == CallImm(1, n)
Callx(r) == Form("callx", "", 1, FALSE, 0, 0, 0, r)
ExitOp == Form("exit", "", 1, FALSE, 0, 0, 0, 0)
Unassigned(imm) == Form("zero", "", 1, FALSE, 0, 0, 0, imm)
Lddw(d, lo, hi) == <<Form("lddw", "", 1, FALSE, d, 0, 0, lo), Unassigned(hi)>>
SlotVa(d, slot) == Lddw(d, 2 * slot, 1)

Case(text, limit) == [text |-> text, data |-> <<>>, entry |-> 0, limit |-> limit]

-----------------------------------------------------------------------------
(* Programs.                                                               *)

\* What a call hands over and back: main sets r0, r2, r3 and r6, calls the function at
\* 14 or the one at 18, and stores what it has then.  The first may go on into the second,
\* call it, come back to its own entry, or call what is not a function.
Ops == {MovR(2, 3), Mov(3, 1), MovR(0, 2), AluR("add", 2, 6), Add(4, 2), Sys(2)}
Calls == {Callx(5), Callx(4), CallImm(0, 5)}
Tails == {<<ExitOp, ExitOp>>, <<CallImm(0, 1), ExitOp>>, <<Callx(4), ExitOp>>, <<Ja(1), Unassigned(0)>>,
          <<Mov(7, 0), Add(7, 1)>>, <<J("eq", 2, 5, -3), ExitOp>>, <<CallImm(0, -3), ExitOp>>}
Handover(call, a1, a2, tail, b) ==
  SlotVa(4, 18) \o SlotVa(5, 14)
  \o <<Mov(0, 2), Mov(2, 5), Mov(3, 7), Mov(6, 3), call, StR(1, 0, 0, 1), StR(1, 1, 2, 1), StR(1, 2, 3, 1),
       Mov(0, 0), ExitOp, a1, a2>> \o tail \o <<b, ExitOp>>
Handovers ==
  {Case(Handover(x[1], x[2], x[3], x[4], x[5]), 60) :
     x \in Calls \X Ops \X Ops \X Tails \X {MovR(2, 3), Mov(3, 1), Mov(6, 0)}}

\* Blocks against a limit at each of their instructions.
Loops ==
  {\* a loop of two short blocks, the first of which may defer its check
   <<Mov(2, 3), Add(2, -1), J("eq", 2, 9, 1), Mov(3, 1), J("ne", 2, 0, -4), Mov(0, 0), ExitOp>>,
   \* one block that is its own successor, a fault in the block after it
   <<Mov(2, 2), Add(2, -1), J("ne", 2, 0, -2), Ldx(3, 2, 0, 1), Mov(0, 0), ExitOp>>,
   \* branches either way to where they meet; a call in the middle of them
   <<J("eq", 1, 1, 2), Mov(2, 1), Ja(1), Mov(2, 2), CallImm(0, 3), Mov(3, 1), St(1, 0, 9), ExitOp,
     Mov(4, 1), J("eq", 2, 2, 1), Mov(4, 2), ExitOp>>,
   \* a function that calls itself to the depth there is, and one call fewer
   <<CallImm(0, -1), ExitOp>>,
   <<Mov(2, 1), CallImm(0, 1), ExitOp, J("eq", 2, 0, 2), Add(2, -1), CallImm(0, -3), ExitOp>>,
   \* no end but the limit
   <<Ja(0), Ja(-2)>>,
   \* blocks that end in a fetch past the text, in a bad instruction, in a syscall
   <<Mov(2, 1), J("ne", 2, 1, 7), Mov(3, 1)>>,
   <<Mov(2, 1), J("eq", 2, 1, 1), Mov(3, 1), Mov(4, 1), Unassigned(0)>>,
   <<Mov(1, 0), Sys(7), Sys(7), J("eq", 0, 0, 1), Mov(0, 0), Mov(0, 0), ExitOp>>,
   \* a function that falls into another, which has a block border there
   <<CallImm(0, 2), CallImm(0, 3), Mov(0, 0), Mov(2, 1), Mov(3, 1), Mov(4, 1), ExitOp>>}
Budgets == {Case(text, limit) : text \in Loops, limit \in 0..24}

\* What the scanner cannot follow, or follows twice.
Odd ==
  {\* a second slot that is an instruction: jumped to, and where both ways meet after it
   <<J("eq", 2, 0, 1), Lddw(3, 9, 1)[1], Mov(4, 1), StR(1, 0, 3, 1), StR(1, 1, 4, 1), Mov(0, 0), ExitOp>>,
   <<J("eq", 2, 1, 1), Lddw(3, 9, 1)[1], Mov(4, 1), StR(1, 0, 3, 1), StR(1, 1, 4, 1), Mov(0, 0), ExitOp>>,
   <<Ja(1)>> \o Lddw(3, 9, 1) \o <<ExitOp>>,
   \* one that is an lddw itself, whose constant is the address of the exit at 6
   <<Ja(2), Lddw(3, 0, 0)[1], Lddw(3, 12, 0)[1], Add(2, 1), Add(2, 75), Callx(2), ExitOp>>,
   \* targets outside the text, on either side of a branch and of a call
   <<Ja(-5)>>, <<J("ne", 2, 0, 9), Mov(0, 0), ExitOp>>, <<J("eq", 2, 0, 9), Mov(0, 0), ExitOp>>,
   <<CallImm(0, 1), ExitOp, CallImm(0, -7)>>, <<CallImm(0, 1), ExitOp, CallImm(0, 0), CallImm(0, 9)>>,
   \* a call in the last slot, of a function, of a syscall, of an address
   <<Ja(1), ExitOp, CallImm(0, -2)>>, <<Ja(1), ExitOp, Sys(7)>>,
   <<Ja(1), ExitOp>> \o SlotVa(5, 1) \o <<Callx(5)>>,
   \* an lddw cut short, and registers and sources there are none of
   <<Mov(2, 1), Lddw(2, 5, 1)[1]>>, <<Mov(11, 1)>>, <<Callx(11)>>, <<CallImm(3, 0)>>, <<Unassigned(1)>>,
   \* an address between two slots, one too wide for the switch, one nobody names
   SlotVa(5, 5) \o <<Add(5, 1), Callx(5), ExitOp, Mov(2, 4), StR(1, 0, 2, 1), ExitOp>>,
   Lddw(5, 10, 3) \o SlotVa(4, 5) \o <<Callx(5), ExitOp>>,
   SlotVa(5, 5) \o <<Add(5, 2), Callx(5), ExitOp, Mov(2, 4), StR(1, 0, 2, 1), Mov(0, 0), ExitOp>>,
   \* data that names a function, which only a load can reach
   Lddw(4, 14, 1) \o <<Ldx(5, 4, 0, 2), Callx(5), Mov(0, 0), ExitOp, Mov(2, 4), ExitOp>>}
Oddities ==
  {Case(text, 40) : text \in Odd}
    \cup {[Case(Lddw(4, 16, 1) \o <<Ldx(5, 4, 0, 2), Callx(5), Mov(0, 0), ExitOp, StR(1, 0, 5, 1), ExitOp>>, 40)
          EXCEPT !.data = <<a>>] : a \in {64 + 12, 64 + 13, 64 + 15, 12}}
    \cup {[Case(<<Add(2, 1), J("gt", 2, 2, 1), Ja(-3), CallImm(0, 1), ExitOp, StR(1, 0, 2, 1), Ja(-3)>>, 40)
             EXCEPT !.entry = 1]}

\* Syscalls and memory: r1 to r4 set, the call, its result stored.
Memory ==
  LET of(r1, r2, r3, n) ==
        Case(r1 \o r2 \o <<Mov(3, r3), MovR(4, 10), Add(4, -1), Sys(n)>>
             \o Lddw(6, 5, 4) \o <<StR(6, 0, 0, 1), Ldx(0, 10, -1, 1), ExitOp>>, 40)
      in(d, o) == Lddw(d, o, 4)
  IN  {of(in(1, x[1]), in(2, x[2]), x[3], x[4]) : x \in {0, 1, 3} \X {0, 1, 2} \X {0, 2, 3, 4} \X {3, 4, 6}}
      \cup {of(in(1, 1), <<Mov(2, -3)>>, n, 5) : n \in {0, 3, 6}}
      \cup {of(in(1, 4), in(2, 2), x, n) : x \in {3, 64, -1}, n \in 3..6}
      \cup {of(in(1, o), <<Mov(2, k)>>, 0, 2) : o \in {0, 6, 7}, k \in {0, 1, -1}}
      \cup {of(<<Mov(1, x[1])>>, <<Mov(2, x[2])>>, 0, 7) : x \in {0, 3, 8, 9, 64, 66, -1} \X {0, 1}}
      \cup {of(<<>>, <<>>, 0, n) : n \in {1, 99}}
Allocated ==
  {Case(<<Mov(1, a), Sys(7), MovR(6, 0), Mov(1, b), Sys(7), StR(0, -1, 6, 1), Mov(0, 0), ExitOp>>, 40) :
     a \in {1, 3, 6}, b \in {0, 1, 2, 5}}

\* Arithmetic at the ends of both widths, accesses at the ends of the regions.
Values_ ==
  {Case(<<Mov(2, k)>> \o op \o <<StR(1, 0, 2, 2), Mov(0, 0), ExitOp>>, 40) :
     k \in {0, 1, -1, 31, 32},
     op \in {<<Alu32("add", 2, 1)>>, <<Alu32("sub", 2, 1)>>, <<Alu32("div", 2, 0)>>, <<Alu_("mod", 2, -1)>>,
             <<Alu32("neg", 2, 0)>>, <<Alu_("neg", 2, 0)>>, <<Alu_("le", 2, 1)>>, <<Alu_("le", 2, 3)>>,
             <<AluR("div", 2, 2)>>, <<J("sgt", 2, -1, 1), Mov(2, 7)>>, <<JR("gt", 2, 1, 1), Mov(2, 7)>>,
             <<J("le", 2, 1, -2)>>}}
    \cup {Case(access \o <<Mov(0, 0), ExitOp>>, 40) :
            access \in {<<Ldx(2, 10, -4, 2), StR(10, -2, 1, 2), Ldx(3, 10, -2, 2)>>,
                        <<StR(10, 8, 1, 1)>>, <<StR(10, 7, 1, 2)>>, <<Ldx(2, 1, -1, 1)>>,
                        <<Ldx(2, 1, 5, 2)>>, <<Ldx(2, 2, -1, 1)>>,
                        Lddw(2, 0, 1) \o <<Ldx(3, 2, 1, 1), StR(1, 0, 3, 1), StR(2, 0, 3, 1)>>}}

\* Every text of a few slots over these: blocks and functions in every order.
CONSTANT TextLength
Forms == {Add(2, 1), Mov(3, 1), J("eq", 3, 0, 1), J("ne", 2, 2, -3), Ja(-2), CallImm(0, 1), CallImm(0, -3),
          Lddw(3, 4, 1)[1], Callx(3), ExitOp}
Small == {Case(text, limit) : text \in [1..TextLength -> Forms], limit \in {4, 7, 30}}

-----------------------------------------------------------------------------
Init ==
  /\ prog \in Small \cup Handovers \cup Budgets \cup Oddities \cup Memory \cup Allocated \cup Values_
  /\ InterpInit(SomeInput) /\ RuntimeInit(SomeInput)

Between == (BlockHead \/ FallOn) /\ UNCHANGED m
Both == Ran(m) /\ Op /\ InterpStep
InterpAlone == ~Ran(c) /\ InterpStep /\ UNCHANGED c
TranslatedAlone == ~Ran(m) /\ Op /\ UNCHANGED m
Runs == Translated /\ (Between \/ Both \/ InterpAlone \/ TranslatedAlone) /\ UNCHANGED emitted
Next == ((Translate /\ UNCHANGED m) \/ Runs) /\ UNCHANGED prog

\* Two sequential programs: each goes on until it has halted.  This is WF_vars(Next),
\* with what enables Next written out.
GoesOn == []<>~(Ran(m) \/ Ran(c)) \/ []<><<TRUE>>_vars
Spec == Init /\ [][Next]_vars /\ GoesOn

-----------------------------------------------------------------------------
\* A callx of what is code and no known function, where only the interpreter goes on:
\* sbpf2rv/README.md's first accepted divergence.
Unnamed ==
  /\ c.halt = BadJump /\ InBody /\ Insn(Here).k = "callx"
  /\ LET slot == CallXTarget(c.regs[Insn(Here).imm])
         named == {Imm64(pc) : pc \in {p \in 0..(NSlots - 2) : Insn(p).k = "lddw"}} \cup Range(prog.data)
     IN  InText(slot) /\ slot \notin DOMAIN emitted.host /\ TextVa + 2 * slot \notin named

\* Liveness: every run ends, interpreted and translated, and makes the same public; and
\* unless one of the two came to the limit, for the same reason and with the same memory.
EndsMatch ==
  /\ PublicOutput(SomeInput, m) = PublicOutput(SomeInput, c)
  /\ \/ "limit" \in {m.halt[1], c.halt[1]}
     \/ <<m.halt, m.mem, m.heap>> = <<c.halt, c.mem, c.heap>>
RunsEndAlike == <>(~Ran(m) /\ ~Ran(c) /\ (EndsMatch \/ Unnamed))

\* Where op j of a block of the translated program is in the text.
IsAt(b, j, pc) == IF j \in DOMAIN b.pcs THEN pc = b.pcs[j] ELSE ~InText(pc)
ToPay == IF c.i = 0 THEN 0 ELSE Block.cost - (c.i - 1)

\* Safety: between two instructions both are at the same one, equally deep, over the
\* same memory; the outermost function has all of the interpreter's registers, each
\* function its frame; what the block charged ahead is what its instructions to come
\* cost, down to a fetch that fails.  The translated program only halts at the limit
\* before a block that crosses it, and only goes on past the limit to the end of a block
\* that defers its check.
InStep ==
  /\ Ran(m) /\ Ran(c) =>
       /\ CASE c.i = 0 -> c.at = Edge(m.pc)
            [] c.i > Len(Block.pcs) /\ Block.term = "fall" -> m.pc = After(Last(Block.pcs))
            [] OTHER -> IsAt(Block, c.i, m.pc)
       /\ Len(m.frames) = Len(c.frames)
       /\ <<m.mem, m.heap, m.regs[10]>> = <<c.mem, c.heap, c.regs[10]>>
       /\ c.frames = <<>> => m.regs = c.regs
       /\ prog.limit - m.meter = c.budget + ToPay
  /\ c.halt = BadJump => ToPay = 1
  /\ Ran(m) /\ c.halt = <<"limit", 0>> =>
       \E j \in 1..Block.cost : IsAt(Block, j, m.pc) /\ prog.limit - m.meter = c.budget + Block.cost - (j - 1)
  /\ Ran(c) /\ m.halt = <<"limit", 0>> => c.budget < 0 /\ Block.checked = (c.i = 0)
=============================================================================
