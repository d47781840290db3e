------------------------------ MODULE SbpfCode ------------------------------
(***************************************************************************)
(* What the sBPF interpreter (guests-compiled/sbpf-core) and the C that    *)
(* sbpf2rv makes of a program have in common: a program's slots, the four  *)
(* regions of memory, the instructions that only move data, and what a run *)
(* makes public.                                                           *)
(*                                                                         *)
(* A cell is four bytes and holds a u32: U32 stands for 2^32, a register   *)
(* holds one of W = U32^2 values, a slot and an lddw's half are two cells. *)
(* An instruction is a record with its class k; of the arithmetic one      *)
(* operation of each kind is kept, and no opcode that works bit by bit.    *)
(***************************************************************************)
EXTENDS Integers, FiniteSets, Folds, SequencesExt

CONSTANTS U32,          \* 2^32
          Frame,        \* STACK_FRAME, in cells
          MaxDepth,     \* MAX_CALL_DEPTH
          HeapCells,    \* HEAP_BYTES, in cells
          InputCells    \* the length of the input region, in cells

VARIABLE prog           \* its text, its read-only data, its entry; the budget

ASSUME RegionsFit ==
  /\ U32 \in Nat /\ 8 < U32
  /\ Frame \in Nat \ {0} /\ MaxDepth \in Nat \ {0} /\ Frame * MaxDepth <= U32
  /\ HeapCells \in Nat /\ HeapCells < U32
  /\ InputCells \in Nat /\ InputCells < U32

W == U32 * U32
Low(v) == v % U32
Signed(v, n) == IF 2 * v < n THEN v ELSE v - n

-----------------------------------------------------------------------------
(* Slots (isa.rs).  An immediate is signed; so is an offset.               *)

NSlots == Len(prog.text)
Insn(pc) == prog.text[pc + 1]
InText(pc) == pc \in 0..(NSlots - 1)
Span(i) == IF i.k = "lddw" THEN 2 ELSE 1
BadRegister(i) == i.dst > 10 \/ i.src > 10

\* The second slot of an lddw is its high half, whatever else it says.
Imm64(pc) == Low(Insn(pc).imm) + U32 * Low(Insn(pc + 1).imm)

Syscalls == <<"abort", "log", "memcpy", "memmove", "memset", "memcmp", "alloc_free">>
Named(hash) == IF hash \in DOMAIN Syscalls THEN Syscalls[hash] ELSE "unknown"

-----------------------------------------------------------------------------
(* Memory (memory.rs).  Region 1 is the program: its text, then its data,  *)
(* one run of read-only cells that begins at TextVa.                       *)

TextVa == U32
Region(a) == a \div U32
Offset(a) == a % U32

Cells(region) ==
  CASE region = 1 -> 2 * (NSlots + Len(prog.data))
    [] region = 2 -> Frame * MaxDepth
    [] region = 3 -> HeapCells
    [] region = 4 -> InputCells
    [] OTHER -> -1

\* A range of no cells must still begin inside its region, or at its end.
Readable(a, len) == Offset(a) + len <= Cells(Region(a))
Writable(a, len) == Region(a) \in 2..4 /\ Readable(a, len)

\* Of a slot's two cells the upper is the immediate; nothing here reads the lower.
ProgramCell(o) ==
  LET word == o \div 2
  IN  IF word < NSlots THEN IF o % 2 = 1 THEN Low(Insn(word).imm) ELSE 0
      ELSE LET v == prog.data[word - NSlots + 1] IN IF o % 2 = 1 THEN v \div U32 ELSE Low(v)

Cell(mem, a) ==
  IF Region(a) = 1 THEN ProgramCell(Offset(a)) ELSE mem[Region(a)][Offset(a) + 1]
Loaded(mem, a, size) ==
  IF size = 1 THEN Cell(mem, a) ELSE Cell(mem, a) + U32 * Cell(mem, a + 1)
Written(mem, a, cells) ==
  [mem EXCEPT ![Region(a)] =
     [o \in DOMAIN @ |-> IF o - Offset(a) \in DOMAIN cells THEN cells[o - Offset(a)] ELSE @[o]]]
Halves(v) == <<Low(v), v \div U32>>

-----------------------------------------------------------------------------
(* A run: registers, memory, the allocator's cursor, and why it stopped.   *)

Ran(s) == s.halt = <<>>
Halt(s, why) == [s EXCEPT !.halt = why]
Fault(s, a) == Halt(s, <<"access", a>>)
BadInsn(s, i) == Halt(s, <<"badinsn", i.k>>)
BadJump == <<"badjump", 0>>
SetReg(s, r, v) == [s EXCEPT !.regs[r] = v]

FirstRegs == [r \in 0..10 |-> CASE r = 1 -> 4 * U32 [] r = 10 -> 2 * U32 + Frame [] OTHER -> 0]
Zeros(n) == [o \in 1..n |-> 0]
FirstMem(input) == (2 :> Zeros(Frame * MaxDepth)) @@ (3 :> Zeros(HeapCells)) @@ (4 :> input)

Operand(s, i) == IF i.reg THEN s.regs[i.src] ELSE i.imm % W

\* A 32-bit sum or difference is sign-extended, every other 32-bit result zero-extended.
Alu(op, x, y, size) ==
  LET n == IF size = 2 THEN W ELSE U32
  IN  CASE op = "add" -> Signed((x + y) % n, n) % W
        [] op = "sub" -> Signed((x - y) % n, n) % W
        [] op = "div" -> (x % n) \div (y % n)
        [] op = "mod" -> (x % n) % (y % n)
        [] op = "neg" -> (-x) % n
        [] op = "mov" -> y % n

Arithmetic(s, i) ==
  LET y == Operand(s, i)
  IN  CASE i.op = "le" ->
             IF i.imm \notin {1, 2} THEN BadInsn(s, i)
             ELSE SetReg(s, i.dst, IF i.imm = 2 THEN s.regs[i.dst] ELSE Low(s.regs[i.dst]))
        [] i.op \in {"div", "mod"} /\ (IF i.size = 2 THEN y ELSE Low(y)) = 0 -> Halt(s, <<"div0", 0>>)
        [] OTHER -> SetReg(s, i.dst, Alu(i.op, s.regs[i.dst], y, i.size))

\* An address wraps before it is checked, and faults as it wrapped.
Address(s, i, base) == (s.regs[base] + i.off) % W

Load(s, i) ==
  LET a == Address(s, i, i.src)
  IN  IF Readable(a, i.size) THEN SetReg(s, i.dst, Loaded(s.mem, a, i.size)) ELSE Fault(s, a)
Store(s, i) ==
  LET a == Address(s, i, i.dst)
      cells == SubSeq(Halves(Operand(s, i)), 1, i.size)
  IN  IF Writable(a, i.size) THEN [s EXCEPT !.mem = Written(@, a, cells)] ELSE Fault(s, a)

Plain == {"ldx", "st", "alu"}
Moved(s, i) ==
  CASE i.k = "ldx" -> Load(s, i) [] i.k = "st" -> Store(s, i) [] i.k = "alu" -> Arithmetic(s, i)

Taken(s, i) ==
  LET x == s.regs[i.dst]
      y == Operand(s, i)
  IN  CASE i.op = "eq" -> x = y
        [] i.op = "ne" -> x # y
        [] i.op = "gt" -> x > y
        [] i.op = "le" -> x <= y
        [] i.op = "sgt" -> Signed(x, W) > Signed(y, W)

-----------------------------------------------------------------------------
(* What a syscall does with its arguments before, or but for, a copy: the  *)
(* length as a usize, a refused overlap, then every range it will touch.   *)

Returns(s, v) == SetReg(s, 0, v)
UsizeOf(s, n, rest) == IF n < U32 THEN rest ELSE Fault(s, n)
Reading(s, a, n, rest) == IF Readable(a, n) THEN rest ELSE Fault(s, a)
Writing(s, a, n, rest) == IF Writable(a, n) THEN rest ELSE Fault(s, a)
Nonoverlapping(a, b, n) == IF a > b THEN a - b >= n ELSE b - a >= n
Aligned(cursor) == cursor + (cursor % 2)

FirstDifference(mem, a, b, n) ==
  LET differ == {o \in 0..(n - 1) : Cell(mem, a + o) # Cell(mem, b + o)}
  IN  IF differ = {} THEN 0
      ELSE Low(Cell(mem, a + Min(differ)) - Cell(mem, b + Min(differ)))

Copies == {"memcpy", "memmove"}
Checked(s, call, hash) ==
  LET r == s.regs
  IN  CASE call = "abort" -> Halt(s, <<"trap", "abort">>)
        [] call = "log" -> UsizeOf(s, r[2], Reading(s, r[1], r[2], Returns(s, 0)))
        [] call \in Copies ->
             UsizeOf(s, r[3],
               IF call = "memcpy" /\ ~Nonoverlapping(r[1], r[2], r[3]) THEN Halt(s, <<"trap", "overlap">>)
               ELSE Reading(s, r[2], r[3], Writing(s, r[1], r[3], Returns(s, 0))))
        [] call = "memset" ->
             UsizeOf(s, r[3], Writing(s, r[1], r[3],
               Returns([s EXCEPT !.mem = Written(@, r[1], [x \in 1..r[3] |-> Low(r[2])])], 0)))
        [] call = "memcmp" ->
             UsizeOf(s, r[3], Reading(s, r[1], r[3], Reading(s, r[2], r[3], Writing(s, r[4], 1,
               Returns([s EXCEPT !.mem = Written(@, r[4],
                          <<FirstDifference(@, r[1], r[2], r[3])>>)], 0)))))
        [] OTHER -> Halt(s, <<"unknown", hash>>)

\* Both sides' (addr - text_va) / 8.
CallXTarget(a) == ((a - TextVa) % W) \div 2

-----------------------------------------------------------------------------
(* What a run makes public (abi.rs): a run that failed, or returned an     *)
(* error, leaves the accounts as they were.                                *)

Status(halt) == IF halt[1] # "exit" THEN 2 ELSE IF halt[2] = 0 THEN 1 ELSE 0
PublicOutput(input, s) ==
  [status |-> Status(s.halt), post |-> IF Status(s.halt) = 1 THEN s.mem[4] ELSE input]
=============================================================================
