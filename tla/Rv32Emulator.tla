---------------------------- MODULE Rv32Emulator ----------------------------
(***************************************************************************)
(* The RV32 emulator (research/src/emulator.rs), the reference semantics   *)
(* of the machine: one step per emitted row, so a POSEIDON2 call is an     *)
(* ecall row, an absorb row per block and two write-back rows, and every   *)
(* other instruction is one row.  The emulator is deterministic; where it  *)
(* returns an error it has no step.                                        *)
(*                                                                         *)
(* ALU results are left at addition, sub-word accesses and the cycle       *)
(* budget are left out, and one memory-to-memory chip call stands for      *)
(* KECCAK, SHA256 and MODQ: a buffer of ChipWords words, read whole and    *)
(* written whole, where a word that the chip leaves alone is written as it *)
(* was read.  What MODQ refuses of its operands is left out.               *)
(***************************************************************************)
EXTENDS Rv32Isa

VARIABLES prog,           \* [base, words]: the program, never written
          inputs, public, \* the two tapes, never written
          pc, regs,
          ram,            \* word address -> value; an unwritten word reads 0
          outputs,        \* slot -> word, of the slots written so far
          grp,            \* the hash call under way
          gas,            \* gas_of the rows emitted so far, the prefix included
          halted

args == <<prog, inputs, public>>
vars == <<args, pc, regs, ram, outputs, grp, gas, halted>>

Plus(a, n) == Num(Val(a) + n)

NoGroup == [todo |-> "none", ptr |-> 0, left |-> 0, idx |-> 0, state |-> Zero]

PrefixGas ==
  (ProgramRows(prog.words) + InputRows(inputs) + PublicRows(public)) * AbsorbGas

Fetchable(at) ==
  /\ at >= prog.base /\ (at - prog.base) % 4 = 0
  /\ (at - prog.base) \div 4 < Len(prog.words)
Ins == prog.words[(pc - prog.base) \div 4 + 1][2]

Ram(a) == IF a \in DOMAIN ram THEN ram[a] ELSE <<0>>
\* The n words of ws, written from the address at on.
WriteRam(at, n, ws) ==
  ram' = [a \in DOMAIN ram \cup at..(at + n - 1) |->
            IF a \in at..(at + n - 1) THEN ws[a - at + 1] ELSE ram[a]]
SetReg(r, w) == IF r = 0 THEN regs ELSE [regs EXCEPT ![r] = w]

A == regs[Ins.rs1]
B == regs[Ins.rs2]
Arg1 == regs[A1]

Running == ~halted /\ grp.todo = "none" /\ Fetchable(pc)

\* One row that goes on at next, with a weight in gas.
Row(next, weight) == pc' = next /\ gas' = gas + weight

-----------------------------------------------------------------------------
ByteAddr == (Val(A) + Ins.imm) % W
Target == (pc + Ins.imm) % W

Value ==
  CASE Ins.op = "add" -> Plus(A, Val(B))
    [] Ins.op = "addi" -> Plus(A, Ins.imm)
    [] Ins.op = "lui" -> Num(Ins.imm)
    [] Ins.op = "auipc" -> Num(Target)
    [] Ins.op \in {"jal", "jalr"} -> Num(pc + 4)
    [] Ins.op = "lw" -> Ram(ByteAddr \div 4)

\* JALR drops bit 0 of its target.
NextPc ==
  CASE Ins.op = "jal" -> Target
    [] Ins.op = "jalr" -> ByteAddr - (ByteAddr % 2)
    [] Ins.op = "beq" /\ Val(A) = Val(B) -> Target
    [] OTHER -> (pc + 4) % W

\* Whether the instruction at pc goes on to one of the program.
Lands == grp.todo # "none" \/ Ins.op = "ecall" \/ Fetchable(NextPc)

Ordinary ==
  /\ Running /\ Ins.op # "ecall"
  /\ Ins.op \in {"lw", "sw"} => ByteAddr % 4 = 0
  /\ Row(NextPc, 1)
  /\ regs' = IF Ins.op \in {"sw", "beq"} THEN regs ELSE SetReg(Ins.rd, Value)
  /\ ram' = IF Ins.op = "sw" THEN Put(ram, ByteAddr \div 4, B) ELSE ram
  /\ UNCHANGED <<args, outputs, grp, halted>>

Ecall(num) == Running /\ Ins.op = "ecall" /\ Val(A) = num

Halt ==
  /\ Ecall(HALT)
  /\ halted' = TRUE /\ gas' = gas + 1
  /\ UNCHANGED <<args, pc, regs, ram, outputs, grp>>

WriteOutput ==
  /\ Ecall(WRITE_OUTPUT)
  /\ Val(B) < NumOutputs /\ Val(B) \notin DOMAIN outputs
  /\ outputs' = Put(outputs, Val(B), Arg1)
  /\ Row((pc + 4) % W, 1)
  /\ UNCHANGED <<args, regs, ram, grp, halted>>

ReadTape(num, tape) ==
  /\ Ecall(num)
  /\ Val(B) < Len(tape)
  /\ regs' = SetReg(Ins.rd, tape[Val(B) + 1])
  /\ Row((pc + 4) % W, 1)
  /\ UNCHANGED <<args, ram, outputs, grp, halted>>

\* The last pointer a chip call takes: the whole buffer is below ChipBound.
ChipLimit == ChipBound - ChipWords

\* KECCAK, SHA256 and MODQ: read at slot 0, written at slot 1 of one row.
ChipCall ==
  /\ Ecall(CHIP)
  /\ LET ws == [k \in 1..ChipWords |-> Ram(Val(B) + k - 1)]
     IN  WriteRam(Val(B), ChipWords, [k \in 1..ChipWords |-> ChipOf(ws, k)])
  /\ Row((pc + 4) % W, ChipGas)
  /\ UNCHANGED <<args, regs, outputs, grp, halted>>

Chip == Val(B) <= ChipLimit /\ ChipCall

-----------------------------------------------------------------------------
\* The ecall row of POSEIDON2 and POSEIDON2_LEN.  Only the plain call absorbs
\* no block at all when there is nothing to absorb.
HashCall ==
  \E num \in {POSEIDON2, POSEIDON2_LEN} :
    /\ Ecall(num)
    /\ Val(Arg1) <= MaxWords /\ Val(B) < PtrBound
    /\ grp' = [todo |-> IF num = POSEIDON2 /\ Val(Arg1) = 0 THEN "out1" ELSE "absorb",
               ptr |-> Val(B), left |-> Val(Arg1), idx |-> 0,
               state |-> IF num = POSEIDON2 THEN Zero ELSE LenSeed(Val(Arg1))]
    /\ Row(pc, 1)
    /\ UNCHANGED <<args, regs, ram, outputs, halted>>

AbsorbRow ==
  /\ grp.todo = "absorb"
  /\ LET cnt == IF grp.left < Rate THEN grp.left ELSE Rate
         words == [k \in 1..cnt |-> Ram(grp.ptr + Rate * grp.idx + k - 1)]
         left == grp.left - cnt
     IN  grp' = [todo |-> IF left = 0 THEN "out1" ELSE "absorb", ptr |-> grp.ptr,
                 left |-> left, idx |-> IF left = 0 THEN 0 ELSE grp.idx + 1,
                 state |-> Perm(Overwrite(grp.state, words))]
  /\ Row(pc, AbsorbGas)
  /\ UNCHANGED <<args, regs, ram, outputs, halted>>

\* Half h of the digest goes to the words at ptr + Rate * h.
WriteBack(h) ==
  WriteRam(grp.ptr + Rate * h, Rate, DigestHalf(grp.state.rate, h))

WriteOut1 ==
  /\ grp.todo = "out1"
  /\ WriteBack(0)
  /\ grp' = [grp EXCEPT !.todo = "out2"]
  /\ Row(pc, 1)
  /\ UNCHANGED <<args, regs, outputs, halted>>

WriteOut2 ==
  /\ grp.todo = "out2"
  /\ WriteBack(1)
  /\ grp' = NoGroup
  /\ Row((pc + 4) % W, 1)
  /\ UNCHANGED <<args, regs, outputs, halted>>

-----------------------------------------------------------------------------
Init ==
  /\ pc = prog.base
  /\ regs = [r \in Regs |-> <<0>>]
  /\ ram = <<>> /\ outputs = <<>>
  /\ grp = NoGroup
  /\ gas = PrefixGas
  /\ halted = FALSE

Next ==
  \/ Ordinary \/ Halt \/ WriteOutput
  \/ ReadTape(READ_INPUT, inputs) \/ ReadTape(READ_PUBLIC, public)
  \/ Chip \/ HashCall \/ AbsorbRow \/ WriteOut1 \/ WriteOut2

Spec == Init /\ [][Next]_vars

\* The rows of an honest trace that has not halted and is not at an error.
CanStep ==
  \/ grp.todo # "none"
  \/ /\ Running
     /\ IF Ins.op # "ecall" THEN Ins.op \in {"lw", "sw"} => ByteAddr % 4 = 0
        ELSE \/ Val(A) = HALT
             \/ Val(A) = WRITE_OUTPUT /\ Val(B) < NumOutputs /\ Val(B) \notin DOMAIN outputs
             \/ Val(A) = READ_INPUT /\ Val(B) < Len(inputs)
             \/ Val(A) = READ_PUBLIC /\ Val(B) < Len(public)
             \/ Val(A) = CHIP /\ Val(B) <= ChipLimit
             \/ /\ Val(A) \in {POSEIDON2, POSEIDON2_LEN}
                /\ Val(Arg1) <= MaxWords /\ Val(B) < PtrBound
=============================================================================
