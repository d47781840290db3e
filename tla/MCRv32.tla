------------------------------- MODULE MCRv32 -------------------------------
(***************************************************************************)
(* The cpu table over small programs: one per call and argument, and a few *)
(* that combine calls, jumps and memory.  A verifier holds one of them and  *)
(* public words; the prover fills its tables with these or with others.    *)
(***************************************************************************)
EXTENDS CpuTable, SequencesExt

Chipped(ws, k) == <<"chip", k, ws>>
SomeNum(w) == 30
SaltBlocks == {<<<<1>>, <<2>>>>, <<<<5>>, <<5>>>>}
SomeWords == {<<0>>, <<5>>}
JunkState == [rate |-> <<<<5>>, <<5>>>>, cap |-> <<5>>]

-----------------------------------------------------------------------------
X0 == 0
T0 == 4

Word(op, rd, rs1, rs2, imm) ==
  <<"w", [op |-> op, rd |-> rd, rs1 |-> rs1, rs2 |-> rs2, imm |-> imm]>>
Li(r, n) == Word("addi", r, X0, X0, n)
Sw(r, at) == Word("sw", X0, X0, r, at)
Lw(r, at) == Word("lw", r, X0, X0, at)
Ecall == Word("ecall", A0, A7, A0, 0)
Call(k) == <<Li(A7, k), Ecall>>
CallWith(k, x, y) == <<Li(A0, x), Li(A1, y)>> \o Call(k)
Stop == Call(HALT)

\* Every call over every argument, with a word of memory for it to read.
Single(k, x, y) == <<Li(T0, 9), Sw(T0, 8)>> \o CallWith(k, x, y) \o Stop

\* A hash of an input word, one of whose digest words is put out.
HashOut ==
  CallWith(READ_INPUT, 1, 0) \o <<Sw(A0, 12)>> \o CallWith(POSEIDON2, 2, 3)
    \o <<Lw(A1, 12), Li(A0, 1)>> \o Call(WRITE_OUTPUT) \o Stop

\* Two hashes of nothing, over memory already written and over each other.
TwoEmpty ==
  <<Li(T0, 9), Sw(T0, 8), Sw(T0, 20)>> \o CallWith(POSEIDON2, 2, 0)
    \o <<Lw(A1, 8), Li(A0, 0)>> \o Call(WRITE_OUTPUT)
    \o CallWith(POSEIDON2_LEN, 2, 0) \o <<Lw(A1, 20), Li(A0, 1)>> \o Call(WRITE_OUTPUT) \o Stop

\* A public word into a chip, a jump to an odd address, a branch over a store.
Jumps ==
  CallWith(READ_PUBLIC, 0, 0) \o
  <<Sw(A0, 16), Word("lui", T0, X0, X0, 4), Word("add", A0, T0, X0, 0),
    Word("auipc", T0, X0, X0, 13), Word("jalr", T0, T0, X0, 0),
    Sw(X0, 16), Li(A7, CHIP), Ecall, Word("beq", X0, X0, X0, 8), Sw(X0, 16),
    Lw(A1, 16), Li(A0, 0)>> \o Call(WRITE_OUTPUT) \o Stop

\* A word access at a byte address, and an output slot taken twice.
Misaligned == <<Li(T0, 9), Word("lw", A1, X0, X0, 6)>> \o Stop
Twice == CallWith(WRITE_OUTPUT, 0, 9) \o Call(WRITE_OUTPUT) \o Stop

\* A hash to where a word of another's digest points, and a branch on that word.
Chained ==
  CallWith(POSEIDON2, 2, 1) \o <<Lw(A0, 8), Li(A1, 1)>> \o Call(POSEIDON2)
    \o <<Word("beq", X0, A0, X0, 8)>> \o Stop

Combined == {HashOut, TwoEmpty, Jumps, Misaligned, Twice, Chained}

CONSTANTS Calls, Ptrs0, Lens0   \* the calls and the arguments they are made with
ASSUME CallAssumption == Calls \cup Ptrs0 \cup Lens0 \subseteq Nat /\ T0 \in Regs
Programs ==
  {[base |-> 4, words |-> ws] : ws \in
    {Single(k, x, y) : k \in Calls, x \in Ptrs0, y \in Lens0}
      \cup Combined}

\* What a prover puts in its tables: a program a verifier may hold, or another.
Altered(p) ==
  {[p EXCEPT !.base = 0], [p EXCEPT !.words = @ \o Stop],
   [p EXCEPT !.words[1] = Li(A0, 50)], [p EXCEPT !.words = SubSeq(@, 1, Len(@) - 1)]}
PublicWords == {<<>>, <<<<7>>>>, <<<<7>>, <<8>>>>}

MCInit ==
  /\ table \in Programs \cup UNION {Altered([base |-> 4, words |-> ws]) : ws \in Combined}
  /\ tape \in {<<>>, <<<<3>>, <<6>>>>} /\ pubs \in PublicWords
  /\ Init

-----------------------------------------------------------------------------
(* The emulator's state, as the rows so far leave it.                      *)

Group ==
  CASE SysHash(row) ->
         [todo |-> IF row.sys = "hash" /\ row.n = 0 THEN "out1" ELSE "absorb",
          ptr |-> row.ptr, left |-> row.n, idx |-> 0,
          state |-> IF row.sys = "hash" THEN Zero ELSE LenSeed(row.n)]
    [] row.kind = "absorb" ->
         LET left == Sub(row.left, row.act)
         IN  [todo |-> IF left = 0 THEN "out1" ELSE "absorb", ptr |-> row.ptr,
              left |-> left, idx |-> IF left = 0 THEN 0 ELSE row.idx + 1,
              state |-> Perm([rate |-> row.hv, cap |-> row.hs.cap])]
    [] row.kind = "out" /\ ~row.fin ->
         [todo |-> "out2", ptr |-> row.ptr, left |-> 0, idx |-> 0, state |-> row.hs]
    [] OTHER -> [todo |-> "none", ptr |-> 0, left |-> 0, idx |-> 0, state |-> Zero]

InPrefix == row.kind \in Regions \cup {"start"}
PrefixGas ==
  (ProgramRows(table.words) + InputRows(tape) + PublicRows(pubs)) * AbsorbGas

Pc == IF InPrefix THEN table.base ELSE IF row.sys = "halt" THEN row.pc ELSE row.next
Registers == [r \in Regs |-> Log(Reg(r))]
Memory == [a \in {k - PtrBound : k \in DOMAIN mem \ 0..(PtrBound - 1)} |-> mem[Cell(a)]]
Gas == IF InPrefix THEN PrefixGas ELSE row.gas
Halted == row.sys = "halt"

Emulator ==
  INSTANCE Rv32Emulator WITH
    prog <- table, inputs <- tape, public <- pubs, pc <- Pc, regs <- Registers,
    ram <- Memory, outputs <- outs, grp <- Group, gas <- Gas, halted <- Halted

\* A chip call that the tables take and the emulator refuses: its buffer begins
\* below ChipBound and does not end there.
RefusedChip ==
  /\ Val(Emulator!B) \in (Emulator!ChipLimit + 1)..(ChipBound - 1)
  /\ Emulator!ChipCall

\* Refinement: whatever rows the rules let a prover write, they are the steps of
\* the emulator on what its tables hold, with the gas of those steps; all but a
\* chip call at one of the pointers between the emulator's limit and the tables'
\* bound, which does at that pointer what the call does at any other.
ImplementsEmulator ==
  Emulator!Init /\ [][Emulator!Next \/ RefusedChip]_(Emulator!vars)

\* Safety: a proof that verifies is of the program and the public words the
\* verifier holds and of inputs whose digest it publishes; it publishes what the
\* run put out, zero where it put nothing, and a limit the run kept within.
AcceptedBinds ==
  \A p \in Programs, words \in PublicWords :
    proof # None /\ Verifies(proof, p, words) =>
      /\ table = p /\ pubs = words
      /\ \E salt \in Salts : proof.pinned["indigest"] = InputDigest(salt, tape)
      /\ proof.out = [s \in 0..(NumOutputs - 1) |-> IF s \in DOMAIN outs THEN outs[s] ELSE <<0>>]
      /\ row.gas <= proof.gas

\* Completeness: where the emulator has a next row, the tables admit one as
\* long as they have room for it.  A run of absorbing rows that ends where the
\* count does is the honest one, and a JALR out of the program is an error of
\* the emulator's next step.
Honest ==
  /\ Absorbs(row) => row.last = (Sub(row.left, Drain(row)) = 0)
  /\ InPrefix => row.next = table.base
  /\ row.at < Height
  /\ row.kind \in Regions => row.n = Cardinality(EntriesOf(row.kind))
HonestRowsAccepted ==
  Honest /\ Emulator!CanStep /\ Emulator!Lands => ENABLED Next

-----------------------------------------------------------------------------
MCSpec == MCInit /\ [][Next]_vars
=============================================================================
