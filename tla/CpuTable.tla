------------------------------ MODULE CpuTable ------------------------------
(***************************************************************************)
(* What the tables of the RV32 machine let a prover show: the cpu table    *)
(* (research/src/tables/cpu.rs) grown one row at a time, where any row may *)
(* follow that satisfies the row rules, the transition rules and the buses *)
(* it speaks on.  The program, input and public tables hold what the       *)
(* prover put there; memory is read as the memory table's rules read it.   *)
(*                                                                         *)
(* A row is a record of the columns the rules relate.  The selectors are   *)
(* one field, kind, because the rules make them pairwise exclusive; a      *)
(* column that no rule of its row reads keeps a fixed value.  A rule that   *)
(* relates a row to the next one and decides the first is stated with the  *)
(* first, on a field last that says whether the run of rows of this kind   *)
(* ends here.  Since time grows with the rows, the sorted memory log is    *)
(* checked as it is written.                                               *)
(***************************************************************************)
EXTENDS Rv32Isa, FiniteSets

CONSTANTS P,              \* the field: keys and differences are taken modulo it
          MaxCount,       \* the bound of the two byte limbs of HASH_LEFT
          MaxRows,        \* the bound of the byte limbs of a digest HASH_IDX
          FreePtrs,       \* what the prover tries in a pointer nobody pins
          FreeCounts,     \* in a count nobody pins, besides its table's length
          Junk,           \* and in a sponge state nobody pins
          Salts,          \* the salt blocks it may absorb
          JunkWords,      \* and the words it may publish or claim
          GasLimits,      \* the gas limits it may declare
          Height,         \* the rows of the cpu table, 2^20 at most
          GasMax, None

ASSUME FieldAssumption == P \in Nat /\ P > W + 2 * PtrBound
ASSUME CountAssumption ==
  /\ MaxCount \in Nat /\ MaxRows \in Nat /\ MaxWords % Rate = 0 /\ FreeCounts \subseteq 0..MaxCount
  /\ MaxCount + Rate < P
\* The gas of a full table, and 32 bits more, are still below the field's size.
ASSUME HeightAssumption ==
  Height \in Nat /\ GasLimits \subseteq Nat /\ Height * (AbsorbGas + ChipGas) + W <= P
\* A salt is a whole block.
ASSUME SaltAssumption == \A s \in Salts : s = [i \in 1..Rate |-> s[i]]

VARIABLES table,          \* the program table: [base, words]
          tape, pubs,     \* the input and the public table
          row,            \* the last row of the cpu table
          mem,            \* the last value at each key of the memory log
          claimed,        \* the entries this digest region has looked up
          pinned,         \* the public values pinned so far
          outs,           \* slot -> word, of the slots a row has selected
          proof           \* the public values of a finished proof, or None

tables == <<table, tape, pubs>>
vars == <<tables, row, mem, claimed, pinned, outs, proof>>

Sub(a, b) == (a + P - b) % P
Fetchable(at) ==
  /\ at >= table.base /\ (at - table.base) % 4 = 0
  /\ (at - table.base) \div 4 < Len(table.words)
WordAt(at) == table.words[(at - table.base) \div 4 + 1]

-----------------------------------------------------------------------------
(* The memory table: one log sorted by key and time, where a read returns  *)
(* the value of the entry before it, and zero when it opens a key.         *)

Key(space, addr) == (space * PtrBound + addr) % P
Reg(r) == Key(0, r)
Cell(a) == Key(1, a)

Log(k) == IF k \in DOMAIN mem THEN mem[k] ELSE <<0>>
Write(k, w) == Put(mem, k, w)
\* The words of ws, written to memory from addr on.
WriteCells(addr, ws) ==
  LET at(k) == Cell(addr + k - 1)
  IN  mem' = [c \in DOMAIN mem \cup {at(k) : k \in DOMAIN ws} |->
                IF \E k \in DOMAIN ws : at(k) = c
                THEN ws[CHOOSE k \in DOMAIN ws : at(k) = c] ELSE mem[c]]

-----------------------------------------------------------------------------
(* Row kinds, and which may follow which.                                  *)

Regions == {"digest", "indigest", "pubdigest"}
Absorbs(r) == r.kind \in Regions \cup {"absorb"}
SysHash(r) == r.sys \in {"hash", "hashlen"}

\* A group's rows after its first carry the pointer and the count on, and keep
\* the pc: every row of it but the second write-back row.
Continues(r) == SysHash(r) \/ r.kind = "absorb" \/ (r.kind = "out" /\ ~r.fin)

\* Mutation: no entry gates.
EntryGates_None(r, kind, fin) == TRUE

\* What may precede an absorb or a write-back row (CRITICAL 5).
EntryGates(r, kind, fin) ==
  /\ kind = "absorb" => SysHash(r) \/ r.kind = "absorb"
  /\ kind = "out" => (SysHash(r) \/ r.kind \in {"absorb", "out"}) /\ ~r.fin

\* What must follow inside a group: never the second write-back row before the
\* first, and no write-back row straight after a call that has words to absorb
\* (CRITICAL 2, 2b).
Routing(r, kind, fin) ==
  /\ r.sys = "hash" => \/ kind = "absorb"
                       \/ kind = "out" /\ ~fin /\ r.n = 0
  /\ r.sys = "hashlen" => kind = "absorb"
  /\ r.kind = "absorb" => ~(kind = "out" /\ fin)
  /\ (r.kind = "out" /\ ~r.fin) => kind = "out" /\ fin

\* The three digest regions come first, in order, each once and contiguous.
RegionOrder(r, kind) ==
  /\ r.kind = "start" => kind = "digest"
  /\ kind = "digest" => r.kind \in {"start", "digest"}
  /\ kind = "indigest" => r.kind \in {"digest", "indigest"}
  /\ kind = "pubdigest" => r.kind \in {"indigest", "pubdigest"}
  /\ r.kind = "digest" => kind \in {"digest", "indigest"}
  /\ r.kind = "indigest" => kind \in {"indigest", "pubdigest"}

\* Nothing runs after a HALT or past the last row of the table, and a run of
\* absorbing rows ends where it says.
Follows(r, kind, fin) ==
  /\ r.sys # "halt" /\ r.at < Height
  /\ Absorbs(r) => r.last = (kind # r.kind)
  /\ RegionOrder(r, kind) /\ EntryGates(r, kind, fin) /\ Routing(r, kind, fin)

-----------------------------------------------------------------------------
(* The values the rules between two rows leave for each column of the next *)
(* one: a single value where a rule pins it, all that is in sight where    *)
(* none does.                                                              *)

Counts == 0..MaxCount

\* The entries of the table a region digests.
EntriesOf(region) ==
  CASE region = "digest" -> 1..Len(table.words)
    [] region = "indigest" -> 1..Len(tape)
    [] region = "pubdigest" -> 1..Len(pubs)
    [] OTHER -> {}

Entered(r) == Overwrite(r.hs, r.hv)
SameRegion(r, kind) == r.kind = kind /\ kind \in Regions
\* What a row takes off HASH_LEFT: the salt is no input word.
Drain(r) == IF r.salt THEN 0 ELSE r.act

Ptrs(r) == IF Continues(r) THEN {r.ptr} ELSE FreePtrs
Ns(r, kind) ==
  IF Continues(r) \/ SameRegion(r, kind) THEN {r.n}
  ELSE FreeCounts \cup {Cardinality(EntriesOf(kind))}

\* HASH_LEFT drains from row to row; into a region it starts at the count, and
\* nothing pins it after an ordinary row.
Lefts(r, kind, n) ==
  CASE SysHash(r) -> {r.left}
    [] r.kind = "absorb" \/ SameRegion(r, kind) -> {Sub(r.left, Drain(r))}
    [] r.kind = "pubdigest" /\ kind # "pubdigest" -> {Sub(r.left, r.act)}
    [] kind \in Regions \ {r.kind} -> {n}
    [] OTHER -> FreeCounts

Idxs(r, kind) ==
  CASE SysHash(r) -> {r.idx}
    [] SameRegion(r, kind) \/ (r.kind = "absorb" /\ kind = "absorb") -> {r.idx + 1}
    [] kind \in Regions \ {r.kind} -> {0}
    [] OTHER -> {0, 1}

\* The state a row enters with: the permutation of the row before, or a seed.
States(r, kind, n) ==
  CASE r.kind = "start" -> {ProgramSeed(r.next, n)}
    [] r.kind = "digest" /\ kind # "digest" -> {InputSeed(n)}
    [] r.kind = "indigest" /\ kind # "indigest" -> {PublicSeed(n)}
    [] r.kind \in {kind, "pubdigest", "absorb"} /\ Absorbs(r) -> {Perm(Entered(r))}
    [] r.sys = "hash" -> {Zero}
    [] r.sys = "hashlen" -> {LenSeed(r.n)}
    [] r.kind = "out" /\ ~r.fin -> {r.hs}
    [] OTHER -> {Zero, Junk}

\* Mutation: the last row may leave words unabsorbed.
Drained_Stops(last, left, drain, act) ==
  last \/ (act = Rate /\ Sub(left, drain) \in Counts)

\* Every absorbing row but the last of its run absorbs a whole block and leaves
\* a count in range; the last one leaves nothing to absorb.
Drained(last, left, drain, act) ==
  IF last THEN Sub(left, drain) = 0
  ELSE act = Rate /\ Sub(left, drain) \in Counts

\* Weights of the gas chain.
Weight(kind, sys) ==
  IF kind \in Regions \cup {"absorb"} THEN AbsorbGas
  ELSE IF sys = "chip" THEN ChipGas ELSE 1

-----------------------------------------------------------------------------
(* The rows.                                                               *)

\* The columns of a row that no rule relates keep these values.
Blank ==
  [kind |-> "instr", fin |-> FALSE, salt |-> FALSE, last |-> FALSE, sys |-> "none",
   at |-> 0, ptr |-> 0, n |-> 0, left |-> 0, idx |-> 0, act |-> 0,
   hs |-> Zero, hv |-> <<>>, pc |-> 0, next |-> 0, gas |-> 0]

\* A row with its selectors, its place, the pc the row before leaves, its gas.
RowOf(kind, sys, next) ==
  [Blank EXCEPT !.kind = kind, !.sys = sys, !.at = row.at + 1, !.pc = row.next, !.next = next,
                !.gas = row.gas + Weight(kind, sys)]

\* Mutation: as before POSEIDON2_LEN, no absorb row is empty.
LanesOk_NeverEmpty(kind, salt, act, idx) ==
  CASE salt -> act = Rate
    [] kind = "pubdigest" -> act > 0 \/ idx = 0
    [] OTHER -> act > 0

\* Lane 0 is active on every absorbing row but a first one that may be empty:
\* of a POSEIDON2_LEN group, or of the public region; the salt is a full block.
LanesOk(kind, salt, act, idx) ==
  CASE salt -> act = Rate
    [] kind \in {"digest", "indigest"} /\ ~salt -> act > 0
    [] kind = "pubdigest" -> act > 0 \/ idx = 0
    [] kind = "absorb" -> act > 0 \/ (idx = 0 /\ row.sys # "hash")

\* Which entries of its table a region's row looks up.
Entries(kind, salt, idx, act) ==
  CASE kind = "digest" -> {(row.next - table.base) \div 4 + Rate * idx + k : k \in 1..act}
    [] kind = "indigest" /\ ~salt -> {Rate * (idx - 1) + k : k \in 1..act}
    [] kind = "pubdigest" -> {Rate * idx + k : k \in 1..act}
    [] OTHER -> {}

\* The digest buses balance: every entry of the region's table is looked up
\* exactly once, by the region, since nothing later speaks on its bus.
Claimed(region) == claimed = EntriesOf(region)

\* The words a row's active lanes absorb.
Words(kind, salt, ptr, idx, act) ==
  CASE salt -> {SubSeq(s, 1, act) : s \in Salts}
    [] kind = "absorb" -> {[k \in 1..act |-> Log(Cell(ptr + Rate * idx + k - 1))]}
    [] kind = "digest" ->
         {[k \in 1..act |-> WordAt(row.next + 4 * (Rate * idx + k - 1))]}
    [] kind = "indigest" /\ ~salt -> {[k \in 1..act |-> tape[Rate * (idx - 1) + k]]}
    [] kind = "pubdigest" -> {[k \in 1..act |-> pubs[Rate * idx + k]]}

\* Leaving a region: its lookups balance and its digest is pinned.
Leave(kind) ==
  IF row.kind \in Regions /\ kind # row.kind
  THEN /\ Claimed(row.kind)
       /\ pinned' = [pinned EXCEPT ![row.kind] = Perm(Entered(row)).rate]
  ELSE UNCHANGED pinned

\* An absorbing row: of a digest region, or of a hash group.
AbsorbingRow(kind) ==
  /\ Follows(row, kind, FALSE)
  /\ \E n \in Ns(row, kind), ptr \in IF kind = "absorb" THEN Ptrs(row) ELSE {0} :
     \E left \in Lefts(row, kind, n), idx \in Idxs(row, kind),
        hs \in States(row, kind, n), act \in 0..Rate, last \in BOOLEAN :
       LET salt == kind = "indigest" /\ row.kind = "digest"
           new == Entries(kind, salt, idx, act)
       IN  /\ left \in Counts
           /\ idx < IF kind = "absorb" THEN MaxWords \div Rate ELSE MaxRows
           /\ LanesOk(kind, salt, act, idx)
           /\ Drained(last, left, IF salt THEN 0 ELSE act, act)
           /\ kind \in Regions => new \subseteq EntriesOf(kind)
           /\ kind = row.kind => new \cap claimed = {}
           /\ claimed' = new \cup IF kind = row.kind THEN claimed ELSE {}
           /\ \E ws \in Words(kind, salt, ptr, idx, act) :
                row' = [RowOf(kind, "none", row.next) EXCEPT
                          !.salt = salt, !.last = last, !.ptr = ptr, !.n = n, !.left = left,
                          !.idx = idx, !.act = act, !.hs = hs,
                          !.hv = Overwrite(hs, ws).rate]
  /\ Leave(kind)
  /\ UNCHANGED <<tables, mem, outs, proof>>

\* A write-back row: Rate words of the digest, each lane's words the canonical
\* ones (CRITICAL 3).
WriteBackRow(fin) ==
  /\ Follows(row, "out", fin)
  /\ \E n \in Ns(row, "out"), ptr \in Ptrs(row) :
     \E hs \in States(row, "out", n) :
       LET hv == DigestHalf(hs.rate, IF fin THEN 1 ELSE 0)
       IN  /\ ~fin => 0 \in Lefts(row, "out", n)
           /\ WriteCells(ptr + IF fin THEN Rate ELSE 0, hv)
           /\ row' = [RowOf("out", "none", IF fin THEN row.next + 4 ELSE row.next)
                        EXCEPT !.fin = fin, !.ptr = ptr, !.n = n, !.hs = hs, !.hv = hv]
  /\ UNCHANGED <<tables, claimed, pinned, outs, proof>>

-----------------------------------------------------------------------------
(* Instruction rows: one fetch from the program table each.                *)

Ins == WordAt(row.next)[2]
A == Log(Reg(Ins.rs1))
B == Log(Reg(Ins.rs2))
Arg1 == Log(Reg(A1))
AluOut == (Val(A) + Ins.imm) % W
Target == (row.next + Ins.imm) % W

\* MEM_ADDR of a word access: a quotient by 4 with no remainder, in the field,
\* and below the bound its byte limbs give it.
WordAddrs(byte) == {m \in 0..(PtrBound - 1) : (4 * m) % P = byte}

WriteReg(r, w) == mem' = IF r = 0 THEN mem ELSE Write(Reg(r), w)

Fetched ==
  /\ row.kind # "start"
  /\ Follows(row, "instr", FALSE)
  /\ Fetchable(row.next)
  /\ Leave("instr")
  /\ claimed' = {}
  /\ UNCHANGED tables

\* RD's value is the ALU's, the immediate, or one derived from the pc; JALR's
\* next pc is the ALU's with a bit taken off that only the next fetch decides.
PlainRow ==
  /\ Fetched /\ Ins.op \notin {"ecall", "lw", "sw"}
  /\ \E bit \in IF Ins.op = "jalr" THEN {0, 1} ELSE {0} :
       LET next == CASE Ins.op = "jal" -> Target
                     [] Ins.op = "jalr" -> AluOut - bit
                     [] Ins.op = "beq" /\ Val(A) = Val(B) -> Target
                     [] OTHER -> row.next + 4
       IN  /\ Ins.op = "jalr" => AluOut >= bit /\ Fetchable(next)
           /\ row' = RowOf("instr", "none", next)
  /\ CASE Ins.op = "add" -> WriteReg(Ins.rd, Num(Val(A) + Val(B)))
       [] Ins.op = "addi" -> WriteReg(Ins.rd, <<AluOut>>)
       [] Ins.op = "lui" -> WriteReg(Ins.rd, Num(Ins.imm))
       [] Ins.op = "auipc" -> WriteReg(Ins.rd, <<Target>>)
       [] Ins.op \in {"jal", "jalr"} -> WriteReg(Ins.rd, <<row.next + 4>>)
       [] Ins.op = "beq" -> UNCHANGED mem
  /\ UNCHANGED <<outs, proof>>

MemoryRow ==
  /\ Fetched /\ Ins.op \in {"lw", "sw"}
  /\ \E m \in WordAddrs(AluOut) :
       IF Ins.op = "lw" THEN WriteReg(Ins.rd, Log(Cell(m)))
       ELSE mem' = Write(Cell(m), B)
  /\ row' = RowOf("instr", "none", row.next + 4)
  /\ UNCHANGED <<outs, proof>>

Syscall(num) == Fetched /\ Ins.op = "ecall" /\ Val(A) = num

OutputRow ==
  /\ Syscall(WRITE_OUTPUT)
  /\ \E s \in 0..(NumOutputs - 1) :
       /\ Val(B) = s /\ s \notin DOMAIN outs
       /\ outs' = Put(outs, s, Arg1)
  /\ row' = RowOf("instr", "write", row.next + 4)
  /\ UNCHANGED <<mem, proof>>

\* READ_INPUT and READ_PUBLIC: the pair (index, word) is an entry of the table.
ReadRow(num, words) ==
  /\ Syscall(num)
  /\ \E i \in 1..Len(words) : Val(B) = i - 1 /\ WriteReg(Ins.rd, words[i])
  /\ row' = RowOf("instr", "read", row.next + 4)
  /\ UNCHANGED <<outs, proof>>

\* The columns of the hash group that an ecall row pins, as far as the row
\* before leaves them open.
Arrives(ptr, n) ==
  /\ ptr \in Ptrs(row) \/ ~Continues(row)
  /\ ~Continues(row) \/ (n \in Ns(row, "instr") /\ n \in Lefts(row, "instr", n))
  /\ Zero \in States(row, "instr", n)

\* A chip's pointer, whose top nibble is 0, 1 or 2, and its block: the reads at
\* slot 0 and the writes at slot 1 of the row that claims it.  The nibble bounds
\* where the buffer begins, and not where it ends as the emulator's limit does.
ChipRow ==
  /\ Syscall(CHIP)
  /\ Val(B) < PtrBound /\ (4 * Val(B)) \div PtrBound \in {0, 1, 2}
  /\ Arrives(Val(B), 0)
  /\ LET ws == [k \in 1..ChipWords |-> Log(Cell(Val(B) + k - 1))]
     IN  WriteCells(Val(B), [k \in 1..ChipWords |-> ChipOf(ws, k)])
  /\ row' = [RowOf("instr", "chip", row.next + 4) EXCEPT !.ptr = Val(B)]
  /\ UNCHANGED <<outs, proof>>

\* The ecall row of a hash group, which the bound on the HASH_IDX of its absorb
\* rows keeps to as many blocks; the pointer's bound is CRITICAL 1's.
HashRow(num, sys) ==
  /\ Syscall(num)
  /\ Val(B) < PtrBound
  /\ BlocksOf(Val(Arg1)) <= MaxWords \div Rate
  /\ Arrives(Val(B), Val(Arg1))
  /\ row' = [RowOf("instr", sys, row.next) EXCEPT
               !.ptr = Val(B), !.n = Val(Arg1), !.left = Val(Arg1)]
  /\ UNCHANGED <<mem, outs, proof>>

\* The HALT row: the declared limit is the run's gas and 32 bits more at most,
\* and an output no row selected is zero.
HaltRow ==
  /\ Syscall(HALT)
  /\ row' = RowOf("instr", "halt", row.next + 4)
  /\ \E limit \in GasLimits, junk \in JunkWords :
       LET out == [s \in 0..(NumOutputs - 1) |-> IF s \in DOMAIN outs THEN outs[s] ELSE junk]
       IN  /\ Sub(limit, row'.gas) < W
           /\ \A s \in DOMAIN out \ DOMAIN outs : out[s] = <<0>>
           /\ proof' = [pinned |-> pinned', out |-> out, gas |-> limit]
  /\ UNCHANGED <<mem, outs>>

\* pc_window_fits: the program and a word of padding end at the wrap or below it.
PcWindow == table.base + 4 * (Len(table.words) + 1) <= W

\* Neither prover nor verifier goes on with a program that runs past the wrap.
Init ==
  /\ PcWindow
  /\ row \in {[Blank EXCEPT !.kind = "start", !.next = at] :
               at \in {table.base, table.base + 4}}
  /\ mem = <<>> /\ claimed = {} /\ outs = <<>>
  /\ pinned = [r \in Regions |-> None]
  /\ proof = None

Next ==
  \/ \E kind \in Regions \cup {"absorb"} : AbsorbingRow(kind)
  \/ WriteBackRow(FALSE) \/ WriteBackRow(TRUE)
  \/ PlainRow \/ MemoryRow \/ OutputRow
  \/ ReadRow(READ_INPUT, tape) \/ ReadRow(READ_PUBLIC, pubs)
  \/ ChipRow \/ HashRow(POSEIDON2, "hash") \/ HashRow(POSEIDON2_LEN, "hashlen")
  \/ HaltRow

\* Machine::verify_public: the checks on the public values.
Verifies(pr, program, words) ==
  /\ pr.pinned["digest"] = ProgramDigest(program.base, program.words)
  /\ pr.pinned["pubdigest"] = PublicDigest(words)
  /\ pr.gas <= GasMax
  /\ \A s \in DOMAIN pr.out : Len(pr.out[s]) > 1 \/ pr.out[s][1] < W
=============================================================================
