--------------------------- MODULE RecursionVm --------------------------
(***************************************************************************)
(* The recursion VM's instructions that a program of the DSL is made of    *)
(* (recursion/src/emulator.rs, execute).  What an instruction does to the  *)
(* memory, the hint tape and the public values depends only on the values  *)
(* of its operands, so it is defined here once, for a machine with         *)
(* registers and for one with handles.                                     *)
(***************************************************************************)
EXTENDS Integers, Sequences, SequencesExt

CONSTANTS
    P,              \* the field's order
    NonResidue,     \* the extension is F[X] / (X^2 - NonResidue)
    MemLimit,       \* MEM_LIMIT
    Block,          \* the words a HINTN reads, 8 in the code
    SaltCells,      \* FOLD_SALT_CELLS
    PowBits,        \* the bits of a POW's buffer, 64 in the code
    PowRadix,       \* what a POW's length is multiplied by in its immediate, 256 in the code
    Rate,           \* the permutation's rate, and a digest's length; 4 in the code
    Permute(_)      \* the permutation of Width field elements

ASSUME FieldAssumption ==
    /\ P \in Nat \ {0, 1} /\ MemLimit \in 1 .. P /\ Block \in 3 .. MemLimit
    /\ Rate \in Nat \ {0, 1} /\ {SaltCells, PowBits, PowRadix} \subseteq Nat \ {0}
    /\ \A x \in 0 .. P - 1 : (x * x) % P # NonResidue

Width == 2 * Rate

Neg(v) == (P - v) % P
Reciprocal(v) == CHOOSE u \in 0 .. P - 1 : (u * v) % P = 1

EMul(x, y) == <<(x[1] * y[1] + NonResidue * x[2] * y[2]) % P, (x[1] * y[2] + x[2] * y[1]) % P>>
Norm(x) == (x[1] * x[1] + NonResidue * Neg(x[2] * x[2] % P)) % P
EReciprocal(x) == LET n == Reciprocal(Norm(x)) IN <<(x[1] * n) % P, (Neg(x[2]) * n) % P>>

(* The opcodes that touch two cells, and those that read pairs. *)
Wide == {"loade", "storee", "hinte"}
PairB == {"eadd", "esub", "emul"}
ReadsPair == {"storee", "fold", "pow"}
PairA == PairB \cup {"emulf", "einv"}
(* b_is_register *)
RegisterB == {"fadd", "fsub", "fmul", "eadd", "esub", "emul", "emulf"}
Arithmetic == RegisterB \cup {"faddi", "fmuli", "inv", "einv", "mov"}

Lane(op, x, y) == CASE op \in {"fadd", "faddi", "eadd"} -> (x + y) % P
                    [] op \in {"fsub", "esub"} -> (x + Neg(y)) % P
                    [] OTHER -> (x * y) % P

Value(op, a, b) ==
    CASE op \in {"fadd", "fsub", "fmul", "faddi", "fmuli"} -> <<Lane(op, a[1], b[1])>>
      [] op \in {"eadd", "esub"} -> <<Lane(op, a[1], b[1]), Lane(op, a[2], b[2])>>
      [] op = "emul" -> EMul(a, b)
      [] op = "emulf" -> EMul(a, <<b[1], 0>>)
      [] op = "inv" -> <<Reciprocal(a[1])>>
      [] op = "einv" -> EReciprocal(a)
      [] op = "mov" -> <<a[1]>>

Singular(op, a) == (op = "inv" /\ a[1] = 0) \/ (op = "einv" /\ a = <<0, 0>>)

(* What every instruction may touch beside its registers. *)
World(tape, layout) ==
    [mem |-> [c \in 0 .. MemLimit - 1 |-> 0], tape |-> tape, public |-> <<>>,
     layout |-> layout, chain |-> <<>>, status |-> "running"]
Stopped(w, why) == [w EXCEPT !.status = why]

(* An instruction's effect: on the world, the lanes written to rd, and     *)
(* whether it jumps.                                                       *)
Effect(w, d, jump) == [world |-> w, d |-> d, jump |-> jump]
Failing(w, why) == Effect(Stopped(w, why), <<>>, FALSE)

Cellwise(w, at, n) == [k \in 1 .. n |-> w.mem[at + k - 1]]
Written(w, at, values) ==
    [w EXCEPT !.mem = [c \in DOMAIN @ |-> IF c - at + 1 \in DOMAIN values THEN values[c - at + 1] ELSE @[c]]]

Access(op, d, a, b, w) ==
    LET n == IF op \in Wide THEN 2 ELSE 1
        addr == (a[1] + b[1]) % P
    IN  IF addr + n > MemLimit THEN Failing(w, "AddressOutOfRange")
        ELSE IF op \in {"load", "loade"} THEN Effect(w, Cellwise(w, addr, n), FALSE)
        ELSE Effect(Written(w, addr, SubSeq(d, 1, n)), <<>>, FALSE)

Hinting(op, w) ==
    LET n == IF op = "hint" THEN 1 ELSE 2
    IN  IF Len(w.tape) < n THEN Failing(w, "HintExhausted")
        ELSE Effect([w EXCEPT !.tape = SubSeq(@, n + 1, Len(@))], SubSeq(w.tape, 1, n), FALSE)

(* HINTN: a block of the tape into memory. *)
HintBlock(a, b, w) ==
    LET base == (a[1] + b[1]) % P
    IN  IF base + Block > MemLimit THEN Failing(w, "AddressOutOfRange")
        ELSE IF Len(w.tape) < Block THEN Failing(w, "HintExhausted")
        ELSE Effect([Written(w, base, SubSeq(w.tape, 1, Block))
                       EXCEPT !.tape = SubSeq(@, Block + 1, Len(@))], <<>>, FALSE)

(* POSEIDON2 permutes its cells, SPONGE after overwriting the rate from    *)
(* elsewhere, COMPRESS its digest and a sibling in the order of a bit.     *)
Hashing(op, d, a, b, w) ==
    LET at == a[1]
        other == b[1]
        written == IF op = "compress" THEN Rate ELSE Width
        read == IF op = "poseidon2" THEN 0 ELSE Rate
        digest == Cellwise(w, at, Rate)
        block == Cellwise(w, other, Rate)
        input == CASE op = "poseidon2" -> Cellwise(w, at, Width)
                   [] op = "sponge" -> block \o Cellwise(w, at + Rate, Rate)
                   [] op = "compress" -> IF d[1] = 0 THEN digest \o block ELSE block \o digest
    IN  IF op = "compress" /\ d[1] \notin {0, 1} THEN Failing(w, "NonBooleanBit")
        ELSE IF at + written > MemLimit \/ other + read > MemLimit THEN Failing(w, "AddressOutOfRange")
        ELSE Effect(Written(w, at, SubSeq(Permute(input), 1, written)), <<>>, FALSE)

(* REDUCE: one run of a chain over the layout's entry.  Between the runs   *)
(* of a chain the sum, the power of alpha and alpha itself are carried,    *)
(* and no other instruction may come.                                      *)
InBounds(le) ==
    /\ le.vals + 2 * le.len <= MemLimit /\ le.row + le.len <= MemLimit
    /\ \A c \in {le.key, le.alpha, le.res} : c + 2 <= MemLimit
Term(w, le, at, k) ==
    LET pz == Cellwise(w, le.vals + 2 * k, 2)
        diff == <<(pz[1] + Neg(w.mem[le.row + k])) % P, pz[2]>>
        term == EMul(EMul(at.power, diff), Cellwise(w, le.key, 2))
    IN  [at EXCEPT !.acc = Value("eadd", @, term), !.power = EMul(@, at.alpha)]
Reducing(b, w) ==
    LET id == b[1] + 1
        le == w.layout[id]
        from == IF le.start THEN [next |-> id, acc |-> <<0, 0>>, power |-> <<1, 0>>, alpha |-> Cellwise(w, le.alpha, 2)]
                ELSE w.chain[1]
        to == FoldLeft(LAMBDA at, k : Term(w, le, at, k - 1), from, [k \in 1 .. le.len |-> k])
    IN  IF id \notin DOMAIN w.layout THEN Failing(w, "ReduceLayout")
        ELSE IF le.len = 0 THEN Failing(w, "ReduceZeroLength")
        ELSE IF ~InBounds(le) THEN Failing(w, "ReduceLayout")
        ELSE IF le.start = (w.chain # <<>>) \/ (~le.start /\ w.chain[1].next # id) THEN Failing(w, "ReduceChain")
        ELSE IF le.carry THEN Effect([w EXCEPT !.chain = <<[to EXCEPT !.next = id + 1]>>], <<>>, FALSE)
        ELSE Effect([Written(w, le.res, to.acc) EXCEPT !.chain = <<>>], <<>>, FALSE)

(* FOLD: the values at the points g^rev(k) as coefficients by the inverse  *)
(* transform, then Horner at u, the top coefficient first.                 *)
Power(x, n) == FoldLeft(LAMBDA y, k : (y * x) % P, 1, [k \in 1 .. n |-> k])
Generator(n) == CHOOSE g \in 0 .. P - 1 : Power(g, n) = 1 /\ Power(g, n \div 2) = P - 1
Reversed(k, n) ==
    FoldLeft(LAMBDA r, j : 2 * r + ((k \div 2 ^ (j - 1)) % 2), 0,
             [j \in 1 .. (CHOOSE m \in 1 .. n : 2 ^ m = n) |-> j])
Point(k, n) == Power(Generator(n), Reversed(k, n))
FoldDftHorner(ys, u) ==
    LET n == Len(ys)
        scaled(k, j) == EMul(ys[k], <<Reciprocal((n * Power(Point(k - 1, n), n - j)) % P), 0>>)
        coefficient(j) == FoldLeft(LAMBDA x, k : Value("eadd", x, scaled(k, j)), <<0, 0>>, [k \in 1 .. n |-> k])
    IN  FoldLeft(LAMBDA acc, j : Value("eadd", EMul(acc, u), coefficient(j)), <<0, 0>>, [j \in 1 .. n |-> j])
Folding(u, a, b, w) ==
    LET res == a[1] + 2 * b[1] + SaltCells
        ys == [k \in 1 .. b[1] |-> Cellwise(w, a[1] + 2 * (k - 1), 2)]
    IN  IF b[1] \notin {2, 4, 8} THEN Failing(w, "FoldArity")
        ELSE IF res + 2 > MemLimit THEN Failing(w, "AddressOutOfRange")
        ELSE Effect(Written(w, res, FoldDftHorner(ys, u)), <<>>, FALSE)

(* POW: base * g^(bits of the buffer from off on, the last one lowest).    *)
Raising(d, a, b, w) ==
    LET off == b[1] % PowRadix
        len == b[1] \div PowRadix
        bits == [t \in 1 .. len |-> w.mem[a[1] + off + len - t]]
        times(at, bit) == [g |-> (at.g * at.g) % P, s |-> (at.s * (1 + bit * (at.g - 1))) % P]
    IN  IF len \notin 1 .. PowRadix - 1 \/ off + len > PowBits THEN Failing(w, "PowShape")
        ELSE IF a[1] + PowBits >= MemLimit THEN Failing(w, "AddressOutOfRange")
        ELSE IF ~(ToSet(bits) \subseteq {0, 1}) THEN Failing(w, "NonBooleanBit")
        ELSE Effect(Written(w, a[1] + PowBits, <<FoldLeft(times, [g |-> d[1], s |-> d[2]], bits).s>>), <<>>, FALSE)

Operation(op, d, a, b, w) ==
    IF w.chain # <<>> /\ op # "reduce" THEN Failing(w, "ReduceChain") ELSE
    CASE op \in Arithmetic -> IF Singular(op, a) THEN Failing(w, "InverseOfZero")
                              ELSE Effect(w, Value(op, a, b), FALSE)
      [] op \in {"load", "loade", "store", "storee"} -> Access(op, d, a, b, w)
      [] op = "jeq" -> Effect(w, <<>>, d[1] = a[1])
      [] op = "jne" -> Effect(w, <<>>, d[1] # a[1])
      [] op \in {"hint", "hinte"} -> Hinting(op, w)
      [] op = "hintn" -> HintBlock(a, b, w)
      [] op \in {"poseidon2", "sponge", "compress"} -> Hashing(op, d, a, b, w)
      [] op = "reduce" -> Reducing(b, w)
      [] op = "fold" -> Folding(d, a, b, w)
      [] op = "pow" -> Raising(d, a, b, w)
      [] op = "public" -> Effect([w EXCEPT !.public = Append(@, a[1])], <<>>, FALSE)
      [] op = "halt" -> Failing(w, "halted")

-----------------------------------------------------------------------------
(* The machine: register 0 reads as zero and ignores writes.               *)

Machine(tape, layout, registers) ==
    [pc |-> 0, regs |-> [k \in 0 .. registers |-> 0], world |-> World(tape, layout)]

SetRegisters(regs, rd, d) ==
    [k \in DOMAIN regs |-> IF k # 0 /\ k \in rd .. rd + Len(d) - 1 THEN d[k - rd + 1] ELSE regs[k]]

Executed(code, m) ==
    LET ins == code[m.pc + 1]
        reg(k, pairs) == <<m.regs[k], IF ins.op \in pairs THEN m.regs[k + 1] ELSE 0>>
        b == IF ins.op \in RegisterB THEN reg(ins.b, PairB) ELSE <<ins.b, 0>>
        e == Operation(ins.op, reg(ins.rd, ReadsPair), reg(ins.ra, PairA), b, m.world)
    IN  [pc |-> IF e.jump THEN ins.b ELSE m.pc + 1,
         regs |-> SetRegisters(m.regs, ins.rd, e.d), world |-> e.world]
=========================================================================
