----------------------------- MODULE EvmInterp -----------------------------
(***************************************************************************)
(* The interpreter (evm-core's interp.rs): one step per opcode, with the   *)
(* checks and charges of its arm in order.  Its state is the record m:     *)
(* pc, stack, gas, mem, msize, tree, ret, logs and halt.  The call family, *)
(* ORIGIN and CHAINID, on which it traps, are left out, as are a second    *)
(* run over dirty buffers and code or calldata over their caps.            *)
(***************************************************************************)
EXTENDS EvmCode, EvmStorage

VARIABLE m

Ran(s) == s.halt = "none"
Halt(s, why) ==
  [s EXCEPT !.halt = why, !.gas = IF why \in {"stop", "return", "revert"} THEN @ ELSE 0]

\* The rest of an arm, unless something before it halted.
Unless(s, Rest(_)) == IF Ran(s) THEN Rest(s) ELSE s

Charge(s, cost) == IF s.gas < cost THEN Halt(s, "outofgas") ELSE [s EXCEPT !.gas = @ - cost]
PushWord(s, v) ==
  IF Len(s.stack) = StackLimit THEN Halt(s, "overflow") ELSE [s EXCEPT !.stack = Append(@, v)]

\* The arm over the top n words, the top first, once they are popped.
Popping(s, n, Rest(_, _)) ==
  IF Len(s.stack) < n THEN Halt(s, "underflow")
  ELSE Rest([s EXCEPT !.stack = SubSeq(@, 1, Len(@) - n)],
            [k \in 1..n |-> s.stack[Len(s.stack) + 1 - k]])

Expanded(s, offset, len) ==
  IF len = 0 THEN s
  ELSE IF ~FitsU32(offset) \/ offset + len > MaxMem THEN Halt(s, "outofbounds")
  ELSE IF offset + len <= s.msize THEN s
  ELSE Unless(Charge(s, Expansion(offset + len) - Expansion(s.msize)),
              LAMBDA t : [t EXCEPT !.msize = offset + len])
Start(offset, len) == IF len = 0 THEN 0 ELSE offset

\* A byte count that cannot be a memory range is out of bounds.
LenArg(s, v) == IF ~FitsU32(v) \/ v > MaxMem THEN Halt(s, "outofbounds") ELSE s

Cells(s, from, len) == [k \in 1..len |-> s.mem[from + k - 1]]
Padded(src, offset) == IF FitsU32(offset) /\ offset < Len(src) THEN src[offset + 1] ELSE 0

JumpTo(s, dest) ==
  IF FitsU32(dest) /\ Low(dest) \in jumpdests THEN [s EXCEPT !.pc = Low(dest)] ELSE Halt(s, "badjump")

-----------------------------------------------------------------------------
Binary(op, a, b) ==
  CASE op = \h01 -> (a + b) % W
    [] op = \h03 -> (a - b) % W
    [] op = \h1b -> Shl(b, a)

CopyToMemory(s, src, v) ==
  Unless(LenArg(s, v[3]), LAMBDA t : Unless(Charge(t, 3 * v[3]),
    LAMBDA u : Unless(Expanded(u, v[1], v[3]),
      LAMBDA x : [x EXCEPT !.mem = [a \in DOMAIN @ |->
        IF v[3] # 0 /\ a \in v[1]..(v[1] + v[3] - 1)
        THEN Padded(src, v[2] + a - v[1]) ELSE @[a]]])))

Sload(s, slot) ==
  IF Fault(s.tree, slot) # "none" THEN Halt(s, Fault(s.tree, slot))
  ELSE PushWord([s EXCEPT !.tree = Loaded(@, slot)], Held(s.tree, slot))

\* The cost needs the value before, so the slot is read, and verified, first.
Sstore(s, slot, value) ==
  IF Fault(s.tree, slot) # "none" THEN Halt(s, Fault(s.tree, slot))
  ELSE LET fresh == Held(s.tree, slot) = 0 /\ value # 0
       IN  Unless(Charge([s EXCEPT !.tree = Loaded(@, slot)], IF fresh THEN 20000 ELSE 2900),
                  LAMBDA t : [t EXCEPT !.tree = Stored(@, slot, value)])

LogN(s, n) ==
  Unless(Charge(s, 375 + 375 * n), LAMBDA t : Popping(t, 2,
    LAMBDA u, v : Unless(LenArg(u, v[2]), LAMBDA x : Unless(Charge(x, 8 * 32 * v[2]),
      LAMBDA y : Unless(Expanded(y, v[1], v[2]), LAMBDA z :
        IF Len(z.logs) = MaxLogs THEN Halt(z, "outofbounds")
        ELSE Popping(z, n, LAMBDA e, topics : [e EXCEPT !.logs = Append(@, topics)]))))))

Returning(s, why, v) ==
  Unless(LenArg(s, v[2]), LAMBDA t :
    IF v[2] > MaxReturn THEN Halt(t, "outofbounds")
    ELSE Unless(Expanded(t, v[1], v[2]), LAMBDA u :
      Halt([u EXCEPT !.ret = Cells(u, Start(v[1], v[2]), v[2])], why)))

-----------------------------------------------------------------------------
\* The arms, each over the state with its static gas charged.

Computing(op, s) ==
  CASE op \in {\h01, \h03, \h1b} ->
         Popping(s, 2, LAMBDA t, v : PushWord(t, Binary(op, v[1], v[2])))
    [] op = \h08 ->
         Popping(s, 3, LAMBDA t, v :
           PushWord(t, IF v[3] = 0 THEN 0 ELSE (v[1] + v[2]) % v[3]))
    [] op = \h0a ->
         Popping(s, 2, LAMBDA t, v : Unless(Charge(t, 10 + 50 * ByteLen(v[2])),
           LAMBDA u : PushWord(u, Power(v[1], v[2]))))
    [] op = \h15 -> Popping(s, 1, LAMBDA t, v : PushWord(t, Bool(v[1] = 0)))
    [] op = \h20 ->
         Popping(s, 2, LAMBDA t, v : Unless(LenArg(t, v[2]), LAMBDA u :
           Unless(Charge(u, 30 + 6 * v[2]), LAMBDA x : Unless(Expanded(x, v[1], v[2]),
             LAMBDA y : PushWord(y, Keccak(Cells(y, Start(v[1], v[2]), v[2])))))))

Environment(op, s) ==
  CASE op = \h33 -> PushWord(s, Caller)
    [] op = \h35 -> Popping(s, 1, LAMBDA t, v : PushWord(t, Padded(Calldata, v[1])))
    [] op = \h36 -> PushWord(s, Len(Calldata))
    [] op = \h37 -> Popping(s, 3, LAMBDA t, v : CopyToMemory(t, Calldata, v))
    [] op = \h3d -> PushWord(s, 0)
    [] op = \h3e -> Popping(s, 3, LAMBDA t, v : IF v[3] # 0 THEN Halt(t, "trap") ELSE t)

\* Memory, storage, jumps and what the call knows of itself.
Machine(op, pc, s) ==
  CASE op = \h50 -> Popping(s, 1, LAMBDA t, v : t)
    [] op = \h51 ->
         Popping(s, 1, LAMBDA t, v : Unless(Expanded(t, v[1], 1),
           LAMBDA u : PushWord(u, u.mem[v[1]])))
    [] op = \h52 ->
         Popping(s, 2, LAMBDA t, v : Unless(Expanded(t, v[1], 1),
           LAMBDA u : [u EXCEPT !.mem[v[1]] = v[2]]))
    [] op = \h53 ->
         Popping(s, 2, LAMBDA t, v : Unless(Expanded(t, v[1], 1),
           LAMBDA u : [u EXCEPT !.mem[v[1]] = Low(v[2]) % 256]))
    [] op = \h54 -> Popping(s, 1, LAMBDA t, v : Sload(t, v[1]))
    [] op = \h55 -> Popping(s, 2, LAMBDA t, v : Sstore(t, v[1], v[2]))
    [] op = \h56 -> Popping(s, 1, LAMBDA t, v : JumpTo(t, v[1]))
    [] op = \h57 -> Popping(s, 2, LAMBDA t, v : IF v[2] # 0 THEN JumpTo(t, v[1]) ELSE t)
    [] op = \h58 -> PushWord(s, pc)
    [] op = \h59 -> PushWord(s, s.msize)
    [] op = \h5a -> PushWord(s, s.gas)
    [] op = \h5b -> s

PushImmediate(op, pc, s) ==
  Unless(PushWord(s, Immediate(pc)), LAMBDA t : [t EXCEPT !.pc = pc + 1 + Pushed(op)])
Dup(s, n) ==
  IF Len(s.stack) < n THEN Halt(s, "underflow")
  ELSE PushWord(s, s.stack[Len(s.stack) + 1 - n])
Swap(s, n) ==
  LET top == Len(s.stack)
  IN  IF top < n + 1 THEN Halt(s, "underflow")
      ELSE [s EXCEPT !.stack[top] = s.stack[top - n], !.stack[top - n] = s.stack[top]]

Ending(op, s) ==
  CASE op = \h00 -> Halt(s, "stop")
    [] op = \hf3 -> Popping(s, 2, LAMBDA t, v : Returning(t, "return", v))
    [] op = \hfd -> Popping(s, 2, LAMBDA t, v : Returning(t, "revert", v))
    [] op = \hfe -> Halt(s, "invalid")

Arm(op, pc, s) ==
  CASE op \in {\h01, \h03, \h08, \h0a, \h15, \h1b, \h20} -> Computing(op, s)
    [] op \in {\h33, \h35, \h36, \h37, \h3d, \h3e} -> Environment(op, s)
    [] op \in \h50..\h5b -> Machine(op, pc, s)
    [] op \in \h5f..\h7f -> PushImmediate(op, pc, s)
    [] op \in \h80..\h8f -> Dup(s, op - \h7f)
    [] op \in \h90..\h9f -> Swap(s, op - \h8f)
    [] op \in \ha0..\ha4 -> LogN(s, op - \ha0)
    [] op \in {\h00, \hf3, \hfd, \hfe} -> Ending(op, s)
    [] OTHER -> Halt(s, "trap")

InterpInit(gasLimit, tree) ==
  m = [pc |-> 0, stack |-> <<>>, gas |-> gasLimit, mem |-> [a \in 0..(MaxMem - 1) |-> 0],
       msize |-> 0, tree |-> tree, ret |-> <<>>, logs |-> <<>>, halt |-> "none"]

Stepped ==
  IF m.pc >= Len(code) THEN Halt(m, "stop")
  ELSE LET op == code[m.pc + 1]
       IN  Unless(Charge([m EXCEPT !.pc = @ + 1], StaticGas(op)),
                  LAMBDA s : Arm(op, m.pc, s))
InterpStep == Ran(m) /\ m' = Stepped
=============================================================================
