----------------------------- MODULE EvmRuntime -----------------------------
(***************************************************************************)
(* What the C that evm2rv emits is made of: moves between the memory stack *)
(* and the locals of evm_entry, jumps, and calls of the runtime (evm-rt's  *)
(* evm_rt.c).  The record c holds the runtime's globals, the locals r, t_  *)
(* and c_, the block's base sp_, and pc: the label control is at.          *)
(***************************************************************************)
EXTENDS EvmCode, EvmStorage

\* Where a stack position's word is (lift.rs, Val).
Arr(q) == <<"arr", q>>
Local(i) == <<"local", i>>
Const(v) == <<"const", v>>
Env(op) == <<"env", op>>
Temp == <<"temp", 0>>

Read(c, v) ==
  CASE v[1] = "arr" -> c.stack[c.base + v[2]]
    [] v[1] = "local" -> c.r[v[2]]
    [] v[1] = "const" -> v[2]
    [] v[1] = "env" -> Caller
    [] OTHER -> c.t
Write(c, at, w) ==
  CASE at[1] = "arr" -> [c EXCEPT !.stack[c.base + at[2]] = w]
    [] at[1] = "local" -> [c EXCEPT !.r[at[2]] = w]
    [] OTHER -> [c EXCEPT !.t = w]

\* How a call takes an operand: through a pointer, as u256_sat_u32 or u256_low_u32.
Taken(use, w) ==
  CASE use = "ptr" -> w
    [] use = "sat" -> IF FitsU32(w) THEN w ELSE U32 - 1
    [] use = "low" -> Low(w)

-----------------------------------------------------------------------------
Alive(c) == c.halt = "none"
Then(c, Rest(_)) == IF Alive(c) THEN Rest(c) ELSE c

EvmHalt(c, why) ==
  [c EXCEPT !.halt = why, !.gas = IF why \notin {"stop", "return", "revert"} THEN 0 ELSE @]
EvmCharge(c, g) == IF g > c.gas THEN EvmHalt(c, "outofgas") ELSE [c EXCEPT !.gas = @ - g]

EvmMexpand(c, off, len) ==
  CASE len = 0 -> c
    [] len # 0 /\ off + len > MaxMem -> EvmHalt(c, "outofbounds")
    [] len # 0 /\ off + len <= c.msize -> c
    [] OTHER -> Then(EvmCharge(c, Expansion(off + len) - Expansion(c.msize)),
                     LAMBDA d : [d EXCEPT !.msize = off + len])
CheckedLen(c, len) == IF len > MaxMem THEN EvmHalt(c, "outofbounds") ELSE c
Region(c, off, len) == [k \in 1..len |-> c.mem[off + k - 1]]

EvmCopy(c, from, dst, src, len) ==
  LET word(k) == IF src + k < Len(from) THEN from[src + k + 1] ELSE 0
  IN  Then(CheckedLen(c, len), LAMBDA d : Then(EvmCharge(d, 3 * len),
        LAMBDA e : Then(EvmMexpand(e, dst, len), LAMBDA f :
          [f EXCEPT !.mem = [a \in DOMAIN @ |->
            IF a - dst \in 0..(len - 1) THEN word(a - dst) ELSE @[a]]])))

EvmKeccak(c, off, len, to) ==
  Then(CheckedLen(c, len), LAMBDA d : Then(EvmCharge(d, 30 + 6 * len),
    LAMBDA e : Then(EvmMexpand(e, off, len),
      LAMBDA f : Write(f, to, Keccak(Region(f, off, len))))))

\* The topics are read in place: topics points at the deepest of them.
EvmLog(c, n, off, len, topics) ==
  Then(EvmCharge(c, 375 + 375 * n), LAMBDA d : Then(CheckedLen(d, len),
    LAMBDA e : Then(EvmCharge(e, 8 * 32 * len), LAMBDA f :
      Then(EvmMexpand(f, off, len), LAMBDA g :
        IF Len(g.logs) = MaxLogs THEN EvmHalt(g, "outofbounds")
        ELSE [g EXCEPT !.logs =
               Append(@, [i \in 1..n |-> Read(g, Arr(topics + n - i))])]))))

EvmStorageLoad(c, slot, to) ==
  LET fault == Fault(c.tree, slot)
  IN  IF fault # "none" THEN EvmHalt(c, fault)
      ELSE Write([c EXCEPT !.tree = Loaded(@, slot)], to, Held(c.tree, slot))

EvmStorageStore(c, slot, value) ==
  LET fault == Fault(c.tree, slot)
      cost == IF Held(c.tree, slot) = 0 /\ value # 0 THEN 20000 ELSE 2900
  IN  IF fault # "none" THEN EvmHalt(c, fault)
      ELSE Then(EvmCharge([c EXCEPT !.tree = Loaded(@, slot)], cost),
                LAMBDA d : [d EXCEPT !.tree = Stored(@, slot, value)])

EvmReturn(c, why, off, len) ==
  Then(CheckedLen(c, len), LAMBDA d :
    IF len > MaxReturn THEN EvmHalt(d, "outofbounds")
    ELSE Then(EvmMexpand(d, off, len), LAMBDA e :
           EvmHalt([e EXCEPT !.ret = Region(e, off, len)], why)))

-----------------------------------------------------------------------------
\* The call emitted for op, over its arguments, with the local of its result.
RtCall(c, op, a, to) ==
  CASE op = \h01 -> Write(c, to, (a[1] + a[2]) % W)
    [] op = \h03 -> Write(c, to, (a[1] - a[2]) % W)
    [] op = \h08 -> Write(c, to, IF a[3] = 0 THEN 0 ELSE (a[1] + a[2]) % a[3])
    [] op = \h0a -> Then(EvmCharge(c, 10 + 50 * ByteLen(a[2])),
                         LAMBDA d : Write(d, to, Power(a[1], a[2])))
    [] op = \h15 -> Write(c, to, Bool(a[1] = 0))
    [] op = \h1b -> Write(c, to, Shl(a[1], a[2]))
    [] op = \h20 -> EvmKeccak(c, a[1], a[2], to)
    [] op = \h35 -> Write(c, to, IF a[1] < Len(Calldata) THEN Calldata[a[1] + 1] ELSE 0)
    [] op = \h37 -> EvmCopy(c, Calldata, a[1], a[2], a[3])
    [] op = \h3e -> IF a[3] # 0 THEN EvmHalt(c, "trap") ELSE c
    [] op = \h51 -> Then(EvmMexpand(c, a[1], 1), LAMBDA d : Write(d, to, d.mem[a[1]]))
    [] op = \h52 -> Then(EvmMexpand(c, a[1], 1), LAMBDA d : [d EXCEPT !.mem[a[1]] = a[2]])
    [] op = \h53 ->
         Then(EvmMexpand(c, a[1], 1), LAMBDA d : [d EXCEPT !.mem[a[1]] = a[2] % 256])
    [] op = \h54 -> EvmStorageLoad(c, a[1], to)
    [] op = \h55 -> EvmStorageStore(c, a[1], a[2])
    [] op = \hf3 -> EvmReturn(c, "return", a[1], a[2])
    [] OTHER -> EvmReturn(c, "revert", a[1], a[2])

Goto(c, label) == [c EXCEPT !.pc = label]
Dispatch(c, dest) ==
  IF FitsU32(dest) /\ Low(dest) \in jumpdests THEN Goto(c, Low(dest)) ELSE EvmHalt(c, "badjump")

\* One statement of the emitted C.
Exec(c, st) ==
  LET arg(k) == Taken(st.args[k].use, Read(c, st.args[k].val))
  IN  CASE ~Alive(c) -> c
        [] st.kind = "move" -> Write(c, st.to, Read(c, st.from))
        [] st.kind = "sp" -> [c EXCEPT !.sp = @ + st.by]
        [] st.kind = "call" -> RtCall(c, st.op, [k \in DOMAIN st.args |-> arg(k)], st.to)
        [] st.kind = "log" -> EvmLog(c, st.n, arg(1), arg(2), st.topics)
        [] st.kind = "size" -> Write(c, st.to, IF st.op = \h59 THEN c.msize ELSE Len(Calldata))
        [] st.kind = "gas" -> Write(c, st.to, c.gas + st.after)
        [] st.kind = "halt" -> EvmHalt(c, st.why)
        [] st.kind = "test" -> [c EXCEPT !.c = Read(c, st.from) # 0]
        [] st.kind = "goto" -> Goto(c, st.to)
        [] st.kind = "dispatch" -> Dispatch(c, Read(c, st.from))
        [] st.kind = "ifgoto" -> IF c.c THEN Goto(c, st.to) ELSE c
        [] st.kind = "ifhalt" -> IF c.c THEN EvmHalt(c, st.why) ELSE c
        [] OTHER ->   \* ifdispatch
             IF c.c THEN Dispatch(c, Read(c, st.from)) ELSE c

Executed(c, stmts) ==
  LET after[k \in 0..Len(stmts)] == IF k = 0 THEN c ELSE Exec(after[k - 1], stmts[k])
  IN  after[Len(stmts)]
=============================================================================
