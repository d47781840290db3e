------------------------------ MODULE EvmLift ------------------------------
(***************************************************************************)
(* The translator evm2rv at stage two (evm2rv/src/blocks.rs and lift.rs):  *)
(* basic blocks, the head of a block that checks the stack and charges its *)
(* static gas at once, and the symbolic stack that decides where every     *)
(* word of a block lives and what C is emitted.  The lift reads nothing of *)
(* the run, so a block is lifted here op by op as its C is executed.       *)
(***************************************************************************)
EXTENDS EvmRuntime

CONSTANTS MaxLocals,    \* MAX_LOCALS
          OpRoom        \* OP_ROOM
ASSUME LocalsAssumption == MaxLocals \in Nat /\ OpRoom \in Nat /\ OpRoom <= MaxLocals

VARIABLES c,            \* the emitted C and its runtime
          block, lift,  \* the block under way and its symbolic stack
          at            \* the next op of it, 0 at a label
translated == <<c, block, lift, at>>

-----------------------------------------------------------------------------
(* Blocks (blocks.rs).                                                     *)

Ordinary(op) ==
  op \in {\h01, \h03, \h08, \h0a, \h15, \h1b, \h20, \h33, \h35, \h36, \h37, \h3d, \h3e}
    \cup (\h50..\h5f \ {\h56, \h57, \h5c, \h5d, \h5e}) \cup \h60..\ha4

\* The words an op needs on the stack, and its net change of the depth.
StackEffect(op) ==
  CASE op \in {\h01, \h03, \h0a, \h1b, \h20} -> <<2, -1>>
    [] op = \h08 -> <<3, -2>>
    [] op \in {\h15, \h35, \h51, \h54} -> <<1, 0>>
    [] op \in {\h37, \h3e} -> <<3, -3>>
    [] op \in {\h50, \h56} -> <<1, -1>>
    [] op \in {\h52, \h53, \h55, \h57, \hf3, \hfd} -> <<2, -2>>
    [] op \in {\h33, \h36, \h3d, \h58, \h59, \h5a} \cup \h5f..\h7f -> <<0, 1>>
    [] op \in \h80..\h8f -> <<op - \h7f, 1>>
    [] op \in \h90..\h9f -> <<op - \h8f + 1, 0>>
    [] op \in \ha0..\ha4 -> <<2 + op - \ha0, -(2 + op - \ha0)>>
    [] OTHER -> <<0, 0>>

Upto(ops, F(_), k) ==
  LET sum[j \in 0..Len(ops)] == IF j = 0 THEN 0 ELSE sum[j - 1] + F(ops[j].op)
  IN  sum[k]
Gas(ops, k) == Upto(ops, StaticGas, k)
Depth0(ops, k) == Upto(ops, LAMBDA op : StackEffect(op)[2], k)

Decode(pc) == [pc |-> pc, op |-> code[pc + 1], imm |-> Immediate(pc),
               next |-> pc + 1 + Pushed(code[pc + 1])]

\* Where the ops from start on are; after the last of the code, none.
Places(start) ==
  LET pc[k \in 1..Len(code)] ==
        IF k = 1 THEN start
        ELSE LET last == Decode(pc[k - 1]) IN IF last.next < Len(code) THEN last.next ELSE last.pc
  IN  pc
Closes(o) == ~Ordinary(o.op) \/ o.next >= Len(code) \/ o.next \in jumpdests

BlockAt(start) ==
  LET pc == Places(start)
      n == Min({k \in 1..Len(code) : Closes(Decode(pc[k])) \/ k = Len(code)})
      ops == [k \in 1..n |-> Decode(pc[k])]
      need(k) == StackEffect(ops[k].op)[1] - Depth0(ops, k - 1)
  IN  [ops |-> [k \in 1..n |-> ops[k] @@ [gasAfter |-> Gas(ops, n) - Gas(ops, k)]],
       gas |-> Gas(ops, n),
       minDepth |-> Max({0} \cup {need(k) : k \in 1..n}),
       maxGrowth |-> Max({0} \cup {Depth0(ops, k) : k \in 1..n}),
       next |-> ops[n].next,
       falls |-> Ordinary(ops[n].op) /\ ops[n].next < Len(code)]

-----------------------------------------------------------------------------
(* The symbolic stack (lift.rs).  Positions count from the entry depth.    *)

NewLift(minDepth) ==
  [lo |-> -minDepth, stack |-> [k \in 1..minDepth |-> Arr(k - 1 - minDepth)],
   refs |-> [i \in 0..(MaxLocals - 1) |-> 0], busy |-> {}, code |-> <<>>]

Height(l) == l.lo + Len(l.stack)
ValAt(l, p) == l.stack[p - l.lo + 1]

Refer(l, v, by) == IF v[1] = "local" THEN [l EXCEPT !.refs[v[2]] = @ + by] ELSE l
SetVal(l, p, v) ==
  [Refer(Refer(l, ValAt(l, p), -1), v, 1) EXCEPT !.stack[p - l.lo + 1] = v]
PushVal(l, v) == [Refer(l, v, 1) EXCEPT !.stack = Append(@, v)]
\* How many of some values are local i.
Count(vals, i) == Cardinality({k \in DOMAIN vals : vals[k] = Local(i)})
PopVals(l, n) ==
  LET gone == [k \in 1..n |-> l.stack[Len(l.stack) + 1 - k]]
  IN  [l EXCEPT !.refs = [i \in DOMAIN @ |-> @[i] - Count(gone, i)],
                !.stack = SubSeq(@, 1, Len(@) - n)]
Top(l, k) == l.stack[Len(l.stack) + 1 - k]

Live(l) == Cardinality({i \in DOMAIN l.refs : l.refs[i] > 0})
Rested(l) == [l EXCEPT !.busy = {}]
Emit(l, st) == [l EXCEPT !.code = Append(@, st)]
Move(to, from) == [kind |-> "move", to |-> to, from |-> from]

\* A local no position holds and the operation does not use.
Free(l) == Min({i \in DOMAIN l.refs : l.refs[i] = 0 /\ i \notin l.busy})
Locals(vals) == {k \in DOMAIN vals : vals[k][1] = "local"}
\* Mutation: the first operand's local, which another position may hold.
Dst_Operand(l, vals) ==
  IF Locals(vals) # {} THEN vals[Min(Locals(vals))][2] ELSE Free(l)

\* The result's local: an operand's that the operation has made dead, before a fresh one.
Dst(l, vals) ==
  LET dead == {k \in Locals(vals) : l.refs[vals[k][2]] = 0}
  IN  IF dead # {} THEN vals[Min(dead)][2] ELSE Free(l)

-----------------------------------------------------------------------------
(* Spills: the memory stack is made true below k.                          *)

\* A parallel move: first what no pending move still reads.  When each reads what
\* another writes, the word one of them overwrites is kept in t_.
Moves(pending) ==
  LET step[k \in 0..Cardinality(DOMAIN pending)] ==
        IF k = 0 THEN [left |-> pending, code |-> <<>>]
        ELSE LET last == step[k - 1]
                 left == last.left
                 reads(d) == {e \in DOMAIN left : left[e] = Arr(d)}
                 ready == {d \in DOMAIN left : reads(d) = {}}
                 d == Min(IF ready # {} THEN ready ELSE DOMAIN left)
                 from == [e \in DOMAIN left |-> IF left[e] = Arr(d) THEN Temp ELSE left[e]]
             IN  [left |-> [e \in DOMAIN left \ {d} |-> from[e]],
                  code |-> last.code
                             \o (IF ready # {} THEN <<>> ELSE <<Move(Temp, Arr(d))>>)
                             \o <<Move(Arr(d), from[d])>>]
  IN  step[Cardinality(DOMAIN pending)].code

Dirty(l, k) == {p \in l.lo..(k - 1) : ValAt(l, p) # Arr(p)}

\* A word at k or above that reads a slot the spill writes is copied first.
Copied(s, p) ==
  LET t == Free(s)
      copied == Emit(s, Move(Local(t), ValAt(s, p)))
  IN  SetVal([copied EXCEPT !.busy = @ \cup {t}], p, Local(t))
Protected(l, k) ==
  LET upto[j \in 0..(Height(l) - k)] ==
        IF j = 0 THEN l
        ELSE IF ValAt(l, k + j - 1) \in {Arr(q) : q \in Dirty(l, k)}
        THEN Copied(upto[j - 1], k + j - 1)
        ELSE upto[j - 1]
  IN  upto[Height(l) - k]

\* The spill itself: what is dirty is moved to its place.
Spilled(l, dirty) ==
  [l EXCEPT
    !.code = @ \o Moves([p \in dirty |-> ValAt(l, p)]),
    !.refs = [i \in DOMAIN @ |-> @[i] - Count([p \in dirty |-> ValAt(l, p)], i)],
    !.stack = [n \in DOMAIN @ |-> IF l.lo + n - 1 \in dirty THEN Arr(l.lo + n - 1) ELSE @[n]]]

\* Mutation: what the spill overwrites is not copied out of its way.
Flush_Unprotected(l, k) == Spilled(l, Dirty(l, k))

Flush(l, k) ==
  IF Dirty(l, k) = {} THEN l ELSE Spilled(Rested(Protected(l, k)), Dirty(l, k))

\* Leave the block at depth k.
Exit(l, k) ==
  IF k = 0 THEN Flush(l, k) ELSE Emit(Flush(l, k), [kind |-> "sp", by |-> k])

-----------------------------------------------------------------------------
(* Ops.                                                                    *)

\* How the runtime takes the operands of op, the top first.
Uses(op) ==
  CASE op \in {\h15, \h54} -> <<"ptr">>
    [] op \in {\h01, \h03, \h0a, \h1b, \h55} -> <<"ptr", "ptr">>
    [] op = \h08 -> <<"ptr", "ptr", "ptr">>
    [] op \in {\h35, \h51} -> <<"sat">>
    [] op \in {\h20, \hf3, \hfd} -> <<"sat", "sat">>
    [] op \in {\h37, \h3e} -> <<"sat", "sat", "sat">>
    [] op = \h52 -> <<"sat", "ptr">>
    [] op = \h53 -> <<"sat", "low">>
HasResult(op) == op \in {\h01, \h03, \h08, \h0a, \h15, \h1b, \h20, \h35, \h51, \h54}
ValueFirst(op) == op = \h1b

Call(l, op) ==
  LET n == Len(Uses(op))
      vals == [k \in 1..n |-> Top(l, k)]
      args == [k \in 1..n |-> [use |-> Uses(op)[k], val |-> vals[k]]]
      popped == [PopVals(l, n) EXCEPT !.busy = {vals[k][2] : k \in Locals(vals)}]
      d == Dst(popped, vals)
      st(to) == [kind |-> "call", op |-> op, to |-> to,
                 args |-> IF ValueFirst(op) THEN <<args[2], args[1]>> ELSE args]
  IN  Rested(IF HasResult(op) THEN PushVal(Emit(popped, st(Local(d))), Local(d))
             ELSE Emit(popped, st(Temp)))

\* The interpreter's arithmetic over constants, the top first.
Fold(op, v) ==
  CASE op = \h01 -> (v[1] + v[2]) % W
    [] op = \h03 -> (v[1] - v[2]) % W
    [] op = \h08 -> IF v[3] = 0 THEN 0 ELSE (v[1] + v[2]) % v[3]
    [] op = \h15 -> Bool(v[1] = 0)
    [] op = \h1b -> Shl(v[2], v[1])
Pure(l, op) ==
  LET n == Len(Uses(op))
  IN  IF \A k \in 1..n : Top(l, k)[1] = "const"
      THEN PushVal(PopVals(l, n), Const(Fold(op, [k \in 1..n |-> Top(l, k)[2]])))
      ELSE Call(l, op)

\* A word computed from nothing on the stack.
Fresh(l, st) == PushVal(Emit(l, st @@ [to |-> Local(Free(l))]), Local(Free(l)))

Swapped(l, n) ==
  LET top == Len(l.stack)
  IN  [l EXCEPT !.stack[top] = l.stack[top - n], !.stack[top - n] = l.stack[top]]

LogOp(l, n) ==
  LET s == Flush(l, Height(l) - 2)
      arg(k) == [use |-> "sat", val |-> Top(s, k)]
  IN  Emit(PopVals(s, n + 2),
           [kind |-> "log", n |-> n, args |-> <<arg(1), arg(2)>>, topics |-> Height(l) - 2 - n])

BadJump == [kind |-> "halt", why |-> "badjump"]
Target(v) == FitsU32(v[2]) /\ Low(v[2]) \in jumpdests

Jump(l) ==
  LET dest == Top(l, 1)
      out == Exit(l, Height(l) - 1)
  IN  IF dest[1] = "const" /\ ~Target(dest) THEN Emit(PopVals(l, 1), BadJump)
      ELSE Emit(PopVals(out, 1),
                IF dest[1] = "const" THEN [kind |-> "goto", to |-> dest[2]]
                ELSE [kind |-> "dispatch", from |-> Top(out, 1)])

\* The condition is read before the spill, and the destination is kept above it.
JumpI(l) ==
  LET tested == Emit(PopVals(l, 2), [kind |-> "test", from |-> Top(l, 2)])
      out == Exit(PushVal(tested, Top(l, 1)), Height(l) - 2)
      dest == Top(out, 1)
  IN  Emit(PopVals(out, 1),
           IF dest[1] # "const" THEN [kind |-> "ifdispatch", from |-> dest]
           ELSE IF Target(dest) THEN [kind |-> "ifgoto", to |-> dest[2]]
           ELSE [BadJump EXCEPT !.kind = "ifhalt"])

Lifted(l, o) ==
  LET op == o.op
      halt(why) == Emit(l, [kind |-> "halt", why |-> why])
  IN  CASE op = \h00 -> halt("stop")
        [] op \in {\h01, \h03, \h08, \h15, \h1b} -> Pure(l, op)
        [] op \in {\h0a, \h20, \h35, \h37, \h3e, \hf3, \hfd} \cup \h51..\h55 -> Call(l, op)
        [] op = \h33 -> PushVal(l, Env(op))
        [] op \in {\h36, \h59} -> Fresh(l, [kind |-> "size", op |-> op])
        [] op = \h5a -> Fresh(l, [kind |-> "gas", after |-> o.gasAfter])
        [] op = \h58 -> PushVal(l, Const(o.pc))
        [] op \in {\h3d} \cup \h5f..\h7f -> PushVal(l, Const(o.imm))
        [] op = \h50 -> PopVals(l, 1)
        [] op = \h5b -> l
        [] op = \h56 -> Jump(l)
        [] op = \h57 -> JumpI(l)
        [] op \in \h80..\h8f -> PushVal(l, Top(l, op - \h7f))
        [] op \in \h90..\h9f -> Swapped(l, op - \h8f)
        [] op \in \ha0..\ha4 -> LogOp(l, op - \ha0)
        [] op = \hfe -> halt("invalid")
        [] OTHER -> halt("trap")

\* There is room for the locals of an op, after a spill if need be.
LiftOp(l, o) ==
  LET blank == [l EXCEPT !.code = <<>>]
  IN  Lifted(IF Live(blank) + OpRoom > MaxLocals THEN Flush(blank, Height(blank)) ELSE blank, o)

-----------------------------------------------------------------------------
NoBlock == [ops |-> <<>>, gas |-> 0, minDepth |-> 0, maxGrowth |-> 0, next |-> 0, falls |-> FALSE]

TranslatedInit(gasLimit, tree) ==
  /\ c = [stack |-> [p \in 0..(StackLimit - 1) |-> 0], sp |-> 0, base |-> 0,
          gas |-> gasLimit, mem |-> [a \in 0..(MaxMem - 1) |-> 0], msize |-> 0,
          tree |-> tree, ret |-> <<>>, logs |-> <<>>, halt |-> "none",
          r |-> [i \in 0..(MaxLocals - 1) |-> 0], t |-> 0, c |-> FALSE, pc |-> 0]
  /\ block = NoBlock /\ lift = NewLift(0) /\ at = 0

\* The head of a block: the stack, the base, the static gas of the whole block.
Entered(b) ==
  IF c.sp < b.minDepth THEN EvmHalt(c, "underflow")
  ELSE IF c.sp + b.maxGrowth > StackLimit THEN EvmHalt(c, "overflow")
  ELSE EvmCharge([c EXCEPT !.base = c.sp], b.gas)

BlockHead ==
  /\ Alive(c) /\ at = 0 /\ c.pc \in 0..(Len(code) - 1)
  /\ block' = BlockAt(c.pc)
  /\ c' = Entered(block')
  /\ lift' = NewLift(block'.minDepth) /\ at' = 1

\* Running off the end of the code.
OffTheEnd ==
  /\ Alive(c) /\ at = 0 /\ c.pc >= Len(code)
  /\ c' = EvmHalt(c, "stop")
  /\ UNCHANGED <<block, lift, at>>

Op ==
  /\ Alive(c) /\ at \in DOMAIN block.ops
  /\ lift' = LiftOp(lift, block.ops[at])
  /\ c' = Executed([c EXCEPT !.pc = block.next], lift'.code)
  /\ at' = IF Ordinary(block.ops[at].op) THEN at + 1 ELSE 0
  /\ UNCHANGED block

\* The end of a block that no terminator ends; what follows it is the next one.
Fall ==
  /\ Alive(c) /\ at > Len(block.ops)
  /\ lift' = IF block.falls THEN Exit([lift EXCEPT !.code = <<>>], Height(lift)) ELSE lift
  /\ c' = IF block.falls THEN Executed(c, lift'.code) ELSE c
  /\ at' = 0
  /\ UNCHANGED block
=============================================================================
