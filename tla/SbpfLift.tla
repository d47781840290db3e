------------------------------ MODULE SbpfLift ------------------------------
(***************************************************************************)
(* The translator from sBPF: its scanner, and below it its emitter.        *)
(*                                                                         *)
(* The scanner (sbpf2rv's scan.rs): what of a program's text can run, cut  *)
(* into functions and basic blocks.  Nothing is refused: what the scanner  *)
(* cannot follow becomes a block that traps.  Every slot begins an         *)
(* instruction, the second slot of an lddw too, if anything jumps there.   *)
(* The bound on the scanner's own work is left out.                        *)
(***************************************************************************)
EXTENDS SbpfCode

\* One synthetic pc stands for every target that is not in the text.
NoCode == NSlots
Edge(t) == IF InText(t) THEN t ELSE NoCode

After(pc) == pc + Span(Insn(pc))
Target(pc) == pc + 1 + (IF Insn(pc).k = "call" THEN Insn(pc).imm ELSE Insn(pc).off)

\* How a block that reaches pc ends there, if it does ("fall": it does not).
Term(pc) ==
  LET i == Insn(pc)
  IN  CASE BadRegister(i) -> "badinsn"
        [] i.k = "ja" -> "jump"
        [] i.k = "jcc" -> "cond"
        [] i.k = "exit" -> "exit"
        [] i.k = "call" /\ i.src = 1 -> "syscall"
        [] i.k = "call" /\ i.src = 0 -> IF InText(Target(pc)) THEN "call" ELSE "badjump"
        [] i.k = "callx" /\ i.imm \in 0..10 -> "callx"
        [] i.k \in Plain \cup {"lddw"} -> IF InText(After(pc)) THEN "fall" ELSE "badjump"
        [] OTHER -> "badinsn"

\* Where control may go from pc inside its function.
Onward(pc) ==
  IF pc = NoCode THEN {}
  ELSE LET term == Term(pc)
       IN  CASE term = "jump" -> {Edge(Target(pc))}
             [] term = "cond" -> {Edge(Target(pc)), Edge(pc + 1)}
             [] term \in {"call", "callx", "syscall"} -> {Edge(pc + 1)}
             [] term = "fall" -> {After(pc)}
             [] OTHER -> {}

-----------------------------------------------------------------------------
(* Functions.                                                              *)

\* What the walk from entry visits.
Reach(entry) ==
  LET closure[seen \in SUBSET (0..NoCode)] ==
        LET more == seen \cup UNION {Onward(pc) : pc \in seen}
        IN  IF more = seen THEN seen ELSE closure[more]
  IN  closure[{entry}]

\* Constants a callx may take its target from: those that are the address of a slot.
Constants ==
  {Imm64(pc) : pc \in {p \in 0..(NSlots - 2) : Insn(p).k = "lddw"}} \cup Range(prog.data)
Roots ==
  LET offsets == {(v - TextVa) % W : v \in Constants}
  IN  {o \div 2 : o \in {d \in offsets : d % 2 = 0 /\ InText(d \div 2)}}

Functions ==
  LET called(fs) == {Target(pc) : pc \in {p \in (UNION {Reach(f) : f \in fs}) \ {NoCode} : Term(p) = "call"}}
      closure[fs \in SUBSET (0..NoCode)] ==
        IF called(fs) \subseteq fs THEN fs ELSE closure[fs \cup called(fs)]
  IN  closure[Roots \cup {prog.entry}]

-----------------------------------------------------------------------------
(* Blocks.  A pc begins one if it is a jump's target, or if the walk comes *)
(* to it twice, or if what comes before it ends a block.                   *)

Splits(entry) ==
  LET code == Reach(entry) \ {NoCode}
      jumped == {Target(pc) : pc \in {p \in code : Term(p) \in {"jump", "cond"}}}
      arrivals(q) == Cardinality({p \in code : q \in Onward(p)}) + (IF q = entry THEN 1 ELSE 0)
  IN  {q \in code : q \in jumped \/ arrivals(q) > 1}

Starts(entry) ==
  LET ends == {pc \in Reach(entry) \ {NoCode} : Term(pc) # "fall"}
  IN  {entry} \cup Splits(entry) \cup UNION {Onward(pc) : pc \in ends}

\* The block from start, where cuts are the pcs that begin another.
BlockFrom(start, cuts) ==
  LET pcs[pc \in 0..NoCode] ==
        IF Term(pc) # "fall" \/ After(pc) \in cuts THEN <<pc>> ELSE <<pc>> \o pcs[After(pc)]
  IN  IF start = NoCode THEN [pcs |-> <<>>, term |-> "badjump"]
      ELSE [pcs |-> pcs[start], term |-> Term(Last(pcs[start]))]

-----------------------------------------------------------------------------
(* The emitter (sbpf2rv's emit.rs): which functions get code of their own  *)
(* and which are entries into another's, what a block charges and whether  *)
(* it checks, and which registers a call hands over and back.              *)

Registers == SUBSET (0..10)
\* f itself, each of its values computed once.
Table(f) == f @@ <<>>

-----------------------------------------------------------------------------
(* Merged functions.  A function whose entry another one executes is       *)
(* emitted as an entry of the longest such one.                            *)

Executed(f) == {pc \in Reach(f) \ {NoCode} : Term(pc) # "badinsn"}

Host(g, executed) ==
  LET fits == {f \in DOMAIN executed : f = g \/ g \in executed[f]}
      beats(f, h) == Cardinality(executed[f]) > Cardinality(executed[h])
                     \/ (Cardinality(executed[f]) = Cardinality(executed[h]) /\ f < h)
  IN  CHOOSE f \in fits : \A h \in fits \ {f} : beats(f, h)

Members(host, h) == {g \in DOMAIN host \ {h} : host[g] = h}

-----------------------------------------------------------------------------
(* The budget.                                                             *)

\* One for each instruction, and one for the fetch that fails after the last; a bad
\* call and a truncated lddw fail inside their own step.
Charge(b) ==
  LET last == Insn(Last(b.pcs))
      inStep == b.pcs # <<>> /\ (last.k = "call" \/ (last.k = "lddw" /\ ~InText(Last(b.pcs) + 1)))
  IN  Len(b.pcs) + (IF b.term = "badjump" /\ ~inStep THEN 1 ELSE 0)

\* Where a block may hand control inside its function, when it does not call.
Successors(b) ==
  CASE b.term = "fall" -> {After(Last(b.pcs))}
    [] b.term \in {"jump", "cond", "syscall"} -> Onward(Last(b.pcs))
    [] b.term \in {"call", "callx"} -> Onward(Last(b.pcs)) \ {NoCode}
    [] OTHER -> {}

\* Mutation: a block defers its check whatever the blocks around it do.
Unchecked_Adjacent(blocks) ==
  {s \in DOMAIN blocks : blocks[s].term \notin {"exit", "call", "callx"} /\ s \notin Successors(blocks[s])}

\* The blocks that only charge, chosen from the first to the last.
Unchecked(blocks) ==
  LET succ == Table([s \in DOMAIN blocks |-> Successors(blocks[s])])
      neighbours(s) == succ[s] \cup {p \in DOMAIN blocks : s \in succ[p]}
      eligible(s, un) ==
        /\ blocks[s].term \notin {"exit", "call", "callx"}
        /\ s \notin succ[s] /\ neighbours(s) \cap un = {}
  IN  FoldLeft(LAMBDA un, s : IF eligible(s, un) THEN un \cup {s} ELSE un, {},
               SetToSortSeq(DOMAIN blocks, <))

Emitted(f, members) ==
  LET cuts == Starts(f) \cup members
      blocks == Table([s \in cuts |-> BlockFrom(s, cuts)])
      un == Unchecked(blocks)
  IN  [s \in cuts |-> [pcs |-> blocks[s].pcs, term |-> blocks[s].term,
                       cost |-> Charge(blocks[s]), checked |-> s \notin un]]

-----------------------------------------------------------------------------
(* Registers across calls: what one instruction reads and writes; what a   *)
(* function may write of r0..r5 before it returns; what it may read of     *)
(* r0..r9 before writing.  A callx is a call of every known function.      *)

Uses(i) ==
  LET operand == IF i.reg THEN {i.src} ELSE {}
  IN  CASE i.k = "ldx" -> {i.src}
        [] i.k \in {"st", "jcc"} -> {i.dst} \cup operand
        [] i.k = "alu" -> operand \cup (IF i.op = "mov" THEN {} ELSE {i.dst})
        [] OTHER -> {}
Defs(i) == IF i.k \in {"lddw", "ldx", "alu"} THEN {i.dst} ELSE {}

\* Least fixpoints, from nothing.
Modified(executed) ==
  LET writes(pc, mod) ==
        Defs(Insn(pc)) \cup
          CASE Term(pc) = "call" -> mod[Target(pc)]
            [] Term(pc) = "callx" -> UNION Range(mod)
            [] Term(pc) = "syscall" -> {0}
            [] OTHER -> {}
      fix[mod \in [DOMAIN executed -> Registers]] ==
        LET more == [f \in DOMAIN executed |-> (0..5) \cap UNION {writes(pc, mod) : pc \in executed[f]}]
        IN  IF more = mod THEN mod ELSE fix[more]
  IN  fix[[f \in DOMAIN executed |-> {}]]

\* What the code from pc on may read, its exits what a caller copies back: a call kills
\* nothing, and what traps reads nothing more.
LiveAt(pc, f, live, in, mod) ==
  LET i == Insn(pc)
      next == UNION {IF q = NoCode THEN {} ELSE live[<<f, q>>] : q \in Onward(pc)}
      after ==
        CASE Term(pc) = "exit" -> mod[f]
          [] Term(pc) = "call" -> next \cup in[Target(pc)]
          [] Term(pc) = "callx" -> next \cup UNION Range(in) \cup {i.imm}
          [] Term(pc) = "syscall" -> (next \ {0}) \cup (1..5)
          [] OTHER -> next
  IN  IF Term(pc) = "badinsn" THEN {} ELSE (after \ Defs(i)) \cup Uses(i)

LiveIn(executed, mod) ==
  LET points == UNION {{<<f, pc>> : pc \in Reach(f) \ {NoCode}} : f \in DOMAIN executed}
      entry(live) == [f \in DOMAIN executed |-> live[<<f, f>>] \cap (0..9)]
      fix[live \in [points -> Registers]] ==
        LET in == entry(live)
            more == [p \in points |-> LiveAt(p[2], p[1], live, in, mod)]
        IN  IF more = live THEN in ELSE fix[more]
  IN  fix[[p \in points |-> {}]]

-----------------------------------------------------------------------------
\* Mutation: a callx passes what its targets may read (as before fuzz seed 133).
CallxPassed_LiveOnly(live, mod) == UNION Range(live)

\* What a callx passes: every register it copies back goes in too, since a target that
\* does not write one hands back what it was given.
CallxPassed(live, mod) == UNION Range(live) \cup UNION Range(mod)

EmitProgram ==
  LET executed == Table([f \in Functions |-> Executed(f)])
      host == Table([g \in DOMAIN executed |-> Host(g, executed)])
      mod == Modified(executed)
      live == LiveIn(executed, mod)
  IN  [host |-> host, blocks |-> [h \in Range(host) |-> Emitted(h, Members(host, h))],
       live |-> live, modified |-> mod,
       callxPassed |-> CallxPassed(live, mod), callxCopied |-> UNION Range(mod)]
=============================================================================
