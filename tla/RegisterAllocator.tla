------------------------ MODULE RegisterAllocator -----------------------
(***************************************************************************)
(* Builder::replay (recursion/src/dsl/builder.rs): the buffer is walked    *)
(* twice.  The first walk finds where every handle is used.  The second    *)
(* gives a handle a register at its definition and, with liveness on,      *)
(* takes it back at its last use; what the registers cannot hold is        *)
(* spilled to cells, and reloaded into scratch or, where that pays, into a *)
(* register again.  A build that a check stops is `refused`.               *)
(***************************************************************************)
EXTENDS RecursionBuilder

CONSTANT NumHomes       \* the length of ALLOCATABLE
ASSUME RegistersAssumption == NumHomes \in Nat /\ NumHomes % 2 = 1

Allocatable == 1 .. NumHomes
Scratch == NumHomes + 1 .. NumHomes + NumScratch

VARIABLES
    buf,        \* the builder whose program is built
    plan        \* pass 1: definitions, uses and last uses

None == 0       \* no register
NoCell == -1

-----------------------------------------------------------------------------
(* Pass 1. *)

Used(ops, i) ==
    CASE ops[i].kind = "mat" -> {ops[i].id}
      [] ops[i].kind = "instr" ->
           LET refs == {ops[i].rd, ops[i].ra, ops[i].b}
           IN  {ref[2] : ref \in {s \in refs : s[1] = "home"}}
               \cup {ops[ref[2]].id : ref \in {s \in refs : s[1] = "mat"}}
      [] OTHER -> {}

(* The loops of a buffer: a top's end is the first that balances it. *)
Loops(ops) ==
    LET at(kind) == {i \in DOMAIN ops : ops[i].kind = kind}
        tops == at("looptop")
        ends == at("loopend")
        balanced(i, j) == Cardinality(tops \cap (i .. j)) = Cardinality(ends \cap (i .. j))
    IN  {<<i, Min({j \in ends : j > i /\ balanced(i, j)})>> : i \in tops}

(* What a body touches, of the handles from before it, it touches until    *)
(* the loop is over, and of loops in each other the outermost.             *)
Clamp(u, def, loops) ==
    Max({u} \cup {l[2] : l \in {k \in loops : def < k[1] /\ k[1] < u /\ u < k[2]}})

Plan(b) ==
    LET ops == b.ops
        ids == DOMAIN b.width
        loops == Loops(ops)
        def == [id \in ids |-> CHOOSE i \in DOMAIN ops : ops[i].kind = "def" /\ ops[i].id = id]
        uses == [id \in ids |-> {Clamp(i, def[id], loops) :
                                   i \in {j \in DOMAIN ops : id \in Used(ops, j)}}]
    IN  [def |-> def, uses |-> uses, last |-> [id \in ids |-> Max({0} \cup uses[id])]]

-----------------------------------------------------------------------------
(* Pass 2's state and its registers. *)

Start(b) ==
    [home |-> [id \in DOMAIN b.width |-> None], cell |-> [id \in DOMAIN b.width |-> NoCell],
     clean |-> {}, residents |-> <<>>, free |-> <<<<>>, <<>>>>, arena |-> 0,
     out |-> <<>>, pc |-> <<>>, scratch |-> 0, slots |-> <<>>, mats |-> <<>>,
     branches |-> <<>>, loops |-> <<>>, got |-> None, refused |-> FALSE]

Lanes(reg, w) == reg .. (reg + w - 1)
Held(s, id) == Lanes(s.home[id], buf.width[id])
Taken(s) == UNION {Held(s, id) : id \in ToSet(s.residents)}

Vacant(s, w) ==
    {reg \in Allocatable : /\ Lanes(reg, w) \subseteq Allocatable \ Taken(s)
                           /\ w = 2 => reg % 2 = 1}

Never == Len(buf.ops) + 1
NextUse(id, i) == Min({u \in plan.uses[id] : u > i} \cup {Never})

Code(kind, op, rd, ra, v) == [kind |-> kind, op |-> op, rd |-> rd, ra |-> ra, b |-> v, target |-> 0]
Out(s, ins) == [s EXCEPT !.out = Append(@, ins)]
Refused(s) == [s EXCEPT !.refused = TRUE]

(* A spill cell of the width: one that died with that width, or a new one. *)
SpillCell(s, id) ==
    LET w == buf.width[id]
        free == IF buf.live THEN s.free[w] ELSE <<>>
    IN  IF free # <<>> THEN [s EXCEPT !.cell[id] = Last(free), !.free[w] = Front(free)]
        ELSE [s EXCEPT !.cell[id] = s.arena, !.arena = @ + w, !.refused = @ \/ s.arena + w > MemBase]

(* The victim leaves its register; a clean one is still in its cell. *)
Evict(s0, id) ==
    LET s == [s0 EXCEPT !.home[id] = None,
                        !.residents = SelectSeq(@, LAMBDA other : other # id)]
        t == IF s.cell[id] # NoCell THEN s ELSE SpillCell(s, id)
        op == IF buf.width[id] = 1 THEN "store" ELSE "storee"
    IN  IF id \in s.clean /\ s.cell[id] # NoCell THEN s
        ELSE Out(t, Code("spill", op, s0.home[id], 0, t.cell[id]))

Unpinned(s, pinned) == SelectSeq(s.residents, LAMBDA id : Held(s, id) \cap pinned = {})
(* The oldest of those whose next use is farthest, or of all.              *)
Victim(s, pinned, i) ==
    LET ids == Unpinned(s, pinned)
        far == Max({NextUse(id, i) : id \in ToSet(ids)})
    IN  IF buf.live THEN SelectSeq(ids, LAMBDA id : NextUse(id, i) = far)[1] ELSE ids[1]

RECURSIVE Claim(_, _, _, _)
Claim(s, w, pinned, i) ==
    IF Vacant(s, w) # {} THEN [s EXCEPT !.got = Min(Vacant(s, w))]
    ELSE IF Unpinned(s, pinned) = <<>> THEN Refused(s)
    ELSE Claim(Evict(s, Victim(s, pinned, i)), w, pinned, i)

Settle(s, id) == [s EXCEPT !.home[id] = s.got, !.residents = Append(@, id)]

-----------------------------------------------------------------------------
(* Reloads. *)

OpenTop(s) == IF s.loops = <<>> THEN 0 ELSE Last(s.loops).top
FromBefore(s, i) == {id \in ToSet(s.residents) : plan.def[id] < OpenTop(s)}
HeldBy(s, ids) == UNION {Held(s, id) : id \in ids}

(* The entries up to the next group. *)
Rest(i) ==
    LET ends == {j \in i + 1 .. Len(buf.ops) : buf.ops[j].kind = "group"}
    IN  i + 1 .. Min({Never} \cup ends) - 1

NotScratch(s) == {s.mats[e] : e \in DOMAIN s.mats} \ Scratch

(* What a re-home must leave where it is: the operands of its group, and   *)
(* inside a loop every handle from before it.                              *)
RehomePins(s, i) ==
    LET homes == UNION {{ref \in {buf.ops[j].rd, buf.ops[j].ra, buf.ops[j].b} : ref[1] = "home"} :
                          j \in {k \in Rest(i) : buf.ops[k].kind = "instr"}}
        mats == {buf.ops[j].id : j \in {k \in Rest(i) : buf.ops[k].kind = "mat"}}
    IN  NotScratch(s)
        \cup {s.home[ref[2]] + ref[3] : ref \in {h \in homes : s.home[h[2]] # None}}
        \cup HeldBy(s, {id \in mats : s.home[id] # None})
        \cup HeldBy(s, FromBefore(s, i))

(* Whether the handle comes back to a register: it is used again before    *)
(* somebody who holds one is, and staying there harms no other path.       *)
Rehomes(s, id, i) ==
    LET again == {u \in plan.uses[id] : u > i /\ buf.ops[u].kind = "mat"}
        others == ToSet(Unpinned(s, RehomePins(s, i)))
    IN  /\ buf.live /\ buf.width[id] = 1 /\ id \notin buf.mutable /\ s.branches = <<>>
        /\ s.loops # <<>> => plan.def[id] > OpenTop(s)
        /\ again # {}
        /\ Allocatable \ Taken(s) # {} \/ \E o \in others : NextUse(o, i) > Min(again)

Rehome(s, id, i) ==
    LET t == Claim(s, 1, RehomePins(s, i), i)
    IN  IF t.refused THEN t
        ELSE [Settle(Out(t, Code("reload", "load", t.got, 0, t.cell[id])), id)
               EXCEPT !.clean = @ \cup {id}]

NextScratch(s, n) == IF s.scratch + n > NumScratch THEN Refused(s)
                     ELSE [s EXCEPT !.scratch = @ + n, !.got = NumHomes + s.scratch + 1]

Reload(s, id) ==
    LET t == NextScratch(s, buf.width[id])
        op == IF buf.width[id] = 1 THEN "load" ELSE "loade"
    IN  IF t.refused THEN t ELSE Out(t, Code("reload", op, t.got, 0, t.cell[id]))

WalkMat(s0, id, i) ==
    LET s == IF s0.home[id] = None /\ Rehomes(s0, id, i) THEN Rehome(s0, id, i) ELSE s0
        t == IF s.home[id] = None THEN Reload(s, id) ELSE [s EXCEPT !.got = s.home[id]]
    IN  IF s.refused THEN s ELSE [t EXCEPT !.mats = (i :> t.got) @@ @]

-----------------------------------------------------------------------------
(* Definitions. *)

(* The registers that the instructions defining a handle read. *)
DefPins(s, id, i) ==
    LET instr(j) == j <= Len(buf.ops) /\ buf.ops[j].kind = "instr"
        first == IF instr(i + 1) THEN {i + 1} ELSE {}
        done == first # {} /\ buf.width[id] = 1 /\ buf.ops[i + 1].rd = Home(id, 0)
        js == IF first # {} /\ ~done /\ instr(i + 2) THEN {i + 1, i + 2} ELSE first
        refs == UNION {{buf.ops[j].ra, buf.ops[j].b} : j \in js}
    IN  {s.home[ref[2]] + ref[3] : ref \in {h \in refs : h[1] = "home" /\ s.home[h[2]] # None}}
        \cup {s.mats[ref[2]] + ref[3] :
                ref \in {m \in refs : m[1] = "mat" /\ s.mats[m[2]] \notin Scratch}}

(* In a loop, a handle from before it is evicted only for want of another. *)
Preferred(s, pinned, i) ==
    LET before == HeldBy(s, FromBefore(s, i))
    IN  IF buf.live /\ s.loops # <<>> /\ Unpinned(s, pinned \cup before) # <<>> THEN pinned \cup before ELSE pinned

WalkDef(s, id, i) ==
    LET t == Claim(s, buf.width[id], Preferred(s, DefPins(s, id, i), i), i)
    IN  IF t.refused THEN t ELSE [Settle(t, id) EXCEPT !.clean = @ \ {id}]

-----------------------------------------------------------------------------
(* Instructions and markers. *)

Resolved(s, ref) ==
    CASE ref[1] = "home" -> s.home[ref[2]] + ref[3]
      [] ref[1] = "mat" -> s.mats[ref[2]] + ref[3]
      [] ref[1] = "scratch" -> s.slots[ref[2] + 1]
      [] OTHER -> ref[2]

(* A handle used after its last use is refused. *)
Homeless(s, o) == \E ref \in {o.rd, o.ra, o.b} : ref[1] = "home" /\ s.home[ref[2]] = None

WalkInstr(s, o) ==
    IF Homeless(s, o) THEN Refused(s)
    ELSE Out([s EXCEPT !.clean = @ \ (IF o.rd[1] = "home" THEN {o.rd[2]} ELSE {})],
             [Code("instr", o.op, Resolved(s, o.rd), Resolved(s, o.ra), Resolved(s, o.b))
                EXCEPT !.target = o.target])

WalkScratch(s, n) ==
    LET t == NextScratch(s, n)
    IN  IF t.refused THEN t ELSE [t EXCEPT !.slots = @ \o [k \in 1 .. n |-> t.got + k - 1]]

Placed(s) == [home |-> s.home, cell |-> s.cell]
Where(p, id) == <<p.home[id], p.cell[id]>>

(* A body that may be skipped leaves what lives after it where it was. *)
WalkBranchEnd(s) ==
    LET was == Last(s.branches)
        nowhere == <<None, NoCell>>
        kept(id) == \/ Where(s, id) = Where(was, id)
                    \/ Where(s, id) = nowhere /\ Where(was, id) # nowhere
    IN  [s EXCEPT !.branches = Front(@), !.refused = \E id \in DOMAIN s.home : ~kept(id)]

(* A body that runs again leaves everything where it was. *)
WalkLoopEnd(s) ==
    [s EXCEPT !.loops = Front(@), !.refused = Placed(s) # Last(s.loops).was]

Walked(s, o, i) ==
    CASE o.kind = "group" -> [s EXCEPT !.scratch = 0, !.slots = <<>>, !.mats = <<>>]
      [] o.kind = "mat" -> WalkMat(s, o.id, i)
      [] o.kind = "def" -> WalkDef(s, o.id, i)
      [] o.kind = "scratch" -> WalkScratch(s, o.n)
      [] o.kind = "instr" -> WalkInstr(s, o)
      [] o.kind = "looptop" -> [s EXCEPT !.loops = Append(@, [top |-> i, was |-> Placed(s)])]
      [] o.kind = "loopend" -> WalkLoopEnd(s)
      [] o.kind = "branchtop" -> [s EXCEPT !.branches = Append(@, Placed(s))]
      [] o.kind = "branchend" -> WalkBranchEnd(s)

(* After its last use a handle gives its register and its cell back. *)
Freed(s, id) ==
    [s EXCEPT !.home[id] = None, !.cell[id] = NoCell, !.clean = @ \ {id},
              !.residents = SelectSeq(@, LAMBDA other : other # id),
              !.free[buf.width[id]] = IF s.cell[id] = NoCell THEN @ ELSE Append(@, s.cell[id])]
Dying(i) == {id \in DOMAIN buf.width : plan.last[id] = i}

Dead(s, i) == IF buf.live THEN FoldSet(LAMBDA id, t : Freed(t, id), s, Dying(i)) ELSE s

-----------------------------------------------------------------------------
Step(s, i) ==
    LET t == Walked([s EXCEPT !.pc = Append(@, Len(s.out))], buf.ops[i], i)
    IN  IF t.refused THEN t ELSE Dead(t, i)

(* The entries from lo to hi, by halves. *)
RECURSIVE Walk(_, _, _)
Walk(s, lo, hi) ==
    IF lo = hi THEN Step(s, lo)
    ELSE LET mid == (lo + hi) \div 2
             half == Walk(s, lo, mid)
         IN  IF half.refused THEN half ELSE Walk(half, mid + 1, hi)

(* A branch's entry becomes the number of instructions before it. *)
Linked(s) ==
    LET linked(ins) == IF ins.target = 0 THEN ins ELSE [ins EXCEPT !.b = s.pc[ins.target]]
    IN  IF s.refused THEN s ELSE [s EXCEPT !.out = [k \in DOMAIN @ |-> linked(@[k])]]

Replayed == Linked(IF buf.refused THEN Refused(Start(buf)) ELSE Walk(Start(buf), 1, Len(buf.ops)))
=========================================================================
