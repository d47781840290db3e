------------------------------ MODULE MCDsl -----------------------------
(***************************************************************************)
(* Programs of the recursion DSL for TLC.  A program reads a few hints,    *)
(* makes a few calls from its scenario's menu, on the oldest and the       *)
(* newest handles there are, closes what is open and publishes every       *)
(* handle that was defined outside a body, or only those after the first   *)
(* hints, so that the hints die early, or one of a body as well.  Other    *)
(* scenarios have the program of a gadget instead of a menu.               *)
(***************************************************************************)
EXTENDS DslProgram, DslGadgets

CONSTANT TapeLength

ToyPermute(s) ==
    LET q == [i \in DOMAIN s |-> ((s[i] + i) * (s[i] + i) * (s[i] + 2 * i)) % P]
        sum == FoldLeft(LAMBDA x, y : x + y, 0, q)
    IN  [i \in DOMAIN s |-> (3 * q[i] + sum + i) % P]

VARIABLES
    scenario,   \* the menu, the hints read first, and the builder's options
    open,       \* the bodies that are open, innermost last
    gone,       \* the handles of closed bodies
    calls       \* calls made
writing == <<scenario, open, gone, calls>>
mcVars == <<buf, plan, program, vm, handles, scenario, open, gone, calls>>

Tape == [k \in 1 .. TapeLength |-> (k * k + 1) % P]

Bodies == {"if", "when", "loop", "mem"}
Control == {"hint", "add", "public"} \cup Bodies
Values == {"hint", "sub", "mul", "inv", "copy", "muli", "constant", "nonzero", "equal", "zero"}
Extensions == {"hintext", "eadd", "emul", "einv", "lift", "from", "parts", "emulf", "econst"}
Memory == {"array", "load", "store", "storeext", "loadext", "copycells", "copyabs", "zerocells", "indirect", "offset"}

NoGadget == Gadget("none", 0, <<>>, Trapped)
Scenario(menu, hints, pairs, n) ==
    [menu |-> menu, hints |-> hints, pairs |-> pairs, calls |-> n, gadget |-> NoGadget]
GadgetScenario(g) == [Scenario({}, 0, 0, 0) EXCEPT !.gadget = g]
Scenarios ==
    {s @@ [live |-> live, precompiles |-> TRUE] :
       live \in BOOLEAN, s \in {Scenario(Control, 4, 0, 2), Scenario(Extensions, 4, 0, 2),
                                 Scenario(Extensions, 4, 2, 1)}}
    \cup {s @@ [live |-> TRUE, precompiles |-> precompiles] :
       precompiles \in BOOLEAN, s \in {Scenario(Memory, 4, 1, 2), Scenario(Values, 6, 0, 2)}}
    \cup {s @@ [live |-> TRUE, precompiles |-> TRUE] :
       s \in {Scenario(Control, 6, 0, 3), Scenario(Extensions, 4, 2, 3)}}
    \cup {GadgetScenario(g) @@ [live |-> TRUE, precompiles |-> precompiles] :
       precompiles \in BOOLEAN, g \in Gadgets}

(* The oldest and the newest handle of a width. *)
OfWidth(w) == {id \in DOMAIN buf.width \ gone : buf.width[id] = w}
Newest1 == Max(OfWidth(1))
Newest2 == Max(OfWidth(2))
Oldest2 == Min(OfWidth(2))

(* Two cells and a pointer to them, which every program has, and one cell  *)
(* for its loops' counter.                                                 *)
Cell == Pointer(ZeroHandle, MemBase)
Pair == Pointer(1, MemBase + 1)

Called(c) ==
    CASE c = "hint" -> Hint(buf)
      [] c = "add" -> Bin(buf, "fadd", 2, Newest1, 1)
      [] c = "sub" -> Bin(buf, "fsub", 2, Newest1, 1)
      [] c = "mul" -> Bin(buf, "fmul", 2, Newest1, 1)
      [] c = "inv" -> Un(buf, "inv", Newest1, 0, 1)
      [] c = "copy" -> Un(buf, "mov", 2, 0, 1)
      [] c = "muli" -> Un(buf, "fmuli", Newest1, 3, 1)
      [] c = "constant" -> Constant(buf, 4)
      [] c = "nonzero" -> AssertNonzero(buf, Newest1)
      [] c = "equal" -> AssertEq(buf, 2, Newest1)
      [] c = "zero" -> AssertEq(buf, Newest1, ZeroHandle)
      [] c = "public" -> Public(buf, Newest(buf))
      [] c = "hintext" -> HintExt(buf)
      [] c = "eadd" -> Bin(buf, "eadd", Oldest2, Newest2, 2)
      [] c = "emul" -> Bin(buf, "emul", Oldest2, Newest2, 2)
      [] c = "emulf" -> Bin(buf, "emulf", Oldest2, 2, 2)
      [] c = "einv" -> Un(buf, "einv", Newest2, 0, 2)
      [] c = "econst" -> ExtConstant(buf, 5, 6)
      [] c = "lift" -> ExtLift(buf, Newest1)
      [] c = "from" -> ExtFromParts(buf, 2, Newest1)
      [] c = "parts" -> ExtParts(buf, Newest2)
      [] c = "array" -> HintArray(buf, 6)
      [] c = "load" -> Load(buf, Pair, 1, 1)
      [] c = "loadext" -> Load(buf, Pair, 0, 2)
      [] c = "store" -> Store(buf, Pair, 0, Newest1, 1)
      [] c = "storeext" -> Store(buf, Pair, 0, Newest2, 2)
      [] c = "copycells" -> CopyCells(buf, Offset(Pair, 1), Pair, 1)
      [] c = "copyabs" -> CopyCells(buf, Pair, Cell, 2)
      [] c = "zerocells" -> ZeroCells(buf, Pair, 2)
      [] c = "indirect" -> StoreIndirect(buf, 1, Newest1)
      [] c = "offset" -> LoadOffset(buf, Cell, 0, 2, 1)

NeedsPair == {"eadd", "emul", "emulf", "einv", "parts", "storeext"}

-----------------------------------------------------------------------------
Prologue(sc) ==
    LET b == Alloc(AllocAbsolute(NewBuilder(sc.live, sc.precompiles), 1), 2)
        ones == FoldLeft(LAMBDA c, k : Hint(c), b, Cells(sc.hints))
    IN  FoldLeft(LAMBDA c, k : HintExt(c), ones, Cells(sc.pairs))

MCInit ==
    /\ scenario \in Scenarios
    /\ buf = (IF scenario.gadget = NoGadget THEN Prologue(scenario)
              ELSE GadgetBuild(NewBuilder(scenario.live, scenario.precompiles), scenario.gadget))
    /\ plan = <<>>
    /\ program = NoProgram /\ vm = NoMachine /\ handles = NoMachine
    /\ open = <<>> /\ gone = {} /\ calls = 0

Writing == plan = <<>>
Building == UNCHANGED <<plan, program, vm, handles, scenario>>

Write(c) ==
    /\ Writing /\ calls < scenario.calls
    /\ c \in NeedsPair => OfWidth(2) # {}
    /\ buf' = Called(c) /\ calls' = calls + 1
    /\ Building /\ UNCHANGED <<open, gone>>

Opened(c) ==
    CASE c = "if" -> IfTop(buf, 2, 2)
      [] c = "when" -> IfTop(buf, 2, Newest1)
      [] c = "loop" -> LoopTop(buf, 2)
      [] c = "mem" -> MemLoopTop(buf, Cell, 2)
Open(c) ==
    /\ Writing /\ calls < scenario.calls /\ Len(open) < 2
    /\ c = "mem" => \A k \in DOMAIN open : open[k].kind # "mem"
    /\ LET b == Opened(c)
       IN  /\ buf' = b
           /\ open' = Append(open, [kind |-> c, at |-> Len(b.ops), newest |-> Newest(b),
                                   first |-> Newest(buf)])
    /\ calls' = calls + 1
    /\ Building /\ UNCHANGED gone

Closed(o) ==
    CASE o.kind \in {"if", "when"} -> IfEnd(buf, o.at - 1)
      [] o.kind = "loop" -> LoopEnd(buf, o.at, o.newest)
      [] o.kind = "mem" -> MemLoopEnd(buf, o.at, Cell)
Close ==
    /\ Writing /\ open # <<>>
    /\ buf' = Closed(Last(open)) /\ open' = Front(open)
    /\ gone' = gone \cup (Last(open).first + 1 .. Newest(buf'))
    /\ Building /\ UNCHANGED calls

Publish(from, leaked) ==
    /\ Writing /\ open = <<>> /\ scenario.gadget = NoGadget
    /\ LET ids == SelectSeq([id \in DOMAIN buf.width |-> id],
                            LAMBDA id : id \in {1} \cup leaked \cup ((from .. Newest(buf)) \ gone))
       IN  Survey(FoldLeft(Public, buf, ids))
    /\ UNCHANGED writing

Complete == scenario.gadget # NoGadget /\ Survey(buf) /\ UNCHANGED writing

MCNext ==
    \/ \E c \in scenario.menu \ Bodies : Write(c)
    \/ \E c \in scenario.menu \cap Bodies : Open(c)
    \/ Close
    \/ Publish(2, {}) \/ Publish(2 + scenario.hints + scenario.pairs, {})
    \/ \E id \in gone : Publish(2, {id})
    \/ Complete
    \/ (Finish(IF scenario.gadget = NoGadget THEN Tape ELSE scenario.gadget.tape)
          \/ RunInsertion \/ RunInstruction) /\ UNCHANGED writing

(* A gadget's program is never refused and ends as the host says: with the *)
(* values of the library's sponge, compressor, Merkle walk or challenger   *)
(* on the same words published, and trapped, with nothing published, where *)
(* the cap or the claim about the sampled bits is another.                 *)
GadgetsAgree ==
    scenario.gadget # NoGadget =>
      /\ ~program.refused
      /\ vm.world.status \notin {"none", "running"} =>
           [status |-> vm.world.status, public |-> vm.world.public] = scenario.gadget.expect

MCSpec == MCInit /\ [][MCNext]_mcVars
=========================================================================
