--------------------------- MODULE DslProgram ---------------------------
(***************************************************************************)
(* A program of the recursion DSL, built and run.  Two machines run side   *)
(* by side: the recursion VM runs the instructions that the replay put     *)
(* out, on registers; the other one runs the buffer the builder was        *)
(* called into, on handles, each of which simply has its value.  The       *)
(* second is what the author of a program means.                           *)
(***************************************************************************)
EXTENDS RegisterAllocator

VARIABLES
    program,    \* the replay's result
    vm,         \* the recursion VM, no machine before there is a program
    handles     \* the machine of handles
running == <<program, vm, handles>>

NoProgram == [out |-> <<>>, pc |-> <<>>, refused |-> FALSE]
NoMachine == [world |-> [status |-> "none"]]

(* The next instruction of the buffer, markers skipped. *)
InstrFrom(i) == CHOOSE j \in i .. Len(buf.ops) :
                  buf.ops[j].kind = "instr" /\ \A k \in i .. j - 1 : buf.ops[k].kind # "instr"

HandleMachine(tape) ==
    [at |-> InstrFrom(1), val |-> [id \in DOMAIN buf.width |-> <<0, 0>>],
     scratch |-> [k \in 0 .. NumScratch |-> 0], world |-> World(tape, buf.layout)]

Shifted(x, lane) == IF lane = 0 THEN x ELSE <<x[2], 0>>
ValueOf(h, ref) ==
    CASE ref[1] = "home" -> Shifted(h.val[ref[2]], ref[3])
      [] ref[1] = "mat" -> Shifted(h.val[buf.ops[ref[2]].id], ref[3])
      [] ref[1] = "scratch" -> <<h.scratch[ref[2]], h.scratch[ref[2] + 1]>>
      [] ref[1] = "imm" -> <<ref[2], 0>>
      [] OTHER -> <<0, 0>>

Given(h, ref, d) ==
    CASE ref[1] = "home" ->
           [h EXCEPT !.val[ref[2]] = [l \in 1 .. 2 |-> IF l - ref[3] \in DOMAIN d THEN d[l - ref[3]] ELSE @[l]]]
      [] ref[1] = "scratch" ->
           [h EXCEPT !.scratch = [k \in DOMAIN @ |-> IF k - ref[2] + 1 \in DOMAIN d THEN d[k - ref[2] + 1] ELSE @[k]]]
      [] OTHER -> h

Meant(h) ==
    LET o == buf.ops[h.at]
        e == Operation(o.op, ValueOf(h, o.rd), ValueOf(h, o.ra), ValueOf(h, o.b), h.world)
        done == [Given(h, o.rd, e.d) EXCEPT !.world = e.world]
    IN  IF e.world.status # "running" THEN done
        ELSE [done EXCEPT !.at = InstrFrom(IF e.jump THEN o.target ELSE h.at + 1)]

-----------------------------------------------------------------------------
(* finish: HALT, and the replay's two walks. *)

Survey(b) ==
    /\ plan = <<>>
    /\ buf' = Halt(b) /\ plan' = Plan(Halt(b))
    /\ UNCHANGED <<program, vm, handles>>

Result(s) == [out |-> s.out, pc |-> s.pc, refused |-> s.refused]

Finish(tape) ==
    /\ plan # <<>> /\ program = NoProgram
    /\ program' = Result(Replayed)
    /\ vm' = IF program'.refused THEN NoMachine ELSE Machine(tape, buf.layout, NumHomes + NumScratch)
    /\ handles' = IF program'.refused THEN NoMachine ELSE HandleMachine(tape)
    /\ UNCHANGED <<buf, plan>>

Upcoming == program.out[vm.pc + 1]
Running == vm.world.status = "running"

(* A spill or a reload is the VM's alone. *)
RunInsertion ==
    /\ Running /\ Upcoming.kind # "instr"
    /\ vm' = Executed(program.out, vm)
    /\ UNCHANGED <<buf, plan, program, handles>>

RunInstruction ==
    /\ Running /\ Upcoming.kind = "instr"
    /\ vm' = Executed(program.out, vm) /\ handles' = Meant(handles)
    /\ UNCHANGED <<buf, plan, program>>

-----------------------------------------------------------------------------
UserCells(w) == [c \in MemBase .. MemLimit - 1 |-> w.mem[c]]

(* A build that is not refused does what the program says: at every moment *)
(* the VM has published the same values, read as much of the tape, stopped *)
(* for the same reason and written the same cells above the arena as the   *)
(* machine of handles, and the instruction it comes to next is the         *)
(* replay's of the one that machine comes to next, branches and loops      *)
(* included.                                                               *)
RunsAsBuffered ==
    vm.world.status # "none" =>
      /\ vm.world.public = handles.world.public
      /\ vm.world.tape = handles.world.tape
      /\ vm.world.status = handles.world.status
      /\ UserCells(vm.world) = UserCells(handles.world)
      /\ Running /\ Upcoming.kind = "instr" => program.pc[handles.at] = vm.pc
=========================================================================
