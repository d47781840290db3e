--------------------------- MODULE MCVerifierKeys ---------------------------
(***************************************************************************)
(* Both key caches on small instances, one per behaviour (which), each     *)
(* against the key service.  Blobs exist of one shape's built key and of   *)
(* a key of another shape that the machine would not have built.           *)
(***************************************************************************)
EXTENDS VerifierKeys

KeyShapeDef(k) == k[1]
BuiltDef(s) == <<s, "built">>
KeysDef == Shapes \X {"built", "other"}
BlobsDef ==
  LET s == CHOOSE s \in Shapes : TRUE
      r == CHOOSE r \in Shapes \ {s} : TRUE
  IN  {<<s, "other">>, <<r, "built">>}

VARIABLE which            \* the machine: "rv32" or "rvm"

Rvm == INSTANCE RvmKeys

mcvars == <<vars, which>>
rv32only == <<slot, hold, offered, installed, jostled>>

MCInit == Init /\ which \in {"rv32", "rvm"}

MCStep(t) ==
  /\ UNCHANGED which
  /\ \/ which = "rv32" /\ Step(t)
     \/ which = "rvm" /\ Rvm!Step(t) /\ UNCHANGED rv32only

MCCall(t) ==
  /\ UNCHANGED which
  /\ \/ which = "rv32" /\ Call(t)
     \/ which = "rvm" /\ (\E s \in Shapes : Rvm!Call(t, s)) /\ UNCHANGED rv32only

MCNext == \E t \in Threads : MCStep(t) \/ MCCall(t)

MCSpec == MCInit /\ [][MCNext]_mcvars /\ \A t \in Threads : WF_mcvars(MCStep(t))

\* CacheInv of the RV32 machine's cache, QueueIsMap of the recursion machine's.
CachesInv ==
  /\ which = "rv32" => CacheInv
  /\ which = "rvm" => Rvm!QueueIsMap

\* The RV32 machine builds a shape once at a time; the recursion machine's two
\* callers may each build it.
OneFlight == which = "rv32" => SingleFlight
=============================================================================
