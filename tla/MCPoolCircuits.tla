------------------------- MODULE MCPoolCircuits -------------------------
(***************************************************************************)
(* What ShieldedPool takes for granted of the pool's arithmetic, on small  *)
(* instances: the amount section of the bundle guest, and the commitment   *)
(* tree with the guest's climb.  They share nothing; a behaviour is of one *)
(* of them.                                                                *)
(***************************************************************************)
EXTENDS BundleBalance, CommitmentTree

VARIABLE running    \* which of the two this behaviour is of

(* The amount section has one initial state for each choice of amounts;    *)
(* with the tree running a single one stands for them all.                 *)
Still ==
    /\ amount = [slot \in Slot |-> [lo |-> 0, hi |-> 0]]
    /\ step = 1 /\ bad = FALSE
    /\ sumIn = [lo |-> 0, hi |-> 0] /\ sumOut = [lo |-> 0, hi |-> 0]

CircuitsInit ==
    /\ TreeInit
    /\ \/ running = "balance" /\ Init
       \/ running = "tree" /\ Still

CircuitsNext ==
    /\ \/ running = "balance" /\ Next /\ UNCHANGED treeVars
       \/ running = "tree" /\ TreeNext /\ UNCHANGED vars
    /\ UNCHANGED running

CircuitsSpec == CircuitsInit /\ [][CircuitsNext]_<<vars, treeVars, running>>

-----------------------------------------------------------------------------
(* The tree's properties, where the tree is what runs: their operands are  *)
(* too large to be evaluated for every choice of amounts.                  *)

(* The sparse tree of ledger.rs stands for the full tree of 2^DEPTH leaves *)
(* at every fill: each node, the padding included, is the full tree's, and *)
(* until the tree is full a root names one prefix of the leaves.           *)
TreeStandsForFull == running = "tree" => SparseIsFull /\ RootsNamePrefixes

(* Membership proofs are complete and sound: path_for gives one that the   *)
(* guest accepts for every leaf ever appended, and whatever path and index *)
(* a prover supplies, a climb that ends in the root started at the leaf    *)
(* that is there.                                                          *)
PathsProveMembership == running = "tree" => IndexedPathsVerify /\ PathsBind

=========================================================================
