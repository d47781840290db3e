------------------------- MODULE MCWalkthroughs -------------------------
(***************************************************************************)
(* The two walkthrough ledgers, zkp6's mixer and zkp4's shielded pool, on  *)
(* small instances.  They share nothing; a behaviour is of one of them.    *)
(***************************************************************************)
EXTENDS Mixer, ZcashPool

MCaddr(a) == <<"addr", a>>
MCAddress == {MCaddr(a) : a \in Account}

Half(nu, s) == [nullifier |-> nu, secret |-> s]

(* Any commitment, as deposit takes it: fresh, repeated, sharing one half  *)
(* with an earlier one, or without a known opening.  Notes are numbered in *)
(* the order they first come up.                                           *)
AnyCommitment(k) ==
    {Junk} \cup {Half(nu, 1) : nu \in 1 .. k} \cup {Half(1, 2) : older \in 1 .. k - 1}

-----------------------------------------------------------------------------
(* The composition. *)

VARIABLE running    \* which of the two this behaviour is of

WalkthroughsInit == running \in {"mixer", "zcash"} /\ Init /\ PoolInit

WalkthroughsNext ==
    /\ \/ running = "mixer" /\ Next /\ UNCHANGED poolVars
       \/ running = "zcash" /\ PoolNext /\ UNCHANGED vars
    /\ UNCHANGED running

WalkthroughsSpec == WalkthroughsInit /\ [][WalkthroughsNext]_<<vars, poolVars, running>>

=========================================================================
