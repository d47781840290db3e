------------------------- MODULE MCShieldedPool -------------------------
(***************************************************************************)
(* Small instances of ShieldedPool for TLC.  Each scenario is a family of  *)
(* sub-behaviours of Spec: it widens what matters to one kind of hazard    *)
(* (amounts, randomness, anchors and times, parties, faulty proofs,        *)
(* totals) and keeps the rest small, so that the chains can be long enough *)
(* for that hazard to show.                                                *)
(***************************************************************************)
EXTENDS ShieldedPool

VARIABLE scenario       \* chosen once

Dummy(p, amount, a, r) ==
    [pk |-> p, from |-> p, amount |-> amount, asset |-> a, time |-> 0, r |-> r]

(* Dummies never used before; a reused dummy and a valued note that never  *)
(* is a leaf.                                                              *)
FreshDummies(k) == {Dummy(p, 0, Native, r) : p \in Party, r \in {-2 * k - 1, -2 * k - 2}}
StaleSpares == {Dummy(p, n, Native, 0) : p \in Party, n \in {0, 1}}

MCRand == -40 .. 40
MCDraw(k) == {1, 2, 3, k}
MCSpare(k) == FreshDummies(k) \cup StaleSpares

Profile == [
    amounts |-> [size |-> 5, clock |-> 0, party |-> {"alice"}, asset |-> {0},
                 mints |-> {0, 1, 2}, outs |-> {0, 1, 2, 3}, fees |-> {0, 1, 2}, burns |-> {0, 1},
                 faults |-> {"none"}],
    reuse   |-> [size |-> 5, clock |-> 0, party |-> {"alice"}, asset |-> {0},
                 mints |-> {0, 1}, outs |-> {0, 1}, fees |-> {0}, burns |-> {0},
                 faults |-> {"none"}],
    windows |-> [size |-> 5, clock |-> MaxNow, party |-> {"alice"}, asset |-> {0},
                 mints |-> {1}, outs |-> {0, 1}, fees |-> {0}, burns |-> {0},
                 faults |-> {"none"}],
    parties |-> [size |-> 5, clock |-> 0, party |-> {"alice", "bob"}, asset |-> {0},
                 mints |-> {1}, outs |-> {0, 1}, fees |-> {0}, burns |-> {0},
                 faults |-> {"none"}],
    faults  |-> [size |-> 5, clock |-> 0, party |-> {"alice"}, asset |-> {0, 1},
                 mints |-> {1}, outs |-> {0, 1}, fees |-> {0, 1}, burns |-> {0},
                 faults |-> Faults],
    totals  |-> [size |-> MaxLeaves, clock |-> 0, party |-> {"alice"}, asset |-> {0, 1},
                 mints |-> {1}, outs |-> {0}, fees |-> {0, 1}, burns |-> {0, 1},
                 faults |-> {"none"}]]

P == Profile[scenario]

(* Wallets draw fresh randomness, but for the scenario on reuse. *)
DrawOf(k) == IF scenario = "reuse" THEN {1, 2, 3} ELSE {k}

(* The unspent note that has been a leaf for longest. *)
Oldest == {leaves[i] : i \in {j \in 1 .. Root : IsUnspent(leaves[j]) /\ leaves[j].amount > 0
                                 /\ \A l \in 1 .. j - 1 : leaves[l] \notin Live}}

(* Long chains spend the oldest note, next to a dummy. *)
Inputs(slot) ==
    CASE scenario = "totals" -> IF slot = 1 THEN {Dummy("alice", 0, Native, -2 * Root - 1)} ELSE Oldest
      [] scenario \in {"reuse", "windows"} -> ToSet(leaves) \cup {n \in StaleSpares : n.pk \in P.party}
      [] scenario = "parties" -> ToSet(leaves) \cup {n \in FreshDummies(Root) : n.r = -2 * Root - 1}
      [] OTHER -> ToSet(leaves) \cup {n \in FreshDummies(Root) : n.pk \in P.party}

Anchors == IF scenario = "windows" THEN 0 .. Root ELSE {Root}

Body(k) == [pk : P.party, amount : P.outs, r : DrawOf(k)]

MCInit == Init /\ scenario \in DOMAIN Profile

MCMint ==
    /\ Root + 1 <= P.size /\ (scenario = "totals" => bundles = <<>>)
    /\ \E note \in [pk : P.party, from : P.party, amount : P.mints, asset : P.asset,
                    time : 0 .. P.clock, r : DrawOf(Root + 1)] : Mint(note)

MCTransfer ==
    /\ Root + 1 <= P.size /\ scenario # "totals"
    /\ \E w \in [self : P.party, spent : Inputs(1), root : Anchors, outPk : P.party,
                 outR : DrawOf(Root + 1), time : 0 .. P.clock], fault \in P.faults :
           SubmitTransfer(w, fault)

MCBundle ==
    /\ Root + 2 <= P.size
    /\ \E w \in [self : P.party, in1 : Inputs(1), in2 : Inputs(2), anchor : Anchors,
                 out1 : Body(Root + 1), out2 : Body(Root + 2), fee : P.fees, burn : P.burns,
                 asset : P.asset, time : 0 .. P.clock], fault \in P.faults :
           SubmitBundle(w, fault)

MCNext ==
    /\ \/ MCMint
       \/ MCTransfer
       \/ MCBundle
       \/ \E seconds \in 1 .. P.clock : Advance(seconds)
    /\ UNCHANGED scenario

MCSpec == MCInit /\ [][MCNext]_<<vars, scenario>>

=============================================================================
