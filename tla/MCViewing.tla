--------------------------- MODULE MCViewing ----------------------------
(***************************************************************************)
(* Small instances of Viewing for TLC.                                     *)
(***************************************************************************)
EXTENDS Viewing

MCRand == -10 .. 10
FreshDraw(k) == {k}
OneDummy(k) ==
    {[pk |-> p, from |-> p, amount |-> 0, asset |-> Native, time |-> 0, r |-> -k - 1] : p \in Party}

(* Sub-behaviours of ViewSpec: longer chains with honest envelopes, where  *)
(* the clock moves after the first admission, or shorter ones with any.    *)
VARIABLE honest

MCViewInit == ViewInit /\ honest \in BOOLEAN

MCKinds == IF honest THEN {} ELSE Sealing

Fits(n) == honest \/ Root + n <= 3

MCViewNext ==
    /\ \/ Fits(1) /\ MintWithEnvelope(MCKinds)
       \/ Fits(1) /\ TransferWithEnvelope(MCKinds)
       \/ Fits(2) /\ BundleWithEnvelopes(MCKinds)
       \/ honest /\ Root = 1 /\ Advance(1) /\ UNCHANGED <<txEnvelopes, bundleEnvelopes>>
    /\ UNCHANGED honest

MCViewSpec == MCViewInit /\ [][MCViewNext]_<<viewVars, honest>>
=========================================================================
