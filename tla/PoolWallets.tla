-------------------------- MODULE PoolWallets ---------------------------
(***************************************************************************)
(* The ledger with honest wallets in front of it.  A wallet builds its     *)
(* proof against the root and the clock it sees (notes::transfer_inputs,   *)
(* notes::bundle_inputs over Ledger::path_for and Ledger::root); proving   *)
(* takes time, and what is built may reach the ledger late, out of order,  *)
(* more than once, after a rival spend of the same note, or never.         *)
(***************************************************************************)
EXTENDS ShieldedPool

CONSTANT MaxBuilds      \* bound on the submissions built

(* Wallets draw 256-bit randomness afresh (three draws a build), so none   *)
(* of it ever meets a deposit's; the u32 clock does not reach its end.     *)
WalletRand == 1 .. 3 * MaxBuilds

ASSUME WalletAssumption ==
    /\ MaxBuilds \in Nat
    /\ WalletRand \subseteq Rand
    /\ \A k \in 0 .. MaxLeaves : Draw(k) \cap WalletRand = {}
    /\ MaxNow + 1 < ClockWord

VARIABLES
    flight,     \* what has been built, in order; nothing is ever withdrawn
    landed      \* how often each has been admitted

walletVars == <<vars, flight, landed>>

(* Every admission records one root. *)
Admissions == Len(txs) + Len(bundles)

(* Fresh randomness of the next build: three draws (Note::new). *)
FreshR(k) == 3 * Len(flight) + k

DummyOf(p) ==
    [pk |-> p, from |-> p, amount |-> 0, asset |-> Native, time |-> now, r |-> FreshR(3)]

WalletInit == Init /\ flight = <<>> /\ landed = <<>>

Build(kind, run, inputs, time) ==
    /\ Len(flight) < MaxBuilds
    /\ flight' = Append(flight, [kind |-> kind, run |-> run, inputs |-> inputs,
                                 time |-> time, built |-> Admissions])
    /\ landed' = Append(landed, 0)
    /\ UNCHANGED vars

BuildTransfer ==
    \E n \in Live, p \in Party :
        Build("transfer",
              TransferGuest([self |-> n.pk, spent |-> n, root |-> Root, outPk |-> p,
                             outR |-> FreshR(1), time |-> now]),
              {n}, now)

(* One or two notes of one owner and one asset; the second slot is a dummy *)
(* when only one is spent.  The change goes back to the owner.             *)
BuildBundle ==
    \E n \in Live : \E m \in {DummyOf(n.pk)} \cup {x \in Live : x.pk = n.pk /\ x.asset = n.asset /\ x # n} :
        \E p \in Party, paid \in OutAmounts, fee \in Fees :
            /\ paid + fee <= n.amount + m.amount
            /\ fee > 0 => n.asset = Native
            /\ \A a \in {paid, fee, n.amount + m.amount - paid - fee} : ~RangeViolation(a)
            /\ Build("bundle",
                     BundleGuest([self |-> n.pk, in1 |-> n, in2 |-> m, anchor |-> Root,
                                  out1 |-> [pk |-> p, amount |-> paid, r |-> FreshR(1)],
                                  out2 |-> [pk |-> n.pk, amount |-> n.amount + m.amount - paid - fee,
                                            r |-> FreshR(2)],
                                  fee |-> fee, burn |-> 0, asset |-> n.asset, time |-> now]),
                     {n, m}, now)

(* The ledger's answer to a submission of honest making. *)
Admissible(f) ==
    IF f.kind = "transfer" THEN TransferAdmissible(Sound(f.run), f.run)
                           ELSE BundleAdmissible(Sound(f.run), f.run.plain)

(* A delivery, the first or a repeated one.  A refused one changes nothing. *)
Deliver(i) ==
    LET f == flight[i]
    IN  /\ IF f.kind = "transfer" THEN Apply(Sound(f.run), f.run)
                                  ELSE ApplyBundle(Sound(f.run), f.run.plain)
        /\ landed' = [landed EXCEPT ![i] = @ + 1]
        /\ UNCHANGED flight

WalletNext ==
    \/ BuildTransfer
    \/ BuildBundle
    \/ \E i \in DOMAIN flight : Deliver(i)
    \/ \E note \in MintNotes : Mint(note) /\ UNCHANGED <<flight, landed>>
    \/ Advance(1) /\ UNCHANGED <<flight, landed>>

WalletSpec == WalletInit /\ [][WalletNext]_walletVars

-----------------------------------------------------------------------------

(* Nothing has overtaken f: fewer than AnchorWindow roots since its own,   *)
(* its time still accepted, none of its inputs spent by it or by a rival.  *)
Timely(f) ==
    /\ Admissions - f.built < AnchorWindow
    /\ IF f.kind = "transfer" THEN now = f.time ELSE now - f.time <= TimeWindow
    /\ \A n \in f.inputs : IsUnspent(n)

(* An honest submission is admissible exactly until one of three things    *)
(* overtakes it: AnchorWindow later roots, the clock, or another spend of  *)
(* an input.  It is never refused for its digest, its proof or a           *)
(* commitment, and a repeated delivery never lands twice.                  *)
HonestUntilOvertaken == \A i \in DOMAIN flight : Admissible(flight[i]) <=> Timely(flight[i])

(* Of all the submissions that spend a note, repeated deliveries included, *)
(* at most one is ever admitted.                                           *)
OneRivalLands ==
    /\ \A i \in DOMAIN landed : landed[i] <= 1
    /\ \A i, j \in DOMAIN landed :
          i # j /\ flight[i].inputs \cap flight[j].inputs # {} => landed[i] + landed[j] <= 1

(* A refusal is final: what the ledger would refuse now it will refuse     *)
(* later, so a wallet may rebuild at once and the old proof never lands    *)
(* behind its back by the old anchor coming back into the window.          *)
RefusalIsFinal ==
    [][\A i \in DOMAIN flight : ~Admissible(flight[i]) => ~Admissible(flight[i])']_walletVars

-----------------------------------------------------------------------------
(* The small instance: what Rand, Draw and Spare stand for when TLC checks *)
(* this module.                                                            *)

SmallRand == -10 .. 20

(* A deposit's randomness never meets a wallet's. *)
MintDraw(k) == {-k}
NoSpares(k) == {}

=============================================================================
