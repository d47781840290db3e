---------------------------- MODULE Viewing -----------------------------
(***************************************************************************)
(* The viewing-key layer over the ledger (research/src/viewing.rs): the    *)
(* envelopes that travel with the notes, what a disclosure opens (scan),   *)
(* and the check of an opened row against the chain (verify_row).          *)
(*                                                                         *)
(* A ciphertext is the record of what it was sealed with: an AEAD opens    *)
(* under the same key and associated data or not at all, a decapsulation   *)
(* under the same party and key version or not at all.  A party's viewing  *)
(* key is the Party.  The rows of a scan are a set; the code lists them    *)
(* transfers first.                                                        *)
(***************************************************************************)
EXTENDS ShieldedPool

CONSTANT Sealing        \* the kinds of envelopes that come with a note

VARIABLES
    txEnvelopes,        \* one per entry of txs
    bundleEnvelopes     \* two per entry of bundles

viewVars == <<vars, txEnvelopes, bundleEnvelopes>>

-----------------------------------------------------------------------------
(* Envelopes. *)

(* Mutation: one key for the n-th transfer and the n-th bundle. *)
TxKey_PerSequence(slot) == IF slot = 0 THEN Len(txs) + 1 ELSE Len(bundles) + 1

(* TxKey::random, one fresh key per sealed envelope: the leaf's number. *)
TxKey(slot) == Len(leaves) + 1 + slot

(* Envelope::seal to the address of a key version. *)
Seal(sender, receiver, version, note, key) ==
    [cm |-> note, to |-> [vk |-> receiver, version |-> version], ovk |-> sender,
     key |-> key, note |-> note]

Envelopes ==
    ToSet(txEnvelopes) \cup UNION {ToSet(bundleEnvelopes[i]) : i \in DOMAIN bundleEnvelopes}

(* The ledger checks nothing about an envelope.  Besides the honest one it *)
(* may be sealed to the owner's rotated key, be addressed to anyone in     *)
(* anyone's name, be a copy of an earlier one, or hold another note.       *)
SealsOf(note, key, kinds) ==
    LET honest == Seal(note.from, note.pk, 0, note, key)
    IN  {honest}
        \cup {e \in {Seal(note.from, note.pk, 1, note, key)} : "rotated" \in kinds}
        \cup {e \in {Seal(p, q, 0, note, key) : p, q \in Party} : "misaddressed" \in kinds}
        \cup {e \in Envelopes : "copied" \in kinds}
        \cup {[honest EXCEPT !.note = n] : n \in {m \in ToSet(leaves) : "mismatched" \in kinds}}

(* Mutation: the opened note is not compared with the commitment. *)
OpensWithTxKey_AnyNote(e, cm, key) == e.key = key /\ e.cm = cm

OpensWithTxKey(e, cm, key) == e.key = key /\ e.cm = cm /\ e.note = cm

OpensAsReceiver(e, cm, vk, version) ==
    e.to = [vk |-> vk, version |-> version] /\ OpensWithTxKey(e, cm, e.key)

OpensAsSender(e, cm, vk) == e.ovk = vk /\ OpensWithTxKey(e, cm, e.key)

-----------------------------------------------------------------------------
(* The ledger with envelopes.  Honest spenders, current root and clock.    *)

ViewInit == Init /\ txEnvelopes = <<>> /\ bundleEnvelopes = <<>>

MintWithEnvelope(kinds) ==
    \E note \in MintNotes : \E e \in SealsOf(note, TxKey(0), kinds) :
        /\ Mint(note)
        /\ txEnvelopes' = Append(txEnvelopes, e)
        /\ UNCHANGED bundleEnvelopes

TransferWithEnvelope(kinds) ==
    \E n \in Live, p \in Party, r \in Draw(Len(leaves) + 1) :
        LET run == TransferGuest([self |-> n.pk, spent |-> n, root |-> Root,
                                  outPk |-> p, outR |-> r, time |-> now])
        IN  \E e \in SealsOf(run.cmOut, TxKey(0), kinds) :
                /\ Apply(Sound(run), run)
                /\ txEnvelopes' = Append(txEnvelopes, e)
                /\ UNCHANGED bundleEnvelopes

HonestBundle ==
    {w \in [self : Party, in1 : InputNotes, in2 : InputNotes, anchor : {Root},
            out1 : OutBody(Len(leaves) + 1), out2 : OutBody(Len(leaves) + 2),
            fee : Fees, burn : Burns, asset : Asset, time : {now}] :
        /\ w.in1.pk = w.self /\ w.in2.pk = w.self
        /\ ~BundleGuest(w).bad}

BundleWithEnvelopes(kinds) ==
    /\ Len(leaves) + 2 <= MaxLeaves
    /\ \E w \in HonestBundle :
        LET run == BundleGuest(w)
        IN  \E e1 \in SealsOf(run.plain.commitments[1], TxKey(0), kinds),
               e2 \in SealsOf(run.plain.commitments[2], TxKey(1), kinds) :
                /\ ApplyBundle(Sound(run), run.plain)
                /\ bundleEnvelopes' = Append(bundleEnvelopes, <<e1, e2>>)
                /\ UNCHANGED txEnvelopes

ViewNext ==
    \/ MintWithEnvelope(Sealing)
    \/ TransferWithEnvelope(Sealing)
    \/ BundleWithEnvelopes(Sealing)
    \/ Advance(1) /\ UNCHANGED <<txEnvelopes, bundleEnvelopes>>

ViewSpec == ViewInit /\ [][ViewNext]_viewVars

-----------------------------------------------------------------------------
(* Places of the chain, and what it says of each. *)

Place == [source : {"transfer"}, tx : DOMAIN txs, slot : {0}]
         \cup [source : {"bundle"}, tx : DOMAIN bundles, slot : {0, 1}]

CmAt(at) == IF at.source = "transfer" THEN txs[at.tx].cmOut
            ELSE bundles[at.tx].commitments[at.slot + 1]
NfAt(at) == IF at.source = "transfer" THEN txs[at.tx].nf
            ELSE bundles[at.tx].nullifiers[at.slot + 1]
TimeAt(at) == IF at.source = "transfer" THEN txs[at.tx].time ELSE bundles[at.tx].time
EnvelopeAt(at) == IF at.source = "transfer" THEN txEnvelopes[at.tx]
                  ELSE bundleEnvelopes[at.tx][at.slot + 1]

(* Row::new over the opened note. *)
NewRow(at, role, note, spent) ==
    [tx |-> at.tx, source |-> at.source, slot |-> at.slot, role |-> role,
     sender |-> note.from, receiver |-> note.pk, amount |-> note.amount,
     asset |-> note.asset, time |-> note.time, cmOut |-> CmAt(at), nf |-> NfAt(at),
     note |-> note, spent |-> spent]

(* Disclosures. *)
PartyKey(vk) == [scope |-> "party", vk |-> vk]
TransactionKey(tx, key) == [scope |-> "transaction", tx |-> tx, key |-> key]

-----------------------------------------------------------------------------
(* scan. *)

ReceivedAt(vk) == {at \in Place : OpensAsReceiver(EnvelopeAt(at), CmAt(at), vk, 0)}
SentAt(vk) == {at \in Place : OpensAsSender(EnvelopeAt(at), CmAt(at), vk)}

(* Mutation: the history is what the transfers paid, as a walk would have  *)
(* it before it reaches the bundles.                                       *)
Owned_Transfers(vk) ==
    {EnvelopeAt(at).note : at \in {x \in ReceivedAt(vk) : x.source = "transfer"}}

(* Pass 1: every note the party was paid, from both sequences. *)
Owned(vk) == {EnvelopeAt(at).note : at \in ReceivedAt(vk)}

SpentFor(vk, nf) ==
    IF \E n \in Owned(vk) : Nullify(vk, n) = nf
    THEN CHOOSE n \in Owned(vk) : Nullify(vk, n) = nf
    ELSE None

(* Mutation: a bundle's second slot is not scanned. *)
ScanParty_FirstSlot(vk) ==
    {NewRow(at, "received", EnvelopeAt(at).note, None) : at \in {x \in ReceivedAt(vk) : x.slot = 0}}
    \cup {NewRow(at, "sent", EnvelopeAt(at).note, SpentFor(vk, NfAt(at))) : at \in SentAt(vk)}

(* Pass 2: a row per note received and per note created while spending. *)
ScanParty(vk) ==
    {NewRow(at, "received", EnvelopeAt(at).note, None) : at \in ReceivedAt(vk)}
    \cup {NewRow(at, "sent", EnvelopeAt(at).note, SpentFor(vk, NfAt(at))) : at \in SentAt(vk)}

(* A transaction key is tried on both sequences at its index. *)
ScanTransaction(tx, key) ==
    {NewRow(at, "transaction", EnvelopeAt(at).note, None) :
        at \in {x \in Place : x.tx = tx /\ OpensWithTxKey(EnvelopeAt(x), CmAt(x), key)}}

Scan(d) == IF d.scope = "party" THEN ScanParty(d.vk) ELSE ScanTransaction(d.tx, d.key)

-----------------------------------------------------------------------------
(* verify_row. *)

(* Mutations: a spent note is accepted for its owner alone; a bundle slot  *)
(* must name the note it spent.                                            *)
SpentClaim_OwnerOnly(vk, row) ==
    \/ row.nf = None /\ row.spent = None
    \/ row.nf # None /\ row.spent # None /\ row.spent.pk = vk
    \/ row.nf # None /\ row.spent = None /\ row.source = "bundle"
SpentClaim_MustName(vk, row) ==
    \/ row.nf = None /\ row.spent = None
    \/ row.nf # None /\ row.spent # None /\ row.spent.pk = vk /\ Nullify(vk, row.spent) = row.nf

(* A mint spends nothing; a named note must be the party's and have that   *)
(* nullifier; only a bundle slot may leave it unnamed (a dummy).           *)
SpentClaim(vk, row) ==
    \/ row.nf = None /\ row.spent = None
    \/ row.nf # None /\ row.spent # None /\ row.spent.pk = vk /\ Nullify(vk, row.spent) = row.nf
    \/ row.nf # None /\ row.spent = None /\ row.source = "bundle"

InScope(d, row, at) ==
    \/ /\ d.scope = "transaction" /\ row.role = "transaction"
       /\ d.tx = row.tx
       /\ OpensWithTxKey(EnvelopeAt(at), CmAt(at), d.key) /\ EnvelopeAt(at).note = row.note
    \/ d.scope = "party" /\ row.role = "received" /\ row.note.pk = d.vk
    \/ d.scope = "party" /\ row.role = "sent" /\ row.note.from = d.vk /\ SpentClaim(d.vk, row)

(* verify_row returns Ok: the chain has the place, and every check passes. *)
VerifyRow(d, row) ==
    LET at == [source |-> row.source, tx |-> row.tx, slot |-> row.slot]
        n == row.note
    IN  /\ at \in Place
        /\ n = CmAt(at) /\ row.cmOut = CmAt(at)
        /\ row.sender = n.from /\ row.receiver = n.pk /\ row.amount = n.amount
        /\ row.asset = n.asset /\ row.time = n.time
        /\ row.time = TimeAt(at)
        /\ row.nf = NfAt(at)
        /\ InScope(d, row, at)

-----------------------------------------------------------------------------
(* What the layer promises. *)

Disclosures ==
    {PartyKey(p) : p \in Party}
    \cup {TransactionKey(tx, e.key) : tx \in DOMAIN txs \cup DOMAIN bundles, e \in Envelopes}

(* Every envelope holds its note, sealed to the owner in the spender's      *)
(* name; which version of the owner's key is the sealer's choice.          *)
HonestEnvelopes ==
    \A at \in Place :
        LET e == EnvelopeAt(at)
            cm == CmAt(at)
        IN  e.cm = cm /\ e.note = cm /\ e.to.vk = cm.pk /\ e.ovk = cm.from

(* With honest envelopes a party's scan is its history, no more, no less:  *)
(* a received row per note it owns or owned, a sent row per note it made.  *)
ScanIsHistory ==
    HonestEnvelopes => \A p \in Party :
        {[at |-> [source |-> row.source, tx |-> row.tx, slot |-> row.slot], role |-> row.role] :
            row \in ScanParty(p)}
        = [at : {at \in Place : CmAt(at).pk = p}, role : {"received"}]
          \cup [at : {at \in Place : CmAt(at).from = p}, role : {"sent"}]

(* Whatever scan lists under a disclosure, verify_row accepts under it. *)
ScanRowsVerify == HonestEnvelopes => \A d \in Disclosures : \A row \in Scan(d) : VerifyRow(d, row)

(* Row::spent: on a transfer row, None means a mint and only a mint,       *)
(* whichever sequence paid the note and in whichever order they came.      *)
TransferSpendIsNamed ==
    HonestEnvelopes => \A p \in Party : \A row \in ScanParty(p) :
        row.role = "sent" /\ row.source = "transfer" =>
            (row.spent = None <=> row.nf = None)

(* A transaction key discloses one transaction: at most one place of the   *)
(* chain opens under it, in either sequence, even where an envelope has    *)
(* been copied to another transaction.                                     *)
OneKeyOneTransaction ==
    \A e \in Envelopes :
        \A tx, ty \in DOMAIN txs \cup DOMAIN bundles :
            \A row \in ScanTransaction(tx, e.key), other \in ScanTransaction(ty, e.key) : row = other

(* No envelope, whoever sealed it, makes a scan list a note that is not    *)
(* the chain's own at that place.                                          *)
ScanShowsChainNotes ==
    \A d \in Disclosures : \A row \in Scan(d) : row.note = row.cmOut

(* Rows someone may hand over for a place: the note, the nullifier, the    *)
(* spent note or the travel-rule fields may be those of another.           *)
Claimed(at, role) ==
    {[NewRow(at, role, said, spent) EXCEPT !.note = CmAt(at)] :
        said \in ToSet(leaves), spent \in InputNotes \cup {None}}
    \cup {[NewRow(at, role, note, None) EXCEPT !.nf = nf] :
        note \in ToSet(leaves), nf \in nullifiers \cup {None}}

(* A row that verifies is true, whoever made the row and the envelope: the *)
(* note is the one created there, a receiver owns it, a sender is who      *)
(* spent there, and the spent note it names is the one that place spent.   *)
VerifiedRowsAreTrue ==
    \A p \in Party, at \in Place, role \in {"received", "sent"} :
        \A row \in Claimed(at, role) :
            VerifyRow(PartyKey(p), row) =>
                /\ row.sender = CmAt(at).from /\ row.amount = CmAt(at).amount
                /\ row.role = "received" => CmAt(at).pk = p
                /\ row.role = "sent" /\ NfAt(at) # None => NfAt(at).nk = p
                /\ row.spent # None /\ row.role = "sent" => row.spent = NfAt(at).cm

=========================================================================
