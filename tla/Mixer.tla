----------------------------- MODULE Mixer ------------------------------
(***************************************************************************)
(* The fixed-denomination mixer of zkp6: the simulated contract            *)
(* (zkp6/src/mixer.rs), the withdraw circuit (zkp6/src/circuit.rs) and the *)
(* wallet that finds its leaf in the event log (zkp6/src/cli.rs).          *)
(*                                                                         *)
(* Hashes are free constructors: a commitment IS the note it commits to, a *)
(* nullifier hash IS the note's nullifier.  A root is the number of leaves *)
(* under it, as in ShieldedPool.  A proof verifies iff a wallet made it,   *)
(* for exactly the public inputs it is checked with.                       *)
(***************************************************************************)
EXTENDS Integers, FiniteSets, Sequences, SequencesExt

CONSTANTS
    Account,
    Address, addr(_),   \* the field element of an account's name
    Nu, Secret,         \* the two random halves of a note
    Junk,               \* a commitment nobody knows an opening of
    Offered(_),         \* what may be deposited as leaf k
    Denomination,
    Capacity,           \* 2^TREE_DEPTH
    MaxFunds            \* bound on the money that enters

Note == [nullifier : Nu, secret : Secret]
Commitment == Note \cup {Junk}

(* Names shorter than 32 bytes have different field elements. *)
ASSUME MixerAssumption ==
    /\ Denomination \in Nat \ {0} /\ Capacity \in Nat /\ MaxFunds \in Nat
    /\ Junk \notin Note
    /\ \A k \in 1 .. Capacity : Offered(k) \subseteq Commitment
    /\ \A a \in Account : addr(a) \in Address
    /\ \A a, b \in Account : addr(a) = addr(b) => a = b

VARIABLES
    leaves,         \* MerkleTree, the Deposit events
    depositors,     \* who sent each deposit
    knownRoots,     \* every root there ever was
    spent,          \* nullifier hashes recorded
    spentLog,       \* the same, in order
    balances, pool,
    proofs          \* what the wallets have proved, and anybody may submit

vars == <<leaves, depositors, knownRoots, spent, spentLog, balances, pool, proofs>>

Root == Len(leaves)

-----------------------------------------------------------------------------

Init ==
    /\ leaves = <<>> /\ depositors = <<>> /\ knownRoots = {0}
    /\ spent = {} /\ spentLog = <<>>
    /\ balances = [a \in Account |-> 0] /\ pool = 0
    /\ proofs = {}

Total(f) == FoldFunction(+, 0, f)

Fund(who, amount) ==
    /\ Total(balances) + pool + amount <= MaxFunds
    /\ balances' = [balances EXCEPT ![who] = @ + amount]
    /\ UNCHANGED <<leaves, depositors, knownRoots, spent, spentLog, pool, proofs>>

(* Mutation: only the newest root is kept. *)
Record_Newest(roots, root) == {root}

Record(roots, root) == roots \cup {root}

DepositAllowed(from) == balances[from] >= Denomination /\ Len(leaves) < Capacity

Deposit(from, commitment) ==
    /\ DepositAllowed(from)
    /\ balances' = [balances EXCEPT ![from] = @ - Denomination]
    /\ pool' = pool + Denomination
    /\ leaves' = Append(leaves, commitment)
    /\ depositors' = Append(depositors, from)
    /\ knownRoots' = Record(knownRoots, Len(leaves'))
    /\ UNCHANGED <<spent, spentLog, proofs>>

(* A wallet that holds the note finds its leaf and proves against the root *)
(* of the tree as it is.                                                   *)
Prove(note, recipient) ==
    /\ note \in ToSet(leaves)
    /\ proofs' = proofs \cup {[root |-> Root, nullifierHash |-> note.nullifier,
                               recipient |-> addr(recipient)]}
    /\ UNCHANGED <<leaves, depositors, knownRoots, spent, spentLog, balances, pool>>

(* Mutation: the recipient is not among the public inputs. *)
Verify_AnyRecipient(proof, public) == [proof EXCEPT !.recipient = public.recipient] = public

Verify(proof, public) == proof = public

(* Mutation: the nullifier is not looked up. *)
WithdrawAllowed_Again(proof, public) ==
    public.root \in knownRoots /\ proof \in proofs /\ Verify(proof, public)

WithdrawAllowed(proof, public) ==
    /\ public.root \in knownRoots
    /\ public.nullifierHash \notin spent
    /\ proof \in proofs /\ Verify(proof, public)

(* Anybody submits any proof with any public inputs. *)
Withdraw(proof, root, nullifierHash, recipient) ==
    /\ WithdrawAllowed(proof, [root |-> root, nullifierHash |-> nullifierHash,
                               recipient |-> addr(recipient)])
    /\ spent' = spent \cup {nullifierHash}
    /\ spentLog' = Append(spentLog, nullifierHash)
    /\ pool' = pool - Denomination
    /\ balances' = [balances EXCEPT ![recipient] = @ + Denomination]
    /\ UNCHANGED <<leaves, depositors, knownRoots, proofs>>

Next ==
    \/ \E who \in Account, amount \in 1 .. MaxFunds : Fund(who, amount)
    \/ \E from \in Account, c \in Offered(Len(leaves) + 1) : Deposit(from, c)
    \/ \E note \in ToSet(leaves) \ {Junk}, to \in Account : Prove(note, to)
    \/ \E proof \in proofs, root \in 0 .. Capacity, nh \in Nu, to \in Account :
           Withdraw(proof, root, nh, to)

Spec == Init /\ [][Next]_vars

-----------------------------------------------------------------------------

(* The contract can always pay, and pays for deposits: it holds one        *)
(* denomination per deposit that has not been withdrawn, so the unchecked  *)
(* subtraction in withdraw never goes below zero, and what was withdrawn   *)
(* was deposited under a nullifier that pays once.                         *)
Solvent ==
    /\ pool = Denomination * (Len(leaves) - Len(spentLog))
    /\ pool >= 0
    /\ \A a \in Account : balances[a] >= 0
    /\ IsInjective(spentLog) /\ spent = ToSet(spentLog)
    /\ \A nh \in spent : \E i \in 1 .. Len(leaves) :
           leaves[i] # Junk /\ leaves[i].nullifier = nh

(* A proof stays good, however many deposits and withdrawals follow, until *)
(* its nullifier is recorded.                                              *)
ProofsKeep == \A p \in proofs : WithdrawAllowed(p, p) <=> p.nullifierHash \notin spent

(* A withdrawal pays the account its prover named, whoever submits it with *)
(* whatever recipient.                                                     *)
PaysProvedRecipient ==
    [][\A to \in Account :
          spent' # spent /\ balances'[to] > balances[to] =>
              \E p \in proofs : p.recipient = addr(to) /\ p.nullifierHash \in spent' \ spent]_vars

(* The balance table reports deposits minus withdrawals as the number of   *)
(* notes still redeemable (zkp6/src/viz.rs).  That is right as long as     *)
(* every deposit was of a note of its own, drawn by Note::random; it never *)
(* reports fewer than there are.                                           *)
Redeemable == {c.nullifier : c \in ToSet(leaves) \ {Junk}} \ spent

OwnNotes ==
    \A i, j \in DOMAIN leaves :
        /\ leaves[i] # Junk
        /\ leaves[i].nullifier = leaves[j].nullifier => i = j

ReportedRedeemable ==
    /\ Cardinality(Redeemable) <= Len(leaves) - Len(spentLog)
    /\ OwnNotes => Cardinality(Redeemable) = Len(leaves) - Len(spentLog)

=========================================================================
