# Verification of the shielded pool and its neighbours

TLA+ models, TLC runs and TLAPS proofs for the `circuits/` repository: a reference zkVM
(`research`), its recursion VM (`recursion`), guests and translators around it, and six
walkthrough crates (`zkp1` .. `zkp6`).

Three layers are modelled. The repository's core logic is a shielded ledger: the chain-side
`Ledger` of `research/src/ledger.rs`, the two guests whose proofs it admits, the wallets that
build those proofs and the viewing-key layer that reads the result. Under it is the machine
that makes and checks the proofs: the RV32 emulator and what the cpu table lets a prover
claim of it, the caches of verifier keys, the recursion VM and the DSL its programs are built
with. Beside it are the EVM and sBPF guests, each interpreted and translated, and two
walkthrough ledgers.

Operators whose name has a suffix after an underscore, under a comment that starts with
"Mutation:" (`MintAdmissible_Repeats`, `AddTo_DropsCarry`, ...), are deliberately wrong
variants of the definition that follows them. No specification uses them. They record which
bug each property is there to catch: replacing the definition by its variant makes TLC refute
the property (`PROJECT.json`, "mutants").

## 1. Inventory

### The pool (`research`)

| component | state | operations |
|---|---|---|
| `Ledger` (ledger.rs) | `txs`, `bundles`, the tree, `recent_roots` (64), `nullifiers`, `now`, `fees_collected`, `burned` | `new`, `mint`, `apply`, `apply_bundle`, `advance`, `record_root` |
| `CommitmentTree` (ledger.rs) | `leaves`, `index`, `empty` digests | `append`, `root`, `levels`, `path_for` |
| guests `transfer`, `bundle` (guests.rs, asm.rs) | registers and RAM of one run | derive commitments and nullifiers, climb two paths, range checks, 64-bit conservation, fold every failure into `bad` |
| notes and witnesses (notes.rs) | none | `Note::new`, keys, nullifiers, `transfer_inputs`, `bundle_inputs` |
| envelopes and viewing keys (viewing.rs) | the envelopes next to each admission | `Envelope::seal` and three `open_*`, `scan`, `verify_row` |

Interaction: a wallet reads the ledger's root and a path, proves off line for as long as it
takes, and submits; the ledger decides on public data and a proof. There is one writer at a
time (`&mut self`), so the concurrency is between submissions in flight, not inside a handler.

What is hard there: proofs built against an old root and clock; transfers and bundles sharing
one nullifier set and one tree but keeping two histories; two slots of one bundle against each
other; dummies that skip checks; two-word arithmetic; nothing in an envelope checked by the
ledger. What makes it correct: no double spend, spends after creation, owner only, value
conserved per asset, every leaf spendable, an exact window of roots, honest submissions
refused only when overtaken, a scan that is the party's history.

### The machines (`research`, `recursion`)

| component | state | operations |
|---|---|---|
| RV32 emulator (emulator.rs, isa.rs, gas.rs) | registers, memory, input and public queues, gas | one step per instruction, the syscalls; the rows of a hash call |
| RV32 tables (tables/) | none at run time | AIR constraints over the trace: row rules, transition rules, buses between tables |
| RV32 machine (machine.rs) | the verifier-key cache: an LRU map of slots, pins | `verifier_key`, `install_verifier_key`, `prove`, `verify`, `verify_public` |
| recursion VM (recursion/src/emulator.rs) | registers, memory, hint tape, a REDUCE chain, events | one step per instruction |
| recursion machine (recursion/src/machine.rs) | a FIFO key cache | `cached_key` |
| DSL (dsl/builder.rs, hash.rs, transcript.rs) | the buffer of calls; in the replay homes, spill cells, residents, open bodies | the builder's calls, `finish` with its two passes; sponges, Merkle walk, challenger |
| aggregation (aggregate.rs, programs/) | none | `aggregate`, `verify_aggregate`, tree step |

Hard there: two critical sections where the caller sees one call; a build outside the lock,
with its slot evicted meanwhile; rows that only a transition rule holds together; addresses
that are field elements; spilled registers reloaded after being overwritten, in bodies that
run again or not at all; buffers of handles known when a program is built, against values
known when it runs.

### Guests, translators, tools, GPU

`evm-core` and `sbpf-core` are sequential interpreters (stack, memory, gas; the EVM's storage
is a witnessed tree with one running root); `evm2rv` and `sbpf2rv` compile their bytecode to C
over `evm-rt` and `sbpf-rt`, and the pair has to agree on everything public. Hard there: gas
charged at a block's head and asked for in its middle, a stack kept in locals and spilled to
memory that is also read, wide words cut to 32 bits in different places; for sBPF, calls that
hand over only some registers, functions merged into one another, budget checks left to the
next block, jumps into the middle of an instruction. `rand-guest` builds,
checks and packs images; `rand-zkvm-cuda` and `gpu-kernels` compute NTTs and Merkle trees that
must equal the CPU's; `guest-sdk` wraps system calls; `msauth`, `keccak256`, `fib`,
`dilithium-*` are small guests.

### The walkthroughs

`zkp4` (Zcash-style: transparent balances, one pool, one transfer circuit), `zkp5`
(Monero-style: outputs, rings, key images), `zkp6` (a mixer with fixed denomination) each
simulate a ledger. `zkp1` to `zkp3` prove single statements and keep no state. `vendor/` is
third-party code.

## 2. Modules

| module | models | composed with |
|---|---|---|
| `NotePool` | abstract specification: live and dead notes, deposits, fees, burns | refined by `ShieldedPool` |
| `ShieldedPool` | `Ledger`, and `transfer`/`bundle` as relations | base of the next three |
| `MCShieldedPool` | six scenarios, each a family of sub-behaviours of `Spec` | `ShieldedPool` |
| `PoolWallets` | wallets with proofs in flight | `ShieldedPool` |
| `Viewing`, `MCViewing` | envelopes, `scan`, `verify_row` | `ShieldedPool` |
| `CommitmentTree` | the sparse tree and `emit_merkle_verify` | justifies `ShieldedPool`'s roots |
| `BundleBalance` | the amount section of `bundle`, per 32-bit word | justifies `BalanceViolation` |
| `MCPoolCircuits` | the last two, one per behaviour | |
| `KeyService` | abstract specification: whoever asks is handed a key of the shape asked for | refined by the next two |
| `VerifierKeys` | the RV32 machine's key cache, with threads | `KeyService` |
| `RvmKeys` | the recursion machine's key cache, with threads | `KeyService` |
| `MCVerifierKeys` | both, one per behaviour | |
| `Rv32Isa` | instructions, words, the chips; the hash calls over free terms | base of the next two |
| `Rv32Emulator` | `execute`, one action per row | refined by `CpuTable` |
| `CpuTable`, `MCRv32` | the rows the constraints admit, and `verify_public`'s checks | `Rv32Emulator` |
| `RecursionVm` | the recursion VM's `execute` | base of the DSL |
| `RecursionBuilder`, `RegisterAllocator` | the builder's calls; `replay` | `RecursionVm` |
| `DslProgram` | a built program on the VM beside its buffer on a machine of handles | `RegisterAllocator` |
| `DslHash` | the DSL's hashes and challenger | `RecursionBuilder` |
| `DslGadgets`, `MCDsl` | the same functions on the host, to compare with; programs for TLC | all of the above |
| `EvmCode`, `EvmStorage` | opcodes and jump destinations; the witnessed storage tree | base of the next three |
| `EvmInterp` | `evm-core`'s `run` | side by side with `EvmLift` |
| `EvmLift`, `EvmRuntime` | `evm2rv`'s blocks and lift, the C they become, and `evm-rt` | `EvmCode`, `EvmStorage` |
| `MCEvm` | programs, gas limits and witnesses; both runs | |
| `SbpfCode` | instructions, memory, the meter and the checks both runs make alike | base of the next three |
| `SbpfInterp` | `sbpf-core`'s `run` | side by side with `SbpfRuntime` |
| `SbpfLift` | `sbpf2rv`'s scanner and emitter | `SbpfCode` |
| `SbpfRuntime` | the C they put out, over `sbpf-rt` | `SbpfLift` |
| `MCSbpf` | programs and limits; both runs | |
| `Mixer` | `zkp6`: contract, circuit, wallets | |
| `ZcashPool` | `zkp4`: ledger and circuit | |
| `MCWalkthroughs` | the last two, one per behaviour | `Mixer`, `ZcashPool` |
| `SumTheorems` | sums over finite sets, and induction over the natural numbers | base of the proofs |
| `ShieldedPool_proofs` | the ledger: invariants, window, refinement, sums | `ShieldedPool` |
| `LedgerClients_proofs` | wallets; envelopes, rows and scans | the ledger's proofs |
| `PoolCircuits_proofs` | the tree and the amount section | `MCPoolCircuits` |
| `VerifierKeys_proofs` | both key caches | `MCVerifierKeys` |
| `Walkthroughs_proofs` | the mixer and the walkthrough pool | `MCWalkthroughs` |
| `Rv32_proofs` | what an accepted proof binds; the rows as the emulator's steps | `MCRv32` |
| `MCEvm_proofs` | the storage of a call, interpreted and translated | `MCEvm` |

### How state and actions correspond to the code

`ShieldedPool` has the ledger's fields under their names (`recentRoots` is `recent_roots`,
`feesCollected` is `fees_collected`; `leaves` is the tree). Each public method is one action,
its checks are one conjunction in the order the code makes them (`MintAdmissible`,
`TransferAdmissible`, `BundleAdmissible`), and a refusal changes nothing because every check
precedes every assignment. What the guests compute is `TransferGuest` and `BundleGuest`: the
public digest for a given witness, the `bad` word included. Submissions start from arbitrary
witnesses over the notes, roots and times there are, not only from honest ones.

Abstractions, with what they rest on:

- Hashes (commitment, nullifier, digest) are free constructors: collision resistance.
- A root is the number of leaves under it. `CommitmentTree` checks that different prefixes
  have different roots, and that a path verifies only for the leaf at its index.
- A proof verifies iff a run of that guest published that digest over that public segment:
  soundness and completeness of the STARK and of `verify_public`. Every other combination
  (forged, over another segment, malformed, of other plaintext) is submitted in run `pool`, scenario
  `faults`.
- `BalanceViolation` treats an amount as one integer; `BundleBalance` shows that the two-word
  code computes exactly that.
- A party's spend key, `nk` and `pk` determine one another, so all three are the `Party`.
- In `Viewing`, AEAD and KEM open under the key they were sealed with, or not at all. `scan`'s
  rows are a set.
- Leaves beyond the tree's capacity are outside `ShieldedPool` (`MaxLeaves` bounds it, 2^32 in
  the code); `CommitmentTree` shows what happens there (`RootsNamePrefixes`): `append` has no
  guard, and the root stops moving.
- The clock is a `u32` that `advance` wraps without a check (a panic in a debug build).
  `Advance` wraps at `ClockWord`; run `pool` goes round it. What a wrap costs is said under
  `PoolWallets`: `HonestUntilOvertaken` and `RefusalIsFinal` are about clocks below the wrap
  (`ClockWord` beyond `MaxNow`), since a refused bundle is admissible again 2^32 seconds later.

`BundleBalance` has one action per group of instructions between two folds into `bad`; the word
size is the constant `2 * Half`. In `Mixer` anybody submits any proof with any public inputs.
In `ZcashPool` a prover uses any satisfying witness, over a modulus small enough to wrap, and
the `"tree is full"` panic is a step to `halted` that keeps what the call had done.

**Key caches.** One action of `VerifierKeys` is one critical section (`Lookup`, the lookup of
`install_verifier_key`, `Pin`), or the start or the end of a build outside the lock. A slot is
an `Arc` of a `OnceLock`: it lives while the map or a thread refers to it, and a thread that
finds a build under way waits. The use tick is kept as an order. `RvmKeys` is the recursion
machine's: build without a slot, insert under the lock, a FIFO queue. What the structure of a
blob's tables says is the key's shape, a constant.

**RV32.** `Rv32Emulator` has one action per kind of row of `execute`. `CpuTable` has no program
counter of its own: its state is the last row, and its actions append any row that the row
rules, the transition rules and the buses let follow it, so a prover's freedom is the choice
of every column no rule pins. Memory, program, input and public tables are the maps and sets
their own rules and buses promise; the field is `P`, so an address that is off by the order
is an address. The table has `Height` rows (2^20 at most, `cpu_height` in machine.rs), which is
what keeps the gas column's sum below `P`; `row.at` is a row's place in it. A hash is a free term
over what was absorbed; a program that computes with a word of a digest computes with the number
`DigestNum` says it is (`Val`), of which nothing is assumed. Neither prover nor verifier goes on
with a program that runs past the wrap (`PcWindow`), so a next pc in the table, a sum in the
field, is the emulator's. KECCAK, SHA256 and MODQ are one call of one chip on a buffer of
`ChipWords` words. Its pointer has two bounds, as in the code. The tables test the top nibble:
the buffer begins below `ChipBound` = 0x3000_0000 (cpu.rs 875-886, 924, 951). The emulator
tests that it also ends there (`ChipLimit`, emulator.rs 157-177, 374, 417, 449), so it refuses the
top `ChipWords - 1` pointers the tables take: 49, 23 and 8959 of them for the three
chips. The refinement mapping (`Pc`, `Registers`, `Memory`, `Group`, `Gas`,
`Halted` of `MCRv32`) reads the emulator's state off the last row and the memory log.

**Recursion VM and DSL.** `Operation` is one opcode with its refusals, on values; `Executed`
wraps it in registers. `RecursionBuilder` has one operator per builder call, which appends to
the buffer what the code appends; `RegisterAllocator` is the replay, by one operator per kind
of entry. `DslProgram` runs the result on the VM (`RunInstruction`, and `RunInsertion` for a
spill or a reload) and the buffer itself on handles that simply hold values. The field is
`F_P` with a quadratic extension; the permutation is a small one of the same shape.

**EVM.** A word is `W`, and `U32` is where the code cuts a word to 32 bits. `EvmInterp` steps
one opcode; `EvmLift` translates first (blocks with their static gas and stack bounds, the
symbolic stack, spills, parallel moves) and then steps one opcode of a block, or its head, or
its fall into the next. `EvmStorage` has a leaf as the bits of its index, so that a path, its
siblings and a whole tree are functions of the level. `MCEvm` pairs an opcode of one with the same opcode of the other.

**sBPF.** A register is a number below `W = U32 * U32`, memory is cells of one 32-bit word, a
text slot is two address units. `SbpfCode` has what interpreter and runtime share in the code
line by line (ALU, accesses, syscall arguments, halts); where the two are written differently
(memory moves, the allocator, calls, the meter) each has its own operator. `Translate` computes
the whole program at once: the scanner (first half of `SbpfLift`) cuts the text into functions
and blocks, the emitter (second half) says who hosts whom, what each block charges and checks, and which registers each call passes and
copies back, by the same least fixpoints. `SbpfRuntime` then has a block's head, a statement or
terminator, and the fall into the next block; a C call is a frame that holds the caller's
registers. `MCSbpf` pairs instructions as `MCEvm` does.

## 3. Runs

| run | bounds | what it shows |
|---|---|---|
| `pool` | 2^63 is 2, so 64-bit sums wrap at 4; window of 2 roots, 1 second, a clock of 3; six scenarios | `PoolInv` (the inductive invariant of section 5), no double spend, spends follow creation, only the owner spends, exact window, conservation per asset, saturation, and `NotePool` is implemented |
| `wallets` | two builds, five leaves | an honest submission is admissible exactly until it is overtaken; one of several rivals lands; a refusal is final |
| `circuits` | words of 2 bits, amounts over {0, 1, 3}; a tree of depth 2, three commitments, filled and overfilled, all paths over the digests there are | the amounts are tainted iff out of range or out of balance; the sparse tree is the full tree and its roots name prefixes; indexed paths verify, and a climb that reaches the root starts at the leaf at that index |
| `view` | two parties; four leaves with honest envelopes, three with misaddressed, copied and mismatched ones | scan is the party's history, its rows verify, spent notes are named; what `verify_row` accepts is true; one key opens one transaction; a scan shows only notes of the chain |
| `view_rotated` | envelopes to a version-1 address | refutes a sentence of viewing.rs, see below |
| `walkthroughs` | mixer: fresh, repeated and unopenable commitments, two accounts, three leaves; pool: modulus 13, four leaves | the mixer is solvent, pays each nullifier once, for a deposit made, to the proved recipient; proofs keep; the reported number of redeemable notes is right for notes of one's own; the pool backs the spendable notes, also after a panic |
| `keycache` | two threads, three shapes, a cache of two, six slots, two foreign blobs | both caches keep their structure and bound; one build of a shape at a time unless it was evicted; an undisturbed installation sticks; every caller is handed a key for its shape (liveness) |
| `keycache_installed` | the same, a cache of one | refutes a sentence of machine.rs, see below |
| `rv32` | words modulo 256, field of 1009, a table of 90 rows, five registers, hashes of at most 4 words; every call with each argument in range, at the limit and past it; whole and altered program tables | the rows the table admits are the emulator's steps, but for a chip call at a pointer only the tables take; what a verifier accepts is of its program and public words, with the outputs and gas of that run; every step of the emulator has a row while the table has room |
| `evm` | words of 20 bits, 16-bit lengths, a stack of 9, 7 locals; all bodies of four operations out of seven with three endings, and chosen programs of jumps, memory and storage; several gas limits each; honest and wrong witnesses | interpreter and translation end with the same public output, gas included, and agree before every operation; a root is the root of the values written |
| `sbpf` | `U32 = 64`, frames of 4 cells, 3 calls deep, a heap of 8 cells, inputs of 6; every text of four slots over ten instructions under three limits, and six families of longer ones (registers over calls, budgets from 0 to 24, odd targets and slots, memory and syscalls, the allocator, arithmetic at the ends of both widths) | interpreter and translation are at the same instruction over the same memory, equally deep, with the budget charged ahead worth what is to come, and end with the same public output, reason and memory, but for two of the divergences sbpf2rv/README.md:208-221 accepts |
| `dsl` | `F_241`, 7 registers for handles and 6 scratch; menus of one to three calls after a prologue of 4 to 6 handles, bodies in each other; with and without liveness and precompiles; gadgets: sponges of 1 to 5 words, walks of two levels with injections, transcripts, long instructions | the program put out does at every moment what the calls mean; the gadgets leave what the host computes and refuse what it refuses |

The scenarios of `pool`. A behaviour picks one at the start and keeps it; every step is a step
of `ShieldedPool!Next`, over fewer inputs. One instance with all the inputs at once could not
have chains long enough.

| scenario | leaves | widened | narrowed |
|---|---|---|---|
| `amounts` | 5 | mints 0..2, outputs 0..3, fees 0..2, burns 0..1, two fresh dummies | one party, asset, anchor |
| `reuse` | 5 | three random values drawn again and again, a reused dummy, a valued note that never is a leaf | no fees |
| `windows` | 5 | every anchor, every time, the clock moves | reused dummy |
| `parties` | 5 | two parties, any note of the tree in anyone's witness | amounts 0 and 1 |
| `faults` | 5 | proofs forged, of another segment, malformed, of other plaintext; two assets | one anchor |
| `totals` | 12 | fees and burns in two assets until both totals saturate | mints first, then bundles that spend the oldest note next to a dummy |

Why the bounds are enough: the checks of the ledger compare an admission with earlier ones and
never with more than two at a time, so the shortest bad histories have a deposit, one or two
spends of it and perhaps one more admission between them to move the root; four or five leaves
hold those, and each property's mutant shows the case is reached. Constants that stand for
widths (`U63`, `Half`, `AnchorWindow`, `TimeWindow`) are small so that wrap, saturation and
eviction happen within the bound. A tree of depth 2 has an odd tail
at each of its two padded levels and overflows within the bound. Three shapes against a cache
of two give an eviction between any two critical sections, and two threads are as many as
the code ever relates. `rv32`'s arguments lie on both sides of each bound the code tests
(pointer, length, slot, queue end), the pointer between a chip's two bounds (47) among them, alone and where one call's buffer meets another's; each
of the field's wraps needs a pointer near `P`. `evm`'s locals are fewer than the stack is
deep, so that every program of the exhaustive family spills. `sbpf`'s four slots hold a loop,
a call, a call back and a fall into another function; the longer families are there for what
needs an address in a register or a value carried over two calls. In `dsl` a prologue takes most
of the registers, so that each further call evicts. Runs switch deadlock checking off where
what is modelled may stop: a ledger nobody submits to, a program that has halted.

The two divergences `RunsEndAlike` lets through are written out in it and in `Unnamed`: a
`callx` of code that no function entry, constant or data word names, where the translation
traps, and the limit, which the translation may report for a fault inside the block that
crosses it. The public output is the same in the second. The third (another ELF on the tape)
is the shim's, which is not modelled.

Fairness is assumed three times. In `keycache` each thread that has started a call goes on with it
(weak fairness of its step, none of its calls): the operating system schedules threads, and
a mutex that is only ever held for a few statements is handed on. Under it both caches
implement `KeyService`, whose promise is that every call ends with a key of the right shape;
a waiter on a `OnceLock` is woken, and a builder whose entry was evicted still answers. In
`evm` and in `sbpf` the two programs go on until they have halted (`GoesOn`, weak fairness of
the next step with its enabling condition written out): they are sequential. `RunsEndAlike`
then says that both halt, which gas and the budget force, and alike. Nothing else in this code schedules anything: methods
are called by whoever drives the crate, and what a user would want to "eventually" happen is
stated as safety instead. `HonestUntilOvertaken` says precisely when a submission would be
accepted, `RefusalIsFinal` and `ProofsKeep` when an answer is stable.

### Disagreements found

`view_rotated` refutes `TransferSpendIsNamed`. The comment on `Row::spent`
(viewing.rs:322-325) says that `None` on a transfer row means a mint, and that a transfer
which spends a note the party received can always name it. `scan` collects the party's notes
with `open_as_receiver`, which opens with KEM version 0; an envelope sealed to a later
version's address (`ViewingKey::address_at`, exercised by research/tests/viewing.rs) is not in
that history. The transfer that spends such a note yields a `Sent` row with a nullifier and no
spent note, and `verify_row` refuses that row.

`keycache_installed` refutes `InstalledKeyIsHeld`. machine.rs:1517-1519 says that an installed
key is never evicted, and 1547 that the entry `pin` marks "must exist".
`install_verifier_key` takes the lock twice, to find the slot and to pin it. A lookup of other
shapes by another thread between the two may evict the entry; `pin` then finds nothing to
mark and the call returns `Ok`, with its key neither held nor pinned. A later lookup builds
the shape again, so no wrong key is ever used (`ImplementsKeyService` holds in `keycache`).
The method's own comment (1900-1902) says that eviction applies to the entry.

Also seen while modelling, without a check in the code to contradict: 64 admissions can pass in
much less than "about a minute", since a root is recorded per admission and not per second;
`append` past the tree's capacity; `zkp4`'s `shield` moves value before a full tree panics;
in `zkp6` two deposits may share a nullifier, after which deposits minus withdrawals is more
than the number of redeemable notes; two callers of the recursion machine may both build a
key.

## 4. Properties and what they are aimed at

`PROJECT.json` lists the hazards of the code line by line with the properties that cover each.
Per component: at most one type invariant, inside the inductive one where there is one, then
relations between two pieces of state (`NoDoubleSpend` relates two histories and a set;
`WindowIsRecent` the window and both histories; `ValueConserved` all histories and the unspent
leaves; `ScanIsHistory` the rows and the chain; `LiftDenotes` a symbolic stack and the stack
it stands for; `RunsAsBuffered` registers and the handles they hold), refinement
(`ImplementsNotePool`, `ImplementsKeyService`, `ImplementsEmulator`), completeness next to
soundness (`HonestRowsAccepted` next to `AcceptedBinds`), action properties (`RefusalIsFinal`,
`PaysProvedRecipient`) and liveness (`ImplementsKeyService`, `RunsEndAlike`).

## 5. Proofs

All for every value of the constants, from the assumptions each module names: `PoolAssumption`
(`WalletAssumption` on top of it), `WordAssumption`, `TreeAssumption`, the key caches' five,
`MixerAssumption`, `ZcashAssumption`, and those of `Rv32Isa`, `CpuTable` and `MCRv32`. They say what kind of value a constant has, that a window,
a cache or a word is not empty, and what the code relies on: wallets' randomness is nobody
else's (`WalletAssumption`, with the clock below its wrap), an address is one account's
(`MixerAssumption`), the circuit's modulus is more than three amounts (`ZcashAssumption`), a count and the gas of a
full table are below the machine's field (`CountAssumption`, `HeightAssumption`: tables/cpu.rs
777-786 argues with the same numbers).
Every theorem has the shape: an invariant that is inductive, one lemma per action that keeps
it, and the property from the invariant.

**The ledger** (`ShieldedPool_proofs`).

- `PoolInvariant` (`Spec => []PoolInv`), and from it `TypeCorrect`, `CommitmentsUnique`,
  `AmountsInRange`. `EveryLeafSpendable` alone is not inductive: a
  transfer keeps an amount in range only because the nullified note is a leaf, which needs that
  recent roots cover existing leaves and that a guest's path verifies only for one of them.
  `PoolInv` therefore adds: recent roots are at most the number of leaves; every nullifier is
  its owner's; a valued nullifier is of a leaf. The last one is why a fresh note is never born
  spent. `StepCases` reduces each disjunct of `Next`, faults included, to a mint, a clean
  transfer, a clean bundle or a clock step; the invariant is then preserved case by case.
- `SingleSpend`, `SpendAfterCreation`, `OwnerSpends`, from `ChainInv`: the nullifier set is
  what the two histories published, each once, and every recorded spend is clean (owner,
  anchor, asset, creation order).
- `WindowStaysRecent`, from `WindowInv`: it adds that every bundle's first
  leaf is in the tree, so that no later admission can make the root between the two leaves one
  that is recorded.
- `LedgerImplementsPool`: `PoolInv` gives that a mint adds one
  unused valued note to `Live`, a transfer replaces one by one, a bundle at most two by at
  most two with exact balance; a dummy input maps to `Nothing`, the clock to a stutter.
- `ValueIsConserved`, `TotalsAreSaturatedSums`: how each sum over the histories and over the
  unspent leaves moves when one admission is appended. The notes a clean admission spends
  leave one sum as the ones it creates enter it, and a cut-off sum of sums is the cut-off sum.

**Wallets** (`LedgerClients_proofs`): `HonestAdmittedUntilOvertaken`, `AtMostOneRivalLands`,
`RefusalsAreFinal`, from `WalletInv`. The heart of it is `AnchorsPlaced`: the anchor of a build
that is `n` admissions old is `n` places from the window's end, or has left it, so whether
`record_root` still knows it is a count and not a search. `WalletLeaves` says that a leaf with a
wallet's randomness is an output of a build whose inputs are all spent, which is why no
submission is admitted twice. The proof needed `BuildBundle` to stay within the
guest's range checks: a bundle out of range is tainted from the start and is not honest.

**Viewing** (`LedgerClients_proofs`): `ScansShowTheChain`, `KeysDiscloseOne`, `VerifiedRowsHold` for
any envelopes; `TransferSpendsAreNamed`, `ScansAreHistories`, `ScannedRowsVerify` under the
hypothesis that nobody seals to a rotated key (`"rotated" \notin Sealing`), without which run
`view_rotated` refutes the first. `ViewInv` adds to `PoolInv` that places of the two histories and
leaves are one to one, and that an envelope's key was drawn for one leaf.

**Circuits** (`PoolCircuits_proofs`).

- `BalanceExact` and `SumsExact` for every word size: `AddCarryExact`
  shows a two-word addition is exact or raises its carry, `FoldedAdd` carries that through
  the accumulator, and `BalancedFits` that in-range balanced amounts never raise one.
- `SparseTreeIsFull`, `MembershipProofs`, `NoPathForges`, for every depth and any number of
  appends, from `TreeInv`: the index has each leaf's newest place, each recorded root is that
  of a prefix. Both trees are functions of the level; level by level a sparse node is the full
  tree's node where there are leaves below it and `empty` elsewhere. These are what
  `ShieldedPool` rests on when it takes a root for a number of leaves.

**Key caches** (`VerifierKeys_proofs`): `CachesKeepTheirStructure`, `BuiltOnceAtATime`,
`QuietInstallationSticks`, `AnswersAreAllowed`, for any threads, shapes and capacity. `BothInv` is
`KeysInv` for one machine and `RvmInv` for the other. `KeysInv` follows a call through its two
critical sections: a thread in a call holds a slot of its shape, which is the map's unless an
eviction jostled it; a filled slot has a key of its shape that was built or offered; one thread
builds a slot at a time. `AnswersAreAllowed` is the safety half of `ImplementsKeyService`: each
step of either cache is a step of `KeyService` or a stutter.

**Walkthroughs** (`Walkthroughs_proofs`).

- `MixerIsSolvent`, `ProofsStayGood`, `ReportIsRight`, `ProvedRecipientIsPaid`, from `MixerInv`:
  the log of withdrawals is the spent set without repetition, each entry is the nullifier of a
  deposit, and the pool is a denomination for each deposit not withdrawn. That there are no
  more withdrawals than deposits is then a matter of counting nullifiers.
- `PoolConservesValue`, `PoolCoversNotes`, from `LedgerInv`: a used nullifier is that of some leaf,
  and the pool is worth the unspent leaves, or more. `NoWrap` turns the circuit's field
  equation into one of numbers; `UseNullifier` and `AddLeaf` say what a nullifier takes out of the
  sum (more than its own note, if another shares it) and what a leaf adds (nothing, if its
  nullifier was used before). A panic with one leaf inserted only leaves the pool with more.

**RV32** (`Rv32_proofs`): `AcceptedProofsBind`, and `EveryProgramBinds` for any program, any public
words and any tables, where the run has a few of each. `AcceptedBinds` says nothing until the
last row, so `TableInv` follows a prover from the first one.

- A region: its row number `idx` has absorbed the words `Rate * idx + 1 ..` of the region's table
  next (`Reading`), exactly the entries before them have been looked up, and the count that
  drains is what was announced in the seed less what was absorbed. Behind the region every
  entry has been looked up, so the count is the table's length and the pinned lanes are
  the digest of the whole table (`RegionStarts`, `RegionGoesOn`, `RegionEnds`, once for all three
  regions; the input region has a salt block in front that drains nothing). A program read from
  its second word on (`Skipping`) never looks up the first, and so never leaves its region.
- The gas column is at most the row's place times the dearest row, below `P` by
  `HeightAssumption`: the difference the HALT row checks is one of numbers, not of residues.
- Equal digests have equal headers and equal words (`ProgramBinds`, `PublicBinds`): the states
  of two sponges are compared from the last permutation back, and the header in the capacity
  ends the shorter one (`CapsBind`).

`RowsAreTheEmulators` is the refinement, `MCSpec => ImplementsEmulator`. It is one up to
`RefusedChip`: a chip call at a pointer from `ChipLimit + 1` to `ChipBound - 1` is a row of the tables
and no step of the emulator, which returns its error there (`RefusedIsAnError`). research/README.md
283 and emulator.rs 1-2 say that where emulator and AIR disagree the AIR is wrong;
emulator.rs 164-170 says of this disagreement that it is meant, and that its direction is the safe
one: every step of the emulator still has a row, which is `HonestRowsAccepted`. The other
direction is what `ImplementsEmulator` says: at those pointers the row does what a chip call does at any
other, to a buffer that aliases nothing.

`EveryRunIsTheEmulators` is the same of every program of the modelled instructions whose base
is a word's address (`ProgramInv`), and of any tapes: the rows are such steps
(`RowsAreSteps`), and those of a run that makes no refused call (`[]ChipsWithinLimit`) are the
emulator's alone, `Emulator!Spec`. With `TableInv` it needs `RunInv`:

- Behind the regions the gas column is the emulator's prefix (`PrefixGasInv`), which needs that a
  region has exactly the rows of its table, from `TableInv`. The regions' own rows are stutters
  (`PrefixRuns`).
- Keys of the log are registers or words of memory, and neither wraps in the field (`MemoryInv`;
  `AddrIs`, `CellsWritten`): a pointer is below `PtrBound` or, for a chip, three quarters of it, and
  a buffer is no longer than the quarter above (`WordAssumption`).
- A hash group's rows stand at the call's pc, which is still a fetch of the call
  (`AtHashCall`), and an absorb row's count and index add up to the count announced (`AbsorbInv`).
  That is why an absorb row takes the block the emulator takes (`DrainedIs`) and the write-back
  rows start only when nothing is left (`OutGroup`). It is also why no instruction can break
  a group off: the row after an absorb row would be the same call again, whose state starts from
  zero, and a permutation's output is never that (`AfterAbsorb`).

One lemma per kind of row then gives its step: `PlainRuns`, `MemoryRuns`, `OutputRuns`, `ReadRuns`,
`ChipRuns`, `HashRuns`, `AbsorbRuns`, `Out1Runs`, `Out2Runs`, `HaltRuns`. `FetchIs` is where
`PcWindow` and the base are used: `pc + 4` does not wrap, and a JALR whose target is fetched had bit 0
as its row says. `VerifiedRunsAreTheEmulators` puts both halves together: when a proof verifies,
the state its rows lead to is a halted one on the verifier's program and public words, with the
published outputs and within the declared gas, and they are the emulator's steps
unless a chip call past its limit is among them. A verifier sees no row, so it cannot tell.

**EVM storage** (`MCEvm_proofs`): `AnyCallKeepsTheTree` for any code, any gas and any vector of
witnesses the guest decodes, good or bad; `RunsKeepTheTree` is the same of the run's own calls.
Assumed are `DepthAssumption` and `SlotAssumption` (a slot's index is a leaf, storage.rs
158-166), and that hashes are symbols. The inductive invariant `Sound` says of each of the two storages:

- the root is that of the whole tree with each used witness's value at its leaf, and the
  contract's own leaf elsewhere (`Now`);
- a witness that has been used, or that was good to begin with, is in step with that tree:
  its value is its leaf's, its siblings are the nodes across its path (`WitnessOk`, `Holds`).
  `RootIsOfValues` alone is not inductive, since it says nothing of a used witness's siblings,
  which the next store hashes up.

`StoredOk` is the heart: a store changes one leaf (`LeafNowIs`; no two witnesses share one), a
path up through a witness's siblings passes the nodes of the whole tree (`UpOfSiblings`), and the
one sibling of another path that the new leaf is under is the one at the level where the two
part (`PathsPart`, `PathsDoNotPart`, `NodeSame`). A witness that verifies against a root is of its
tree since hashes do not collide (`UpDetermines`). Around it, every arm of the interpreter and
every statement of the emitted C but loads and stores leaves the storage alone (`ArmKeeps`,
`RtCallKeeps`, `ExecKeeps`). For the translated run `Sound` adds that the symbolic stack and the
statements the lift emits are finite lists (`LiftOk`, kept by every op of the lift, `LiftedOk`), so
that they run through to their end. An op leaves the root of a storage it does not touch alone
whatever the lift emits for it: this says nothing yet of the words that are stored, which is `LiftDenotes`.

**Induction over data.** The library's induction takes an operator for a parameter, which the
provers cannot instantiate. `SumTheorems` states it for a set of numbers instead
(`NatSetInduction`, by the absence of a least number outside the set), and a property becomes the
set of the numbers it holds for. A recursive function is unfolded by first showing by that
induction that its recursion has a solution. The sums of the ledgers (`Functions` of the
community modules), the tree's levels, its climbs, the walk through the window and the states of a
sponge are reasoned about this way.

**Only model-checked.** `ImplementsKeyService` and `RunsEndAlike` are liveness, and
`HonestRowsAccepted` is about `ENABLED`. `RunsAsBuffered` and `GadgetsAgree` rest on the register
allocator, whose `Claim` and `Walk` are declared `RECURSIVE`, and tlapm has no SMT backend over
modules that reach it. `LiftDenotes` and `InStep` relate a program and its translation, over
every state of the lift and every text of the scanner: at the length of both modules each, and
not proved.
`ExactWhileClean` is proved (`SumsExact`) and is no run's property, as it follows along the way to
`CleanIffBalanced`; the same holds for `NoPathForges`, which speaks of paths of any values and so
has no finite instance.

## 6. Not modelled, and why

- The proof systems themselves (FRI, Groth16, CLSAG, Bulletproofs) and hash functions:
  arithmetic over large fields; modelled by what they promise. Of the AIR, the polynomial
  identities of the decoder, the ALU and the chips, the sorting argument inside the memory
  table, and blinding rows: arithmetic of one row or of a permutation, which the tables
  around them use by what it promises.
- Aggregation (`aggregate.rs`, `programs/`, `shape.rs`): the verifier programs are generated
  arithmetic over extension fields, and the code around them checks lengths in one pass. What
  an aggregate covers is decided inside that arithmetic; a model would assume it.
- In the emulator: the ALU besides addition, sub-word accesses, the cycle budget, and what
  MODQ refuses of its operands (reserved bits, operands that overlap, coefficients of more
  than 24 bits). In the
  DSL: `sample_index_bits` and `low_bits_gadget`, whose range argument needs an address space
  far smaller than a limb and far larger than a word; spans, labels, checkpoints. In the EVM
  pair: stage one of the translator, the shim, constant environment words, calls between
  contracts.
- In the sBPF pair: bitwise, shift, multiply and byte-swap opcodes, bytes and half-words,
  `sol_sha256` and the log calls besides `sol_log_`, loading the ELF and the input's accounts,
  the scanner's bound on its own work, and the shim that refuses another ELF.
- Toolchain I/O, code templates, GPU kernels: processes, files and data-parallel arithmetic
  with differential tests of their own.
- Small guests, `zkp1` to `zkp3`: no state. `zkp5` (Monero-style): with its ring signature as
  a free constructor only a set of key images is left, the hazard the other two walkthrough
  ledgers already have.

## 7. Plan

1. `LiftDenotes` of `MCEvm` and `InStep` of `MCSbpf`, for every program.
2. The memory table's sorted log as a refinement of a memory.
