---------------------------- MODULE VerifierKeys ----------------------------
(***************************************************************************)
(* The RV32 machine's verifier-key cache (research/src/machine.rs): a      *)
(* bounded least-recently-used map from a proof's declared shape to a      *)
(* slot, which is a OnceLock shared by every caller of that shape.  The    *)
(* mutex is held only to find or make the slot and to pin an entry; the    *)
(* build runs outside it.  One action is one critical section, or the      *)
(* start or the end of a build.                                            *)
(*                                                                         *)
(* A slot is an Arc: it lives while the map or a thread refers to it, so a *)
(* slot number is free again once nobody does.  The use tick is kept as   *)
(* the order of last use, which is all the eviction reads of it.           *)
(***************************************************************************)
EXTENDS Naturals, Sequences, FiniteSets

CONSTANTS Threads,        \* callers of one Machine
          Shapes,         \* the declared table heights a key is built for
          Keys,           \* preprocessed commitments
          KeyShape(_),    \* the shape a key's structure belongs to
          Blobs,          \* the keys that somebody has a blob of
          Slots,          \* slot identities
          Capacity,       \* KeyCache::capacity
          None,
          Built(_)        \* the key the preprocessing pass gives for a shape

ASSUME CapacityAssumption == Capacity \in Nat \ {0}
\* Enough identities for every live Arc: one per entry and one per handle.
ASSUME SlotAssumption ==
  /\ Slots \subseteq Nat /\ IsFiniteSet(Slots)
  /\ Cardinality(Slots) > Cardinality(Shapes) + Cardinality(Threads)
ASSUME NoneAssumption == None \notin Keys \cup Shapes \cup Slots
ASSUME BuiltAssumption ==
  \A s \in Shapes : Built(s) \in Keys /\ KeyShape(Built(s)) = s
ASSUME BlobAssumption == Blobs \subseteq Keys

VARIABLES map,            \* [subset of Shapes -> [slot, pinned]]
          order,          \* the mapped shapes, least recently used first
          slot,           \* [Slots -> [of, key]]: whose slot, what it holds
          pc,             \* what each thread does
          req,            \* the call each thread is in: shape, offered key
          hold,           \* the slot each thread holds a handle of
          handed,         \* the key each thread's last call ended with
          offered,        \* the other keys passed to install_verifier_key
          installed,      \* the key whose installation last returned Ok
          jostled         \* threads in a call whose entry was evicted

cache == <<map, order, slot>>
vars == <<map, order, slot, pc, req, hold, handed, offered, installed, jostled>>

Empty == [of |-> None, key |-> None]
NoCall == [shape |-> None, key |-> None]
Mapped == DOMAIN map
Pinned == {s \in Mapped : map[s].pinned}

\* What is left of a sequence without the members of D.
Without(s, D) ==
  LET kept[i \in 0..Len(s)] ==
        IF i = 0 THEN <<>>
        ELSE IF s[i] \in D THEN kept[i - 1] ELSE Append(kept[i - 1], s[i])
  IN  kept[Len(s)]

\* Mutation: one entry too many stays; and, below, pinned entries leave too.
Evicted_OneMore ==
  LET idle == Without(order, Pinned)
      over == Cardinality(Mapped) - Capacity
  IN  {idle[i] : i \in {j \in 1..Len(idle) : j <= over}}

Evicted_Pinned ==
  {order[i] : i \in {j \in 1..Len(order) : j <= Cardinality(Mapped) + 1 - Capacity}}

\* KeyCache::slot, a miss: entries leave, least recently used first and pinned
\* ones never, until there is room or nothing more may leave.
Evicted ==
  LET idle == Without(order, Pinned)
      over == Cardinality(Mapped) + 1 - Capacity
  IN  {idle[i] : i \in {j \in 1..Len(idle) : j <= over}}

\* The Arc of a slot: the map or a thread refers to it.
Live(i) ==
  \/ \E s \in Mapped : map[s].slot = i
  \/ \E t \in Threads : hold[t] = i

\* A slot that loses its last reference is dropped.
Slots_(contents) ==
  slot' = [i \in Slots |-> IF Live(i)' THEN contents[i] ELSE Empty]

\* A fresh slot: any dead one, so the least.
Fresh(i) == ~Live(i) /\ \A j \in Slots : j < i => Live(j)

UseSlot(t, s) ==
  IF s \in Mapped
  THEN /\ order' = Append(Without(order, {s}), s)
       /\ hold' = [hold EXCEPT ![t] = map[s].slot]
       /\ UNCHANGED <<map, slot, jostled>>
  ELSE /\ \E i \in Slots :
            /\ Fresh(i)
            /\ map' = [r \in (Mapped \ Evicted) \cup {s} |->
                         IF r = s THEN [slot |-> i, pinned |-> FALSE] ELSE map[r]]
            /\ hold' = [hold EXCEPT ![t] = i]
            /\ Slots_([slot EXCEPT ![i] = [of |-> s, key |-> None]])
       /\ order' = Append(Without(order, Evicted), s)
       /\ jostled' = jostled \cup
            {u \in Threads : \E s2 \in Evicted : hold[u] = map[s2].slot}

\* A thread of the machine is between calls.
Ready(t) == pc[t] = "idle"

Begin(t, stage, s, k) ==
  /\ pc' = [pc EXCEPT ![t] = stage]
  /\ req' = [req EXCEPT ![t] = [shape |-> s, key |-> k]]
  /\ handed' = [handed EXCEPT ![t] = None]

End(t, k) ==
  /\ pc' = [pc EXCEPT ![t] = "idle"]
  /\ req' = [req EXCEPT ![t] = NoCall]
  /\ hold' = [hold EXCEPT ![t] = None]
  /\ handed' = [handed EXCEPT ![t] = k]
  /\ jostled' = jostled \ {t}

Building(i) == \E t \in Threads : pc[t] = "build" /\ hold[t] = i
Filled(i) == slot[i].key # None

\* verifier_key_with_modq: the slot under the lock, then OnceLock::get_or_init.
Lookup(t, s) ==
  /\ Ready(t)
  /\ UseSlot(t, s)
  /\ Begin(t, "get", s, None)
  /\ UNCHANGED <<offered, installed>>

\* Mutation: the cache is read again after the lock was released.
TakeKey_Remapped(t) ==
  /\ pc[t] = "get" /\ Filled(hold[t])
  /\ End(t, IF req[t].shape \in Mapped THEN slot[map[req[t].shape].slot].key ELSE None)
  /\ UNCHANGED <<map, order, offered, installed>>
  /\ Slots_(slot)

TakeKey(t) ==
  /\ pc[t] = "get" /\ Filled(hold[t])
  /\ End(t, slot[hold[t]].key)
  /\ UNCHANGED <<map, order, offered, installed>>
  /\ Slots_(slot)

\* Mutation: check, then build, with nobody waiting.
StartBuild_NoWait(t) ==
  /\ pc[t] = "get" /\ ~Filled(hold[t])
  /\ pc' = [pc EXCEPT ![t] = "build"]
  /\ UNCHANGED <<cache, req, hold, handed, offered, installed, jostled>>

\* The first caller of an empty slot builds; the others wait for it.
StartBuild(t) ==
  /\ pc[t] = "get" /\ ~Filled(hold[t]) /\ ~Building(hold[t])
  /\ pc' = [pc EXCEPT ![t] = "build"]
  /\ UNCHANGED <<cache, req, hold, handed, offered, installed, jostled>>

FinishBuild(t) ==
  /\ pc[t] = "build"
  /\ End(t, Built(req[t].shape))
  /\ UNCHANGED <<map, order, offered, installed>>
  /\ Slots_([slot EXCEPT ![hold[t]].key = Built(req[t].shape)])

\* install_verifier_key of a blob whose header and structure checks passed: a
\* blob that fails one changes nothing and is left out.
Install(t, s, k) ==
  /\ Ready(t) /\ KeyShape(k) = s
  /\ UseSlot(t, s)
  /\ Begin(t, "set", s, k)
  /\ offered' = [offered EXCEPT ![s] = @ \cup ({k} \ {Built(s)})]
  /\ UNCHANGED installed

\* OnceLock::set: it waits for a running build, and fills an empty slot.  A
\* slot that holds another key is left alone (SlotFilled).
SetSlot(t) ==
  /\ pc[t] = "set" /\ ~Building(hold[t])
  /\ UNCHANGED <<map, order, offered, installed>>
  /\ \/ /\ ~Filled(hold[t])
        /\ slot' = [slot EXCEPT ![hold[t]].key = req[t].key]
        /\ pc' = [pc EXCEPT ![t] = "pin"]
        /\ UNCHANGED <<req, hold, handed, jostled>>
     \/ /\ slot[hold[t]].key = req[t].key
        /\ pc' = [pc EXCEPT ![t] = "pin"]
        /\ UNCHANGED <<slot, req, hold, handed, jostled>>
     \/ /\ Filled(hold[t]) /\ slot[hold[t]].key # req[t].key
        /\ End(t, slot[hold[t]].key)
        /\ Slots_(slot)

\* The second critical section: KeyCache::pin marks whatever entry the shape
\* has now, and does nothing when it has none.
Pin(t) ==
  /\ pc[t] = "pin"
  /\ map' = IF req[t].shape \in Mapped
            THEN [map EXCEPT ![req[t].shape].pinned = TRUE] ELSE map
  /\ installed' = IF t \in jostled THEN installed
                  ELSE [installed EXCEPT ![req[t].shape] = req[t].key]
  /\ End(t, req[t].key)
  /\ Slots_(slot)
  /\ UNCHANGED <<order, offered>>

Init ==
  /\ map = <<>> /\ order = <<>>
  /\ slot = [i \in Slots |-> Empty]
  /\ pc = [t \in Threads |-> "idle"]
  /\ req = [t \in Threads |-> NoCall]
  /\ hold = [t \in Threads |-> None]
  /\ handed = [t \in Threads |-> None]
  /\ offered = [s \in Shapes |-> {}]
  /\ installed = [s \in Shapes |-> None]
  /\ jostled = {}

Step(t) ==
  \/ TakeKey(t) \/ StartBuild(t) \/ FinishBuild(t) \/ SetSlot(t) \/ Pin(t)

Call(t) ==
  \/ \E s \in Shapes : Lookup(t, s)
  \/ \E s \in Shapes, k \in Blobs : Install(t, s, k)

Next == \E t \in Threads : Call(t) \/ Step(t)

\* A thread inside a call is scheduled, the mutex is granted and a build ends.
Fairness == \A t \in Threads : WF_vars(Step(t))

Spec == Init /\ [][Next]_vars /\ Fairness

-----------------------------------------------------------------------------
TypeOK ==
  /\ Mapped \subseteq Shapes
  /\ map \in [Mapped -> [slot : Slots, pinned : BOOLEAN]]
  /\ slot \in [Slots -> [of : Shapes \cup {None}, key : Keys \cup {None}]]
  /\ pc \in [Threads -> {"idle", "get", "build", "set", "pin"}]
  /\ req \in [Threads -> [shape : Shapes \cup {None}, key : Keys \cup {None}]]
  /\ hold \in [Threads -> Slots \cup {None}]
  /\ handed \in [Threads -> Keys \cup {None}]
  /\ offered \in [Shapes -> SUBSET Keys]
  /\ installed \in [Shapes -> Keys \cup {None}]
  /\ jostled \subseteq Threads

\* The use order names the mapped shapes, each once.
OrderIsMap ==
  /\ {order[i] : i \in 1..Len(order)} = Mapped
  /\ Len(order) = Cardinality(Mapped)

\* Every mapped slot and every held slot was made for its shape, and so was the
\* key it holds; no two shapes share one.
SlotsAreShapes ==
  /\ \A s \in Mapped : slot[map[s].slot].of = s
  /\ \A t \in Threads : pc[t] # "idle" => slot[hold[t]].of = req[t].shape
  /\ \A i \in Slots : Filled(i) => KeyShape(slot[i].key) = slot[i].of

\* The bound of KeyCache::slot: the cache is within its capacity, or all its
\* entries but one are pinned (machine.rs:1528-1532).
Bounded ==
  Cardinality(Mapped) <= Capacity \/ Cardinality(Mapped \ Pinned) <= 1

\* The cache's structure, whatever interleaving of lookups, builds, installs
\* and evictions led to it.
CacheInv == TypeOK /\ OrderIsMap /\ SlotsAreShapes /\ Bounded

\* #54's single flight: two threads build one shape at the same time only when
\* the slot of one of them was evicted under it.
SingleFlight ==
  \A t, u \in Threads :
    (t # u /\ pc[t] = "build" /\ pc[u] = "build" /\ req[t].shape = req[u].shape)
      => t \in jostled \/ u \in jostled

\* A key whose installation returned Ok with no eviction of its entry in
\* between is held for ever after: mapped, pinned, and never replaced.
QuietInstallSticks ==
  \A s \in Shapes : installed[s] # None =>
    s \in Pinned /\ slot[map[s].slot].key = installed[s]

\* "a key installed by install_verifier_key is never evicted" (machine.rs:1517):
\* an installation that returns Ok leaves its key in the cache, pinned.
InstalledKeyIsHeld ==
  [][\A t \in Threads : (pc[t] = "pin" /\ pc'[t] = "idle") =>
       /\ req[t].shape \in DOMAIN map'
       /\ map'[req[t].shape].pinned
       /\ slot'[map'[req[t].shape].slot].key = req[t].key]_vars

\* What the machine's callers see: the key service.
Service == INSTANCE KeyService WITH asked <- [t \in Threads |-> req[t].shape]
ImplementsKeyService == Service!Spec
=============================================================================
