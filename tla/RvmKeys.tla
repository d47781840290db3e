------------------------------ MODULE RvmKeys ------------------------------
(***************************************************************************)
(* The recursion machine's key cache (recursion/src/machine.rs): a bounded *)
(* first-in first-out map from (program, tier, reduce height) to the       *)
(* preprocessed commitment.  A miss releases the lock, builds, and takes   *)
(* it again to insert; two threads may build one key, the second insertion *)
(* of which does nothing.                                                  *)
(***************************************************************************)
EXTENDS Naturals, Sequences, FiniteSets

CONSTANTS Threads, Shapes, Keys, None,
          Capacity,       \* KEY_CACHE_CAPACITY
          Built(_)

VARIABLES map,            \* [subset of Shapes -> Keys]
          order,          \* the mapped shapes, oldest first
          pc, req, handed

vars == <<map, order, pc, req, handed>>

Mapped == DOMAIN map

\* Mutation: no check for the key that another thread inserted meanwhile.
Insert_Again(s, k) ==
  LET gone == IF Cardinality(Mapped) >= Capacity THEN {Head(order)} ELSE {}
  IN  /\ map' = [r \in (Mapped \ gone) \cup {s} |-> IF r = s THEN k ELSE map[r]]
      /\ order' = Append(IF gone = {} THEN order ELSE Tail(order), s)

\* KeyCache::insert
Insert(s, k) ==
  IF s \in Mapped THEN UNCHANGED <<map, order>>
  ELSE LET gone == IF Cardinality(Mapped) >= Capacity THEN {Head(order)} ELSE {}
       IN  /\ map' = [r \in (Mapped \ gone) \cup {s} |-> IF r = s THEN k ELSE map[r]]
           /\ order' = Append(IF gone = {} THEN order ELSE Tail(order), s)

Return(t, k) ==
  /\ pc' = [pc EXCEPT ![t] = "idle"]
  /\ req' = [req EXCEPT ![t].shape = None]
  /\ handed' = [handed EXCEPT ![t] = k]

\* Machine::verifier_key, called.
Call(t, s) ==
  /\ pc[t] = "idle"
  /\ pc' = [pc EXCEPT ![t] = "get"]
  /\ req' = [req EXCEPT ![t].shape = s]
  /\ handed' = [handed EXCEPT ![t] = None]
  /\ UNCHANGED <<map, order>>

\* KeyCache::get under the lock: a hit returns it.
Hit(t) ==
  /\ pc[t] = "get" /\ req[t].shape \in Mapped
  /\ Return(t, map[req[t].shape])
  /\ UNCHANGED <<map, order>>

Miss(t) ==
  /\ pc[t] = "get" /\ req[t].shape \notin Mapped
  /\ pc' = [pc EXCEPT ![t] = "build"]
  /\ UNCHANGED <<map, order, req, handed>>

\* The build is done: insert under the lock, and return the key just built.
Built_(t) ==
  /\ pc[t] = "build"
  /\ Insert(req[t].shape, Built(req[t].shape))
  /\ Return(t, Built(req[t].shape))

Init ==
  /\ map = <<>> /\ order = <<>>
  /\ pc = [t \in Threads |-> "idle"]
  /\ req = [t \in Threads |-> [shape |-> None, key |-> None]]
  /\ handed = [t \in Threads |-> None]

Step(t) == Hit(t) \/ Miss(t) \/ Built_(t)

Next == \E t \in Threads : Step(t) \/ \E s \in Shapes : Call(t, s)

\* The queue and the map name the same keys, within the capacity: what an
\* insertion that met the key already there must not break, or the queue ends
\* up evicting a key that was inserted since.
QueueIsMap ==
  /\ {order[i] : i \in 1..Len(order)} = Mapped
  /\ Len(order) = Cardinality(Mapped)
  /\ Len(order) <= Capacity
  /\ \A s \in Mapped : map[s] = Built(s)
=============================================================================
