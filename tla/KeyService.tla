----------------------------- MODULE KeyService -----------------------------
(***************************************************************************)
(* What a cache of verifier keys promises its callers, whatever it keeps:  *)
(* a caller that asks for the key of a shape is eventually handed a key    *)
(* that is one for that shape, either the one built from the shape or one  *)
(* that somebody offered for it.  Both caches of the repository implement  *)
(* it: the RV32 machine's and the recursion machine's.                     *)
(***************************************************************************)
CONSTANTS Threads, Shapes, Keys, None,
          Built(_)        \* the key the preprocessing pass builds for a shape

VARIABLES asked,          \* [Threads -> Shapes \cup {None}]: the open call
          offered,        \* [Shapes -> SUBSET Keys]: other keys offered for it
          handed          \* [Threads -> Keys \cup {None}]: the last answer

svars == <<asked, offered, handed>>

Init ==
  /\ asked = [t \in Threads |-> None]
  /\ offered = [s \in Shapes |-> {}]
  /\ handed = [t \in Threads |-> None]

Ask(t, s) ==
  /\ asked[t] = None
  /\ asked' = [asked EXCEPT ![t] = s]
  /\ handed' = [handed EXCEPT ![t] = None]
  /\ UNCHANGED offered

Offer(t, s, k) ==
  /\ asked[t] = None
  /\ asked' = [asked EXCEPT ![t] = s]
  /\ handed' = [handed EXCEPT ![t] = None]
  /\ offered' = [offered EXCEPT ![s] = @ \cup ({k} \ {Built(s)})]

Answer(t, k) ==
  /\ asked[t] # None
  /\ k \in {Built(asked[t])} \cup offered[asked[t]]
  /\ asked' = [asked EXCEPT ![t] = None]
  /\ handed' = [handed EXCEPT ![t] = k]
  /\ UNCHANGED offered

Next ==
  \E t \in Threads :
    \/ \E s \in Shapes : Ask(t, s)
    \/ \E s \in Shapes, k \in Keys : Offer(t, s, k)
    \/ \E k \in Keys : Answer(t, k)

Served(t) == \E k \in Keys : Answer(t, k)

Spec == Init /\ [][Next]_svars /\ \A t \in Threads : WF_svars(Served(t))
=============================================================================
