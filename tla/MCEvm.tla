------------------------------- MODULE MCEvm -------------------------------
(***************************************************************************)
(* A contract run by the interpreter and, translated, by its own block     *)
(* code: an op of one with the same op of the other, the heads and ends of *)
(* blocks between them, and each alone once the other has halted.          *)
(***************************************************************************)
EXTENDS EvmInterp, EvmLift

VARIABLES gasLimit, pre   \* what the call began with: its limit, its storage
vars == <<code, jumpdests, m, translated, gasLimit, pre>>

Digest(ws) == (Len(ws) + 5 * FoldLeft(LAMBDA n, w : n + w, 0, ws)) % W
SomeCalldata == <<9, 4>>
LeafOf(slot) == [l \in Level |-> (slot \div 2^l) % 2]

-----------------------------------------------------------------------------
(* Programs.                                                               *)

\* Words on the stack, among them the label the code ends at; a body over them;
\* what ends the body; and the rest logged, on either side of the end.
CONSTANT BodyLength
ASSUME BodyAssumption == BodyLength \in Nat
StackOps == {\h01, \h03, \h81, \h90, \h91, \h5a, \h50}
Ends == {\h57, \h56, \h5b}
Shuffled(body, end) ==
  LET upto(t) == <<\h60, 2, \h60, t, \h60, 1, \h60, t, \h33, \h5f, \h60, t, \h5b>>
                   \o body \o <<end, \h5f, \h5f, \ha2, \h00>>
  IN  upto(Len(upto(0))) \o <<\h5b, \h5f, \h5f, \ha3, \h5f, \h55>>
Shuffles == {Shuffled(b, e) : b \in [1..BodyLength -> StackOps], e \in Ends}

Flow ==
  {\* a loop that logs its counter, to the limit of the logs
   <<\h60, 3, \h5b, \h60, 1, \h90, \h03, \h80, \h5f, \h5f, \ha1, \h80, \h60, 2, \h57>>,
   \* loops to the limit of the stack and of the gas
   <<\h5b, \h5f, \h60, 0, \h56>>, <<\h5b, \h60, 0, \h56>>,
   \* jumps into the data of a push, the second from a word of the memory
   <<\h60, \h5b, \h60, 1, \h56>>,
   <<\h60, 1, \h5f, \h52, \h5f, \h51, \h56>>,
   \* wide destinations that end in a label's number
   <<\h62, 1, 0, 6, \h56, \h00, \h5b>>,
   <<\h62, 1, 0, 11, \h5f, \h52, \h36, \h5f, \h51, \h57, \h00, \h5b>>,
   \* a jump to the label memory holds, and a bad one only if it is taken
   <<\h60, 7, \h5f, \h52, \h5f, \h51, \h56, \h5b, \h5f, \h60, 9, \h57>>,
   <<\h60, 1, \h60, 9, \h57>>,
   <<\h36, \h60, 12, \h5f, \h52, \h5f, \h51, \h57, \h00, \hfe, \hfe, \hfe, \h5b, \h59>>,
   \* nothing to add, duplicate, swap or log; a byte nobody implements
   <<\h5f, \h01>>, <<\h5f, \h81>>, <<\h5f, \h90>>, <<\h5f, \h5f, \ha1>>, <<\h0c>>,
   \* a push that the end of the code cuts short, and its word logged before one
   <<\h61, 1, \h5f, \h5f, \ha1, \h62, 1>>, <<\hfe>>, <<>>}

Dense ==
  {\* more words in locals than there are, then a sum of them all
   <<\h36, \h5a, \h59, \h33, \h5a, \h36, \h36, \h59, \h36, \h90, \h92, \h01, \h01, \h01, \h01, \h03, \h01, \h5f, \h5f, \ha2>>,
   \* a local on two positions, overwritten by neither's result
   <<\h5a, \h80, \h80, \h01, \h90, \h15, \h5f, \h5f, \ha2>>,
   \* an offset and a size that are entry words, below them topics out of place
   <<\h5a, \h33, \h60, 1, \h60, 2, \h5b, \h91, \h92, \h90, \ha2>>,
   <<\h60, 2, \h60, 1, \h33, \h60, 1, \h5b, \h92, \ha2, \h5a>>,
   \* the gas left in the middle of a block, after a charge of its own
   <<\h60, 3, \h60, 2, \h0a, \h5a, \h60, 2, \h5f, \ha2>>,
   <<\h36, \h60, 3, \h1b, \h60, 7, \h36, \h36, \h08, \h60, 3, \h60, 5, \h60, 4, \h08, \h60, 5,
     \h60, 1, \h1b, \h5f, \h5f, \ha4>>}

Memory ==
  {\* the low byte of a wide word, and a hash and the return over it
   <<\h62, 1, 0, 5, \h60, 1, \h53, \h60, 2, \h5f, \h20, \h5f, \h52, \h60, 2, \h5f, \hf3>>,
   \* calldata copied, from a wide offset too; nothing returned from a wide offset
   <<\h60, 2, \h5f, \h5f, \h37, \h60, 1, \h60, 1, \h5f, \h03, \h60, 1, \h37, \h5f, \h51, \h5f,
     \h5f, \ha1, \h5f, \h60, 1, \h5f, \h03, \hf3>>,
   \* an access, a length and a return past what there is
   <<\h62, 1, 0, 0, \h51>>, <<\h60, 1, \h5f, \h03, \h5f, \h20>>,
   <<\h60, 3, \h5f, \hf3>>, <<\h60, 4, \h51>>,
   \* a word of calldata, one past its end, and return data there is none of
   <<\h60, 1, \h35, \h62, 1, 0, 0, \h35, \h60, 2, \h35, \h5f, \h5f, \ha3, \h5f, \h5f, \h5f, \h3e, \h60, 1, \h5f,
     \h3d, \h3e>>}

Storing ==
  {\* slot 0 cleared, slot 1 set, all three read back; then one without a witness
   <<\h5f, \h5f, \h55, \h60, 9, \h60, 1, \h55, \h5f, \h54, \h60, 1, \h54, \h60, 2, \h54,
     \h5f, \h5f, \ha3, \h60, 3, \h54>>,
   \* slots 2 and 1 swapped, and the call undone
   <<\h60, 2, \h54, \h60, 1, \h54, \h60, 2, \h55, \h60, 1, \h55, \h60, 1, \h5f, \hfd>>,
   \* zeros stored over zeros
   <<\h5f, \h60, 1, \h55, \h5f, \h60, 5, \h55>>,
   \* slot 5 set and read, then slot 2, to the end
   <<\h60, 4, \h60, 5, \h55, \h60, 5, \h54, \h60, 2, \h55, \h60, 6, \h60, 5, \h55>>}

Cases ==
  (Shuffles \X {60000}) \cup (Flow \X {45, 2900})
    \cup ((Dense \cup Memory \cup Storing) \X {45, 2900, 6000, 60000})

-----------------------------------------------------------------------------
(* Storage.                                                                *)

\* The contract's storage before the call: what each leaf hashes to.
CONSTANT Before
ASSUME SlotAssumption == \A slot \in 0..(W - 1) : SlotIndex(slot) \in Leaf

\* The node at level l above leaf i of a whole tree.
Node(full, l, i) ==
  LET node[k \in 0..Depth] ==
        IF k = 0 THEN full
        ELSE LET below == node[k - 1]
             IN  [p \in Leaf |-> NodeHash(below[[p EXCEPT ![k - 1] = 0]],
                                          below[[p EXCEPT ![k - 1] = 1]])]
  IN  node[l][i]
Root(full) == Node(full, Depth, CHOOSE i \in Leaf : TRUE)

\* Each leaf begins with the slot of its number.
Values == <<7, 0, 5, 0>>
BeforeLeaf ==
  [i \in Leaf |-> LET n == CHOOSE n \in 0..3 : LeafOf(n) = i IN LeafHash(n, Values[n + 1])]

Witness(slot, value) ==
  LET i == LeafOf(slot)
  IN  [slot |-> slot, value |-> value,
       siblings |-> [l \in Level |-> Node(Before, l, [i EXCEPT ![l] = 1 - @])]]
Honest(slot) == Witness(slot, Values[slot + 1])
Ample == <<Honest(0), Honest(1), Honest(2)>>
\* Slot 5's leaf is slot 1's; a wrong value; two slots at one leaf.
Vectors ==
  {Ample, <<Honest(2), Witness(5, 0)>>, <<Honest(0), Honest(1), Witness(2, 6)>>,
   <<Honest(1), Witness(5, 0)>>}

-----------------------------------------------------------------------------
Init ==
  /\ \E k \in Cases : code = k[1] /\ gasLimit = k[2]
  /\ jumpdests = ScanJumpdests(code)
  /\ \E ws \in Vectors :
       /\ Decodes(ws) /\ (code \notin Storing => ws = Ample)
       /\ pre = Decoded(Root(Before), ws)
  /\ InterpInit(gasLimit, pre) /\ TranslatedInit(gasLimit, pre)

Between == (BlockHead \/ OffTheEnd \/ Fall) /\ UNCHANGED m
Both == Ran(m) /\ Op /\ InterpStep
InterpAlone == ~Alive(c) /\ InterpStep /\ UNCHANGED translated
TranslatedAlone == ~Ran(m) /\ Op /\ UNCHANGED m
Next ==
  /\ Between \/ Both \/ InterpAlone \/ TranslatedAlone
  /\ UNCHANGED <<code, jumpdests, gasLimit, pre>>

\* Two sequential programs: each goes on until it has halted.  This is WF_vars(Next),
\* with what enables Next written out.
GoesOn == []<>~(Ran(m) \/ Alive(c)) \/ []<><<TRUE>>_vars
Spec == Init /\ [][Next]_vars /\ GoesOn

-----------------------------------------------------------------------------
Public(o) == PublicOutput(pre.root, o)

\* Liveness: every call ends, interpreted and translated, and both runs make
\* the same public: status, root, return data and logs, for the same gas.
EndsMatch == Public(m) = Public(c) /\ m.gas = c.gas
RunsEndAlike == <>(~Ran(m) /\ ~Alive(c) /\ EndsMatch)

\* Safety: between two ops, the symbolic stack names the interpreter's words one
\* for one, below it the memory stack holds them, what the head charged ahead is
\* what the ops to come cost, and memory, storage and logs are the same.
LiftDenotes ==
  Ran(m) /\ Alive(c) /\ at # 0 =>
    /\ Len(m.stack) = c.base + Height(lift)
    /\ \A p \in DOMAIN m.stack :
         m.stack[p] = IF p <= c.base + lift.lo THEN c.stack[p - 1]
                      ELSE Read(c, ValAt(lift, p - 1 - c.base))
    /\ m.gas = c.gas + Gas(block.ops, Len(block.ops)) - Gas(block.ops, at - 1)
    /\ <<m.mem, m.msize, m.tree, m.logs>> = <<c.mem, c.msize, c.tree, c.logs>>

\* Safety: the root is that of the whole tree with the values the call has used
\* and stored in it, and a witness that was good to begin with is good for its
\* slot's value at every later root.
LeafNow(tree, i) ==
  LET used == {w \in Range(tree.wits) : w.verified /\ SlotIndex(w.slot) = i}
  IN  IF used = {} THEN Before[i]
      ELSE LET w == CHOOSE w \in used : TRUE IN LeafHash(w.slot, w.value)
TreeIsOfValues(tree) ==
  /\ tree.root = Root([i \in Leaf |-> LeafNow(tree, i)])
  /\ \A k \in DOMAIN tree.wits :
       Verifies(pre, k) => Verifies([tree EXCEPT !.wits[k].verified = FALSE], k)
RootIsOfValues == TreeIsOfValues(m.tree) /\ TreeIsOfValues(c.tree)
=============================================================================
