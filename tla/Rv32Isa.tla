------------------------------ MODULE Rv32Isa ------------------------------
(***************************************************************************)
(* What the emulator and the tables of the RV32 machine share: the sizes   *)
(* of the machine and the syscalls (research/src/isa.rs).                  *)
(***************************************************************************)
EXTENDS Naturals, Sequences

CONSTANTS W,              \* 2^32: the values of a machine word
          Regs,           \* register numbers, 0 to 31 in the code
          A0, A1, A7,
          NumOutputs,     \* NUM_OUTPUTS
          MaxWords,       \* POSEIDON2_MAX_WORDS
          PtrBound,       \* 2^30: the words of memory
          ChipBound,      \* 0x3000_0000: the first pointer the tables refuse a chip
          ChipWords,      \* the words of a chip's buffer, up to 8960 in the code
          AbsorbGas, ChipGas,
          ChipOf(_, _)    \* what a chip makes of its buffer, word by word

ASSUME WordAssumption ==
  /\ W \in Nat \ {0} /\ W % 4 = 0
  /\ PtrBound \in Nat /\ 4 * PtrBound = W
  /\ ChipBound \in Nat /\ 4 * ChipBound = 3 * PtrBound
  /\ ChipWords \in 1..(PtrBound - ChipBound)
ASSUME RegAssumption == {0, A0, A1, A7} \subseteq Regs /\ Regs \subseteq 0..(PtrBound - 1)
ASSUME LimitAssumption ==
  /\ NumOutputs \in Nat /\ MaxWords \in 0..PtrBound
  /\ AbsorbGas \in Nat \ {0} /\ ChipGas \in Nat \ {0}

HALT == 0
WRITE_OUTPUT == 1
READ_INPUT == 2
POSEIDON2 == 3
CHIP == 4                 \* KECCAK, SHA256 and MODQ
READ_PUBLIC == 6
POSEIDON2_LEN == 7

Num(n) == <<n % W>>

\* f with the value w at k.
Put(f, k, w) == [x \in DOMAIN f \cup {k} |-> IF x = k THEN w ELSE f[x]]

-----------------------------------------------------------------------------
(* The Poseidon2 overwrite sponge (research/src/hash.rs) over free terms:  *)
(* a permutation output is a term of its input, so two digests are equal   *)
(* exactly when what was absorbed is.  A word is <<n>> for a number, and a *)
(* longer tuple for an instruction or for half of a digest lane; a program *)
(* that computes with the latter computes with the number it is.           *)

CONSTANTS Rate,           \* lanes overwritten per permutation; even, 4 in the code
          DigestNum(_)    \* the number that a word of a digest happens to be

ASSUME RateAssumption == Rate \in Nat \ {0} /\ Rate % 2 = 0 /\ 2 * Rate <= PtrBound

\* A word as a number, wherever the machine computes with it.
Val(w) ==
  CASE Len(w) = 1 /\ w[1] \in Nat -> w[1]
    [] ~(Len(w) = 1 /\ w[1] \in Nat) /\ DigestNum(w) \in 0..(W - 1) -> DigestNum(w)
    [] OTHER -> 0

\* The states a sponge starts in: zero lanes, and the header in the capacity.
Seed(cap) == [rate |-> [i \in 1..Rate |-> <<0>>], cap |-> cap]
Zero == Seed(<<0>>)
LenSeed(n) == Seed(<<n>>)
ProgramSeed(base, n) == Seed(<<"HC", base, n>>)
InputSeed(n) == Seed(<<"IN", n>>)
PublicSeed(n) == Seed(<<"PUB", n>>)

Perm(s) == [rate |-> [i \in 1..Rate |-> <<"lane", i, s>>], cap |-> <<"cap", s>>]

\* Absorbing overwrites as many lanes as there are words.
Overwrite(s, ws) ==
  [s EXCEPT !.rate = [i \in 1..Rate |-> IF i <= Len(ws) THEN ws[i] ELSE s.rate[i]]]

BlocksOf(n) == (n + Rate - 1) \div Rate
AtLeastOne(n) == IF n = 0 THEN 1 ELSE n
Block(ws, k) ==
  SubSeq(ws, Rate * (k - 1) + 1, IF Rate * k < Len(ws) THEN Rate * k ELSE Len(ws))

\* The state after absorbing ws in the given number of blocks.
Absorbed(seed, ws, blocks) ==
  LET st[k \in 0..blocks] ==
        IF k = 0 THEN seed ELSE Perm(Overwrite(st[k - 1], Block(ws, k)))
  IN  st[blocks]

\* The rows of each digest region, and its digest: the rate lanes at the end.
ProgramRows(ws) == AtLeastOne(BlocksOf(Len(ws)))
InputRows(ws) == 1 + BlocksOf(Len(ws))
PublicRows(ws) == AtLeastOne(BlocksOf(Len(ws)))

ProgramDigest(base, ws) ==
  Absorbed(ProgramSeed(base, Len(ws)), ws, ProgramRows(ws)).rate
\* The salt is a whole block of its own in front of the input words.
InputDigest(salt, ws) ==
  Absorbed(InputSeed(Len(ws)), salt \o ws, InputRows(ws)).rate
PublicDigest(ws) ==
  Absorbed(PublicSeed(Len(ws)), ws, PublicRows(ws)).rate

\* A lane as two machine words, low first; a number is its own low word.
Lo(lane) == IF Len(lane) = 1 THEN lane ELSE <<"lo", lane>>
Hi(lane) == IF Len(lane) = 1 THEN <<0>> ELSE <<"hi", lane>>

\* The Rate words of half h (0 or 1) of a digest.
DigestHalf(lanes, h) ==
  [i \in 1..Rate |->
     LET lane == lanes[(Rate \div 2) * h + (i + 1) \div 2]
     IN  IF i % 2 = 1 THEN Lo(lane) ELSE Hi(lane)]
=============================================================================
