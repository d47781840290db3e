--------------------------- MODULE DslGadgets ---------------------------
(***************************************************************************)
(* Programs around the DSL's hashes and its transcript: each reads its     *)
(* operands from the tape, hashes or draws, and publishes what came out.   *)
(* A gadget is a build, a tape, and what the host makes of the same words: *)
(* the published values, or none where the program has to trap.            *)
(***************************************************************************)
EXTENDS DslHash, SequencesExt

-----------------------------------------------------------------------------
(* What the DSL's hashes and transcript have to agree with: the same       *)
(* functions on the host, over values.  The sponge, the compressor and the *)
(* challenger are the library's (p3-symmetric, p3-challenger); the Merkle  *)
(* walk is vendor/p3-merkle-tree, the seeded digest public_values.rs.      *)

(* A block overwrites the lanes it has words for. *)
Overwritten(s, block) == [i \in 1 .. Width |-> IF i <= Len(block) THEN block[i] ELSE s[i]]
BlocksOf(words) ==
    [j \in 1 .. (Len(words) + Rate - 1) \div Rate |->
       SubSeq(words, Rate * (j - 1) + 1, IF Rate * j < Len(words) THEN Rate * j ELSE Len(words))]
HostAbsorbed(seed, words) ==
    SubSeq(FoldLeft(LAMBDA s, block : Permute(Overwritten(s, block)), seed, BlocksOf(words)), 1, Rate)

Zeros(n) == [k \in 1 .. n |-> 0]
HostSponge(words) == HostAbsorbed(Zeros(Width), words)
PublicDigest(domain, words) ==
    HostAbsorbed(Zeros(Rate) \o <<domain, Len(words)>> \o Zeros(Rate - 2), words)
HostCompress(left, right) == SubSeq(Permute(left \o right), 1, Rate)

(* verify_batch at arity 2: the children of a level by the parity of the   *)
(* index, then the digest of all rows of the new height.                   *)
Climbed(at, sibling, rows) ==
    LET parent == IF at.index % 2 = 0 THEN HostCompress(at.digest, sibling)
                  ELSE HostCompress(sibling, at.digest)
    IN  [index |-> at.index \div 2,
         digest |-> IF rows = <<>> THEN parent ELSE HostCompress(parent, HostSponge(rows))]
(* The siblings and the rows to inject, by level; where it ends in the cap. *)
BatchWalk(row, index, siblings, rows) ==
    FoldLeft(LAMBDA at, l : Climbed(at, siblings[l], rows[l]),
             [index |-> index, digest |-> HostSponge(row)], [l \in DOMAIN siblings |-> l])

-----------------------------------------------------------------------------
(* DuplexChallenger. *)

HostChallenger == [state |-> Zeros(Width), input |-> <<>>, output |-> <<>>]

HostDuplex(c) ==
    LET k == Len(c.input)
        absorbed == [Overwritten(c.state, c.input \o Zeros(Rate - k)) EXCEPT ![Rate + 1] = (@ + k) % P]
        state == Permute(IF k = 0 THEN c.state ELSE absorbed)
    IN  [state |-> state, input |-> <<>>, output |-> SubSeq(state, 1, Rate)]

HostObserve(c, v) ==
    LET u == [c EXCEPT !.input = Append(@, v), !.output = <<>>]
    IN  IF Len(u.input) = Rate THEN HostDuplex(u) ELSE u
HostReady(c) == IF c.input # <<>> \/ c.output = <<>> THEN HostDuplex(c) ELSE c
HostSample(c) == Last(HostReady(c).output)
HostSampled(c) == [HostReady(c) EXCEPT !.output = Front(@)]

-----------------------------------------------------------------------------
(* The gadgets. *)

Word(k) == (7 * k * k + 3) % P
WordsFrom(k, n) == [j \in 1 .. n |-> Word(k + j)]

(* A region of n cells, and one filled from the tape, which are then the   *)
(* newest; publishing cells. *)
Fill(b, n) == HintArray(b, n)
PointerAt(b) == Pointer(Newest(b) + 1, b.nextCell)
PublishCells(b0, p, n) ==
    Each(LAMBDA b, k : LET c == Load(b, p, k, 1) IN Public(c, Newest(c)), b0, Cells(n))

(* What is built on a filled region, on a fresh one. *)
Filling(b, n, then(_, _)) == then(Fill(b, n), PointerAt(b))
Allocating(b, n, then(_, _)) == then(Alloc(b, n), PointerAt(b))

Accepted(values) == [status |-> "halted", public |-> values]
Trapped == [status |-> "InverseOfZero", public |-> <<>>]
Gadget(kind, n, tape, expect) == [kind |-> kind, n |-> n, tape |-> tape, expect |-> expect]

-----------------------------------------------------------------------------
(* Sponges of n words after one of five, which leaves the scratch dirty;   *)
(* the compressor with its output on either operand or elsewhere; a staged *)
(* absorb of as many words as the tape says.                               *)

SpongeCall(kind, b, src, n, out) ==
    CASE kind = "sponge" -> Sponge(b, src, n, out)
      [] kind = "state" -> SpongeState(b, out, src, n)
      [] kind = "seeded" -> SpongeSeeded(b, 5, src, n, out)
SpongeBuild(b0, kind, n) ==
    Filling(b0, 5, LAMBDA b1, first :
    Filling(b1, n, LAMBDA b2, src :
    Allocating(b2, Width, LAMBDA b, out :
        PublishCells(SpongeCall(kind, Sponge(b, first, 5, out), src, n, out), out, Rate))))
SpongeGadgets ==
    {Gadget(kind, n, WordsFrom(0, 5) \o WordsFrom(9, n),
            Accepted(IF kind = "seeded" THEN PublicDigest(5, WordsFrom(9, n)) ELSE HostSponge(WordsFrom(9, n)))) :
       kind \in {"sponge", "state", "seeded"}, n \in 1 .. 2 * Rate + 1}

CompressBuild(b0, alias) ==
    Filling(b0, Rate, LAMBDA b1, left :
    Filling(b1, Rate, LAMBDA b2, right :
    Allocating(b2, Rate, LAMBDA b, fresh :
        LET out == <<fresh, left, right>>[alias + 1]
        IN  PublishCells(Compress(b, left, right, out), out, Rate))))
CompressGadgets ==
    {Gadget("compress", alias, WordsFrom(0, 2 * Rate), Accepted(HostCompress(WordsFrom(0, Rate), WordsFrom(Rate, Rate)))) :
       alias \in 0 .. 2}

StagedLoop(b0, st, counter, cursor) ==
    LET top == MemLoopTop(Hint(b0), counter, Newest(b0) + 1)
        word == Hint(top)
    IN  MemLoopEnd(AbsorbStaged(word, st, cursor, Newest(word)), Len(top.ops), counter)
StagedBuild(b0) ==
    LET counter == Pointer(ZeroHandle, b0.nextCell)
        cursor == Pointer(ZeroHandle, b0.nextCell + 1)
    IN  Allocating(AllocAbsolute(b0, 2), Width, LAMBDA b1, st :
            LET b2 == Constant(ZeroCells(b1, st, Width), AddrOf(st))
                b3 == StagedLoop(Store(b2, cursor, 0, Newest(b2), 1), st, counter, cursor)
            IN  PublishCells(Poseidon2(b3, st), st, Rate))
StagedGadgets ==
    {Gadget("staged", 0, <<n>> \o WordsFrom(0, n), Accepted(HostSponge(WordsFrom(0, n)))) : n \in 1 .. 2 * Rate + 1}

-----------------------------------------------------------------------------
(* A leaf row of three words, a walk of two levels to a cap of four        *)
(* digests, rows injected after the first n levels; the cap has the digest *)
(* at the index of the leaf or at another.                                 *)

WalkBuild(b0, n) ==
    Filling(b0, 3, LAMBDA b1, row :
    Allocating(b1, Rate, LAMBDA b2, leaf :
    Filling(Each(LAMBDA b, k : Hint(b), b2, Cells(4)), 2 * Rate, LAMBDA b3, siblings :
    Filling(b3, 3, LAMBDA b4, rows :
    Filling(b4, 4 * Rate, LAMBDA b5, caps :
        LET bit(k) == Newest(b2) + k
            walked == MerkleWalk(Sponge(b5, row, 3, leaf), leaf, <<bit(1), bit(2)>>, siblings,
                                 [l \in 0 .. n - 1 |-> InjectionOf(Offset(rows, l), 3 - l)])
        IN  PublishCells(AssertCapEntry(walked, leaf, caps, bit(3), bit(4)), leaf, Rate))))))

IndexBits(index, n) == [k \in 1 .. n |-> (index \div 2 ^ (k - 1)) % 2]
CapWith(digest, entry) ==
    [c \in 1 .. 4 * Rate |-> IF (c - 1) \div Rate = entry THEN digest[((c - 1) % Rate) + 1] ELSE Word(40 + c)]
WalkGadget(index, n, entry) ==
    LET sibling(l) == WordsFrom(10 + Rate * l, Rate)
        rows == WordsFrom(20, 3)
        given(l) == IF l < n THEN SubSeq(rows, l + 1, 3) ELSE <<>>
        end == BatchWalk(WordsFrom(0, 3), index, <<sibling(0), sibling(1)>>, <<given(0), given(1)>>)
    IN  Gadget("walk", n,
               WordsFrom(0, 3) \o IndexBits(index, 4) \o sibling(0) \o sibling(1) \o rows
                 \o CapWith(end.digest, entry),
               IF entry = end.index THEN Accepted(end.digest) ELSE Trapped)
WalkGadgets ==
    {WalkGadget(index, n, entry) : index \in {0, 6, 9, 13}, n \in 0 .. 2, entry \in {2, 3}}

-----------------------------------------------------------------------------
(* Transcripts: a script's steps, by the DSL on handles and by the host on *)
(* values, which also writes the tape.  A claim about sampled bits is the  *)
(* honest one, the other decomposition of the same element, or a           *)
(* decomposition of the next element.                                      *)

Scripts ==
    << <<"observe", "sample", "sample", "sample">>, <<"sample", "observe", "sampleext">>,
       <<"ext", "usize", "sample", "observe", "sample">>, <<"digest", "sample", "nowork", "sampleext">>,
       <<"witness", "sample">>, <<"observe", "bits">> >>

Drew(t) == [t EXCEPT !.b = Public(@, t.got)]
DrewBits(t) == [t EXCEPT !.b = Each(Public, @, SubSeq(t.got, 1, 2))]
Hinted(t) == [t EXCEPT !.b = Hint(@)]
HintedExt(t) == [t EXCEPT !.b = HintExt(@)]
Played(t, step) ==
    CASE step = "observe" -> LET u == Hinted(t) IN Observe(u, Newest(u.b))
      [] step = "ext" -> LET u == HintedExt(t) IN ObserveExt(u, Newest(u.b))
      [] step = "digest" -> ObserveDigest([t EXCEPT !.b = Fill(@, Rate)], PointerAt(t.b))
      [] step = "usize" -> ObserveUsize(t, 6)
      [] step = "sample" -> Drew(Sample(t))
      [] step = "sampleext" -> Drew(SampleExt(t))
      [] step = "bits" -> DrewBits(SampleBits(t))
      [] step \in {"witness", "nowork"} ->
           LET u == Hinted(t) IN CheckWitness(u, IF step = "witness" THEN 1 ELSE 0, Newest(u.b))
TranscriptBuild(b, script) == FoldLeft(Played, NewChallenger(b), script).b

Order(claim, x) == CASE claim = "honest" -> x [] claim = "other" -> x + P [] claim = "next" -> (x + 1) % P
BitsTape(v) ==
    LET low == v % 2 ^ Limb IN IndexBits(v, 2 * Limb) \o <<IF low = 0 THEN 0 ELSE Reciprocal(low)>>

(* h: the challenger, the tape, the values drawn, and the words used. *)
HostStep(h, step, claim) ==
    LET v == Word(h.used + 1)
        w == Word(h.used + 2)
        told(vs, tape) == [h EXCEPT !.c = FoldLeft(HostObserve, @, vs), !.tape = @ \o tape, !.used = @ + 2]
        x == HostSample(h.c)
        next == HostSampled(h.c)
        worked == HostObserve(h.c, v)
    IN  CASE step = "observe" -> told(<<v>>, <<v>>)
          [] step \in {"ext", "digest"} -> told(<<v, w>>, <<v, w>>)
          [] step = "usize" -> told(<<6, 0>>, <<>>)
          [] step = "sample" -> [h EXCEPT !.c = next, !.drawn = Append(@, x)]
          [] step = "sampleext" -> [h EXCEPT !.c = HostSampled(next), !.drawn = @ \o <<x, HostSample(next)>>]
          [] step = "bits" -> [h EXCEPT !.c = next, !.drawn = @ \o IndexBits(x, 2),
                                        !.tape = @ \o BitsTape(Order(claim, x))]
          [] step = "witness" -> [h EXCEPT !.c = HostSampled(worked), !.used = @ + 2,
                                           !.ok = HostSample(worked) % 2 = 0,
                                           !.tape = @ \o <<v>> \o BitsTape(HostSample(worked))]
          [] step = "nowork" -> [h EXCEPT !.tape = Append(@, v), !.used = @ + 2]

HostPlayed(script, claim, used) ==
    FoldLeft(LAMBDA h, step : HostStep(h, step, claim),
             [c |-> HostChallenger, tape |-> <<>>, drawn |-> <<>>, used |-> used, ok |-> TRUE], script)
TranscriptGadget(n, claim, used) ==
    LET h == HostPlayed(Scripts[n], claim, used)
    IN  Gadget("transcript", n, h.tape, IF h.ok /\ claim = "honest" THEN Accepted(h.drawn) ELSE Trapped)

(* Words after which the element sampled has a second decomposition: it is *)
(* below 2^Limb - 1. *)
Ambiguous ==
    {used \in 0 .. 60 : HostSample(HostPlayed(<<"observe">>, "honest", used).c) \in 1 .. 2 ^ Limb - 2}

TranscriptGadgets ==
    {TranscriptGadget(n, "honest", 0) : n \in {1, 2, 3, 4, 6}}
    \cup {TranscriptGadget(5, "honest", used) : used \in 0 .. 3}
    \cup {TranscriptGadget(6, claim, used) :
            claim \in {"honest", "other", "next"}, used \in {CHOOSE u \in Ambiguous : TRUE}}
    \cup {TranscriptGadget(6, "next", 0)}

-----------------------------------------------------------------------------
(* The long instructions: a chain of two runs, a fold, a power over part   *)
(* of a buffer of bits, and a bound.                                       *)

RunOf(p, n) == [vals |-> p, row |-> Offset(p, 2 * n), key |-> Offset(p, 3 * n), len |-> n]
ReduceBuild(b0) ==
    Filling(b0, 2, LAMBDA b1, alpha :
    Filling(b1, 8, LAMBDA b2, one :
    Filling(b2, 5, LAMBDA b3, two :
    Allocating(b3, 2, LAMBDA b, out :
        PublishCells(Reduce(b, <<RunOf(one, 2), RunOf(two, 1)>>, alpha, out), out, 2)))))
Pairs(words) == [k \in 1 .. Len(words) \div 2 |-> <<words[2 * k - 1], words[2 * k]>>]
Quotient(val, px, key) == EMul(<<(val[1] + Neg(px)) % P, val[2]>>, key)
EPower(x, n) == FoldLeft(LAMBDA y, k : EMul(y, x), <<1, 0>>, Cells(n))
Reduced ==
    LET alpha == WordsFrom(0, 2)
        one == WordsFrom(2, 8)
        two == WordsFrom(10, 5)
        terms == <<Quotient(Pairs(one)[1], one[5], SubSeq(one, 7, 8)), Quotient(Pairs(one)[2], one[6], SubSeq(one, 7, 8)),
                   Quotient(Pairs(two)[1], two[3], SubSeq(two, 4, 5))>>
        sum(x, k) == Value("eadd", x, EMul(EPower(alpha, k), terms[k + 1]))
    IN  FoldLeft(sum, <<0, 0>>, Cells(3))

(* What a fold is to be: the polynomial through the values, at u. *)
Interpolated(ys, u) ==
    LET n == Len(ys)
        x(k) == <<Point(k - 1, n), 0>>
        others(k) == SelectSeq([j \in 1 .. n |-> j], LAMBDA j : j # k)
        factor(k, j) == EMul(Value("esub", u, x(j)), <<Reciprocal((x(k)[1] + Neg(x(j)[1])) % P), 0>>)
        basis(k) == FoldLeft(LAMBDA y, j : EMul(y, factor(k, j)), <<1, 0>>, others(k))
    IN  FoldLeft(LAMBDA y, k : Value("eadd", y, EMul(ys[k], basis(k))), <<0, 0>>, [k \in 1 .. n |-> k])
FoldAt(b, msg, n) == LET c == FoldRun(b, msg, n, Newest(b)) IN Public(c, Newest(c))
FoldBuild(b0, n) == Filling(b0, 2 * n + SaltCells + 2, LAMBDA b, msg : FoldAt(HintExt(b), msg, n))

Spans == <<<<0, 8>>, <<3, 4>>, <<7, 1>>, <<3, 4>>>>
PowBuild(b0, n) ==
    LET b == PowRun(Fill(b0, PowBits + 1), PointerAt(b0), Spans[n][1], Spans[n][2], 5, 3) IN Public(b, Newest(b))
PowWords(n) == [IndexBits(178, PowBits + 1) EXCEPT ![1] = IF n = 1 THEN @ ELSE 9, ![5] = IF n = 4 THEN 9 ELSE @]
Raised(n) ==
    LET bits == SubSeq(PowWords(n), Spans[n][1] + 1, Spans[n][1] + Spans[n][2])
    IN  (3 * Power(5, FoldLeft(LAMBDA e, bit : 2 * e + bit, 0, bits))) % P

RangeBuild(b0) == LET b == Hint(b0) IN Public(RangeLoad(b, Newest(b), MemLimit - 8), Newest(b))

LongGadgets ==
    {Gadget("reduce", 0, WordsFrom(0, 15), Accepted(Reduced))}
    \cup {Gadget("fold", n, WordsFrom(0, 2 * n + SaltCells + 4),
                 Accepted(Interpolated(Pairs(WordsFrom(0, 2 * n)), WordsFrom(2 * n + SaltCells + 2, 2)))) : n \in {2, 4, 8}}
    \cup {Gadget("pow", n, PowWords(n), Accepted(<<Raised(n)>>)) : n \in 1 .. 3}
    \cup {Gadget("pow", 4, PowWords(4), [Trapped EXCEPT !.status = "NonBooleanBit"])}
    \cup {Gadget("range", v, <<v>>, IF v < 8 \/ v - 8 + MemLimit >= P THEN Accepted(<<v>>)
                                   ELSE [Trapped EXCEPT !.status = "AddressOutOfRange"]) :
            v \in {0, 7, 8, P - 1}}

-----------------------------------------------------------------------------
Gadgets == LongGadgets \cup SpongeGadgets \cup CompressGadgets \cup StagedGadgets \cup WalkGadgets \cup TranscriptGadgets

GadgetBuild(b, g) ==
    CASE g.kind \in {"sponge", "state", "seeded"} -> SpongeBuild(b, g.kind, g.n)
      [] g.kind = "compress" -> CompressBuild(b, g.n)
      [] g.kind = "staged" -> StagedBuild(b)
      [] g.kind = "walk" -> WalkBuild(b, g.n)
      [] g.kind = "reduce" -> ReduceBuild(b)
      [] g.kind = "fold" -> FoldBuild(b, g.n)
      [] g.kind = "pow" -> PowBuild(b, g.n)
      [] g.kind = "range" -> RangeBuild(b)
      [] g.kind = "transcript" -> TranscriptBuild(b, Scripts[g.n])
=========================================================================
