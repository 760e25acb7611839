--------------------------- MODULE ComparisonRules ---------------------------
(***************************************************************************)
(* The rules of fdp_comparison.cpp.  Signed values are compared by their   *)
(* rank, that is with the sign bit turned: the least value has rank 0.     *)
(***************************************************************************)
EXTENDS RuleState

Rank(d, v) == (v + 2 ^ (Width(d) - 1)) % 2 ^ Width(d)

\* What the fixed bits alone make of "i is less than j", or of "less or
\* equal" if not strict, when i is at least lo and j at most hi: a free bit of
\* i that makes it too large has the small value, and a free bit of j that
\* makes it too small the large one.  Signed, the small value of the sign bit
\* is 1.
Over(x, y, strict) == IF strict THEN x >= y ELSE x > y

Small(k, top) == IF k = top THEN 1 ELSE 0

LowerBits(s, i, top, strict, lo, hi) ==
  LET large == {k \in DOMAIN s.dom[i].bits : ~IsFixed(s.dom[i], k) /\ Over(lo + 2 ^ k, hi, strict)}
  IN SetBits(s, i, [k \in large |-> Small(k, top)])

RaiseBits(s, j, top, strict, lo, hi) ==
  LET low == {k \in DOMAIN s.dom[j].bits : ~IsFixed(s.dom[j], k) /\ Over(lo, hi - 2 ^ k, strict)}
  IN SetBits(s, j, [k \in low |-> 1 - Small(k, top)])

UnsignedLessByBits(s, i, j, strict, lo, hi) ==
  IF Over(lo, hi, strict) THEN Failed(s)
  ELSE RaiseBits(LowerBits(s, i, -1, strict, lo, hi), j, -1, strict, lo, hi)

SignedLessByBits(s, i, j, strict, lo, hi) ==
  LET top == Width(s.dom[i]) - 1
  IN IF lo > hi THEN Failed(s)
     ELSE RaiseBits(LowerBits(s, i, top, strict, lo, hi), j, top, strict, lo, hi)

-----------------------------------------------------------------------------
(* BV_ULT                                                                  *)

\* The bounds of an interval, or of the bits if it is a complementary one.
UnsignedLo(d) == IF d.iv.compl THEN UnsignedMin(d) ELSE d.iv.min
UnsignedHi(d) == IF d.iv.compl THEN UnsignedMax(d) ELSE d.iv.max

\* tighten_less_than and tighten_less_than_equals: the second interval is cut
\* with what is left of the first.
CutBelow(s, i, j, gap) == Clip(s, i, Normal(s.dom[i].iv.min, s.dom[j].iv.max - gap))
CutAbove(s, i, j, gap) == Clip(s, j, Normal(s.dom[i].iv.min + gap, s.dom[j].iv.max))

UnsignedLess(s, i, j, strict) ==
  LET a   == s.dom[i]
      b   == s.dom[j]
      gap == IF strict THEN 1 ELSE 0
  IN IF a.iv.compl \/ b.iv.compl
       THEN UnsignedLessByBits(s, i, j, strict, UnsignedMin(a), UnsignedMax(b))
     ELSE IF a.iv.min + gap > b.iv.max THEN Failed(s)
     ELSE CutAbove(CutBelow(s, i, j, gap), i, j, gap)

\* Mutant of UltOutput: equal values are not compared.
UltOutputStrict(s, o, i, j) ==
  IF IsFixed(s.dom[o], 0) THEN s
  ELSE IF UnsignedLo(s.dom[i]) > UnsignedHi(s.dom[j]) THEN SetBit(s, o, 0, 0)
  ELSE IF UnsignedHi(s.dom[i]) < UnsignedLo(s.dom[j]) THEN SetBit(s, o, 0, 1)
  ELSE s

UltOutput(s, o, i, j) ==
  IF IsFixed(s.dom[o], 0) THEN s
  ELSE IF UnsignedLo(s.dom[i]) >= UnsignedHi(s.dom[j]) THEN SetBit(s, o, 0, 0)
  ELSE IF UnsignedHi(s.dom[i]) < UnsignedLo(s.dom[j]) THEN SetBit(s, o, 0, 1)
  ELSE s

\* Mutant of UltOperands: the negation of "less" is taken to be "greater".
UltNegated(s, o, i, j) ==
  CASE IsOne(s.dom[o])  -> UnsignedLess(s, i, j, TRUE)
    [] IsZero(s.dom[o]) -> UnsignedLess(s, j, i, TRUE)
    [] OTHER -> s

UltOperands(s, o, i, j) ==
  CASE IsOne(s.dom[o])  -> UnsignedLess(s, i, j, TRUE)
    [] IsZero(s.dom[o]) -> UnsignedLess(s, j, i, FALSE)
    [] OTHER -> s

Ult(s, o, i, j) == UltOperands(UltOutput(s, o, i, j), o, i, j)

-----------------------------------------------------------------------------
(* BV_SLT                                                                  *)

\* using_signed_interval: the interval does not go from the largest value to
\* the least one.
UsesSigned(d) ==
  LET top == Width(d) - 1
  IN IF d.iv.compl THEN Bit(d.iv.max, top) = 1 /\ Bit(d.iv.min, top) = 0
     ELSE Bit(d.iv.max, top) = Bit(d.iv.min, top)

\* The ranks of signed_interval_min and signed_interval_max.
IntervalLo(d) == Rank(d, IF d.iv.compl THEN d.iv.max ELSE d.iv.min)
IntervalHi(d) == Rank(d, IF d.iv.compl THEN d.iv.min ELSE d.iv.max)

SignedLo(d) == IF UsesSigned(d) THEN IntervalLo(d) ELSE Rank(d, SignedMin(d))
SignedHi(d) == IF UsesSigned(d) THEN IntervalHi(d) ELSE Rank(d, SignedMax(d))

\* The values with ranks from a to b.
SignedInterval(d, a, b) ==
  LET lo == Rank(d, a)
      hi == Rank(d, b)
  IN IF hi < lo THEN Compl(hi, lo) ELSE Normal(lo, hi)

\* tighten_signed_less_than and tighten_signed_less_than_equals: both
\* intervals are cut with the bounds from before.
ClipSigned(s, i, a, b) == Clip(s, i, SignedInterval(s.dom[i], a, b))

SignedCut(s, i, j, x, y, gap) ==
  LET below == IF IntervalHi(x) > IntervalHi(y) - gap
                 THEN ClipSigned(s, i, IntervalLo(x), IntervalHi(y) - gap) ELSE s
  IN IF IntervalLo(y) < IntervalLo(x) + gap
       THEN ClipSigned(below, j, IntervalLo(x) + gap, IntervalHi(y))
     ELSE below

SignedLess(s, i, j, strict) ==
  LET x   == s.dom[i]
      y   == s.dom[j]
      gap == IF strict THEN 1 ELSE 0
  IN IF ~UsesSigned(x) \/ ~UsesSigned(y)
       THEN SignedLessByBits(s, i, j, strict, Rank(x, SignedMin(x)), Rank(y, SignedMax(y)))
     ELSE IF IntervalLo(x) + gap > IntervalHi(y) THEN Failed(s)
     ELSE SignedCut(s, i, j, x, y, gap)

SltOutput(s, o, i, j) ==
  IF IsFixed(s.dom[o], 0) THEN s
  ELSE IF SignedHi(s.dom[i]) < SignedLo(s.dom[j]) THEN SetBit(s, o, 0, 1)
  ELSE IF SignedLo(s.dom[i]) >= SignedHi(s.dom[j]) THEN SetBit(s, o, 0, 0)
  ELSE s

SltOperands(s, o, i, j) ==
  CASE IsOne(s.dom[o])  -> SignedLess(s, i, j, TRUE)
    [] IsZero(s.dom[o]) -> SignedLess(s, j, i, FALSE)
    [] OTHER -> s

Slt(s, o, i, j) == SltOperands(SltOutput(s, o, i, j), o, i, j)

-----------------------------------------------------------------------------
(* EQUAL                                                                   *)

\* Bit k of one node is that of the other, whichever is known.
SameBit(s, i, j, k) ==
  LET x == s.dom[i].bits[k]
      y == s.dom[j].bits[k]
  IN CASE x # Free -> SetBit(s, j, k, x)
       [] x = Free /\ y # Free -> SetBit(s, i, k, y)
       [] OTHER -> s

\* The nodes differ: when one is known and the other but for one bit, and all
\* other bits are the same, that bit is the other way round.
DifferentBits(s, i, j) ==
  LET x    == s.dom[i].bits
      y    == s.dom[j].bits
      open == {k \in DOMAIN x : Free \in {x[k], y[k]}}
      same == \A k \in DOMAIN x \ open : x[k] = y[k]
      last == CHOOSE k \in open : TRUE
  IN CASE open = {} -> IF same THEN Failed(s) ELSE s
       [] Cardinality(open) = 1 /\ same /\ x[last] # Free -> SetBit(s, j, last, 1 - x[last])
       [] Cardinality(open) = 1 /\ same /\ y[last] # Free -> SetBit(s, i, last, 1 - y[last])
       [] OTHER -> s

\* Compared from the lowest bit on, up to the first that is not known of both
\* nodes to be the same.
CompareBits(s, o, i, j) ==
  LET x    == s.dom[i].bits
      y    == s.dom[j].bits
      stop == {k \in DOMAIN x : x[k] = Free \/ y[k] = Free \/ x[k] # y[k]}
      k    == CHOOSE n \in stop : \A m \in stop : n <= m
  IN IF stop = {} THEN SetBit(s, o, 0, 1)
     ELSE IF Free \in {x[k], y[k]} THEN s
     ELSE SetBit(s, o, 0, 0)

EqualBits(s, o, i, j) ==
  CASE IsOne(s.dom[o])  ->
         InOrder(s, Upward(Width(s.dom[i])), LAMBDA t, k : SameBit(t, i, j, k))
    [] IsZero(s.dom[o]) -> DifferentBits(s, i, j)
    [] OTHER -> CompareBits(s, o, i, j)

\* align_interval
Align(s, i, j) == ClipLike(ClipLike(s, i, j), j, i)

EqualIntervals(s, o, i, j) ==
  CASE IsOne(s.dom[o]) -> Align(s, i, j)
    [] ~IsFixed(s.dom[o], 0) /\ ~Meeting(s.dom[i], s.dom[j]) -> SetBit(s, o, 0, 0)
    [] OTHER -> s

Equal(s, o, i, j) == EqualIntervals(EqualBits(s, o, i, j), o, i, j)
=============================================================================
