---------------------------- MODULE DivisionRules ----------------------------
(***************************************************************************)
(* The rules of fdp_division.cpp: top = quot * bottom + rem with           *)
(* rem < bottom, as bounds of the four values.  The node is the quotient   *)
(* or the remainder.  By zero, the quotient is all ones and the remainder  *)
(* the dividend.                                                           *)
(***************************************************************************)
EXTENDS BooleanRules

BoundsOf(d) ==
  IF d.iv.compl THEN [min |-> UnsignedMin(d), max |-> UnsignedMax(d)]
  ELSE [min |-> d.iv.min, max |-> d.iv.max]

\* tighten_min and tighten_max of one of the four, where the candidate can be
\* computed; ok is lost when two bounds contradict each other.
AtLeast(b, f, can, v) ==
  IF ~b.ok \/ ~can THEN b
  ELSE IF v > b[f].max THEN [b EXCEPT !.ok = FALSE]
  ELSE [b EXCEPT ![f].min = Most(@, v)]
AtMost(b, f, can, v) ==
  IF ~b.ok \/ ~can THEN b
  ELSE IF v < b[f].min THEN [b EXCEPT !.ok = FALSE]
  ELSE [b EXCEPT ![f].max = Least(@, v)]

\* quot >= (top - rem) / bottom, top <= quot * bottom + bottom - 1, and
\* bottom >= (top + 1) / (quot + 1), rounded up.
QuotLeast(b) ==
  AtLeast(b, "quot", b.top.min >= b.rem.min /\ b.bottom.max # 0,
          (b.top.min - b.rem.min) \div b.bottom.max)
QuotMost(b) == AtMost(b, "quot", b.bottom.min # 0, b.top.max \div b.bottom.min)
TopMost(b, ones) ==
  LET most == b.quot.max * b.bottom.max + b.bottom.max - 1
  IN AtMost(b, "top", b.bottom.max # 0 /\ most <= ones, most)
TopLeast(b, ones) ==
  LET least == b.quot.min * b.bottom.min
  IN AtLeast(b, "top", least <= ones, least)
BottomMost(b) == AtMost(b, "bottom", b.quot.min >= 1, b.top.max \div b.quot.min)
BottomLeast(b, ones) ==
  LET n == b.top.min + 1
      d == b.quot.max + 1
  IN AtLeast(b, "bottom", n <= ones /\ d <= ones, (n + d - 1) \div d)
RemMost(b) == AtMost(b, "rem", b.bottom.max # 0, b.bottom.max - 1)
RemTop(b)  == AtMost(b, "rem", TRUE, b.top.max)
RemLeast(b) ==
  LET take == b.quot.max * b.bottom.max
  IN AtLeast(b, "rem", take <= b.top.min, b.top.min - take)
TopRem(b) == AtLeast(b, "top", TRUE, b.rem.min)

\* One pass over the deductions (1) to (6), and those of a remainder.
SixBounds(b, ones) ==
  BottomLeast(BottomMost(TopLeast(TopMost(QuotMost(QuotLeast(b)), ones), ones)), ones)
RemBounds(b) == TopRem(RemLeast(RemTop(RemMost(b))))

TightenOnce(b, ones, quotient) ==
  IF quotient THEN SixBounds(b, ones) ELSE RemBounds(SixBounds(b, ones))

\* Every pass but the last moves one of eight bounds.
TightenBounds(b, ones, quotient) ==
  LET Moved(old, new) == [b |-> new, changed |-> new.ok /\ new # old]
  IN Loop([b |-> b, changed |-> TRUE], 8 * ones + 1, LAMBDA t : t.changed,
          LAMBDA t : Moved(t.b, TightenOnce(t.b, ones, quotient))).b

\* Nodes i and j are the same: the intervals, then the bits.
EnforceEquality(s, i, j) ==
  IF ~Meeting(s.dom[i], s.dom[j]) THEN Failed(s)
  ELSE InOrder(Align(s, i, j), Upward(Width(s.dom[i])),
               LAMBDA t, k : Tie(t, i, k, j, k, LAMBDA x : x))

\* The bounds, as far as they are of a node, and the bits they decide.
ApplyBounds(s, i, b) == TightenBitsOf(Clip(s, i, Normal(b.min, b.max)), i)

\* make_state
BoundsAtStart(s, o, a, b, quotient) ==
  LET any == [min |-> 0, max |-> Ones(s.dom[o])]
      out == BoundsOf(s.dom[o])
  IN [ok |-> TRUE, top |-> BoundsOf(s.dom[a]),
      bottom |-> [BoundsOf(s.dom[b]) EXCEPT !.min = Most(@, 1)],
      quot   |-> IF quotient THEN out ELSE any,
      rem    |-> IF quotient THEN any ELSE out]

BoundsAtEnd(s, o, a, b, quotient, end) ==
  IF ~end.ok THEN Failed(s)
  ELSE InOrder(s, <<<<a, end.top>>, <<b, end.bottom>>,
                    <<o, IF quotient THEN end.quot ELSE end.rem>>>>,
               LAMBDA t, p : ApplyBounds(t, p[1], p[2]))

ByZero(s, o, a, quotient) ==
  IF quotient THEN SetConstant(s, o, Ones(s.dom[o])) ELSE EnforceEquality(s, a, o)

\* A divisor that may be 0 leaves nothing but that to find out.
MaybeByZero(s, o, a, quotient) ==
  IF quotient THEN Holds(s.dom[o], Ones(s.dom[o]))
  ELSE ~Stopped(EnforceEquality(Going(s.dom), a, o))

NotByZero(s, o, a, b, quotient) ==
  IF ~Holds(s.dom[b], 0) \/ MaybeByZero(s, o, a, quotient) THEN s
  ELSE ApplyBounds(s, b, [min |-> 1, max |-> Ones(s.dom[o])])

DivideBounds(s, o, a, b, quotient) ==
  IF Stopped(s) \/ Holds(s.dom[b], 0) THEN s
  ELSE BoundsAtEnd(s, o, a, b, quotient,
         TightenBounds(BoundsAtStart(s, o, a, b, quotient), Ones(s.dom[o]), quotient))

\* propagate_unsigned_division
Division(s, o, a, b, quotient) ==
  IF Holds(s.dom[b], 0) /\ s.dom[b].iv = Normal(0, 0) THEN ByZero(s, o, a, quotient)
  ELSE DivideBounds(NotByZero(s, o, a, b, quotient), o, a, b, quotient)

Udiv(s, o, a, b) == Division(s, o, a, b, TRUE)
Urem(s, o, a, b) == Division(s, o, a, b, FALSE)
=============================================================================
