--------------------------- MODULE ArithmeticRules ---------------------------
(***************************************************************************)
(* The rules of fdp_arithmetic.cpp (o = a + b) and fdp_multiplication.cpp  *)
(* (o = x * y), all modulo 2^w.                                            *)
(***************************************************************************)
EXTENDS RuleState

\* An interval without its wrap: the bounds of a complementary one are from
\* max to min + 2^w.
From(c) == IF c.compl THEN c.max ELSE c.min
To(c, w) == IF c.compl THEN c.min + 2 ^ w ELSE c.max

\* apply_interval: [lo, hi] modulo 2^w, unless that is everything.
ClipModulo(s, o, lo, hi) ==
  LET m == 2 ^ Width(s.dom[o])
  IN IF hi - lo >= m THEN s
     ELSE Clip(s, o, IF lo % m > hi % m THEN Compl(hi % m, lo % m)
                     ELSE Normal(lo % m, hi % m))

-----------------------------------------------------------------------------
(* BV_ADD.  The bits of a column and the carry into it add up to between   *)
(* lb and ub; the carry out of it and the parity of the node tighten that, *)
(* and a carry in that becomes known sends the loop back by one column.    *)

\* The least, or the greatest, of lb and ub with the parity of bit b.
UpTo(lb, b) == IF b # Free /\ lb % 2 # b THEN lb + 1 ELSE lb
DownTo(ub, b) == IF b # Free /\ ub % 2 # b THEN ub - 1 ELSE ub

\* Everything that is free in column i is 0, or 1, or not known.
Forced(lb, ub, low) == IF lb = low THEN 0 ELSE IF ub = low THEN 1 ELSE Free

SetFree(s, n, i, v) == IF IsFixed(s.dom[n], i) THEN s ELSE SetBit(s, n, i, v)

\* The sum of the column is known to be low.
SumColumn(st, o, a, b, low, rest, carry) ==
  LET i    == st.i
      sum  == SetBit(st.s, o, i, low % 2)
      back == rest # Free /\ carry[i] = Free
  IN [s |-> IF rest = Free THEN sum ELSE SetFree(SetFree(sum, a, i, rest), b, i, rest),
      carry |-> IF back THEN [carry EXCEPT ![i] = rest] ELSE carry,
      i |-> IF back THEN i - 1 ELSE i + 1]

BoundColumn(st, o, a, b, lb, ub, low, high) ==
  LET out == IF low >= 2 THEN 1 ELSE IF high <= 1 THEN 0 ELSE st.carry[st.i + 1]
      carry == [st.carry EXCEPT ![st.i + 1] = out]
  IN IF low > high THEN [st EXCEPT !.s = Failed(st.s)]
     ELSE IF low # high THEN [st EXCEPT !.carry = carry, !.i = @ + 1]
     ELSE SumColumn(st, o, a, b, low, Forced(lb, ub, low), carry)

CountColumn(st, o, a, b, lb, ub) ==
  LET out == st.carry[st.i + 1]
      bit == st.s.dom[o].bits[st.i]
  IN BoundColumn(st, o, a, b, lb, ub,
                 UpTo(IF out = 1 THEN Most(lb, 2) ELSE lb, bit),
                 DownTo(IF out = 0 THEN Least(ub, 1) ELSE ub, bit))

AddColumn(st, o, a, b) ==
  LET in == <<st.s.dom[a].bits[st.i], st.s.dom[b].bits[st.i], st.carry[st.i]>>
  IN CountColumn(st, o, a, b, Cardinality({n \in 1 .. 3 : in[n] = 1}),
                 Cardinality({n \in 1 .. 3 : in[n] # 0}))

\* Each step back makes one more carry known.
AddColumns(s, o, a, b) ==
  LET w == Width(s.dom[o])
  IN Loop([s |-> s, i |-> 0, carry |-> [i \in 0 .. w |-> IF i = 0 THEN 0 ELSE Free]],
          3 * w, LAMBDA st : ~Stopped(st.s) /\ st.i < w,
          LAMBDA st : AddColumn(st, o, a, b)).s

\* update_interval_by_plus, and update_interval_by_minus by way of -b.
Plus(s, a, b, o) ==
  LET w == Width(s.dom[o])
  IN ClipModulo(s, o, From(a) + From(b), To(a, w) + To(b, w))

Negated(d) ==
  LET p == (-d.iv.min) % 2 ^ Width(d)
      q == (-d.iv.max) % 2 ^ Width(d)
  IN IF p < q THEN [min |-> p, max |-> q, compl |-> ~d.iv.compl]
     ELSE [min |-> q, max |-> p, compl |-> d.iv.compl]

AddUp(s, o, a, b)      == Plus(s, s.dom[a].iv, s.dom[b].iv, o)
TakeAway(s, o, a, b)   == Plus(s, s.dom[o].iv, Negated(s.dom[a]), b)

Add(s, o, a, b) ==
  TakeAway(TakeAway(AddUp(AddColumns(s, o, a, b), o, a, b), o, a, b), o, b, a)

-----------------------------------------------------------------------------
(* BV_MUL, trailing zeroes.                                                *)

\* The lowest position whose bit may be 1, or is 1; the width if there is
\* none.
LowestOf(d, S) ==
  IF S = {} THEN Width(d) ELSE CHOOSE k \in S : \A n \in S : k <= n
FirstPossible(d) == LowestOf(d, {k \in DOMAIN d.bits : d.bits[k] # 0})
FirstOne(d)      == LowestOf(d, {k \in DOMAIN d.bits : d.bits[k] = 1})

\* reason_trailing_bit: a bit of x above zeroes alone is 0 as well when no bit
\* of y supports it as the lowest one of x.
ReasonTrailing(s, x, y, o) ==
  LET w    == Width(s.dom[o])
      from == FirstPossible(s.dom[y])
      to   == Least(FirstOne(s.dom[y]), FirstOne(s.dom[o]))
      Supported(t, i) == \E j \in from .. to :
        \/ i + j >= w
        \/ t.dom[y].bits[j] # 0 /\ t.dom[o].bits[i + j] # 0
  IN InOrder(s, Upward(w), LAMBDA t, i :
       IF FirstPossible(t.dom[x]) = i /\ ~IsFixed(t.dom[x], i) /\ ~Supported(t, i)
         THEN SetBit(t, x, i, 0) ELSE t)

FillTrailing(s, x, y, o) ==
  LET zero == FirstPossible(s.dom[x]) + FirstPossible(s.dom[y])
  IN SetBits(s, o, [k \in 0 .. Least(Width(s.dom[o]), zero) - 1 |-> 0])

\* t, with a result of no more than CHANGED on top of res.
NoMoreThanChanged(t, res) ==
  [t EXCEPT !.res = IF Stopped(t) THEN @ ELSE Or(res, Least(@, Changed))]

\* fix_trailing_zeroes: whatever is set, no more than CHANGED is returned.
FixTrailing(s, x, y, o) ==
  NoMoreThanChanged(
    FillTrailing(ReasonTrailing(ReasonTrailing(Going(s.dom), x, y, o), y, x, o), x, y, o),
    s.res)

-----------------------------------------------------------------------------
(* BV_MUL, columns: column i has between lo[i] and hi[i] products of two   *)
(* bits that are 1, and with the carries from below it sums up to between  *)
(* sumLo[i] and sumHi[i].                                                  *)

Halve(n) == IF n < 0 THEN -((-n) \div 2) ELSE n \div 2   \* as in C++

\* snap_to: the parity of a sum is that of the node's bit.
Snap(c, out, i) ==
  [c EXCEPT ![i] = [@ EXCEPT !.sumLo = UpTo(@, out[i]), !.sumHi = DownTo(@, out[i])]]

\* ColumnCounts, adjust_columns and rebuild_sums.
Columns(x, y, out) ==
  LET w == Width(x)
      Count(i, S) == Cardinality({j \in 0 .. i : x.bits[i - j] \in S /\ y.bits[j] \in S})
      alone == [i \in 0 .. w - 1 |->
                  [lo |-> Count(i, {1}), hi |-> Count(i, {1, Free}), sumLo |-> 0, sumHi |-> 0]]
      Sum(c, i) ==
        LET below == IF i = 0 THEN [sumLo |-> 0, sumHi |-> 0] ELSE c[i - 1]
        IN [c EXCEPT ![i] = [@ EXCEPT !.sumLo = c[i].lo + Halve(below.sumLo),
                                      !.sumHi = c[i].hi + Halve(below.sumHi)]]
  IN InTurn(alone, Upward(w), LAMBDA c, i : Snap(Sum(c, i), out, i))

\* propagate: each column against the one below it.
PropagateColumn(c, i) ==
  LET col   == c[i]
      below == c[i - 1]
      inLo  == IF i = 0 THEN 0 ELSE Halve(below.sumLo)
      inHi  == IF i = 0 THEN 0 ELSE Halve(below.sumHi)
      low   == Most(col.sumLo, col.lo + inLo)
      high  == Least(col.sumHi, col.hi + inHi)
      new   == [lo |-> Most(col.lo, low - inHi), hi |-> Least(col.hi, high - inLo),
                sumLo |-> low, sumHi |-> high]
      carry == [below EXCEPT
                  !.sumLo = IF low - col.hi > inLo THEN (low - col.hi) * 2 ELSE @,
                  !.sumHi = IF high - col.lo < inHi THEN (high - col.lo) * 2 + 1 ELSE @]
  IN [k \in DOMAIN c |-> IF k = i THEN new ELSE IF k = i - 1 THEN carry ELSE c[k]]

Impossible(c) ==
  \E i \in DOMAIN c : c[i].lo > c[i].hi \/ c[i].sumLo > c[i].sumHi

Compared(old, new) == [c |-> new, changed |-> ~Impossible(new) /\ new # old]

\* fixed_point: snap_to and propagate in turn; what is impossible is left so.
FixedPoint(c, out) ==
  LET up == Upward(Cardinality(DOMAIN c))
      Next(t) == Compared(t.c, InTurn(InTurn(t.c, up, LAMBDA d, i : Snap(d, out, i)),
                                      up, PropagateColumn))
  IN Loop([c |-> c, changed |-> ~Impossible(c)], 4 * Len(up) * (Len(up) + 1),
          LAMBDA t : t.changed, Next).c

\* adjust_multiplication: every product of the column is 1, or none but those
\* that are already.
AdjustColumn(s, x, y, i, sum) ==
  LET ones == {j \in 0 .. i : s.dom[x].bits[i - j] = 1 /\ s.dom[y].bits[j] = 1}
      b    == IF sum = i + 1 THEN 1 ELSE 0
      \* sets the free bit of n to b, provided the other one has a product to make
      Set(t, n, k, other, l) ==
        IF ~IsFixed(t.dom[n], k) /\ t.dom[other].bits[l] \in {1} \union (IF b = 1 THEN {Free} ELSE {})
          THEN SetBit(t, n, k, b) ELSE t
  IN IF Cardinality(ones) = i + 1 \/ sum \notin {i + 1, Cardinality(ones)} THEN s
     ELSE InOrder(s, Upward(i + 1), LAMBDA t, j :
            Set(Set(t, y, j, x, i - j), x, i - j, y, j))

SetSums(s, o, c) ==
  InOrder(s, Upward(Cardinality(DOMAIN c)), LAMBDA t, i :
    IF c[i].sumLo = c[i].sumHi THEN SetBit(t, o, i, c[i].sumHi % 2) ELSE t)

SetProducts(s, x, y, c) ==
  InOrder(s, Upward(Cardinality(DOMAIN c)), LAMBDA t, i :
    IF c[i].lo = c[i].hi THEN AdjustColumn(t, x, y, i, c[i].hi) ELSE t)

\* Once more the trailing zeroes, if something was set.
FixAgain(s, o, x, y) ==
  LET last == FixTrailing(s, x, y, o)
  IN IF Stopped(s) \/ s.res = Unchanged THEN s
     ELSE IF Stopped(last) THEN last ELSE [last EXCEPT !.res = s.res]

SetColumns(s, o, x, y, c) ==
  IF Impossible(c) THEN Failed(s)
  ELSE FixAgain(SetProducts(SetSums(s, o, c), x, y, c), o, x, y)

MulColumns(s, o, x, y) ==
  IF Stopped(s) THEN s
  ELSE LET out == s.dom[o].bits
       IN SetColumns(s, o, x, y, FixedPoint(Columns(s.dom[x], s.dom[y], out), out))

MulBits(s, o, x, y) == MulColumns(FixTrailing(s, x, y, o), o, x, y)

-----------------------------------------------------------------------------
(* BV_MUL, intervals.                                                      *)

\* update_interval_by_division: i is at least the node over the largest j and
\* at most the node over the least one.
DivOrOnes(p, q, ones) == IF q = 0 THEN ones ELSE p \div q

\* n over d; the quotients of the two parts of a complementary n.
QuotientOf(n, d, ones) ==
  LET left  == DivOrOnes(n.min, d.min, ones)
      right == DivOrOnes(n.max, d.max, ones)
      most  == DivOrOnes(ones, d.min, ones)
  IN IF ~n.compl THEN Normal(DivOrOnes(n.min, d.max, ones), DivOrOnes(n.max, d.min, ones))
     ELSE IF left < right /\ (left - right) % (ones + 1) < Most(left, most)
       THEN Compl(left, right)
     ELSE Normal(0, Most(left, most))

Quotient(s, o, j, i) ==
  IF Holds(s.dom[j], 0) \/ s.dom[j].iv.compl THEN s
  ELSE Clip(s, i, QuotientOf(s.dom[o].iv, s.dom[j].iv, Ones(s.dom[o])))

Product(s, o, x, y) ==
  LET w == Width(s.dom[o])
      a == s.dom[x].iv
      b == s.dom[y].iv
  IN ClipModulo(s, o, From(a) * From(b), To(a, w) * To(b, w))

\* Backwards only while the product of the largest values does not overflow.
Factors(s, o, x, y) ==
  LET Top(n) == IF s.dom[n].iv.compl THEN Ones(s.dom[n]) ELSE s.dom[n].iv.max
  IN IF Top(x) * Top(y) > Ones(s.dom[o]) THEN s
     ELSE Quotient(Quotient(s, o, x, y), o, y, x)

Mul(s, o, x, y) == Factors(Product(MulBits(s, o, x, y), o, x, y), o, x, y)
=============================================================================
