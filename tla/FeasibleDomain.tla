--------------------------- MODULE FeasibleDomain ---------------------------
(***************************************************************************)
(* FeasibleDomain of the domain propagator (feasible_domain.cpp): what is  *)
(* known about the value of one node of the formula, as fixed bits and an  *)
(* interval.  [min, max] are the values from min to max; a complementary   *)
(* interval stands for [0, min] \cup [max, 2^w - 1].                       *)
(*                                                                         *)
(* One action for each operation the propagator, its rules and its history *)
(* call.  The constraints are those of an arbitrary rule, so they may be   *)
(* wrong together; the ghost variable witness is a value that satisfies    *)
(* all of them, as long as there is one that was chosen at the start.      *)
(***************************************************************************)
EXTENDS Integers, FiniteSets

CONSTANT MaxWidth  \* bound: the largest width of a node

ASSUME WidthAssumption == MaxWidth \in Nat \ {0}

\* Result of fdp_base.h with its numbers; operator| is the larger one.  Thrown
\* stands for "unreachable code reached", Void is what other calls return.
Void      == -1
Unchanged == 0
Changed   == 1
Updated   == 2
Conflict  == 3
Thrown    == 4

Or(a, b) == IF a > b THEN a ELSE b

Free == 2   \* a bit that is not fixed
None == -1  \* no witness

VARIABLES
  width,    \* d_width
  bits,     \* d_fixed and d_value
  iv,       \* d_interval_min, d_interval_max and d_complementary
  last,     \* d_last_interval_size
  pending,  \* d_pending_state
  result,   \* what the last operation returned
  witness   \* a value that no constraint excludes, or None

vars == <<width, bits, iv, last, pending, result, witness>>

-----------------------------------------------------------------------------
Bits  == 0 .. width - 1
Ones  == 2 ^ width - 1
Value == 0 .. Ones

Bit(v, i) == (v \div 2 ^ i) % 2

Consistent(b) == {v \in Value : \A i \in Bits : b[i] \in {Free, Bit(v, i)}}
Fixed(b) == {i \in Bits : b[i] # Free}
TotallyFixed(b) == Fixed(b) = Bits

Interval == [min : Value, max : Value, compl : BOOLEAN]
Normal(a, b) == [min |-> a, max |-> b, compl |-> FALSE]
Compl(a, b)  == [min |-> a, max |-> b, compl |-> TRUE]

InInterval(c, v) ==
  IF c.compl THEN v <= c.min \/ v >= c.max ELSE c.min <= v /\ v <= c.max

\* compute_interval_size: one less than the number of values, modulo 2^w.
IntervalSize(c) ==
  (IF c.compl THEN c.min - c.max ELSE c.max - c.min) % 2 ^ width

IsConstant(c) == ~c.compl /\ c.min = c.max

\* Mutant of IsFull: a complementary interval is never looked at.
IsFullNormal(c) == c = Normal(0, Ones)

IsFull(c) ==
  IF c.compl THEN (c.min + 1) % 2 ^ width = c.max ELSE c = Normal(0, Ones)

\* The callers keep min <= max, and the two parts of a complementary interval
\* apart.
Constraint == {c \in Interval : IF c.compl THEN c.min < c.max ELSE c.min <= c.max}

-----------------------------------------------------------------------------
(* A domain, as an operation works on it.                                  *)

Current == [bits |-> bits, iv |-> iv, last |-> last, pending |-> pending]

Fresh == [bits |-> [i \in Bits |-> Free], iv |-> Normal(0, Ones),
          last |-> Ones, pending |-> Unchanged]

Allows(d, v) ==
  /\ \A i \in Bits : d.bits[i] \in {Free, Bit(v, i)}
  /\ InInterval(d.iv, v)

Values(d) == {v \in Value : Allows(d, v)}

Done(d, r) == [dom |-> d, res |-> r]

\* Mutant of Mark: the latest state replaces the pending one.
MarkLatest(d, r) == [d EXCEPT !.pending = r]

\* mark_pending_state: a change is kept until it is consumed.
Mark(d, r) ==
  [d EXCEPT !.pending = IF Updated \in {d.pending, r} THEN Updated ELSE Changed]

\* Mutant of Sync: the interval is left to the next tightening.
SyncNever(d) == d

\* sync_interval_if_totally_fixed
Sync(d) ==
  IF TotallyFixed(d.bits)
    THEN LET v == CHOOSE x \in Consistent(d.bits) : TRUE
         IN [d EXCEPT !.iv = Normal(v, v), !.last = 0]
    ELSE d

\* Mutant of SetBits: the mark is missing.
SetBitsSilent(d, b) ==
  LET clash == {i \in DOMAIN b : d.bits[i] \notin {Free, b[i]}}
      new   == {i \in DOMAIN b : d.bits[i] = Free /\ \A j \in clash : i < j}
      set   == [i \in Bits |-> IF i \in new THEN b[i] ELSE d.bits[i]]
  IN Done(IF new = {} THEN d ELSE Sync([d EXCEPT !.bits = set]),
          IF clash # {} THEN Conflict ELSE IF new # {} THEN Updated ELSE Unchanged)

\* set_fixed for the bits in DOMAIN b from the lowest on, up to the first that
\* is fixed to the other value.
SetBits(d, b) ==
  LET clash == {i \in DOMAIN b : d.bits[i] \notin {Free, b[i]}}
      new   == {i \in DOMAIN b : d.bits[i] = Free /\ \A j \in clash : i < j}
      set   == [i \in Bits |-> IF i \in new THEN b[i] ELSE d.bits[i]]
      dom   == IF new = {} THEN d
               ELSE Mark(Sync([d EXCEPT !.bits = set]), Updated)
  IN Done(dom, IF clash # {} THEN Conflict
               ELSE IF new # {} THEN Updated ELSE Unchanged)

BitsOf(v) == [i \in Bits |-> Bit(v, i)]

-----------------------------------------------------------------------------
(* intersect_interval_constraint and apply_interval_constraint.            *)

\* Mutant of Meets: normal intervals with one common bound are taken for
\* disjoint.
MeetsInside(a, b) ==
  \/ a.compl /\ (b.compl \/ b.min <= a.min \/ a.max <= b.max)
  \/ ~a.compl /\ b.compl /\ (a.min <= b.min \/ b.max <= a.max)
  \/ ~a.compl /\ ~b.compl /\ a.min < b.max /\ b.min < a.max

\* intersects, and intersects_count: how many pieces two intervals share.
Meets(a, b) ==
  \/ a.compl /\ b.compl
  \/ a.compl /\ ~b.compl /\ (b.min <= a.min \/ a.max <= b.max)
  \/ ~a.compl /\ b.compl /\ (a.min <= b.min \/ b.max <= a.max)
  \/ ~a.compl /\ ~b.compl /\ a.min <= b.max /\ b.min <= a.max

Larger(x, y)  == IF x > y THEN x ELSE y
Smaller(x, y) == IF x < y THEN x ELSE y

Spans(n, c) == n.min <= c.min /\ c.max <= n.max

SplitsInTwo(a, b) ==
  \/ a.compl /\ b.compl /\ Larger(a.min, b.min) >= Smaller(a.max, b.max)
  \/ ~a.compl /\ b.compl /\ Spans(a, b)
  \/ a.compl /\ ~b.compl /\ Spans(b, a)

\* The one piece of a normal interval n inside a complementary one c.
\* The last case is "unreachable code reached"; it is not an interval.
NoPiece == Normal(None, None)

Piece(n, c) ==
  CASE n.min >= c.max \/ n.max <= c.min -> n
    [] n.max >= c.max /\ n.min < c.max /\ n.max > c.min -> Normal(c.max, n.max)
    [] n.min <= c.min /\ n.max < c.max /\ n.max > c.min -> Normal(n.min, c.min)
    [] OTHER -> NoPiece

\* Mutant of Intersection: the larger one of two normal intervals.
IntersectionLarge(a, b) ==
  IF a.compl /\ b.compl
    THEN Compl(Smaller(a.min, b.min), Larger(a.max, b.max))
    ELSE IF a.compl THEN Piece(b, a)
    ELSE IF b.compl THEN Piece(a, b)
    ELSE Normal(Smaller(a.min, b.min), Larger(a.max, b.max))

Intersection(a, b) ==
  IF a.compl /\ b.compl
    THEN Compl(Smaller(a.min, b.min), Larger(a.max, b.max))
    ELSE IF a.compl THEN Piece(b, a)
    ELSE IF b.compl THEN Piece(a, b)
    ELSE Normal(Larger(a.min, b.min), Smaller(a.max, b.max))

\* The piece takes the place of the interval.
Cut(d, piece) ==
  IF piece = NoPiece THEN Done(d, Thrown)
  ELSE Done([d EXCEPT !.iv = piece], IF piece = d.iv THEN Unchanged ELSE Changed)

Narrow(d, c) ==
  IF IsFull(c) THEN Done(d, Unchanged)
  ELSE IF IsConstant(d.iv)
    THEN Done(d, IF InInterval(c, d.iv.min) THEN Unchanged ELSE Conflict)
  ELSE IF width = 1 THEN SetBits(d, [i \in {0} |-> Bit(c.min, 0)])
  ELSE IF IsFull(d.iv) THEN Done([d EXCEPT !.iv = c], Changed)
  ELSE IF ~Meets(c, d.iv) THEN Done(d, Conflict)
  ELSE IF SplitsInTwo(c, d.iv) THEN Done(d, Unchanged)
  ELSE Cut(d, Intersection(d.iv, c))

\* Mutant of Shrunk: half of the interval has to be gone.
ShrunkByHalf(d) ==
  LET size == IntervalSize(d.iv)
  IN width > 1 /\ size < d.last /\ d.last - size > d.last \div 2

\* try_set_update_by_interval: the interval is more than a quarter smaller
\* than when its parents were last told.
Shrunk(d) ==
  LET size == IntervalSize(d.iv)
  IN width > 1 /\ size < d.last /\ d.last - size > d.last \div 4

\* What was done, n, is recorded in the domain.
Record(n) ==
  IF n.res \notin {Changed, Updated} THEN n
  ELSE IF Shrunk(n.dom)
    THEN Done(Mark([n.dom EXCEPT !.last = IntervalSize(n.dom.iv)], Updated), Updated)
    ELSE Done(Mark(n.dom, Changed), n.res)

Apply(d, c) == Record(Narrow(d, c))

-----------------------------------------------------------------------------
(* Tightening in both directions.                                          *)

LeastOf(b)    == CHOOSE v \in Consistent(b) : \A w \in Consistent(b) : v <= w
GreatestOf(b) == CHOOSE v \in Consistent(b) : \A w \in Consistent(b) : w <= v

\* A free bit must be 0 while setting it in the least value of the bits
\* exceeds max, and 1 while clearing it in the greatest one goes below min.
ZeroBits(d, least) ==
  {i \in Bits \ Fixed(d.bits) : least + 2 ^ i > d.iv.max}
OneBits(d, greatest) ==
  {i \in Bits \ Fixed(d.bits) : greatest - 2 ^ i < d.iv.min}

\* Operation Op after one that returned r.
After(r, Op(_)) ==
  IF r.res = Conflict THEN r
  ELSE LET o == Op(r.dom) IN Done(o.dom, Or(r.res, o.res))

\* The bits that [min, max] decides.
TightenBits(d) ==
  IF TotallyFixed(d.bits) \/ d.iv.compl \/ width = 1 THEN Done(d, Unchanged)
  ELSE IF IsConstant(d.iv) THEN SetBits(d, BitsOf(d.iv.min))
  ELSE After(SetBits(d, [i \in ZeroBits(d, LeastOf(d.bits)) |-> 0]),
             LAMBDA e : SetBits(e, [i \in OneBits(e, GreatestOf(e.bits)) |-> 1]))

\* The free bits of b above first are those of limit, counted up as one number
\* if carry is the lowest of them that is 0, and the free bits after it are 0.
CountedUp(b, limit, first, carry) ==
  [i \in Bits |-> IF i \in Fixed(b) THEN b[i]
                 ELSE IF i < first \/ i < carry THEN 0
                 ELSE IF i = carry THEN 1 ELSE Bit(limit, i)]

ValueOf(b) == CHOOSE v \in Value : BitsOf(v) = b

\* As first is the highest fixed bit that differs from limit, it matters
\* whether it is below that of limit.  Counting up ones alone overflows; what
\* is left is all zeros.
Nearest(b, limit, first) ==
  LET below == first >= 0 /\ b[first] = 0
      zeros == {i \in Bits \ Fixed(b) : i > first /\ Bit(limit, i) = 0}
      carry == IF ~below THEN -1 ELSE IF zeros = {} THEN width
               ELSE CHOOSE i \in zeros : \A j \in zeros : i <= j
  IN [val |-> ValueOf(CountedUp(b, limit, first, carry)), over |-> below /\ zeros = {}]

\* Mutant of FindMin: overflow is not noticed.
FindMinWrapping(b, limit) ==
  LET from == {v \in Consistent(b) : v >= limit}
      S    == IF from = {} THEN Consistent(b) ELSE from
  IN [val |-> CHOOSE v \in S : \A w \in S : v <= w, over |-> FALSE]

\* find_min_consistent: the least value of the fixed bits from limit on.
FindMin(b, limit) ==
  LET differ == {i \in Fixed(b) : b[i] # Bit(limit, i)}
  IN Nearest(b, limit, IF differ = {} THEN -1
                       ELSE CHOOSE i \in differ : \A j \in differ : j <= i)

\* find_max_consistent is its mirror image: every bit is inverted.
MirrorOf(m) == [m EXCEPT !.val = Ones - @]

FindMax(b, limit) ==
  MirrorOf(FindMin([i \in Bits |-> IF b[i] = Free THEN Free ELSE 1 - b[i]],
                   Ones - limit))

\* The bounds found from min up and from max down, or of a complementary
\* interval from min down and from max up.
BetweenBounds(d, lo, hi) ==
  IF lo.over /\ hi.over THEN Done(d, Thrown)
  ELSE IF lo.over \/ hi.over \/ lo.val > hi.val THEN Done(d, Conflict)
  ELSE Apply(d, Normal(lo.val, hi.val))

OutsideBounds(d, lo, hi) ==
  IF lo.over /\ hi.over THEN Done(d, Conflict)
  ELSE IF IF lo.over # hi.over THEN lo.val < hi.val ELSE lo.val > hi.val
    THEN Done(d, Thrown)
  ELSE Apply(d, IF lo.over # hi.over THEN Normal(hi.val, lo.val)
                ELSE Compl(lo.val, hi.val))

OnlyValue(d, v) ==
  IF ~InInterval(d.iv, v) THEN Done(d, Conflict)
  ELSE IF d.iv.min # d.iv.max THEN Apply(d, Normal(v, v))
  ELSE Done(d, Unchanged)

\* tighten_interval_by_fixed_bits
TightenInterval(d) ==
  IF TotallyFixed(d.bits) THEN OnlyValue(d, CHOOSE v \in Consistent(d.bits) : TRUE)
  ELSE IF width = 1 THEN Done(d, Unchanged)
  ELSE IF d.iv.compl
    THEN OutsideBounds(d, FindMax(d.bits, d.iv.min), FindMin(d.bits, d.iv.max))
    ELSE BetweenBounds(d, FindMin(d.bits, d.iv.min), FindMax(d.bits, d.iv.max))

-----------------------------------------------------------------------------
(* Operations that use another domain, one that is stored in a history.     *)

Tightened(d) == TightenBits(TightenInterval(d).dom).dom
Stored(d) == [d EXCEPT !.pending = Unchanged]

\* Bound: what is left of a fresh domain by at most one fixed bit, the highest,
\* or one interval, without the least value or without the middle ones.
Snapshot ==
  LET bit == {SetBits(Fresh, [i \in {width - 1} |-> b]).dom : b \in {0, 1}}
      cut == {Normal(1, Ones), Compl(1, Ones - 1)} \intersect Constraint
  IN {Stored(d) : d \in {Fresh} \union bit
                    \union {Tightened(Apply(Fresh, c).dom) : c \in cut}}

\* The bits b, and unless they conflict the interval c.
Imposed(d, b, c) ==
  After(SetBits(d, b), LAMBDA e : Apply(e, c))

Merged(d, e) == Imposed(d, [i \in Fixed(e.bits) |-> e.bits[i]], e.iv)

\* overwrite with its mark: which half of e replaces that of d.
Taken(d, e, mark) ==
  [d EXCEPT !.bits = IF mark = "interval" THEN d.bits ELSE e.bits,
            !.iv   = IF mark = "bits" THEN d.iv ELSE e.iv,
            !.last = IF mark = "bits" THEN d.last ELSE e.last,
            !.pending = Updated]

\* The result of the tightening r, together with what is pending.
Settled(r) ==
  LET res == IF r.res = Conflict THEN Conflict ELSE Or(r.dom.pending, r.res)
  IN Done([r.dom EXCEPT !.pending = res], res)

Overwritten(d, e, mark) ==
  Settled(CASE mark = "interval" -> TightenBits(Taken(d, e, mark))
            [] mark = "bits" /\ ~TotallyFixed(e.bits) ->
                 TightenInterval(Sync(Taken(d, e, mark)))
            [] OTHER -> Done(Sync(Taken(d, e, mark)), Unchanged))

-----------------------------------------------------------------------------
Becomes(d) ==
  /\ bits' = d.bits
  /\ iv' = d.iv
  /\ last' = d.last
  /\ pending' = d.pending

Returns(r) ==
  /\ Becomes(r.dom)
  /\ result' = r.res
  /\ UNCHANGED width

\* What a constraint excludes is not possible from now on.
Impose(allowed) == witness' = IF allowed THEN witness ELSE None

Init ==
  /\ width \in 1 .. MaxWidth
  /\ bits = Fresh.bits
  /\ iv = Fresh.iv
  /\ last = Fresh.last
  /\ pending = Unchanged
  /\ result = Void
  /\ witness \in Value

\* After a conflict the propagator only restores (set_conflict).
Working == result \notin {Conflict, Thrown}

SetFixed(i, b) ==
  /\ Working
  /\ Returns(SetBits(Current, [j \in {i} |-> b]))
  /\ Impose(witness # None /\ Bit(witness, i) = b)

SetConstant(v) ==
  /\ Working
  /\ Returns(Imposed(Current, BitsOf(v), Normal(v, v)))
  /\ Impose(witness = v)

ApplyInterval(c) ==
  /\ Working
  /\ Returns(Apply(Current, c))
  /\ Impose(InInterval(c, witness))

TightenIntervalByFixedBits ==
  /\ Working
  /\ Returns(TightenInterval(Current))
  /\ UNCHANGED witness

TightenFixedBitsByInterval ==
  /\ Working
  /\ Returns(TightenBits(Current))
  /\ UNCHANGED witness

Merge(e) ==
  /\ Working
  /\ Returns(Merged(Current, e))
  /\ Impose(witness # None /\ Allows(e, witness))

\* calc_encoding_mark_diff: nothing is encoded of a node that is fixed, and
\* of a fixed one its bits.
Overwrite(e, mark) ==
  /\ Working
  /\ ~TotallyFixed(bits)
  /\ TotallyFixed(e.bits) => mark = "bits"
  /\ Returns(Overwritten(Current, e, mark))
  /\ Impose(witness # None /\ Allows(e, witness))

\* consume_domain_state of the propagator
ConsumeState ==
  /\ Working
  /\ pending # Unchanged
  /\ pending' = Unchanged
  /\ last' = IF pending = Updated THEN IntervalSize(iv) ELSE last
  /\ result' = Void
  /\ UNCHANGED <<width, bits, iv, witness>>

\* copy_from, and reset, as one snapshot is a fresh domain.
Restore(e) ==
  /\ Becomes([Sync(e) EXCEPT !.pending = Unchanged])
  /\ result' = Void
  /\ witness' \in IF witness # None /\ Allows(e, witness)
                   THEN {witness} ELSE Values(e)
  /\ UNCHANGED width

Next ==
  \/ \E i \in Bits, b \in {0, 1} : SetFixed(i, b)
  \/ \E v \in Value : SetConstant(v)
  \/ \E c \in Constraint : ApplyInterval(c)
  \/ TightenIntervalByFixedBits
  \/ TightenFixedBitsByInterval
  \/ \E e \in Snapshot :
       \/ Merge(e)
       \/ \E mark \in {"bits", "interval", "both"} : Overwrite(e, mark)
       \/ Restore(e)
  \/ ConsumeState

Spec == Init /\ [][Next]_vars

\* For TLC: what the last operation returned matters for what follows only if
\* it ends the work.
View == <<width, bits, iv, last, pending,
          IF Working THEN Void ELSE result, witness>>

-----------------------------------------------------------------------------
\* Every variable keeps its type; the interval is never a full one in
\* disguise, which is_interval_complete asserts.
TypeOK ==
  /\ bits \in [Bits -> {0, 1, Free}]
  /\ iv \in Constraint
  /\ iv.compl => iv.min + 1 # iv.max
  /\ last \in Value
  /\ pending \in {Unchanged, Changed, Updated, Conflict}
  /\ result \in Void .. Thrown
  /\ witness \in Value \union {None}

\* No sequence of operations loses a value: a value that every constraint
\* allows is in the domain, and nobody has reported a conflict.  The places the
\* code calls unreachable are.
WitnessKept ==
  /\ witness # None => witness \in Values(Current) /\ result # Conflict
  /\ result # Thrown

\* A domain whose bits are all fixed has the interval of that value alone,
\* as check_invariants demands.
FixedAgrees ==
  TotallyFixed(bits) => \E v \in Consistent(bits) : iv = Normal(v, v)

\* Whatever has happened to a domain, tightening its interval notices that it
\* has no values, and otherwise makes both bounds values of the fixed bits.
EmptyNoticed ==
  LET t == TightenInterval(Current)
      c == t.dom.iv
  IN Working => IF Values(Current) = {} THEN t.res = Conflict
                ELSE t.res # Conflict /\ {c.min, c.max} \subseteq Consistent(bits)

\* Parents are told of every change of a quarter or more: what they have not
\* been told of, the difference to d_last_interval_size, is less.
DriftBounded ==
  width > 1 => LET size == IntervalSize(iv)
               IN size <= last /\ last - size <= last \div 4

\* A change is never forgotten: an operation that changes the domain does not
\* return UNCHANGED, leaves a pending state behind that says so, and keeps an
\* UPDATED that was not consumed yet.
ChangesReported ==
  [][result' # Void =>
       /\ <<bits, iv>>' # <<bits, iv>> => pending' # Unchanged /\ result' # Unchanged
       /\ pending' >= pending]_vars
=============================================================================
