------------------------------ MODULE RuleState ------------------------------
(***************************************************************************)
(* What the propagation rules of operator_dispatch work on: the domains of *)
(* a node and of its children, which may be one another's, and the Result  *)
(* so far.  A rule is an operator from such a state and the nodes to the   *)
(* state it leaves.  Nothing is done to a state once it has a conflict, so *)
(* the domains stay as they are half-way.  Some rules, such as that of a   *)
(* sum, return a few operations later; what these would narrow is left     *)
(* out, as all that a conflict leaves behind is restored from copies.      *)
(***************************************************************************)
EXTENDS Integers, FiniteSets, Sequences, SequencesExt, Functions

Width(d) == Cardinality(DOMAIN d.bits)

\* The domains of one width; no operation on one uses the variables.
F(w) == INSTANCE FeasibleDomain WITH
          MaxWidth <- w, width <- w, bits <- 0, iv <- 0, last <- 0,
          pending <- 0, result <- 0, witness <- 0

Free      == 2
Void      == -1
Unchanged == 0
Changed   == 1
Updated   == 2
Conflict  == 3
Thrown    == 4

Or(a, b) == IF a > b THEN a ELSE b
Least(a, b) == IF a < b THEN a ELSE b
Most(a, b)  == IF a > b THEN a ELSE b

Bit(v, i) == (v \div 2 ^ i) % 2
Ones(d)   == 2 ^ Width(d) - 1

Normal(a, b) == [min |-> a, max |-> b, compl |-> FALSE]
Compl(a, b)  == [min |-> a, max |-> b, compl |-> TRUE]

\* The positions of w bits, from the lowest and from the highest.
Upward(w)   == [k \in 1 .. w |-> k - 1]
Downward(w) == [k \in 1 .. w |-> w - k]

-----------------------------------------------------------------------------
(* One domain.                                                             *)

IsFixed(d, k)  == d.bits[k] # Free
TotallyFixed(d) == \A k \in DOMAIN d.bits : d.bits[k] # Free
IsOne(d)       == d.bits[0] = 1
IsZero(d)      == d.bits[0] = 0

\* The value with the bits of b.
ValueOf(b) ==
  LET sum[k \in 0 .. Cardinality(DOMAIN b)] ==
        IF k = 0 THEN 0 ELSE sum[k - 1] + b[k - 1] * 2 ^ (k - 1)
  IN sum[Cardinality(DOMAIN b)]

FixedOnes(d) == [k \in DOMAIN d.bits |-> IF d.bits[k] = 1 THEN 1 ELSE 0]
NotZeros(d)  == [k \in DOMAIN d.bits |-> IF d.bits[k] = 0 THEN 0 ELSE 1]

\* make_unsigned_min, make_unsigned_max: the bits alone.
UnsignedMin(d) == ValueOf(FixedOnes(d))
UnsignedMax(d) == ValueOf(NotZeros(d))

\* make_signed_min, make_signed_max: with the sign bit the other way round.
SignedMin(d) ==
  LET top == Width(d) - 1
  IN ValueOf([FixedOnes(d) EXCEPT ![top] = NotZeros(d)[top]])
SignedMax(d) ==
  LET top == Width(d) - 1
  IN ValueOf([NotZeros(d) EXCEPT ![top] = FixedOnes(d)[top]])

Fresh(w) == F(w)!Fresh
Holds(d, v) == F(Width(d))!Allows(d, v)

\* create_constant_feasible_domain
ConstantDomain(w, v) ==
  [bits |-> [k \in 0 .. w - 1 |-> Bit(v, k)], iv |-> Normal(v, v),
   last |-> 0, pending |-> Updated]

-----------------------------------------------------------------------------
(* Operations on the state.                                                *)

Going(dom) == [dom |-> dom, res |-> Unchanged]
Failed(s)  == [s EXCEPT !.res = Or(Conflict, @)]
Stopped(s) == s.res \in {Conflict, Thrown}

On(s, i, Op(_)) ==
  IF Stopped(s) THEN s
  ELSE LET r == Op(s.dom[i])
       IN [dom |-> [s.dom EXCEPT ![i] = r.dom], res |-> Or(s.res, r.res)]

\* set_fixed of one bit, or of the bits of a partial function.
SetBits(s, i, b) == On(s, i, LAMBDA d : F(Width(d))!SetBits(d, b))
SetBit(s, i, k, b) == SetBits(s, i, [j \in {k} |-> b])

\* apply_interval_constraint
Clip(s, i, c) == On(s, i, LAMBDA d : F(Width(d))!Apply(d, c))

\* The interval of i with that of j.
ClipLike(s, i, j) == Clip(s, i, s.dom[j].iv)

Meeting(d, e) == F(Width(d))!Meets(d.iv, e.iv)

\* set_constant: the bits, then the interval.
SetConstant(s, i, v) ==
  Clip(SetBits(s, i, [k \in DOMAIN s.dom[i].bits |-> Bit(v, k)]), i, Normal(v, v))

\* A step for each element of a sequence.
InTurn(s, ks, Step(_, _)) ==
  LET after[n \in 0 .. Len(ks)] ==
        IF n = 0 THEN s ELSE Step(after[n - 1], ks[n])
  IN after[Len(ks)]

\* A step for each element of a sequence, until there is a conflict.
InOrder(s, ks, Step(_, _)) ==
  InTurn(s, ks, LAMBDA t, k : IF Stopped(t) THEN t ELSE Step(t, k))

\* Step while More, at most n times.
Loop(s, n, More(_), Step(_)) ==
  LET after[k \in 0 .. n] ==
        IF k = 0 THEN s
        ELSE LET t == after[k - 1] IN IF More(t) THEN Step(t) ELSE t
  IN after[n]

\* tighten_each_interval and tighten_each_fixed_bits, children first.
TightenIntervalOf(s, i) == On(s, i, LAMBDA d : F(Width(d))!TightenInterval(d))
TightenBitsOf(s, i)     == On(s, i, LAMBDA d : F(Width(d))!TightenBits(d))

TightenEach(s, ids) ==
  InOrder(InOrder(s, ids, TightenIntervalOf), ids, TightenBitsOf)
=============================================================================
