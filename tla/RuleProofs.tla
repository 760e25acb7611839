------------------------------ MODULE RuleProofs ------------------------------
(***************************************************************************)
(* What the propagation rules do to the domains they work on, for every    *)
(* width: a domain that is not what it was has a pending state that says   *)
(* so, one whose bits are all fixed has the interval of their value, and   *)
(* the domains of other nodes are not touched.                             *)
(***************************************************************************)
EXTENDS PropagationRules, FiniteSetTheorems, TLAPS

-----------------------------------------------------------------------------
(* One domain.                                                             *)

\* A domain has these fields.
IsDomain(d) ==
  d = [bits |-> d.bits, iv |-> d.iv, last |-> d.last, pending |-> d.pending]

\* To the work list a domain and what became of it are the same.
Same(d, e) == e.bits = d.bits /\ e.iv = d.iv /\ e.pending = d.pending

\* All bits are there.
Wide(w, d) == w \in Nat /\ DOMAIN d.bits = 0 .. w - 1

\* If all of them are fixed the interval is their value's.
InStep(w, d) == Wide(w, d) /\ F(w)!Sync(d).iv = d.iv

\* What holds of a domain d and still has to of e.
Keeps(w, d, e) ==
  /\ Wide(w, d) => Wide(w, e)
  /\ InStep(w, d) => InStep(w, e)

\* What an operation may end with.
Results == {Unchanged, Changed, Updated, Conflict, Thrown}

\* What became of domain d: if it is another one its pending state says so.
Reported(w, d, e) ==
  /\ IsDomain(e)
  /\ Same(d, e) \/ e.pending \in {Changed, Updated}
  /\ Keeps(w, d, e)

\* An operation on domain d that ended with r.
Effect(w, d, r) ==
  /\ Reported(w, d, r.dom)
  /\ r.res \in Results
  /\ r.res = Unchanged => Same(d, r.dom)

\* A domain is reported to itself.
LEMMA ReportedSelf ==
  ASSUME NEW w, NEW d, IsDomain(d)
  PROVE  Reported(w, d, d)
BY DEF Reported, Same, Keeps

\* One step after another.
LEMMA ReportedBoth ==
  ASSUME NEW w, NEW d, NEW e, NEW f, Reported(w, d, e), Reported(w, e, f)
  PROVE  Reported(w, d, f)
BY DEF Reported, Same, Keeps

\* Whether a domain is in step depends on its bits and its interval alone.
LEMMA KeepsAlike ==
  ASSUME NEW w, NEW d, IsDomain(d), NEW e, IsDomain(e), e.bits = d.bits, e.iv = d.iv
  PROVE  Keeps(w, d, e)
<1>1. F(w)!Sync(e).iv = F(w)!Sync(d).iv
  BY Zenon DEF F!Sync, F!Normal, IsDomain
<1> QED
  BY <1>1 DEF InStep, Wide, Keeps

\* sync_interval_from_fixed_bits touches the interval alone, and once is enough.
LEMMA SyncRight ==
  ASSUME NEW d, IsDomain(d), NEW w
  PROVE  LET e == F(w)!Sync(d) IN
         /\ IsDomain(e) /\ e.bits = d.bits /\ e.pending = d.pending
         /\ F(w)!Sync(e).iv = e.iv
<1> DEFINE e == F(w)!Sync(d)
           v == CHOOSE x \in F(w)!Consistent(d.bits) : TRUE
<1>1. CASE F(w)!TotallyFixed(d.bits)
  <2>1. e = [d EXCEPT !.iv = F(w)!Normal(v, v), !.last = 0]
    BY <1>1 DEF F!Sync
  <2>2. e = [bits |-> d.bits, iv |-> F(w)!Normal(v, v), last |-> 0, pending |-> d.pending]
    BY <2>1 DEF IsDomain
  <2> HIDE DEF v
  <2>3. e.bits = d.bits /\ e.iv = F(w)!Normal(v, v) /\ IsDomain(e) /\ e.pending = d.pending
    BY <2>2 DEF IsDomain
  <2> HIDE DEF e
  <2>4. F(w)!Sync(e) = [e EXCEPT !.iv = F(w)!Normal(v, v), !.last = 0]
    BY <1>1, <2>3, Zenon DEF F!Sync, v
  <2>5. F(w)!Sync(e).iv = F(w)!Normal(v, v)
    BY <2>3, <2>4 DEF IsDomain
  <2> QED
    BY <2>3, <2>5 DEF e
<1>2. CASE ~F(w)!TotallyFixed(d.bits)
  <2>1. e = d
    BY <1>2 DEF F!Sync
  <2> QED
    BY <2>1
<1> QED
  BY <1>1, <1>2

\* Recording a change marks the domain.
LEMMA MarkRight ==
  ASSUME NEW d, IsDomain(d), NEW w, NEW r
  PROVE  LET e == F(w)!Mark(d, r) IN
         /\ IsDomain(e) /\ e.bits = d.bits /\ e.iv = d.iv
         /\ e.pending \in {Changed, Updated}
         /\ Updated \in {d.pending, r} => e.pending = Updated
<1>1. F(w)!Mark(d, r) = [d EXCEPT !.pending =
         IF Updated \in {d.pending, r} THEN Updated ELSE Changed]
  BY DEF F!Mark, F!Updated, F!Changed, Updated, Changed
<1> QED
  BY <1>1 DEF IsDomain

\* set_fixed of any bits.
LEMMA SetBitsEffect ==
  ASSUME NEW d, IsDomain(d), NEW w, NEW b
  PROVE  Effect(w, d, F(w)!SetBits(d, b))
<1> DEFINE r == F(w)!SetBits(d, b)
           clash == {i \in DOMAIN b : d.bits[i] \notin {Free, b[i]}}
           new   == {i \in DOMAIN b : d.bits[i] = Free /\ \A j \in clash : i < j}
           set   == [i \in F(w)!Bits |-> IF i \in new THEN b[i] ELSE d.bits[i]]
           e     == [d EXCEPT !.bits = set]
<1>1. r.dom = (IF new = {} THEN d ELSE F(w)!Mark(F(w)!Sync(e), Updated))
      /\ r.res = (IF clash # {} THEN Conflict ELSE IF new # {} THEN Updated ELSE Unchanged)
  BY DEF F!SetBits, F!Done, F!Free, F!Updated, F!Conflict, F!Unchanged, Free, Updated,
         Conflict, Unchanged
<1> HIDE DEF r
<1>2. IsDomain(e) /\ e.bits = set
  BY DEF IsDomain
<1>3. DOMAIN set = F(w)!Bits /\ F(w)!Bits = 0 .. w - 1
  BY DEF F!Bits
<1> HIDE DEF e, set, new, clash
<1> DEFINE f == F(w)!Sync(e)
           g == F(w)!Mark(f, Updated)
<1>4. /\ IsDomain(f) /\ f.bits = e.bits /\ F(w)!Sync(f).iv = f.iv
  BY <1>2, SyncRight
<1> HIDE DEF f
<1>5. IsDomain(g) /\ g.bits = f.bits /\ g.iv = f.iv /\ g.pending \in {Changed, Updated}
  BY <1>4, MarkRight
<1> HIDE DEF g
<1>6. Keeps(w, d, g)
  <2>1. DOMAIN f.bits = 0 .. w - 1
    BY <1>2, <1>3, <1>4
  <2>2. Keeps(w, d, f)
    BY <1>4, <2>1 DEF InStep, Wide, Keeps
  <2>3. Keeps(w, f, g)
    BY <1>4, <1>5, KeepsAlike
  <2> QED
    BY <2>2, <2>3 DEF Keeps
<1>7. ASSUME new = {}
      PROVE  Effect(w, d, r)
  <2>1. r.dom = d /\ r.res \in {Conflict, Unchanged}
    BY <1>1, <1>7
  <2> QED
    BY <2>1, ReportedSelf DEF Effect, Results, Same
<1>8. ASSUME new # {}
      PROVE  Effect(w, d, r)
  <2>1. r.dom = g /\ r.res \in {Conflict, Updated}
    BY <1>1, <1>8 DEF g, f
  <2>2. Reported(w, d, g)
    BY <1>5, <1>6 DEF Reported
  <2> QED
    BY <2>1, <2>2 DEF Effect, Results, Unchanged, Conflict, Updated
<1> QED
  BY <1>7, <1>8 DEF r

\* An interval that does not have a single value is not that of a domain whose
\* bits are all fixed, so a new one is as good.
LEMMA NewInterval ==
  ASSUME NEW d, IsDomain(d), NEW w,
         ~F(w)!IsConstant(d.iv), NEW c
  PROVE  LET e == [d EXCEPT !.iv = c] IN
         /\ IsDomain(e) /\ e.bits = d.bits /\ e.iv = c /\ e.pending = d.pending
         /\ Keeps(w, d, e)
<1> DEFINE e == [d EXCEPT !.iv = c]
<1>1. IsDomain(e) /\ e.bits = d.bits /\ e.iv = c /\ e.pending = d.pending
  BY DEF IsDomain
<1> HIDE DEF e
<1>2. ASSUME InStep(w, d)
      PROVE  InStep(w, e)
  <2>1. ~F(w)!TotallyFixed(d.bits)
    <3> SUFFICES ASSUME F(w)!TotallyFixed(d.bits) PROVE FALSE
      OBVIOUS
    <3> DEFINE v == CHOOSE x \in F(w)!Consistent(d.bits) : TRUE
    <3>1. F(w)!Sync(d) = [d EXCEPT !.iv = F(w)!Normal(v, v), !.last = 0]
      BY DEF F!Sync
    <3> HIDE DEF v
    <3>2. d.iv = F(w)!Normal(v, v)
      BY <1>2, <3>1 DEF IsDomain, InStep
    <3> QED
      BY <3>2 DEF F!IsConstant, F!Normal
  <2>2. F(w)!Sync(e) = e
    BY <1>1, <2>1 DEF F!Sync
  <2> QED
    BY <1>1, <1>2, <2>2 DEF InStep, Wide
<1>3. Keeps(w, d, e)
  BY <1>1, <1>2 DEF Keeps, Wide
<1> QED
  BY <1>1, <1>3 DEF e

\* What is done before it is recorded: only a change of the interval is not
\* marked yet.
Narrowed(w, d, n) ==
  /\ n.res \in Results
  /\ Effect(w, d, n)
     \/ /\ n.res = Changed /\ IsDomain(n.dom)
        /\ Keeps(w, d, n.dom)

\* apply_interval_constraint before it records what it did.
LEMMA NarrowEffect ==
  ASSUME NEW d, IsDomain(d), NEW w, NEW c
  PROVE  Narrowed(w, d, F(w)!Narrow(d, c))
<1> DEFINE n == F(w)!Narrow(d, c)
<1>1. ASSUME n.dom = d, n.res \in {Unchanged, Conflict, Thrown}
      PROVE  Narrowed(w, d, n)
  BY <1>1, ReportedSelf DEF Narrowed, Effect, Results, Same
<1>2. ASSUME ~F(w)!IsConstant(d.iv), NEW x, n.dom = [d EXCEPT !.iv = x], n.res = Changed
      PROVE  Narrowed(w, d, n)
  <2> DEFINE e == [d EXCEPT !.iv = x]
  <2>1. IsDomain(e) /\ Keeps(w, d, e)
    BY <1>2, NewInterval
  <2> HIDE DEF e
  <2> QED
    BY <1>2, <2>1 DEF Narrowed, Results, e
<1>3. CASE F(w)!IsFull(c)
  <2>1. n = F(w)!Done(d, 0)
    BY <1>3 DEF F!Narrow, F!Unchanged
  <2> QED
    BY <1>1, <2>1 DEF F!Done, Unchanged
<1>4. CASE ~F(w)!IsFull(c) /\ F(w)!IsConstant(d.iv)
  <2>1. n = F(w)!Done(d, IF F(w)!InInterval(c, d.iv.min) THEN 0 ELSE 3)
    BY <1>4 DEF F!Narrow, F!Unchanged, F!Conflict
  <2> QED
    BY <1>1, <2>1 DEF F!Done, Unchanged, Conflict
<1>5. CASE ~F(w)!IsFull(c) /\ ~F(w)!IsConstant(d.iv) /\ w = 1
  <2>1. n = F(w)!SetBits(d, [i \in {0} |-> F(w)!Bit(c.min, 0)])
    BY <1>5, Zenon DEF F!Narrow
  <2>2. Effect(w, d, n)
    BY <2>1, SetBitsEffect
  <2> QED
    BY <2>2 DEF Narrowed, Effect
<1>6. CASE ~F(w)!IsFull(c) /\ ~F(w)!IsConstant(d.iv) /\ w # 1 /\ F(w)!IsFull(d.iv)
  <2>1. n = F(w)!Done([d EXCEPT !.iv = c], 1)
    BY <1>6, Zenon DEF F!Narrow, F!Changed
  <2> QED
    BY <1>2, <1>6, <2>1 DEF F!Done, Changed
<1>7. CASE ~F(w)!IsFull(c) /\ ~F(w)!IsConstant(d.iv) /\ w # 1 /\ ~F(w)!IsFull(d.iv)
  <2> DEFINE p == F(w)!Intersection(d.iv, c)
  <2>1. n \in {F(w)!Done(d, 3), F(w)!Done(d, 0), F(w)!Cut(d, p)}
    BY <1>7, Zenon DEF F!Narrow, F!Conflict, F!Unchanged
  <2> HIDE DEF p
  <2>2. CASE n = F(w)!Done(d, 3) \/ n = F(w)!Done(d, 0)
    BY <1>1, <2>2 DEF F!Done, Unchanged, Conflict
  <2>3. CASE n = F(w)!Cut(d, p) /\ p = F(w)!NoPiece
    <3>1. n = F(w)!Done(d, 4)
      BY <2>3 DEF F!Cut, F!Thrown
    <3> QED
      BY <1>1, <3>1 DEF F!Done, Thrown
  <2>4. CASE n = F(w)!Cut(d, p) /\ p # F(w)!NoPiece /\ p = d.iv
    <3>1. n = F(w)!Done([d EXCEPT !.iv = p], 0)
      BY <2>4 DEF F!Cut, F!Unchanged
    <3>2. [d EXCEPT !.iv = p] = d
      BY <2>4 DEF IsDomain
    <3> QED
      BY <1>1, <3>1, <3>2 DEF F!Done, Unchanged
  <2>5. CASE n = F(w)!Cut(d, p) /\ p # F(w)!NoPiece /\ p # d.iv
    <3>1. n = F(w)!Done([d EXCEPT !.iv = p], 1)
      BY <2>5 DEF F!Cut, F!Changed
    <3> QED
      BY <1>2, <1>7, <3>1 DEF F!Done, Changed
  <2> QED
    BY <2>1, <2>2, <2>3, <2>4, <2>5
<1> QED
  BY <1>3, <1>4, <1>5, <1>6, <1>7

\* apply_interval_constraint.
LEMMA ApplyEffect ==
  ASSUME NEW d, IsDomain(d), NEW w, NEW c
  PROVE  Effect(w, d, F(w)!Apply(d, c))
<1> DEFINE n == F(w)!Narrow(d, c)
           r == F(w)!Apply(d, c)
<1>1. Narrowed(w, d, n)
  BY NarrowEffect
<1>2. r = F(w)!Record(n)
  BY DEF F!Apply
<1> HIDE DEF n, r
<1>3. ASSUME n.res \notin {Changed, Updated}
      PROVE  Effect(w, d, r)
  <2>1. r = n
    BY <1>2, <1>3 DEF F!Record, F!Changed, F!Updated, Changed, Updated
  <2> QED
    BY <1>1, <1>3, <2>1 DEF Narrowed
<1>4. ASSUME n.res \in {Changed, Updated}
      PROVE  Effect(w, d, r)
  <2>1. IsDomain(n.dom) /\ Keeps(w, d, n.dom)
    BY <1>1 DEF Narrowed, Effect, Reported
  <2> DEFINE l == [n.dom EXCEPT !.last = F(w)!IntervalSize(n.dom.iv)]
  <2>2. r \in {F(w)!Done(F(w)!Mark(l, 2), 2), F(w)!Done(F(w)!Mark(n.dom, 1), n.res)}
    BY <1>2, <1>4 DEF F!Record, F!Changed, F!Updated, Changed, Updated
  <2>3. IsDomain(l) /\ l.bits = n.dom.bits /\ l.iv = n.dom.iv
    BY <2>1 DEF IsDomain
  <2>4. Keeps(w, d, l)
    BY <2>1, <2>3, KeepsAlike DEF Keeps
  <2> HIDE DEF l
  <2>5. ASSUME NEW e, NEW x, IsDomain(e), Keeps(w, d, e)
        PROVE  Reported(w, d, F(w)!Mark(e, x))
    <3> DEFINE m == F(w)!Mark(e, x)
    <3>1. IsDomain(m) /\ m.bits = e.bits /\ m.iv = e.iv /\ m.pending \in {Changed, Updated}
      BY <2>5, MarkRight
    <3> HIDE DEF m
    <3>2. Keeps(w, d, m)
      BY <2>5, <3>1, KeepsAlike DEF Keeps
    <3>3. Reported(w, d, m)
      BY <3>1, <3>2 DEF Reported
    <3> QED
      BY <3>3 DEF m
  <2>6. Reported(w, d, F(w)!Mark(l, 2)) /\ Reported(w, d, F(w)!Mark(n.dom, 1))
    BY <2>1, <2>3, <2>4, <2>5
  <2>7. Reported(w, d, r.dom) /\ r.res \in {Changed, Updated}
    BY <1>4, <2>2, <2>6 DEF F!Done, Updated
  <2> QED
    BY <2>7 DEF Effect, Results, Unchanged, Changed, Updated
<1> QED
  BY <1>3, <1>4 DEF r

\* A return before anything is done.
LEMMA EffectNone ==
  ASSUME NEW w, NEW d, IsDomain(d), NEW r, r.dom = d, r.res \in {Unchanged, Conflict, Thrown}
  PROVE  Effect(w, d, r)
BY ReportedSelf DEF Effect, Results, Same

\* The result of two steps is that nothing was done only if neither did anything.
LEMMA OrRight ==
  ASSUME NEW x \in Results, NEW y \in Results
  PROVE  Or(x, y) \in Results /\ (Or(x, y) = Unchanged => x = Unchanged /\ y = Unchanged)
BY DEF Or, Results, Unchanged, Changed, Updated, Conflict, Thrown

\* Two operations in turn.
LEMMA EffectBoth ==
  ASSUME NEW w, NEW d, NEW r, Effect(w, d, r), NEW o, Effect(w, r.dom, o),
         NEW t, t.dom = o.dom, t.res = Or(r.res, o.res)
  PROVE  Effect(w, d, t)
<1>1. Reported(w, d, t.dom)
  BY ReportedBoth DEF Effect
<1>2. t.res \in Results /\ (t.res = Unchanged => r.res = Unchanged /\ o.res = Unchanged)
  BY OrRight DEF Effect
<1>3. t.res = Unchanged => Same(d, t.dom)
  BY <1>2 DEF Effect, Same
<1> QED
  BY <1>1, <1>2, <1>3 DEF Effect

\* tighten_fixed_bits: zeros, then ones.
LEMMA TightenBitsEffect ==
  ASSUME NEW d, IsDomain(d), NEW w
  PROVE  Effect(w, d, F(w)!TightenBits(d))
<1> DEFINE t == F(w)!TightenBits(d)
           r == F(w)!SetBits(d, [i \in F(w)!ZeroBits(d, F(w)!LeastOf(d.bits)) |-> 0])
           b == [i \in F(w)!OneBits(r.dom, F(w)!GreatestOf(r.dom.bits)) |-> 1]
<1>1. \/ t = F(w)!Done(d, 0)
      \/ t = F(w)!SetBits(d, F(w)!BitsOf(d.iv.min))
      \/ r.res = 3 /\ t = r
      \/ t = F(w)!Done(F(w)!SetBits(r.dom, b).dom, F(w)!Or(r.res, F(w)!SetBits(r.dom, b).res))
  BY Zenon DEF F!TightenBits, F!After, F!Unchanged, F!Conflict
<1>2. Effect(w, d, r)
  BY SetBitsEffect
<1>3. Effect(w, d, F(w)!SetBits(d, F(w)!BitsOf(d.iv.min)))
  BY SetBitsEffect
<1> HIDE DEF t, r, b
<1>4. ASSUME t = F(w)!Done(d, 0)
      PROVE  Effect(w, d, t)
  BY <1>4, EffectNone DEF F!Done, Unchanged
<1>5. ASSUME t = F(w)!Done(F(w)!SetBits(r.dom, b).dom, F(w)!Or(r.res, F(w)!SetBits(r.dom, b).res))
      PROVE  Effect(w, d, t)
  <2> DEFINE o == F(w)!SetBits(r.dom, b)
  <2>1. t.dom = o.dom /\ t.res = Or(r.res, o.res)
    BY <1>5 DEF F!Done, F!Or, Or
  <2>2. Effect(w, r.dom, o)
    <3>1. IsDomain(r.dom)
      BY <1>2 DEF Effect, Reported
    <3> QED
      BY <3>1, SetBitsEffect
  <2> HIDE DEF o
  <2> QED
    BY <1>2, <2>1, <2>2, EffectBoth
<1>6. Effect(w, d, t)
  BY <1>1, <1>2, <1>3, <1>4, <1>5
<1> QED
  BY <1>6 DEF t

\* tighten_interval with a single value left.
LEMMA OnlyValueEffect ==
  ASSUME NEW d, IsDomain(d), NEW w, NEW v
  PROVE  Effect(w, d, F(w)!OnlyValue(d, v))
<1> DEFINE t == F(w)!OnlyValue(d, v)
<1>1. \/ t = F(w)!Done(d, 3)
      \/ t = F(w)!Done(d, 0)
      \/ t = F(w)!Apply(d, F(w)!Normal(v, v))
  BY Zenon DEF F!OnlyValue, F!Conflict, F!Unchanged
<1> HIDE DEF t
<1>2. ASSUME t = F(w)!Done(d, 3) \/ t = F(w)!Done(d, 0)
      PROVE  Effect(w, d, t)
  BY <1>2, EffectNone DEF F!Done, Unchanged, Conflict
<1>3. Effect(w, d, F(w)!Apply(d, F(w)!Normal(v, v)))
  BY ApplyEffect
<1>4. Effect(w, d, t)
  BY <1>1, <1>2, <1>3
<1> QED
  BY <1>4 DEF t

\* tighten_interval with two bounds.
LEMMA BoundsEffect ==
  ASSUME NEW d, IsDomain(d), NEW w, NEW lo, NEW hi
  PROVE  /\ Effect(w, d, F(w)!BetweenBounds(d, lo, hi))
         /\ Effect(w, d, F(w)!OutsideBounds(d, lo, hi))
<1> DEFINE t == F(w)!BetweenBounds(d, lo, hi)
           u == F(w)!OutsideBounds(d, lo, hi)
<1>1. \/ t \in {F(w)!Done(d, 3), F(w)!Done(d, 4)}
      \/ t = F(w)!Apply(d, F(w)!Normal(lo.val, hi.val))
  BY Zenon DEF F!BetweenBounds, F!Conflict, F!Thrown
<1>2. \/ u \in {F(w)!Done(d, 3), F(w)!Done(d, 4)}
      \/ \E c : u = F(w)!Apply(d, c)
  BY Zenon DEF F!OutsideBounds, F!Conflict, F!Thrown
<1> HIDE DEF t, u
<1>3. ASSUME NEW r \in {F(w)!Done(d, 3), F(w)!Done(d, 4)}
      PROVE  Effect(w, d, r)
  BY <1>3, EffectNone DEF F!Done, Thrown, Conflict
<1>4. \A c : Effect(w, d, F(w)!Apply(d, c))
  BY ApplyEffect
<1>5. Effect(w, d, t) /\ Effect(w, d, u)
  BY <1>1, <1>2, <1>3, <1>4, Zenon
<1> QED
  BY <1>5 DEF t, u

\* tighten_interval.
LEMMA TightenIntervalEffect ==
  ASSUME NEW d, IsDomain(d), NEW w
  PROVE  Effect(w, d, F(w)!TightenInterval(d))
<1> DEFINE t == F(w)!TightenInterval(d)
<1>1. \/ \E v : t = F(w)!OnlyValue(d, v)
      \/ t = F(w)!Done(d, 0)
      \/ \E lo, hi : t = F(w)!OutsideBounds(d, lo, hi)
      \/ \E lo, hi : t = F(w)!BetweenBounds(d, lo, hi)
  BY Zenon DEF F!TightenInterval, F!Unchanged
<1> HIDE DEF t
<1>2. ASSUME t = F(w)!Done(d, 0)
      PROVE  Effect(w, d, t)
  BY <1>2, EffectNone DEF F!Done, Unchanged
<1>3. \A v : Effect(w, d, F(w)!OnlyValue(d, v))
  BY OnlyValueEffect
<1>4. \A lo, hi : Effect(w, d, F(w)!BetweenBounds(d, lo, hi))
                  /\ Effect(w, d, F(w)!OutsideBounds(d, lo, hi))
  BY BoundsEffect
<1>5. Effect(w, d, t)
  BY <1>1, <1>2, <1>3, <1>4, Zenon
<1> QED
  BY <1>5 DEF t

\* Merged of two domains, and set_constant's two steps.
LEMMA MergedEffect ==
  ASSUME NEW d, IsDomain(d), NEW w, NEW e
  PROVE  Effect(w, d, F(w)!Merged(d, e))
<1> DEFINE b == [i \in F(w)!Fixed(e.bits) |-> e.bits[i]]
           r == F(w)!SetBits(d, b)
           o == F(w)!Apply(r.dom, e.iv)
           t == F(w)!Merged(d, e)
<1>1. t = IF r.res = 3 THEN r ELSE F(w)!Done(o.dom, F(w)!Or(r.res, o.res))
  BY Zenon DEF F!Merged, F!Imposed, F!After, F!Conflict
<1>2. Effect(w, d, r)
  BY SetBitsEffect
<1> HIDE DEF t, b
<1>3. Effect(w, r.dom, o)
  BY <1>2, ApplyEffect DEF Effect, Reported
<1> HIDE DEF r, o
<1>4. CASE r.res = 3
  BY <1>1, <1>2, <1>4 DEF t
<1>5. CASE r.res # 3
  <2>1. t.dom = o.dom /\ t.res = Or(r.res, o.res)
    BY <1>1, <1>5 DEF F!Done, F!Or, Or
  <2>2. Effect(w, d, t)
    BY <1>2, <1>3, <2>1, EffectBoth
  <2> QED
    BY <2>2 DEF t
<1> QED
  BY <1>4, <1>5

-----------------------------------------------------------------------------
(* Widths, and domains that are made anew.                                 *)

\* The width of a domain is the number of its bits.
LEMMA WidthRight ==
  ASSUME NEW d, NEW w, Wide(w, d)
  PROVE  Width(d) = w
<1>1. Cardinality(0 .. w - 1) = w
  <2>1. w \in Nat /\ 0 \in Int /\ w - 1 \in Int
    BY DEF Wide
  <2>2. Cardinality(0 .. w - 1) = IF 0 > w - 1 THEN 0 ELSE w - 1 - 0 + 1
    BY <2>1, FS_Interval
  <2> QED
    BY <2>1, <2>2
<1> QED
  BY <1>1 DEF Width, Wide

\* What an operation at the domain's own width keeps is kept at any width.
Follows(d, e) == \A w : Reported(w, d, e)

\* An operation at the width of the domain says it for every width.
LEMMA FollowsRight ==
  ASSUME NEW d, NEW e, Reported(Width(d), d, e)
  PROVE  Follows(d, e)
<1> SUFFICES ASSUME NEW w PROVE Reported(w, d, e)
  BY DEF Follows
<1>1. ASSUME Wide(w, d) PROVE w = Width(d)
  BY <1>1, WidthRight
<1> QED
  BY <1>1 DEF Reported, Keeps, InStep

\* create_feasible_domain: nothing is known, nothing is pending.
LEMMA FreshRight ==
  ASSUME NEW w
  PROVE  /\ IsDomain(Fresh(w)) /\ Fresh(w).pending = Unchanged
         /\ w \in Nat => Wide(w, Fresh(w))
         /\ w \in Nat \ {0} => InStep(w, Fresh(w)) /\ ~F(w)!TotallyFixed(Fresh(w).bits)
<1> DEFINE d == Fresh(w)
<1>1. d = [bits |-> [i \in F(w)!Bits |-> F(w)!Free], iv |-> F(w)!Normal(0, F(w)!Ones),
           last |-> F(w)!Ones, pending |-> F(w)!Unchanged]
  BY Zenon DEF Fresh, F!Fresh
<1> HIDE DEF d
<1>2. IsDomain(d) /\ d.pending = Unchanged /\ d.bits = [i \in F(w)!Bits |-> 2]
  BY <1>1 DEF IsDomain, F!Unchanged, F!Free, Unchanged
<1>3. ASSUME w \in Nat \ {0} PROVE InStep(w, d) /\ ~F(w)!TotallyFixed(d.bits)
  <2>1. F(w)!Bits = 0 .. w - 1 /\ 0 \in 0 .. w - 1
    BY <1>3 DEF F!Bits
  <2>2. ~F(w)!TotallyFixed(d.bits)
    BY <1>2, <2>1 DEF F!TotallyFixed, F!Fixed, F!Free
  <2>3. F(w)!Sync(d) = d
    BY <2>2 DEF F!Sync
  <2> QED
    BY <1>2, <1>3, <2>1, <2>2, <2>3 DEF InStep, Wide
<1>4. w \in Nat => Wide(w, d)
  BY <1>2 DEF Wide, F!Bits
<1> QED
  BY <1>2, <1>3, <1>4 DEF d

\* create_constant_feasible_domain.
LEMMA ConstantDomainRight ==
  ASSUME NEW w \in Nat, NEW v
  PROVE  IsDomain(ConstantDomain(w, v)) /\ Wide(w, ConstantDomain(w, v))
BY DEF IsDomain, ConstantDomain, Wide

\* A copy of a domain that is in step is what it is a copy of.
LEMMA CopyFromRight ==
  ASSUME NEW w, NEW d, IsDomain(d), InStep(w, d)
  PROVE  /\ IsDomain(CopyFrom(d)) /\ InStep(w, CopyFrom(d))
         /\ CopyFrom(d).bits = d.bits /\ CopyFrom(d).iv = d.iv
         /\ CopyFrom(d).pending = Unchanged
<1>1. Width(d) = w
  BY WidthRight DEF InStep
<1> DEFINE e == F(w)!Sync(d)
           f == CopyFrom(d)
<1>2. f = [e EXCEPT !.pending = F(w)!Unchanged]
  BY <1>1, Zenon DEF CopyFrom, F!Stored
<1>3. IsDomain(e) /\ e.bits = d.bits /\ e.iv = d.iv
  BY SyncRight DEF InStep
<1> HIDE DEF e, f
<1>4. IsDomain(f) /\ f.bits = d.bits /\ f.iv = d.iv /\ f.pending = Unchanged
  BY <1>2, <1>3 DEF IsDomain, F!Unchanged, Unchanged
<1>5. InStep(w, f)
  BY <1>4, KeepsAlike DEF Keeps
<1> QED
  BY <1>4, <1>5 DEF f

\* What overwrite leaves is marked, unless it ended in a conflict.
LEMMA OverwrittenEffect ==
  ASSUME NEW w, NEW d, IsDomain(d), NEW e, IsDomain(e), NEW mark
  PROVE  LET r == F(w)!Overwritten(d, e, mark) IN
         /\ IsDomain(r.dom) /\ r.res \in Results \ {Unchanged}
         /\ r.res \in {Conflict, Thrown} \/ r.dom.pending \in {Changed, Updated}
         /\ InStep(w, d) /\ InStep(w, e) /\ (mark = "interval" => ~F(w)!TotallyFixed(d.bits))
              => InStep(w, r.dom)
<1> DEFINE r == F(w)!Overwritten(d, e, mark)
           x == F(w)!Taken(d, e, mark)
           y == F(w)!Sync(x)
           Fit == InStep(w, d) /\ InStep(w, e) /\ (mark = "interval" => ~F(w)!TotallyFixed(d.bits))
<1>1. PICK t : /\ r = F(w)!Settled(t)
               /\ \/ mark = "interval" /\ t = F(w)!TightenBits(x)
                  \/ t = F(w)!TightenInterval(y)
                  \/ mark # "interval" /\ t = F(w)!Done(y, 0)
  BY Zenon DEF F!Overwritten, F!Unchanged
<1>2. /\ IsDomain(x) /\ x.pending = Updated
      /\ x.bits = d.bits \/ x.bits = e.bits
      /\ mark = "interval" => x.bits = d.bits
  <2> DEFINE b == IF mark = "interval" THEN d.bits ELSE e.bits
             c == IF mark = "bits" THEN d.iv ELSE e.iv
             l == IF mark = "bits" THEN d.last ELSE e.last
  <2>1. x = [d EXCEPT !.bits = b, !.iv = c, !.last = l, !.pending = 2]
    BY DEF F!Taken, F!Updated
  <2>2. /\ b = d.bits \/ b = e.bits
        /\ mark = "interval" => b = d.bits
    OBVIOUS
  <2> HIDE DEF x, b, c, l
  <2>3. x = [bits |-> b, iv |-> c, last |-> l, pending |-> 2]
    BY <2>1 DEF IsDomain
  <2> QED
    BY <2>2, <2>3 DEF IsDomain, Updated
<1> HIDE DEF r, x
<1>3. /\ IsDomain(y) /\ y.bits = x.bits /\ y.pending = x.pending
      /\ F(w)!Sync(y).iv = y.iv
  BY <1>2, SyncRight
<1>4. Fit => InStep(w, y)
  BY <1>2, <1>3 DEF InStep, Wide
<1>5. mark = "interval" /\ Fit => InStep(w, x)
  BY <1>2 DEF InStep, Wide, F!Sync
<1> HIDE DEF y
<1>6. ASSUME mark = "interval", t = F(w)!TightenBits(x)
      PROVE  /\ IsDomain(t.dom) /\ t.dom.pending \in {Changed, Updated} /\ t.res \in Results
             /\ Fit => InStep(w, t.dom)
  <2>1. Effect(w, x, t)
    BY <1>2, <1>6, TightenBitsEffect
  <2> QED
    BY <1>2, <1>5, <1>6, <2>1 DEF Effect, Reported, Same, Keeps
<1>7. ASSUME t = F(w)!TightenInterval(y)
      PROVE  /\ IsDomain(t.dom) /\ t.dom.pending \in {Changed, Updated} /\ t.res \in Results
             /\ Fit => InStep(w, t.dom)
  <2>1. Effect(w, y, t)
    BY <1>3, <1>7, TightenIntervalEffect
  <2> QED
    BY <1>2, <1>3, <1>4, <2>1 DEF Effect, Reported, Same, Keeps
<1>8. ASSUME t = F(w)!Done(y, 0)
      PROVE  /\ IsDomain(t.dom) /\ t.dom.pending \in {Changed, Updated} /\ t.res \in Results
             /\ Fit => InStep(w, t.dom)
  BY <1>2, <1>3, <1>4, <1>8 DEF F!Done, Results, Unchanged, Updated
<1>9. /\ IsDomain(t.dom) /\ t.dom.pending \in {Changed, Updated} /\ t.res \in Results
      /\ Fit => InStep(w, t.dom)
  BY <1>1, <1>6, <1>7, <1>8
<1> DEFINE res == IF t.res = 3 THEN 3 ELSE Or(t.dom.pending, t.res)
<1>10. r.res = res /\ r.dom = [t.dom EXCEPT !.pending = res]
  BY <1>1 DEF F!Settled, F!Done, F!Conflict, F!Or, Or
<1>11. res \in Results \ {Unchanged} /\ (res \in {Conflict, Thrown} \/ res \in {Changed, Updated})
  BY <1>9 DEF Or, Results, Unchanged, Changed, Updated, Conflict, Thrown
<1> HIDE DEF res
<1>12. IsDomain(r.dom) /\ r.dom.pending = res /\ r.dom.bits = t.dom.bits /\ r.dom.iv = t.dom.iv
  BY <1>9, <1>10 DEF IsDomain
<1>13. Fit => InStep(w, r.dom)
  BY <1>9, <1>12, KeepsAlike DEF Keeps
<1> QED
  BY <1>10, <1>11, <1>12, <1>13 DEF r

-----------------------------------------------------------------------------
(* States of a rule.                                                       *)

\* Domains of some nodes.
AreDomains(f) == \A i \in DOMAIN f : IsDomain(f[i]) /\ \E w : Wide(w, f[i])

\* A state of the rules.
IsState(s) ==
  /\ s = [dom |-> s.dom, res |-> s.res]
  /\ s.res \in Results
  /\ AreDomains(s.dom)

\* From domains f to domains g, of nodes in ids alone.
Moves(f, g, ids) ==
  /\ AreDomains(g)
  /\ DOMAIN g = DOMAIN f
  /\ \A i \in DOMAIN f : Follows(f[i], g[i])
  /\ \A i \in DOMAIN f \ ids : g[i] = f[i]

\* From state s a rule has come to state t, by way of nodes in ids.
Touches(s, t, ids) ==
  /\ IsState(s) /\ IsState(t)
  /\ ids \subseteq DOMAIN s.dom
  /\ Moves(s.dom, t.dom, ids)
  /\ t.res = Unchanged => s.res = Unchanged /\ \A i \in DOMAIN s.dom : Same(s.dom[i], t.dom[i])

\* Nothing done is a move.
LEMMA MovesSelf ==
  ASSUME NEW f, NEW ids, AreDomains(f)
  PROVE  Moves(f, f, ids)
BY ReportedSelf DEF Moves, AreDomains, Follows

\* Moves of the same nodes follow each other.
LEMMA MovesBoth ==
  ASSUME NEW f, NEW g, NEW h, NEW ids, Moves(f, g, ids), Moves(g, h, ids)
  PROVE  Moves(f, h, ids)
<1>1. ASSUME NEW i \in DOMAIN f PROVE Follows(f[i], h[i])
  <2>1. Follows(f[i], g[i]) /\ Follows(g[i], h[i])
    BY DEF Moves
  <2> QED
    BY <2>1, ReportedBoth DEF Follows
<1> QED
  BY <1>1 DEF Moves

\* A rule that returns at once.
LEMMA TouchesSelf ==
  ASSUME NEW s, NEW ids, IsState(s), ids \subseteq DOMAIN s.dom
  PROVE  Touches(s, s, ids)
BY MovesSelf DEF Touches, IsState, Same

\* A rule starts with nothing done.
LEMMA GoingRight ==
  ASSUME NEW f, AreDomains(f)
  PROVE  IsState(Going(f)) /\ Going(f).dom = f /\ Going(f).res = Unchanged
BY DEF Going, IsState, Results

\* A rule that ends in a conflict.
LEMMA FailedTouches ==
  ASSUME NEW s, NEW t, NEW ids, Touches(s, t, ids)
  PROVE  Touches(s, Failed(t), ids)
<1> DEFINE u == Failed(t)
<1>1. u = [dom |-> t.dom, res |-> Or(Conflict, t.res)]
  BY DEF Failed, Touches, IsState
<1>2. Or(Conflict, t.res) \in Results \ {Unchanged}
  BY DEF Or, Results, Unchanged, Changed, Updated, Conflict, Thrown, Touches, IsState
<1> HIDE DEF u
<1>3. IsState(u) /\ u.dom = t.dom /\ u.res # Unchanged
  BY <1>1, <1>2 DEF IsState, Touches
<1>4. Touches(s, u, ids)
  BY <1>3 DEF Touches
<1> QED
  BY <1>4 DEF u

\* An operation at one node that did r there.
LEMMA OnTouches ==
  ASSUME NEW s, NEW t, NEW ids, Touches(s, t, ids), NEW i \in ids,
         NEW r, Effect(Width(t.dom[i]), t.dom[i], r),
         NEW u, u = [dom |-> [t.dom EXCEPT ![i] = r.dom], res |-> Or(t.res, r.res)]
  PROVE  Touches(s, u, ids)
<1>1. i \in DOMAIN t.dom /\ i \in DOMAIN s.dom /\ DOMAIN t.dom = DOMAIN s.dom
  BY DEF Touches, Moves
<1>2. r.res \in Results /\ t.res \in Results /\ IsDomain(r.dom) /\ Follows(t.dom[i], r.dom)
  BY FollowsRight DEF Effect, Reported, Touches, IsState
<1>0. \E w : Wide(w, r.dom)
  BY <1>1, <1>2 DEF Follows, Reported, Keeps, Touches, IsState, AreDomains
<1>3. u.res \in Results /\ (u.res = Unchanged => t.res = Unchanged /\ r.res = Unchanged)
  BY <1>2, OrRight
<1>4. \A j \in DOMAIN t.dom : u.dom[j] = IF j = i THEN r.dom ELSE t.dom[j]
  BY <1>1
<1>5. DOMAIN u.dom = DOMAIN t.dom
  OBVIOUS
<1>6. IsState(u)
  BY <1>0, <1>2, <1>3, <1>4, <1>5 DEF IsState, AreDomains, Touches
<1>7. Moves(t.dom, u.dom, ids)
  <2>1. ASSUME NEW j \in DOMAIN t.dom PROVE Follows(t.dom[j], u.dom[j])
    <3>1. CASE j = i
      BY <1>2, <1>4, <3>1
    <3>2. CASE j # i
      <4>1. IsDomain(t.dom[j]) /\ u.dom[j] = t.dom[j]
        BY <1>4, <3>2 DEF Touches, IsState, AreDomains
      <4> QED
        BY <4>1, ReportedSelf DEF Follows
    <3> QED
      BY <3>1, <3>2
  <2> QED
    BY <1>4, <1>5, <1>6, <2>1 DEF Moves, IsState
<1>8. Moves(s.dom, u.dom, ids)
  BY <1>7, MovesBoth DEF Touches
<1>9. ASSUME u.res = Unchanged, NEW j \in DOMAIN s.dom
      PROVE  Same(s.dom[j], u.dom[j])
  <2>1. Same(s.dom[j], t.dom[j]) /\ Same(t.dom[i], r.dom)
    BY <1>3, <1>9 DEF Touches, Effect
  <2> QED
    BY <1>1, <1>4, <2>1 DEF Same
<1> QED
  BY <1>3, <1>6, <1>8, <1>9 DEF Touches

\* set_fixed of bits of a node the rule works on.
LEMMA SetBitsTouches ==
  ASSUME NEW s, NEW t, NEW ids, Touches(s, t, ids), NEW i \in ids, NEW b
  PROVE  Touches(s, SetBits(t, i, b), ids)
<1> DEFINE r == F(Width(t.dom[i]))!SetBits(t.dom[i], b)
           u == SetBits(t, i, b)
<1>1. u = IF Stopped(t) THEN t
          ELSE [dom |-> [t.dom EXCEPT ![i] = r.dom], res |-> Or(t.res, r.res)]
  BY DEF SetBits, On
<1>2. IsDomain(t.dom[i])
  BY DEF Touches, Moves, AreDomains, IsState
<1>3. Effect(Width(t.dom[i]), t.dom[i], r)
  BY <1>2, SetBitsEffect
<1> HIDE DEF u, r
<1>4. Touches(s, u, ids)
  BY <1>1, <1>3, OnTouches
<1> QED
  BY <1>4 DEF u

\* set_fixed of one bit.
LEMMA SetBitTouches ==
  ASSUME NEW s, NEW t, NEW ids, Touches(s, t, ids), NEW i \in ids, NEW k, NEW b
  PROVE  Touches(s, SetBit(t, i, k, b), ids)
BY SetBitsTouches DEF SetBit

\* apply_interval_constraint at a node the rule works on.
LEMMA ClipTouches ==
  ASSUME NEW s, NEW t, NEW ids, Touches(s, t, ids), NEW i \in ids, NEW c
  PROVE  Touches(s, Clip(t, i, c), ids)
<1> DEFINE r == F(Width(t.dom[i]))!Apply(t.dom[i], c)
           u == Clip(t, i, c)
<1>1. u = IF Stopped(t) THEN t
          ELSE [dom |-> [t.dom EXCEPT ![i] = r.dom], res |-> Or(t.res, r.res)]
  BY DEF Clip, On
<1>2. IsDomain(t.dom[i])
  BY DEF Touches, Moves, AreDomains, IsState
<1>3. Effect(Width(t.dom[i]), t.dom[i], r)
  BY <1>2, ApplyEffect
<1> HIDE DEF u, r
<1>4. Touches(s, u, ids)
  BY <1>1, <1>3, OnTouches
<1> QED
  BY <1>4 DEF u

\* tighten_interval at a node the rule works on.
LEMMA TightenIntervalOfTouches ==
  ASSUME NEW s, NEW t, NEW ids, Touches(s, t, ids), NEW i \in ids
  PROVE  Touches(s, TightenIntervalOf(t, i), ids)
<1> DEFINE r == F(Width(t.dom[i]))!TightenInterval(t.dom[i])
           u == TightenIntervalOf(t, i)
<1>1. u = IF Stopped(t) THEN t
          ELSE [dom |-> [t.dom EXCEPT ![i] = r.dom], res |-> Or(t.res, r.res)]
  BY DEF TightenIntervalOf, On
<1>2. IsDomain(t.dom[i])
  BY DEF Touches, Moves, AreDomains, IsState
<1>3. Effect(Width(t.dom[i]), t.dom[i], r)
  BY <1>2, TightenIntervalEffect
<1> HIDE DEF u, r
<1>4. Touches(s, u, ids)
  BY <1>1, <1>3, OnTouches
<1> QED
  BY <1>4 DEF u

\* tighten_fixed_bits at a node the rule works on.
LEMMA TightenBitsOfTouches ==
  ASSUME NEW s, NEW t, NEW ids, Touches(s, t, ids), NEW i \in ids
  PROVE  Touches(s, TightenBitsOf(t, i), ids)
<1> DEFINE r == F(Width(t.dom[i]))!TightenBits(t.dom[i])
           u == TightenBitsOf(t, i)
<1>1. u = IF Stopped(t) THEN t
          ELSE [dom |-> [t.dom EXCEPT ![i] = r.dom], res |-> Or(t.res, r.res)]
  BY DEF TightenBitsOf, On
<1>2. IsDomain(t.dom[i])
  BY DEF Touches, Moves, AreDomains, IsState
<1>3. Effect(Width(t.dom[i]), t.dom[i], r)
  BY <1>2, TightenBitsEffect
<1> HIDE DEF u, r
<1>4. Touches(s, u, ids)
  BY <1>1, <1>3, OnTouches
<1> QED
  BY <1>4 DEF u

\* set_constant: the bits, then the interval.
LEMMA SetConstantTouches ==
  ASSUME NEW s, NEW t, NEW ids, Touches(s, t, ids), NEW i \in ids, NEW v
  PROVE  Touches(s, SetConstant(t, i, v), ids)
<1> DEFINE b == [k \in DOMAIN t.dom[i].bits |-> Bit(v, k)]
<1>1. Touches(s, SetBits(t, i, b), ids)
  BY SetBitsTouches
<1> HIDE DEF b
<1>2. Touches(s, Clip(SetBits(t, i, b), i, Normal(v, v)), ids)
  BY <1>1, ClipTouches
<1> QED
  BY <1>2 DEF SetConstant, b

\* A loop of a rule that started in s.
Reached(s, ids, p, q, u, v, t, n) == Touches(s, t, ids)

\* The body of the loop of tighten_each_interval, for Turns.
IntervalStep(s, ids, ks, q, u, v, t, n) ==
  IF Stopped(t) THEN t ELSE TightenIntervalOf(t, ks[n])
\* The body of the loop of tighten_each_fixed_bits, for Turns.
BitsStep(s, ids, ks, q, u, v, t, n) ==
  IF Stopped(t) THEN t ELSE TightenBitsOf(t, ks[n])

IntervalTurns == INSTANCE Turns WITH P <- Reached, Step <- IntervalStep
BitsTurns == INSTANCE Turns WITH P <- Reached, Step <- BitsStep

\* tighten_each_interval and tighten_each_fixed_bits.
LEMMA TightenEachTouches ==
  ASSUME NEW s, NEW t, NEW ids, Touches(s, t, ids), NEW ks \in Seq(ids)
  PROVE  Touches(s, TightenEach(t, ks), ids)
<1> DEFINE u == InOrder(t, ks, TightenIntervalOf)
<1>1. Touches(s, u, ids)
  <2>1. \A x, n : n \in 1 .. Len(ks) /\ Reached(s, ids, ks, 0, 0, 0, x, n - 1) =>
          Reached(s, ids, ks, 0, 0, 0, IntervalStep(s, ids, ks, 0, 0, 0, x, n), n)
    BY TightenIntervalOfTouches DEF Reached, IntervalStep
  <2>2. Len(ks) \in Nat /\ Reached(s, ids, ks, 0, 0, 0, t, 0)
    BY DEF Reached
  <2>3. Reached(s, ids, ks, 0, 0, 0,
          LET after[n \in 0 .. Len(ks)] ==
                IF n = 0 THEN t ELSE IntervalStep(s, ids, ks, 0, 0, 0, after[n - 1], n)
          IN after[Len(ks)], Len(ks))
    BY <2>1, <2>2, IntervalTurns!TurnsKeep
  <2> QED
    BY <2>3 DEF Reached, InOrder, InTurn, IntervalStep
<1> HIDE DEF u
<1>2. Touches(s, InOrder(u, ks, TightenBitsOf), ids)
  <2>1. \A x, n : n \in 1 .. Len(ks) /\ Reached(s, ids, ks, 0, 0, 0, x, n - 1) =>
          Reached(s, ids, ks, 0, 0, 0, BitsStep(s, ids, ks, 0, 0, 0, x, n), n)
    BY TightenBitsOfTouches DEF Reached, BitsStep
  <2>2. Len(ks) \in Nat /\ Reached(s, ids, ks, 0, 0, 0, u, 0)
    BY <1>1 DEF Reached
  <2>3. Reached(s, ids, ks, 0, 0, 0,
          LET after[n \in 0 .. Len(ks)] ==
                IF n = 0 THEN u ELSE BitsStep(s, ids, ks, 0, 0, 0, after[n - 1], n)
          IN after[Len(ks)], Len(ks))
    BY <2>1, <2>2, BitsTurns!TurnsKeep
  <2> QED
    BY <2>3 DEF Reached, InOrder, InTurn, BitsStep
<1> QED
  BY <1>2 DEF TightenEach, u

-----------------------------------------------------------------------------
\* A bit of one node copied to another, or its complement.
LEMMA TieTouches ==
  ASSUME NEW s, NEW t, NEW ids, Touches(s, t, ids), NEW i \in ids, NEW j \in ids,
         NEW k, NEW l
  PROVE  /\ Touches(s, Tie(t, i, k, j, l, LAMBDA x : x), ids)
         /\ Touches(s, Tie(t, i, k, j, l, LAMBDA x : 1 - x), ids)
<1>1. \A b : Touches(s, SetBit(t, j, l, b), ids) /\ Touches(s, SetBit(t, i, k, b), ids)
  BY SetBitTouches
<1> QED
  BY <1>1 DEF Tie

\* The positions of a domain of a state are finitely many.
LEMMA UpwardRight ==
  ASSUME NEW s, NEW t, NEW ids, Touches(s, t, ids), NEW i \in ids
  PROVE  Len(Upward(Width(t.dom[i]))) \in Nat
<1>1. PICK w : Wide(w, t.dom[i])
  BY DEF Touches, Moves, IsState, AreDomains
<1>2. Width(t.dom[i]) = w /\ w \in Nat
  BY <1>1, WidthRight DEF Wide
<1> QED
  BY <1>2 DEF Upward

-----------------------------------------------------------------------------
(* Booleans, bit by bit, and parts.                                        *)

\* The body of the loop of not, for Turns.
OppositeStep(s, ids, r, o, a, w, t, n) ==
  IF Stopped(t) THEN t
  ELSE LET k == Upward(Width(r.dom[o]))[n]
       IN Tie(t, o, k, a, k, LAMBDA x : 1 - x)
OppositeTurns == INSTANCE Turns WITH P <- Reached, Step <- OppositeStep

\* Every bit of one node is the complement of that of another.
LEMMA OppositeTouches ==
  ASSUME NEW s, NEW t, NEW ids, Touches(s, t, ids), NEW o \in ids, NEW a \in ids
  PROVE  Touches(s, Opposite(t, o, a), ids)
<1> DEFINE ks == Upward(Width(t.dom[o]))
<1>1. \A x, n : n \in 1 .. Len(ks) /\ Reached(s, ids, t, o, a, 0, x, n - 1) =>
        Reached(s, ids, t, o, a, 0, OppositeStep(s, ids, t, o, a, 0, x, n), n)
  BY TieTouches DEF Reached, OppositeStep
<1>2. Len(ks) \in Nat /\ Reached(s, ids, t, o, a, 0, t, 0)
  BY UpwardRight DEF Reached
<1>3. Reached(s, ids, t, o, a, 0,
        LET after[n \in 0 .. Len(ks)] ==
              IF n = 0 THEN t ELSE OppositeStep(s, ids, t, o, a, 0, after[n - 1], n)
        IN after[Len(ks)], Len(ks))
  <2> HIDE DEF ks
  <2> QED
    BY <1>1, <1>2, OppositeTurns!TurnsKeep
<1> QED
  BY <1>3 DEF Reached, Opposite, InOrder, InTurn, OppositeStep

\* The rule of not.
LEMMA NotTouches ==
  ASSUME NEW s, NEW t, NEW ids, Touches(s, t, ids), NEW o \in ids, NEW a \in ids
  PROVE  Touches(s, Not(t, o, a), ids)
<1>1. Touches(s, Opposite(t, o, a), ids)
  BY OppositeTouches
<1>2. Touches(s, ClipMirror(Opposite(t, o, a), o, a), ids)
  BY <1>1, ClipTouches DEF ClipMirror
<1>3. Touches(s, ClipMirror(ClipMirror(Opposite(t, o, a), o, a), a, o), ids)
  BY <1>2, ClipTouches DEF ClipMirror
<1> QED
  BY <1>3 DEF Not

\* Which of the three, and whether, is of no consequence.
XorBit(t, o, a, b, k) ==
  LET id      == <<o, a, b>>
      unknown == {p \in 1 .. 3 : ~IsFixed(t.dom[id[p]], k)}
      ones    == {p \in 1 .. 3 : t.dom[id[p]].bits[k] = 1}
  IN IF Cardinality(unknown) # 1 THEN t
     ELSE SetBit(t, id[CHOOSE p \in unknown : TRUE], k, Cardinality(ones) % 2)

\* One bit of an exclusive or.
LEMMA XorBitTouches ==
  ASSUME NEW s, NEW t, NEW ids, Touches(s, t, ids),
         NEW o \in ids, NEW a \in ids, NEW b \in ids, NEW k
  PROVE  Touches(s, XorBit(t, o, a, b, k), ids)
<1> DEFINE id      == <<o, a, b>>
           unknown == {p \in 1 .. 3 : ~IsFixed(t.dom[id[p]], k)}
           c       == CHOOSE p \in unknown : TRUE
<1>1. ASSUME Cardinality(unknown) = 1 PROVE id[c] \in ids
  <2>1. unknown # {}
    BY <1>1, FS_EmptySet
  <2>2. c \in 1 .. 3
    BY <2>1
  <2>3. \A p \in 1 .. 3 : id[p] \in ids
    <3>1. \A p \in 1 .. 3 : p \in {1, 2, 3}
      OBVIOUS
    <3>2. id[1] = o /\ id[2] = a /\ id[3] = b
      OBVIOUS
    <3> HIDE DEF id
    <3> QED
      BY <3>1, <3>2
  <2> QED
    BY <2>2, <2>3
<1> HIDE DEF id, c
<1>2. \A v : Cardinality(unknown) = 1 => Touches(s, SetBit(t, id[c], k, v), ids)
  BY <1>1, SetBitTouches
<1> QED
  BY <1>2, Zenon DEF XorBit, id, c

\* The body of the loop of xor, for Turns.
XorStep(s, ids, r, o, a, b, t, n) ==
  IF Stopped(t) THEN t
  ELSE LET k == Upward(Width(r.dom[o]))[n]
       IN XorBit(t, o, a, b, k)
XorTurns == INSTANCE Turns WITH P <- Reached, Step <- XorStep

\* The rule of xor.
LEMMA XorTouches ==
  ASSUME NEW s, NEW t, NEW ids, Touches(s, t, ids), NEW o \in ids, NEW a \in ids, NEW b \in ids
  PROVE  Touches(s, Xor(t, o, a, b), ids)
<1> DEFINE ks == Upward(Width(t.dom[o]))
<1>1. \A x, n : n \in 1 .. Len(ks) /\ Reached(s, ids, t, o, a, b, x, n - 1) =>
        Reached(s, ids, t, o, a, b, XorStep(s, ids, t, o, a, b, x, n), n)
  BY XorBitTouches DEF Reached, XorStep
<1>2. Len(ks) \in Nat /\ Reached(s, ids, t, o, a, b, t, 0)
  BY UpwardRight DEF Reached
<1>3. Reached(s, ids, t, o, a, b,
        LET after[n \in 0 .. Len(ks)] ==
              IF n = 0 THEN t ELSE XorStep(s, ids, t, o, a, b, after[n - 1], n)
        IN after[Len(ks)], Len(ks))
  <2> HIDE DEF ks
  <2> QED
    BY <1>1, <1>2, XorTurns!TurnsKeep
<1> QED
  BY <1>3 DEF Reached, Xor, XorBit, InOrder, InTurn, XorStep

\* One bit of a conjunction.
LEMMA AndBitTouches ==
  ASSUME NEW s, NEW t, NEW ids, Touches(s, t, ids),
         NEW o \in ids, NEW a \in ids, NEW b \in ids, NEW k
  PROVE  Touches(s, AndBit(t, k, o, a, b), ids)
<1>1. \A v : Touches(s, SetBit(t, a, k, v), ids) /\ Touches(s, SetBit(t, b, k, v), ids)
             /\ Touches(s, SetBit(t, o, k, v), ids)
  BY SetBitTouches
<1>2. Touches(s, SetBit(SetBit(t, a, k, 1), b, k, 1), ids)
  BY <1>1, SetBitTouches
<1>3. Touches(s, Failed(t), ids)
  BY FailedTouches
<1> DEFINE out == t.dom[o].bits[k]
           kids    == <<t.dom[a].bits[k], t.dom[b].bits[k]>>
           unknown == {p \in 1 .. 2 : kids[p] = Free}
           u == AndBit(t, k, o, a, b)
<1>4. u \in {SetBit(SetBit(t, a, k, 1), b, k, 1), t, Failed(t), SetBit(t, o, k, 0),
             SetBit(t, o, k, 1), SetBit(t, IF 1 \in unknown THEN a ELSE b, k, 0)}
  BY Zenon DEF AndBit
<1> HIDE DEF u, unknown
<1>5. Touches(s, u, ids)
  BY <1>1, <1>2, <1>3, <1>4
<1> QED
  BY <1>5 DEF u

\* The body of the loop of and, for Turns.
AndBitsStep(s, ids, r, o, a, b, t, n) ==
  IF Stopped(t) THEN t
  ELSE LET k == Upward(Width(r.dom[o]))[n]
       IN AndBit(t, k, o, a, b)
AndBitsTurns == INSTANCE Turns WITH P <- Reached, Step <- AndBitsStep

\* All bits of a conjunction.
LEMMA AndBitsTouches ==
  ASSUME NEW s, NEW t, NEW ids, Touches(s, t, ids), NEW o \in ids, NEW a \in ids, NEW b \in ids
  PROVE  Touches(s, AndBits(t, o, a, b), ids)
<1> DEFINE ks == Upward(Width(t.dom[o]))
<1>1. \A x, n : n \in 1 .. Len(ks) /\ Reached(s, ids, t, o, a, b, x, n - 1) =>
        Reached(s, ids, t, o, a, b, AndBitsStep(s, ids, t, o, a, b, x, n), n)
  BY AndBitTouches DEF Reached, AndBitsStep
<1>2. Len(ks) \in Nat /\ Reached(s, ids, t, o, a, b, t, 0)
  BY UpwardRight DEF Reached
<1>3. Reached(s, ids, t, o, a, b,
        LET after[n \in 0 .. Len(ks)] ==
              IF n = 0 THEN t ELSE AndBitsStep(s, ids, t, o, a, b, after[n - 1], n)
        IN after[Len(ks)], Len(ks))
  <2> HIDE DEF ks
  <2> QED
    BY <1>1, <1>2, AndBitsTurns!TurnsKeep
<1> QED
  BY <1>3 DEF Reached, AndBits, InOrder, InTurn, AndBitsStep

\* The upper bound of a conjunction.
LEMMA NotAboveTouches ==
  ASSUME NEW s, NEW t, NEW ids, Touches(s, t, ids), NEW o \in ids, NEW i \in ids
  PROVE  Touches(s, NotAbove(t, o, i), ids)
BY FailedTouches, ClipTouches DEF NotAbove

\* The rule of and.
LEMMA AndTouches ==
  ASSUME NEW s, NEW t, NEW ids, Touches(s, t, ids),
         NEW o \in ids, NEW a \in ids, NEW b \in ids
  PROVE  Touches(s, And(t, o, a, b), ids)
<1> DEFINE u == AndBits(t, o, a, b)
<1>1. Touches(s, u, ids)
  BY AndBitsTouches
<1> HIDE DEF u
<1>2. Touches(s, NotAbove(u, o, a), ids)
  BY <1>1, NotAboveTouches
<1>3. Touches(s, NotAbove(NotAbove(u, o, a), o, b), ids)
  BY <1>2, NotAboveTouches
<1> QED
  BY <1>1, <1>3 DEF And, AndIntervals, u

\* The body of the loop of extract, for Turns.
ExtractStep(s, ids, r, o, a, low, t, n) ==
  IF Stopped(t) THEN t
  ELSE LET k == Upward(Width(r.dom[o]))[n]
       IN Tie(t, o, k, a, low + k, LAMBDA x : x)
ExtractTurns == INSTANCE Turns WITH P <- Reached, Step <- ExtractStep

\* The rule of extract.
LEMMA ExtractTouches ==
  ASSUME NEW s, NEW t, NEW ids, Touches(s, t, ids), NEW o \in ids, NEW a \in ids, NEW low
  PROVE  Touches(s, Extract(t, o, a, low), ids)
<1> DEFINE ks == Upward(Width(t.dom[o]))
<1>1. \A x, n : n \in 1 .. Len(ks) /\ Reached(s, ids, t, o, a, low, x, n - 1) =>
        Reached(s, ids, t, o, a, low, ExtractStep(s, ids, t, o, a, low, x, n), n)
  BY TieTouches DEF Reached, ExtractStep
<1>2. Len(ks) \in Nat /\ Reached(s, ids, t, o, a, low, t, 0)
  BY UpwardRight DEF Reached
<1>3. Reached(s, ids, t, o, a, low,
        LET after[n \in 0 .. Len(ks)] ==
              IF n = 0 THEN t ELSE ExtractStep(s, ids, t, o, a, low, after[n - 1], n)
        IN after[Len(ks)], Len(ks))
  <2> HIDE DEF ks
  <2> QED
    BY <1>1, <1>2, ExtractTurns!TurnsKeep
<1> QED
  BY <1>3 DEF Reached, Extract, InOrder, InTurn, ExtractStep

\* The body of the first loop of concat, for Turns.
ConcatLowStep(s, ids, r, o, b, w, t, n) ==
  IF Stopped(t) THEN t
  ELSE LET k == Upward(Width(r.dom[b]))[n]
       IN Tie(t, o, k, b, k, LAMBDA x : x)
ConcatLowTurns == INSTANCE Turns WITH P <- Reached, Step <- ConcatLowStep

\* The lower half of a concatenation.
LEMMA ConcatLowTouches ==
  ASSUME NEW s, NEW t, NEW ids, Touches(s, t, ids), NEW o \in ids, NEW b \in ids
  PROVE  Touches(s, InOrder(t, Upward(Width(t.dom[b])),
                            LAMBDA x, k : Tie(x, o, k, b, k, LAMBDA y : y)), ids)
<1> DEFINE ks == Upward(Width(t.dom[b]))
<1>1. \A x, n : n \in 1 .. Len(ks) /\ Reached(s, ids, t, o, b, 0, x, n - 1) =>
        Reached(s, ids, t, o, b, 0, ConcatLowStep(s, ids, t, o, b, 0, x, n), n)
  BY TieTouches DEF Reached, ConcatLowStep
<1>2. Len(ks) \in Nat /\ Reached(s, ids, t, o, b, 0, t, 0)
  BY UpwardRight DEF Reached
<1>3. Reached(s, ids, t, o, b, 0,
        LET after[n \in 0 .. Len(ks)] ==
              IF n = 0 THEN t ELSE ConcatLowStep(s, ids, t, o, b, 0, after[n - 1], n)
        IN after[Len(ks)], Len(ks))
  <2> HIDE DEF ks
  <2> QED
    BY <1>1, <1>2, ConcatLowTurns!TurnsKeep
<1> QED
  BY <1>3 DEF Reached, Tie, InOrder, InTurn, ConcatLowStep

\* The body of the loop over the bits of both choices, for Turns.
SharedBitsStep(s, ids, r, o, a, b, t, n) ==
  IF Stopped(t) THEN t
  ELSE LET k == Upward(Width(r.dom[o]))[n]
       IN LET x == t.dom[a].bits[k]
          IN IF x # Free /\ x = t.dom[b].bits[k] THEN SetBit(t, o, k, x) ELSE t
SharedBitsTurns == INSTANCE Turns WITH P <- Reached, Step <- SharedBitsStep

\* Bits that both choices have.
LEMMA SharedBitsTouches ==
  ASSUME NEW s, NEW t, NEW ids, Touches(s, t, ids), NEW o \in ids, NEW a \in ids, NEW b \in ids
  PROVE  Touches(s, SharedBits(t, o, a, b), ids)
<1> DEFINE ks == Upward(Width(t.dom[o]))
<1>1. \A x, n : n \in 1 .. Len(ks) /\ Reached(s, ids, t, o, a, b, x, n - 1) =>
        Reached(s, ids, t, o, a, b, SharedBitsStep(s, ids, t, o, a, b, x, n), n)
  BY SetBitTouches DEF Reached, SharedBitsStep
<1>2. Len(ks) \in Nat /\ Reached(s, ids, t, o, a, b, t, 0)
  BY UpwardRight DEF Reached
<1>3. Reached(s, ids, t, o, a, b,
        LET after[n \in 0 .. Len(ks)] ==
              IF n = 0 THEN t ELSE SharedBitsStep(s, ids, t, o, a, b, after[n - 1], n)
        IN after[Len(ks)], Len(ks))
  <2> HIDE DEF ks
  <2> QED
    BY <1>1, <1>2, SharedBitsTurns!TurnsKeep
<1> QED
  BY <1>3 DEF Reached, SharedBits, InOrder, InTurn, SharedBitsStep

\* The body of the second loop of concat, for Turns.
ConcatHighStep(s, ids, r, o, a, b, t, n) ==
  IF Stopped(t) THEN t
  ELSE LET k == Upward(Width(r.dom[a]))[n]
       IN Tie(t, o, Width(r.dom[b]) + k, a, k, LAMBDA x : x)
ConcatHighTurns == INSTANCE Turns WITH P <- Reached, Step <- ConcatHighStep

\* The rule of concat.
LEMMA ConcatTouches ==
  ASSUME NEW s, NEW t, NEW ids, Touches(s, t, ids),
         NEW o \in ids, NEW a \in ids, NEW b \in ids
  PROVE  Touches(s, Concat(t, o, a, b), ids)
<1> DEFINE low == InOrder(t, Upward(Width(t.dom[b])),
                          LAMBDA x, k : Tie(x, o, k, b, k, LAMBDA y : y))
           ks == Upward(Width(t.dom[a]))
<1>1. Touches(s, low, ids)
  BY ConcatLowTouches
<1> HIDE DEF low
<1>2. \A x, n : n \in 1 .. Len(ks) /\ Reached(s, ids, t, o, a, b, x, n - 1) =>
        Reached(s, ids, t, o, a, b, ConcatHighStep(s, ids, t, o, a, b, x, n), n)
  BY TieTouches DEF Reached, ConcatHighStep
<1>3. Len(ks) \in Nat /\ Reached(s, ids, t, o, a, b, low, 0)
  BY <1>1, UpwardRight DEF Reached
<1>4. Reached(s, ids, t, o, a, b,
        LET after[n \in 0 .. Len(ks)] ==
              IF n = 0 THEN low ELSE ConcatHighStep(s, ids, t, o, a, b, after[n - 1], n)
        IN after[Len(ks)], Len(ks))
  <2> HIDE DEF ks
  <2> QED
    BY <1>2, <1>3, ConcatHighTurns!TurnsKeep
<1>5. Touches(s, InOrder(low, Upward(Width(t.dom[a])), LAMBDA x, k :
        Tie(x, o, Width(t.dom[b]) + k, a, k, LAMBDA y : y)), ids)
  BY <1>4 DEF Reached, InOrder, InTurn, ConcatHighStep, Tie
<1> QED
  BY <1>5 DEF Concat, low

-----------------------------------------------------------------------------
(* Comparisons.                                                            *)

-----------------------------------------------------------------------------
(* Comparisons.                                                            *)

\* A comparison of single bits.
LEMMA LessByBitsTouches ==
  ASSUME NEW s, NEW t, NEW ids, Touches(s, t, ids), NEW i \in ids, NEW j \in ids,
         NEW strict, NEW lo, NEW hi
  PROVE  /\ Touches(s, UnsignedLessByBits(t, i, j, strict, lo, hi), ids)
         /\ Touches(s, SignedLessByBits(t, i, j, strict, lo, hi), ids)
<1>1. \A top : Touches(s, LowerBits(t, i, top, strict, lo, hi), ids)
  BY SetBitsTouches DEF LowerBits
<1>2. \A top : Touches(s, RaiseBits(LowerBits(t, i, top, strict, lo, hi),
                                  j, top, strict, lo, hi), ids)
  BY <1>1, SetBitsTouches DEF RaiseBits
<1>3. Touches(s, Failed(t), ids)
  BY FailedTouches
<1> QED
  BY <1>2, <1>3, Zenon DEF UnsignedLessByBits, SignedLessByBits

\* The bounds of an unsigned comparison.
LEMMA UnsignedLessTouches ==
  ASSUME NEW s, NEW t, NEW ids, Touches(s, t, ids), NEW i \in ids, NEW j \in ids, NEW strict
  PROVE  Touches(s, UnsignedLess(t, i, j, strict), ids)
<1>1. \A lo, hi : Touches(s, UnsignedLessByBits(t, i, j, strict, lo, hi), ids)
  BY LessByBitsTouches
<1>2. \A gap : Touches(s, CutBelow(t, i, j, gap), ids)
  BY ClipTouches DEF CutBelow
<1>3. \A gap : Touches(s, CutAbove(CutBelow(t, i, j, gap), i, j, gap), ids)
  BY <1>2, ClipTouches DEF CutAbove
<1>4. Touches(s, Failed(t), ids)
  BY FailedTouches
<1> QED
  BY <1>1, <1>3, <1>4, Zenon DEF UnsignedLess

\* The rule of ult.
LEMMA UltTouches ==
  ASSUME NEW s, NEW t, NEW ids, Touches(s, t, ids),
         NEW o \in ids, NEW i \in ids, NEW j \in ids
  PROVE  Touches(s, Ult(t, o, i, j), ids)
<1> DEFINE u == UltOutput(t, o, i, j)
<1>1. Touches(s, u, ids)
  BY SetBitTouches DEF UltOutput
<1> HIDE DEF u
<1>2. Touches(s, UnsignedLess(u, i, j, TRUE), ids) /\ Touches(s, UnsignedLess(u, j, i, FALSE), ids)
  BY <1>1, UnsignedLessTouches
<1> QED
  BY <1>1, <1>2 DEF Ult, UltOperands, u

\* An interval of signed values, cut out of the unsigned ones.
LEMMA SignedCutTouches ==
  ASSUME NEW s, NEW t, NEW ids, Touches(s, t, ids), NEW i \in ids, NEW j \in ids,
         NEW x, NEW y, NEW gap
  PROVE  Touches(s, SignedCut(t, i, j, x, y, gap), ids)
<1> DEFINE below == IF IntervalHi(x) > IntervalHi(y) - gap
                      THEN ClipSigned(t, i, IntervalLo(x), IntervalHi(y) - gap) ELSE t
<1>1. Touches(s, below, ids)
  BY ClipTouches DEF ClipSigned
<1> HIDE DEF below
<1>2. Touches(s, ClipSigned(below, j, IntervalLo(x) + gap, IntervalHi(y)), ids)
  BY <1>1, ClipTouches DEF ClipSigned
<1> QED
  BY <1>1, <1>2, Zenon DEF SignedCut, below

\* The bounds of a signed comparison.
LEMMA SignedLessTouches ==
  ASSUME NEW s, NEW t, NEW ids, Touches(s, t, ids), NEW i \in ids, NEW j \in ids, NEW strict
  PROVE  Touches(s, SignedLess(t, i, j, strict), ids)
<1>1. \A lo, hi : Touches(s, SignedLessByBits(t, i, j, strict, lo, hi), ids)
  BY LessByBitsTouches
<1>2. \A x, y, gap : Touches(s, SignedCut(t, i, j, x, y, gap), ids)
  BY SignedCutTouches
<1>3. Touches(s, Failed(t), ids)
  BY FailedTouches
<1> QED
  BY <1>1, <1>2, <1>3, Zenon DEF SignedLess

\* The rule of slt.
LEMMA SltTouches ==
  ASSUME NEW s, NEW t, NEW ids, Touches(s, t, ids),
         NEW o \in ids, NEW i \in ids, NEW j \in ids
  PROVE  Touches(s, Slt(t, o, i, j), ids)
<1> DEFINE u == SltOutput(t, o, i, j)
<1>1. Touches(s, u, ids)
  BY SetBitTouches DEF SltOutput
<1> HIDE DEF u
<1>2. Touches(s, SignedLess(u, i, j, TRUE), ids) /\ Touches(s, SignedLess(u, j, i, FALSE), ids)
  BY <1>1, SignedLessTouches
<1> QED
  BY <1>1, <1>2 DEF Slt, SltOperands, u

\* The body of the loop of equal, for Turns.
SameBitsStep(s, ids, r, i, j, w, t, n) ==
  IF Stopped(t) THEN t
  ELSE LET k == Upward(Width(r.dom[i]))[n]
       IN SameBit(t, i, j, k)
SameBitsTurns == INSTANCE Turns WITH P <- Reached, Step <- SameBitsStep

\* Bits of equal nodes, both ways.
LEMMA SameBitsTouches ==
  ASSUME NEW s, NEW t, NEW ids, Touches(s, t, ids), NEW i \in ids, NEW j \in ids
  PROVE  Touches(s, InOrder(t, Upward(Width(t.dom[i])), LAMBDA x, k : SameBit(x, i, j, k)), ids)
<1> DEFINE ks == Upward(Width(t.dom[i]))
<1>1. \A x, n : n \in 1 .. Len(ks) /\ Reached(s, ids, t, i, j, 0, x, n - 1) =>
        Reached(s, ids, t, i, j, 0, SameBitsStep(s, ids, t, i, j, 0, x, n), n)
  BY SetBitTouches DEF Reached, SameBitsStep, SameBit
<1>2. Len(ks) \in Nat /\ Reached(s, ids, t, i, j, 0, t, 0)
  BY UpwardRight DEF Reached
<1>3. Reached(s, ids, t, i, j, 0,
        LET after[n \in 0 .. Len(ks)] ==
              IF n = 0 THEN t ELSE SameBitsStep(s, ids, t, i, j, 0, after[n - 1], n)
        IN after[Len(ks)], Len(ks))
  <2> HIDE DEF ks
  <2> QED
    BY <1>1, <1>2, SameBitsTurns!TurnsKeep
<1> QED
  BY <1>3 DEF Reached, SameBit, InOrder, InTurn, SameBitsStep

\* What the bits say about an equality.
LEMMA EqualBitsTouches ==
  ASSUME NEW s, NEW t, NEW ids, Touches(s, t, ids),
         NEW o \in ids, NEW i \in ids, NEW j \in ids
  PROVE  Touches(s, EqualBits(t, o, i, j), ids)
<1>1. Touches(s, InOrder(t, Upward(Width(t.dom[i])), LAMBDA x, k : SameBit(x, i, j, k)), ids)
  BY SameBitsTouches
<1>2. \A k, v : Touches(s, SetBit(t, i, k, v), ids) /\ Touches(s, SetBit(t, j, k, v), ids)
                /\ Touches(s, SetBit(t, o, k, v), ids)
  BY SetBitTouches
<1>3. Touches(s, Failed(t), ids)
  BY FailedTouches
<1>4. Touches(s, DifferentBits(t, i, j), ids)
  <2> DEFINE x    == t.dom[i].bits
             y    == t.dom[j].bits
             open == {k \in DOMAIN x : Free \in {x[k], y[k]}}
             same == \A k \in DOMAIN x \ open : x[k] = y[k]
             last == CHOOSE k \in open : TRUE
  <2>1. \/ DifferentBits(t, i, j) = IF same THEN Failed(t) ELSE t
        \/ DifferentBits(t, i, j) = SetBit(t, j, last, 1 - x[last])
        \/ DifferentBits(t, i, j) = SetBit(t, i, last, 1 - y[last])
        \/ DifferentBits(t, i, j) = t
    <3>1. DifferentBits(t, i, j) =
            CASE open = {} -> IF same THEN Failed(t) ELSE t
              [] Cardinality(open) = 1 /\ same /\ x[last] # Free -> SetBit(t, j, last, 1 - x[last])
              [] Cardinality(open) = 1 /\ same /\ y[last] # Free -> SetBit(t, i, last, 1 - y[last])
              [] OTHER -> t
      BY Zenon DEF DifferentBits
    <3> HIDE DEF x, y, open, same, last
    <3> QED
      BY <3>1
  <2> QED
    BY <1>2, <1>3, <2>1, Zenon
<1>5. Touches(s, CompareBits(t, o, i, j), ids)
  BY <1>2, Zenon DEF CompareBits
<1> QED
  BY <1>1, <1>4, <1>5, Zenon DEF EqualBits

\* Intervals of equal nodes.
LEMMA AlignTouches ==
  ASSUME NEW s, NEW t, NEW ids, Touches(s, t, ids), NEW i \in ids, NEW j \in ids
  PROVE  Touches(s, Align(t, i, j), ids)
<1>1. Touches(s, ClipLike(t, i, j), ids)
  BY ClipTouches DEF ClipLike
<1> QED
  BY <1>1, ClipTouches DEF ClipLike, Align

\* The rule of equal.
LEMMA EqualTouches ==
  ASSUME NEW s, NEW t, NEW ids, Touches(s, t, ids),
         NEW o \in ids, NEW i \in ids, NEW j \in ids
  PROVE  Touches(s, Equal(t, o, i, j), ids)
<1> DEFINE u == EqualBits(t, o, i, j)
<1>1. Touches(s, u, ids)
  BY EqualBitsTouches
<1> HIDE DEF u
<1>2. Touches(s, Align(u, i, j), ids) /\ Touches(s, SetBit(u, o, 0, 0), ids)
  BY <1>1, AlignTouches, SetBitTouches
<1> QED
  BY <1>1, <1>2, Zenon DEF Equal, EqualIntervals, u

-----------------------------------------------------------------------------
(* Nodes that a rule adds for itself.                                      *)

\* Nodes that rules add to the state for themselves.
OwnIds == {OwnNode, TurnedOp, TurnedOut}

\* What is done with them leaves the others as an operation would.
LEMMA WithoutTouches ==
  ASSUME NEW s, NEW t, NEW ids, Touches(s, t, ids), NEW own, own \cap DOMAIN t.dom = {},
         NEW e, IsState(e), e.res = t.res, DOMAIN e.dom = DOMAIN t.dom \cup own,
         \A j \in DOMAIN t.dom : e.dom[j] = t.dom[j],
         NEW x, Touches(e, x, ids \cup own)
  PROVE  Touches(s, Without(x, own), ids)
<1> DEFINE u == Without(x, own)
<1>1. u = [dom |-> [n \in DOMAIN x.dom \ own |-> x.dom[n]], res |-> x.res]
  BY DEF Without, Touches, IsState
<1> HIDE DEF u
<1>2. DOMAIN x.dom = DOMAIN e.dom
  BY DEF Touches, Moves
<1>3. DOMAIN x.dom \ own = DOMAIN t.dom
  BY <1>2
<1>4. /\ DOMAIN u.dom = DOMAIN t.dom /\ u.res = x.res
      /\ \A j \in DOMAIN t.dom : u.dom[j] = x.dom[j]
  BY <1>1, <1>3
<1>5. IsState(u)
  BY <1>1, <1>2, <1>3, <1>4 DEF IsState, Touches, AreDomains
<1>6. Moves(t.dom, u.dom, ids)
  <2>1. \A j \in DOMAIN t.dom : Follows(t.dom[j], u.dom[j])
    BY <1>4 DEF Touches, Moves
  <2>2. \A j \in DOMAIN t.dom \ ids : u.dom[j] = t.dom[j]
    BY <1>4 DEF Touches, Moves
  <2> QED
    BY <1>4, <1>5, <2>1, <2>2 DEF Moves, IsState
<1>7. Moves(s.dom, u.dom, ids)
  BY <1>6, MovesBoth DEF Touches
<1>8. ASSUME u.res = Unchanged, NEW j \in DOMAIN s.dom
      PROVE  s.res = Unchanged /\ Same(s.dom[j], u.dom[j])
  <2>1. j \in DOMAIN t.dom
    BY DEF Touches, Moves
  <2>2. e.res = Unchanged /\ Same(e.dom[j], x.dom[j])
    BY <1>4, <1>8, <2>1 DEF Touches
  <2>3. s.res = Unchanged /\ Same(s.dom[j], t.dom[j])
    BY <2>2 DEF Touches
  <2> QED
    BY <1>4, <2>1, <2>2, <2>3 DEF Same
<1>9. Touches(s, u, ids)
  <2>1. u.res = Unchanged => s.res = Unchanged
    <3> SUFFICES ASSUME u.res = Unchanged PROVE s.res = Unchanged
      OBVIOUS
    <3>1. e.res = Unchanged
      BY <1>4 DEF Touches
    <3> QED
      BY <3>1 DEF Touches
  <2> QED
    BY <1>5, <1>7, <1>8, <2>1 DEF Touches
<1> QED
  BY <1>9 DEF u

\* The rule of equal for an output of its own.
LEMMA MakeEqualTouches ==
  ASSUME NEW s, NEW t, NEW ids, Touches(s, t, ids), OwnNode \notin DOMAIN t.dom,
         NEW i \in ids, NEW j \in ids
  PROVE  Touches(s, MakeEqual(t, i, j), ids)
<1> DEFINE c == ConstantDomain(1, 1)
           own == {OwnNode}
           e == [t EXCEPT !.dom = [n \in DOMAIN t.dom \union {OwnNode} |->
                    IF n = OwnNode THEN c ELSE t.dom[n]]]
<1>1. IsDomain(c) /\ Wide(1, c)
  BY ConstantDomainRight
<1> HIDE DEF c
<1>2. e = [dom |-> [n \in DOMAIN t.dom \union {OwnNode} |-> IF n = OwnNode THEN c ELSE t.dom[n]],
           res |-> t.res]
  BY DEF Touches, IsState
<1>3. DOMAIN e.dom = DOMAIN t.dom \cup own /\ e.res = t.res
  BY <1>2
<1>4. \A n \in DOMAIN e.dom : e.dom[n] = IF n = OwnNode THEN c ELSE t.dom[n]
  BY <1>2
<1>5. IsState(e)
  BY <1>1, <1>2, <1>3, <1>4 DEF IsState, AreDomains, Touches
<1>6. \A n \in DOMAIN t.dom : e.dom[n] = t.dom[n]
  BY <1>3, <1>4
<1>7. Equated(t, c, i, j) = Equal(e, OwnNode, i, j)
  BY Zenon DEF Equated
<1> HIDE DEF e
<1>8. Touches(e, e, ids \cup own)
  BY <1>3, <1>5, TouchesSelf DEF Touches, Moves
<1>9. Touches(e, Equal(e, OwnNode, i, j), ids \cup own)
  BY <1>8, EqualTouches
<1>10. Touches(s, Without(Equal(e, OwnNode, i, j), own), ids)
  BY <1>3, <1>5, <1>6, <1>9, WithoutTouches
<1> QED
  BY <1>7, <1>10 DEF MakeEqual, c

-----------------------------------------------------------------------------
(* Choices.                                                                *)

\* The body of the loop over the choices, for Turns.
DecideGuardStep(s, ids, r, o, g, ks, t, n) ==
  IF Stopped(t) THEN t
  ELSE LET p == ks[n]
       IN IF SeemEqual(t, p[1], o) THEN t ELSE SetBit(t, g, 0, p[2])
DecideGuardTurns == INSTANCE Turns WITH P <- Reached, Step <- DecideGuardStep

\* The guard of a choice, from the children that differ from the node.
LEMMA DecideGuardTouches ==
  ASSUME NEW s, NEW t, NEW ids, Touches(s, t, ids), NEW o, NEW g \in ids, NEW a, NEW b
  PROVE  Touches(s, DecideGuard(t, o, g, a, b), ids)
<1> DEFINE ks == <<<<a, 0>>, <<b, 1>>>>
<1>2. Len(ks) \in Nat
  OBVIOUS
<1> HIDE DEF ks
<1>1. \A x, n : n \in 1 .. Len(ks) /\ Reached(s, ids, t, o, g, ks, x, n - 1) =>
        Reached(s, ids, t, o, g, ks, DecideGuardStep(s, ids, t, o, g, ks, x, n), n)
  BY SetBitTouches DEF Reached, DecideGuardStep
<1>3. Reached(s, ids, t, o, g, ks, t, 0)
  BY DEF Reached
<1>4. Reached(s, ids, t, o, g, ks,
        LET after[n \in 0 .. Len(ks)] ==
              IF n = 0 THEN t ELSE DecideGuardStep(s, ids, t, o, g, ks, after[n - 1], n)
        IN after[Len(ks)], Len(ks))
  BY <1>1, <1>2, <1>3, DecideGuardTurns!TurnsKeep
<1>5. Touches(s, InOrder(t, ks, LAMBDA x, p :
         IF SeemEqual(x, p[1], o) THEN x ELSE SetBit(x, g, 0, p[2])), ids)
  BY <1>4 DEF Reached, InOrder, InTurn, DecideGuardStep
<1>6. Touches(s, Failed(t), ids)
  BY FailedTouches
<1> QED
  BY <1>5, <1>6 DEF DecideGuard, ks

\* The rule of ite.
LEMMA IteTouches ==
  ASSUME NEW s, NEW t, NEW ids, Touches(s, t, ids), OwnNode \notin DOMAIN t.dom,
         NEW o \in ids, NEW g \in ids, NEW a \in ids, NEW b \in ids
  PROVE  Touches(s, Ite(t, o, g, a, b), ids)
<1>1. Touches(s, MakeEqual(t, a, o), ids) /\ Touches(s, MakeEqual(t, b, o), ids)
  BY MakeEqualTouches
<1>2. Touches(s, SharedBits(t, o, a, b), ids)
  BY SharedBitsTouches
<1>3. Touches(s, DecideGuard(SharedBits(t, o, a, b), o, g, a, b), ids)
  BY <1>2, DecideGuardTouches
<1> QED
  BY <1>1, <1>3 DEF Ite

-----------------------------------------------------------------------------
(* Sums and products.                                                      *)

\* An interval of values that may have wrapped around.
LEMMA ClipModuloTouches ==
  ASSUME NEW s, NEW t, NEW ids, Touches(s, t, ids), NEW i \in ids, NEW lo, NEW hi
  PROVE  Touches(s, ClipModulo(t, i, lo, hi), ids)
<1>1. \A c : Touches(s, Clip(t, i, c), ids)
  BY ClipTouches
<1> QED
  BY <1>1, Zenon DEF ClipModulo

-----------------------------------------------------------------------------
(* Addition.                                                               *)

\* A column of an addition, with its carry.
IsColumn(st) == st = [s |-> st.s, carry |-> st.carry, i |-> st.i]

\* A loop over the columns.
ColumnTouches(s, st, ids) == IsColumn(st) /\ Touches(s, st.s, ids)

\* One column of an addition.
LEMMA AddColumnTouches ==
  ASSUME NEW s, NEW st, NEW ids, ColumnTouches(s, st, ids),
         NEW o \in ids, NEW a \in ids, NEW b \in ids
  PROVE  ColumnTouches(s, AddColumn(st, o, a, b), ids)
<1>1. ASSUME NEW t, Touches(s, t, ids), NEW n \in ids, NEW k, NEW v
      PROVE  Touches(s, SetFree(t, n, k, v), ids)
  BY <1>1, SetBitTouches DEF SetFree
<1>2. ASSUME NEW low, NEW rest, NEW carry
      PROVE  ColumnTouches(s, SumColumn(st, o, a, b, low, rest, carry), ids)
  <2> DEFINE sum == SetBit(st.s, o, st.i, low % 2)
  <2>1. Touches(s, sum, ids)
    BY SetBitTouches DEF ColumnTouches
  <2> HIDE DEF sum
  <2>2. Touches(s, SetFree(sum, a, st.i, rest), ids)
    BY <1>1, <2>1
  <2>3. Touches(s, SetFree(SetFree(sum, a, st.i, rest), b, st.i, rest), ids)
    BY <1>1, <2>2
  <2> DEFINE x == IF rest = Free THEN sum
                  ELSE SetFree(SetFree(sum, a, st.i, rest), b, st.i, rest)
  <2>4. Touches(s, x, ids)
    BY <2>1, <2>3
  <2>5. \E c, i : SumColumn(st, o, a, b, low, rest, carry) = [s |-> x, carry |-> c, i |-> i]
    BY Zenon DEF SumColumn, sum
  <2> HIDE DEF x
  <2> QED
    BY <2>4, <2>5 DEF ColumnTouches, IsColumn
<1>3. ASSUME NEW lb, NEW ub, NEW low, NEW high
      PROVE  ColumnTouches(s, BoundColumn(st, o, a, b, lb, ub, low, high), ids)
  <2> DEFINE out == IF low >= 2 THEN 1 ELSE IF high <= 1 THEN 0 ELSE st.carry[st.i + 1]
             carry == [st.carry EXCEPT ![st.i + 1] = out]
             u == BoundColumn(st, o, a, b, lb, ub, low, high)
  <2>1. \/ u = [st EXCEPT !.s = Failed(st.s)]
        \/ u = [st EXCEPT !.carry = carry, !.i = @ + 1]
        \/ u = SumColumn(st, o, a, b, low, Forced(lb, ub, low), carry)
    BY Zenon DEF BoundColumn
  <2> HIDE DEF carry, u
  <2>2. Touches(s, Failed(st.s), ids)
    BY FailedTouches DEF ColumnTouches
  <2>3. ColumnTouches(s, [st EXCEPT !.s = Failed(st.s)], ids)
    BY <2>2 DEF ColumnTouches, IsColumn
  <2>4. ColumnTouches(s, [st EXCEPT !.carry = carry, !.i = @ + 1], ids)
    <3>1. PICK e, c, i : st = [s |-> e, carry |-> c, i |-> i]
      BY DEF ColumnTouches, IsColumn
    <3> DEFINE next == i + 1
               x == [st EXCEPT !.carry = carry]
               y == [x EXCEPT !.i = next]
    <3>2. [st EXCEPT !.carry = carry, !.i = @ + 1] = y
      BY <3>1
    <3> HIDE DEF next
    <3>3. x = [s |-> e, carry |-> carry, i |-> i]
      BY <3>1
    <3> HIDE DEF x
    <3>4. y = [s |-> e, carry |-> carry, i |-> next]
      BY <3>3
    <3> HIDE DEF y
    <3>5. ColumnTouches(s, y, ids)
      BY <3>1, <3>4 DEF ColumnTouches, IsColumn
    <3> QED
      BY <3>2, <3>5
  <2>5. ColumnTouches(s, u, ids)
    BY <1>2, <2>1, <2>3, <2>4
  <2> QED
    BY <2>5 DEF u
<1> QED
  BY <1>3, Zenon DEF AddColumn, CountColumn

\* A loop over columns that started in s.
ColumnReached(s, ids, p, q, u, v, t, n) == ColumnTouches(s, t, ids)

\* The body of the loop of add, for Turns.
AddStep(s, ids, r, o, a, b, t, n) ==
  IF ~Stopped(t.s) /\ t.i < Width(r.dom[o]) THEN AddColumn(t, o, a, b) ELSE t
AddTurns == INSTANCE Turns WITH P <- ColumnReached, Step <- AddStep

\* All columns of an addition.
LEMMA AddColumnsTouches ==
  ASSUME NEW s, NEW t, NEW ids, Touches(s, t, ids),
         NEW o \in ids, NEW a \in ids, NEW b \in ids
  PROVE  Touches(s, AddColumns(t, o, a, b), ids)
<1> DEFINE w == Width(t.dom[o])
           st == [s |-> t, i |-> 0, carry |-> [i \in 0 .. w |-> IF i = 0 THEN 0 ELSE Free]]
           m == 3 * w
<1>1. w \in Nat
  BY WidthRight DEF Touches, Moves, IsState, AreDomains, Wide
<1>2. m \in Nat
  BY <1>1
<1>3. ColumnReached(s, ids, t, o, a, b, st, 0)
  BY DEF ColumnReached, ColumnTouches, IsColumn
<1>4. \A x, n : n \in 1 .. m /\ ColumnReached(s, ids, t, o, a, b, x, n - 1) =>
        ColumnReached(s, ids, t, o, a, b, AddStep(s, ids, t, o, a, b, x, n), n)
  BY AddColumnTouches DEF ColumnReached, AddStep
<1>5. ColumnReached(s, ids, t, o, a, b,
        LET after[n \in 0 .. m] ==
              IF n = 0 THEN st ELSE AddStep(s, ids, t, o, a, b, after[n - 1], n)
        IN after[m], m)
  <2> HIDE DEF m, st
  <2> QED
    BY <1>2, <1>3, <1>4, AddTurns!TurnsKeep
<1>6. ColumnTouches(s, Loop(st, m, LAMBDA x : ~Stopped(x.s) /\ x.i < w,
                            LAMBDA x : AddColumn(x, o, a, b)), ids)
  BY <1>5 DEF ColumnReached, Loop, AddStep
<1> HIDE DEF m, st
<1>7. Touches(s, Loop(st, m, LAMBDA x : ~Stopped(x.s) /\ x.i < w,
                      LAMBDA x : AddColumn(x, o, a, b)).s, ids)
  BY <1>6 DEF ColumnTouches
<1> QED
  BY <1>7 DEF AddColumns, st, m

\* The rule of add.
LEMMA AddTouches ==
  ASSUME NEW s, NEW t, NEW ids, Touches(s, t, ids),
         NEW o \in ids, NEW a \in ids, NEW b \in ids
  PROVE  Touches(s, Add(t, o, a, b), ids)
<1> DEFINE x == AddColumns(t, o, a, b)
           y == AddUp(x, o, a, b)
           z == TakeAway(y, o, a, b)
<1>1. Touches(s, x, ids)
  BY AddColumnsTouches
<1> HIDE DEF x
<1>2. Touches(s, y, ids)
  BY <1>1, ClipModuloTouches DEF AddUp, Plus
<1> HIDE DEF y
<1>3. Touches(s, z, ids)
  BY <1>2, ClipModuloTouches DEF TakeAway, Plus
<1> HIDE DEF z
<1>4. Touches(s, TakeAway(z, o, b, a), ids)
  BY <1>3, ClipModuloTouches DEF TakeAway, Plus
<1> QED
  BY <1>4 DEF Add, x, y, z

-----------------------------------------------------------------------------
(* Multiplication.                                                         *)

\* What is done from a state's domains anew, whatever of its result is kept.
LEMMA TouchesThen ==
  ASSUME NEW s, NEW t, NEW ids, Touches(s, t, ids),
         NEW x, Touches(Going(t.dom), x, ids),
         NEW u, IsState(u), u.dom = x.dom,
         u.res = Unchanged => t.res = Unchanged /\ x.res = Unchanged
  PROVE  Touches(s, u, ids)
<1>1. Going(t.dom).dom = t.dom
  BY DEF Going
<1>2. Moves(t.dom, u.dom, ids)
  BY <1>1 DEF Touches
<1>3. Moves(s.dom, u.dom, ids)
  BY <1>2, MovesBoth DEF Touches
<1>4. ASSUME u.res = Unchanged, NEW j \in DOMAIN s.dom
      PROVE  Same(s.dom[j], u.dom[j])
  <2>1. Same(s.dom[j], t.dom[j])
    BY <1>4 DEF Touches
  <2>2. j \in DOMAIN t.dom
    BY DEF Touches, Moves
  <2>3. Same(t.dom[j], x.dom[j])
    BY <1>1, <1>4, <2>2 DEF Touches
  <2> QED
    BY <2>1, <2>3 DEF Same
<1>5. u.res = Unchanged => s.res = Unchanged
  BY DEF Touches
<1> QED
  BY <1>3, <1>4, <1>5 DEF Touches

\* A rule that starts from the domains of another.
LEMMA GoingTouches ==
  ASSUME NEW s, NEW t, NEW ids, Touches(s, t, ids)
  PROVE  Touches(Going(t.dom), Going(t.dom), ids)
BY GoingRight, TouchesSelf DEF Touches, IsState, Moves

\* The body of the loop over trailing zeros, for Turns.
TrailingStep(s, ids, r, x, y, o, t, n) ==
  LET w    == Width(r.dom[o])
      from == FirstPossible(r.dom[y])
      to   == Least(FirstOne(r.dom[y]), FirstOne(r.dom[o]))
      Supported(e, i) == \E j \in from .. to :
        \/ i + j >= w
        \/ e.dom[y].bits[j] # 0 /\ e.dom[o].bits[i + j] # 0
      i == Upward(w)[n]
  IN IF Stopped(t) THEN t
     ELSE IF FirstPossible(t.dom[x]) = i /\ ~IsFixed(t.dom[x], i) /\ ~Supported(t, i)
       THEN SetBit(t, x, i, 0) ELSE t
TrailingTurns == INSTANCE Turns WITH P <- Reached, Step <- TrailingStep

\* Trailing zeros of a product and its factors.
LEMMA ReasonTrailingTouches ==
  ASSUME NEW s, NEW t, NEW ids, Touches(s, t, ids),
         NEW x \in ids, NEW y \in ids, NEW o \in ids
  PROVE  Touches(s, ReasonTrailing(t, x, y, o), ids)
<1> DEFINE ks == Upward(Width(t.dom[o]))
<1>1. \A e, n : n \in 1 .. Len(ks) /\ Reached(s, ids, t, x, y, o, e, n - 1) =>
        Reached(s, ids, t, x, y, o, TrailingStep(s, ids, t, x, y, o, e, n), n)
  <2> SUFFICES ASSUME NEW e, NEW n, Touches(s, e, ids)
               PROVE  Touches(s, TrailingStep(s, ids, t, x, y, o, e, n), ids)
    BY DEF Reached
  <2>1. \A k : Touches(s, SetBit(e, x, k, 0), ids)
    BY SetBitTouches
  <2> QED
    BY <2>1, Zenon DEF TrailingStep
<1>2. Len(ks) \in Nat /\ Reached(s, ids, t, x, y, o, t, 0)
  BY UpwardRight DEF Reached
<1>3. Reached(s, ids, t, x, y, o,
        LET after[n \in 0 .. Len(ks)] ==
              IF n = 0 THEN t ELSE TrailingStep(s, ids, t, x, y, o, after[n - 1], n)
        IN after[Len(ks)], Len(ks))
  <2> HIDE DEF ks
  <2> QED
    BY <1>1, <1>2, TrailingTurns!TurnsKeep
<1> QED
  BY <1>3 DEF Reached, ReasonTrailing, InOrder, InTurn, TrailingStep

\* Trailing zeros until nothing changes.
LEMMA FixTrailingTouches ==
  ASSUME NEW s, NEW t, NEW ids, Touches(s, t, ids),
         NEW x \in ids, NEW y \in ids, NEW o \in ids
  PROVE  Touches(s, FixTrailing(t, x, y, o), ids)
<1> DEFINE g == Going(t.dom)
           e == ReasonTrailing(g, x, y, o)
           f == ReasonTrailing(e, y, x, o)
           h == FillTrailing(f, x, y, o)
           u == NoMoreThanChanged(h, t.res)
<1>1. Touches(g, g, ids)
  BY GoingTouches
<1>2. Touches(g, e, ids)
  BY <1>1, ReasonTrailingTouches
<1> HIDE DEF e, g
<1>3. Touches(g, f, ids)
  BY <1>2, ReasonTrailingTouches
<1> HIDE DEF f
<1>4. Touches(g, h, ids)
  BY <1>3, SetBitsTouches DEF FillTrailing
<1> HIDE DEF h
<1> DEFINE res == IF Stopped(h) THEN h.res ELSE Or(t.res, Least(h.res, Changed))
<1>5. u = [dom |-> h.dom, res |-> res]
  BY <1>4 DEF NoMoreThanChanged, Touches, IsState
<1>6. h.res \in Results /\ t.res \in Results
  BY <1>4 DEF Touches, IsState
<1>7. res \in Results /\ (res = Unchanged => t.res = Unchanged /\ h.res = Unchanged)
  BY <1>6 DEF Results, Or, Least, Stopped, Unchanged, Changed, Updated, Conflict, Thrown
<1> HIDE DEF res, u
<1>8. IsState(u) /\ u.dom = h.dom /\ u.res = res
  BY <1>4, <1>5, <1>7 DEF IsState, Touches
<1>9. Touches(s, u, ids)
  BY <1>4, <1>7, <1>8, TouchesThen DEF g
<1> QED
  BY <1>9 DEF FixTrailing, u, h, f, e, g

\* A bit of one factor, when the other one has a product to make.
FactorBit(t, n, k, other, l, b) ==
  IF ~IsFixed(t.dom[n], k) /\ t.dom[other].bits[l] \in {1} \union (IF b = 1 THEN {Free} ELSE {})
    THEN SetBit(t, n, k, b) ELSE t

\* The body of the loop over the bits of a column, for Turns.
AdjustStep(s, ids, x, y, ks, c, t, n) ==
  IF Stopped(t) THEN t
  ELSE LET j == ks[n]
       IN FactorBit(FactorBit(t, y, j, x, c.i - j, c.b), x, c.i - j, y, j, c.b)
AdjustTurns == INSTANCE Turns WITH P <- Reached, Step <- AdjustStep

\* One column of a product.
LEMMA AdjustColumnTouches ==
  ASSUME NEW s, NEW t, NEW ids, Touches(s, t, ids),
         NEW x \in ids, NEW y \in ids, NEW i \in Nat, NEW sum
  PROVE  Touches(s, AdjustColumn(t, x, y, i, sum), ids)
<1> DEFINE ks == Upward(i + 1)
           b  == IF sum = i + 1 THEN 1 ELSE 0
           c  == [i |-> i, b |-> b]
<1>1. ASSUME NEW e, Touches(s, e, ids), NEW m \in ids, NEW k, NEW other, NEW l, NEW v
      PROVE  Touches(s, FactorBit(e, m, k, other, l, v), ids)
  BY <1>1, SetBitTouches, Zenon DEF FactorBit
<1>2. \A e, n : n \in 1 .. Len(ks) /\ Reached(s, ids, x, y, ks, c, e, n - 1) =>
        Reached(s, ids, x, y, ks, c, AdjustStep(s, ids, x, y, ks, c, e, n), n)
  <2> SUFFICES ASSUME NEW e, NEW n, Touches(s, e, ids)
               PROVE  Touches(s, AdjustStep(s, ids, x, y, ks, c, e, n), ids)
    BY DEF Reached
  <2> DEFINE j == ks[n]
             f == FactorBit(e, y, j, x, c.i - j, c.b)
  <2>1. Touches(s, f, ids)
    BY <1>1
  <2> HIDE DEF f
  <2>2. Touches(s, FactorBit(f, x, c.i - j, y, j, c.b), ids)
    BY <1>1, <2>1
  <2> QED
    BY <2>2 DEF AdjustStep, f
<1>3. Len(ks) \in Nat /\ Reached(s, ids, x, y, ks, c, t, 0)
  BY DEF Reached, Upward
<1>4. Reached(s, ids, x, y, ks, c,
        LET after[n \in 0 .. Len(ks)] ==
              IF n = 0 THEN t ELSE AdjustStep(s, ids, x, y, ks, c, after[n - 1], n)
        IN after[Len(ks)], Len(ks))
  <2> DEFINE m == Len(ks)
  <2>1. m \in Nat /\ Reached(s, ids, x, y, ks, c, t, 0)
    BY <1>3
  <2>2. \A e, n : n \in 1 .. m /\ Reached(s, ids, x, y, ks, c, e, n - 1) =>
          Reached(s, ids, x, y, ks, c, AdjustStep(s, ids, x, y, ks, c, e, n), n)
    BY <1>2
  <2> HIDE DEF m, ks, c
  <2>3. Reached(s, ids, x, y, ks, c,
          LET after[n \in 0 .. m] ==
                IF n = 0 THEN t ELSE AdjustStep(s, ids, x, y, ks, c, after[n - 1], n)
          IN after[m], m)
    BY ONLY <2>1, <2>2, AdjustTurns!TurnsKeep
  <2> QED
    BY <2>3 DEF m
<1> DEFINE u == InOrder(t, ks, LAMBDA e, j :
                  FactorBit(FactorBit(e, y, j, x, i - j, b), x, i - j, y, j, b))
<1>5. Touches(s, u, ids)
  BY <1>4 DEF Reached, InOrder, InTurn, AdjustStep
<1>6. AdjustColumn(t, x, y, i, sum) \in {t, u}
  BY Zenon DEF AdjustColumn, FactorBit
<1> HIDE DEF u
<1> QED
  BY <1>5, <1>6

\* The body of the loop over decided sums, for Turns.
SumStep(s, ids, o, c, u, v, t, n) ==
  IF Stopped(t) THEN t
  ELSE LET i == Upward(Cardinality(DOMAIN c))[n]
       IN IF c[i].sumLo = c[i].sumHi THEN SetBit(t, o, i, c[i].sumHi % 2) ELSE t
SumTurns == INSTANCE Turns WITH P <- Reached, Step <- SumStep

\* Sums of columns that are decided.
LEMMA SetSumsTouches ==
  ASSUME NEW s, NEW t, NEW ids, Touches(s, t, ids),
         NEW o \in ids, NEW c, Cardinality(DOMAIN c) \in Nat
  PROVE  Touches(s, SetSums(t, o, c), ids)
<1> DEFINE ks == Upward(Cardinality(DOMAIN c))
<1>1. \A e, n : n \in 1 .. Len(ks) /\ Reached(s, ids, o, c, 0, 0, e, n - 1) =>
        Reached(s, ids, o, c, 0, 0, SumStep(s, ids, o, c, 0, 0, e, n), n)
  BY SetBitTouches DEF Reached, SumStep
<1>2. Len(ks) \in Nat /\ Reached(s, ids, o, c, 0, 0, t, 0)
  BY DEF Reached, Upward
<1>3. Reached(s, ids, o, c, 0, 0,
        LET after[n \in 0 .. Len(ks)] ==
              IF n = 0 THEN t ELSE SumStep(s, ids, o, c, 0, 0, after[n - 1], n)
        IN after[Len(ks)], Len(ks))
  <2> HIDE DEF ks
  <2> QED
    BY <1>1, <1>2, SumTurns!TurnsKeep
<1> QED
  BY <1>3 DEF Reached, SetSums, InOrder, InTurn, SumStep

\* The body of the loop over decided products, for Turns.
ProductStep(s, ids, x, y, c, v, t, n) ==
  IF Stopped(t) THEN t
  ELSE LET i == Upward(Cardinality(DOMAIN c))[n]
       IN IF c[i].lo = c[i].hi THEN AdjustColumn(t, x, y, i, c[i].hi) ELSE t
ProductTurns == INSTANCE Turns WITH P <- Reached, Step <- ProductStep

\* Products of bits that are decided.
LEMMA SetProductsTouches ==
  ASSUME NEW s, NEW t, NEW ids, Touches(s, t, ids),
         NEW x \in ids, NEW y \in ids, NEW c, Cardinality(DOMAIN c) \in Nat
  PROVE  Touches(s, SetProducts(t, x, y, c), ids)
<1> DEFINE ks == Upward(Cardinality(DOMAIN c))
<1>1. \A e, n : n \in 1 .. Len(ks) /\ Reached(s, ids, x, y, c, 0, e, n - 1) =>
        Reached(s, ids, x, y, c, 0, ProductStep(s, ids, x, y, c, 0, e, n), n)
  <2> SUFFICES ASSUME NEW e, NEW n \in 1 .. Len(ks), Touches(s, e, ids)
               PROVE  Touches(s, ProductStep(s, ids, x, y, c, 0, e, n), ids)
    BY DEF Reached
  <2>1. ks[n] \in Nat
    BY DEF Upward
  <2> HIDE DEF ks
  <2>2. \A sum : Touches(s, AdjustColumn(e, x, y, ks[n], sum), ids)
    BY <2>1, AdjustColumnTouches
  <2> QED
    BY <2>2, Zenon DEF ProductStep, ks
<1>2. Len(ks) \in Nat /\ Reached(s, ids, x, y, c, 0, t, 0)
  BY DEF Reached, Upward
<1>3. Reached(s, ids, x, y, c, 0,
        LET after[n \in 0 .. Len(ks)] ==
              IF n = 0 THEN t ELSE ProductStep(s, ids, x, y, c, 0, after[n - 1], n)
        IN after[Len(ks)], Len(ks))
  <2> DEFINE m == Len(ks)
  <2>1. m \in Nat /\ Reached(s, ids, x, y, c, 0, t, 0)
    BY <1>2
  <2>2. \A e, n : n \in 1 .. m /\ Reached(s, ids, x, y, c, 0, e, n - 1) =>
          Reached(s, ids, x, y, c, 0, ProductStep(s, ids, x, y, c, 0, e, n), n)
    BY <1>1
  <2> HIDE DEF m, ks
  <2>3. Reached(s, ids, x, y, c, 0,
          LET after[n \in 0 .. m] ==
                IF n = 0 THEN t ELSE ProductStep(s, ids, x, y, c, 0, after[n - 1], n)
          IN after[m], m)
    BY ONLY <2>1, <2>2, ProductTurns!TurnsKeep
  <2> QED
    BY <2>3 DEF m
<1> QED
  BY <1>3 DEF Reached, SetProducts, InOrder, InTurn, ProductStep

-----------------------------------------------------------------------------
\* The columns stay those of the width.
HasColumns(a, b, w, q, u, v, c, n) == DOMAIN c = 0 .. w - 1

\* The body of the loop that resets the columns, for Turns.
SnapStep(a, b, w, out, u, v, c, n) == Snap(c, out, Upward(w)[n])
\* The body of the loop over the carries, upwards, for Turns.
UpStep(a, b, w, q, u, v, c, n) == PropagateColumn(c, Upward(w)[n])
SnapTurns == INSTANCE Turns WITH P <- HasColumns, Step <- SnapStep
UpTurns == INSTANCE Turns WITH P <- HasColumns, Step <- UpStep

\* Every column at once.
SnapAll(c, w, out) == InTurn(c, Upward(w), LAMBDA d, i : Snap(d, out, i))

\* Columns stay where they are when they are reset,
LEMMA SnapAllRight ==
  ASSUME NEW w \in Nat, NEW c, DOMAIN c = 0 .. w - 1, NEW out
  PROVE  DOMAIN SnapAll(c, w, out) = 0 .. w - 1
<1>1. \A x, n : n \in 1 .. Len(Upward(w)) /\ HasColumns(0, 0, w, out, 0, 0, x, n - 1) =>
        HasColumns(0, 0, w, out, 0, 0, SnapStep(0, 0, w, out, 0, 0, x, n), n)
  BY DEF HasColumns, SnapStep, Snap
<1>2. Len(Upward(w)) \in Nat /\ HasColumns(0, 0, w, out, 0, 0, c, 0)
  BY DEF HasColumns, Upward
<1> DEFINE m == Len(Upward(w))
<1>3. HasColumns(0, 0, w, out, 0, 0,
        LET after[n \in 0 .. m] ==
              IF n = 0 THEN c ELSE SnapStep(0, 0, w, out, 0, 0, after[n - 1], n)
        IN after[m], m)
  <2> HIDE DEF m
  <2> QED
    BY <1>1, <1>2, SnapTurns!TurnsKeep DEF m
<1> QED
  BY <1>3 DEF HasColumns, SnapStep, SnapAll, InTurn

\* when carries go up,
LEMMA UpAllRight ==
  ASSUME NEW w \in Nat, NEW c, DOMAIN c = 0 .. w - 1
  PROVE  DOMAIN InTurn(c, Upward(w), PropagateColumn) = 0 .. w - 1
<1>1. \A x, n : n \in 1 .. Len(Upward(w)) /\ HasColumns(0, 0, w, 0, 0, 0, x, n - 1) =>
        HasColumns(0, 0, w, 0, 0, 0, UpStep(0, 0, w, 0, 0, 0, x, n), n)
  <2>1. \A x, i : DOMAIN PropagateColumn(x, i) = DOMAIN x
    BY Zenon DEF PropagateColumn
  <2> QED
    BY <2>1 DEF HasColumns, UpStep
<1>2. Len(Upward(w)) \in Nat /\ HasColumns(0, 0, w, 0, 0, 0, c, 0)
  BY DEF HasColumns, Upward
<1> DEFINE m == Len(Upward(w))
<1>3. HasColumns(0, 0, w, 0, 0, 0,
        LET after[n \in 0 .. m] ==
              IF n = 0 THEN c ELSE UpStep(0, 0, w, 0, 0, 0, after[n - 1], n)
        IN after[m], m)
  <2> HIDE DEF m
  <2> QED
    BY <1>1, <1>2, UpTurns!TurnsKeep DEF m
<1> QED
  BY <1>3 DEF HasColumns, UpStep, InTurn

\* and in the loop until nothing changes.
FixedColumns(a, b, w, q, u, v, t, n) == DOMAIN t.c = 0 .. w - 1

\* The body of the loop over the columns until nothing changes, for Turns.
FixedStep(a, b, w, out, u, v, t, n) ==
  IF t.changed
    THEN Compared(t.c, InTurn(InTurn(t.c, Upward(w), LAMBDA d, i : Snap(d, out, i)),
                              Upward(w), PropagateColumn))
  ELSE t
FixedTurns == INSTANCE Turns WITH P <- FixedColumns, Step <- FixedStep

\* Columns after that loop.
LEMMA FixedPointRight ==
  ASSUME NEW w \in Nat, NEW c, DOMAIN c = 0 .. w - 1, NEW out
  PROVE  DOMAIN FixedPoint(c, out) = 0 .. w - 1
<1> DEFINE s == [c |-> c, changed |-> ~Impossible(c)]
           m == 4 * Len(Upward(w)) * (Len(Upward(w)) + 1)
<1>1. Cardinality(DOMAIN c) = w
  <2>1. 0 \in Int /\ w - 1 \in Int
    OBVIOUS
  <2>2. Cardinality(0 .. w - 1) = IF 0 > w - 1 THEN 0 ELSE w - 1 - 0 + 1
    BY <2>1, FS_Interval
  <2> QED
    BY <2>2
<1>2. m \in Nat
  <2>1. Len(Upward(w)) = w
    BY DEF Upward
  <2>2. 4 * w \in Nat /\ w + 1 \in Nat
    OBVIOUS
  <2>3. \A x, y \in Nat : x * y \in Nat
    OBVIOUS
  <2> QED
    BY <2>1, <2>2, <2>3
<1>3. \A x, n : n \in 1 .. m /\ FixedColumns(0, 0, w, out, 0, 0, x, n - 1) =>
        FixedColumns(0, 0, w, out, 0, 0, FixedStep(0, 0, w, out, 0, 0, x, n), n)
  <2> SUFFICES ASSUME NEW x, NEW n, DOMAIN x.c = 0 .. w - 1
               PROVE  DOMAIN FixedStep(0, 0, w, out, 0, 0, x, n).c = 0 .. w - 1
    BY DEF FixedColumns
  <2> DEFINE d == SnapAll(x.c, w, out)
             y == InTurn(d, Upward(w), PropagateColumn)
  <2>1. DOMAIN d = 0 .. w - 1
    BY SnapAllRight
  <2> HIDE DEF d
  <2>2. DOMAIN y = 0 .. w - 1
    BY <2>1, UpAllRight
  <2>3. FixedStep(0, 0, w, out, 0, 0, x, n) = IF x.changed THEN Compared(x.c, y) ELSE x
    BY Zenon DEF FixedStep, SnapAll, d
  <2> HIDE DEF y
  <2> QED
    BY <2>2, <2>3 DEF Compared
<1>4. FixedColumns(0, 0, w, out, 0, 0, s, 0)
  BY DEF FixedColumns
<1>5. FixedColumns(0, 0, w, out, 0, 0,
        LET after[n \in 0 .. m] ==
              IF n = 0 THEN s ELSE FixedStep(0, 0, w, out, 0, 0, after[n - 1], n)
        IN after[m], m)
  <2> HIDE DEF m, s
  <2> QED
    BY <1>2, <1>3, <1>4, FixedTurns!TurnsKeep
<1>6. FixedPoint(c, out) =
        (LET after[n \in 0 .. m] ==
              IF n = 0 THEN s ELSE FixedStep(0, 0, w, out, 0, 0, after[n - 1], n)
        IN after[m]).c
  BY <1>1 DEF FixedPoint, FixedStep, Loop
<1> QED
  BY <1>5, <1>6 DEF FixedColumns

\* Trailing zeros after a product.
LEMMA FixAgainTouches ==
  ASSUME NEW s, NEW t, NEW ids, Touches(s, t, ids),
         NEW o \in ids, NEW x \in ids, NEW y \in ids
  PROVE  Touches(s, FixAgain(t, o, x, y), ids)
<1> DEFINE last == FixTrailing(t, x, y, o)
           u    == [last EXCEPT !.res = t.res]
<1>1. Touches(s, last, ids)
  BY FixTrailingTouches
<1>2. \/ FixAgain(t, o, x, y) \in {t, last}
      \/ t.res # Unchanged /\ FixAgain(t, o, x, y) = u
  BY Zenon DEF FixAgain
<1> HIDE DEF last
<1>3. u = [dom |-> last.dom, res |-> t.res]
  BY <1>1 DEF Touches, IsState
<1>4. IsState(u) /\ u.dom = last.dom /\ u.res = t.res
  BY <1>1, <1>3 DEF Touches, IsState
<1> HIDE DEF u
<1>5. t.res # Unchanged => Touches(s, u, ids)
  BY <1>1, <1>4 DEF Touches
<1> QED
  BY <1>1, <1>2, <1>5

\* What the columns say about the bits.
LEMMA SetColumnsTouches ==
  ASSUME NEW s, NEW t, NEW ids, Touches(s, t, ids),
         NEW o \in ids, NEW x \in ids, NEW y \in ids, NEW c, Cardinality(DOMAIN c) \in Nat
  PROVE  Touches(s, SetColumns(t, o, x, y, c), ids)
<1> DEFINE a == SetSums(t, o, c)
           b == SetProducts(a, x, y, c)
<1>1. Touches(s, a, ids)
  BY SetSumsTouches
<1> HIDE DEF a
<1>2. Touches(s, b, ids)
  BY <1>1, SetProductsTouches
<1> HIDE DEF b
<1>3. Touches(s, FixAgain(b, o, x, y), ids)
  BY <1>2, FixAgainTouches
<1>4. Touches(s, Failed(t), ids)
  BY FailedTouches
<1> QED
  BY <1>3, <1>4 DEF SetColumns, a, b

\* The body of the loop over the carries, downwards, for Turns.
LoweredStep(a, b, w, out, u, v, c, n) ==
  LET i     == Upward(w)[n]
      below == IF i = 0 THEN [sumLo |-> 0, sumHi |-> 0] ELSE c[i - 1]
  IN Snap([c EXCEPT ![i] = [@ EXCEPT !.sumLo = c[i].lo + Halve(below.sumLo),
                                      !.sumHi = c[i].hi + Halve(below.sumHi)]], out, i)
LoweredTurns == INSTANCE Turns WITH P <- HasColumns, Step <- LoweredStep

\* The columns of the outputs and their factors.
LEMMA ColumnsRight ==
  ASSUME NEW x, NEW y, NEW out, Width(x) \in Nat
  PROVE  DOMAIN Columns(x, y, out) = 0 .. Width(x) - 1
<1> DEFINE w == Width(x)
           Count(i, S) == Cardinality({j \in 0 .. i : x.bits[i - j] \in S /\ y.bits[j] \in S})
           s == [i \in 0 .. w - 1 |->
                   [lo |-> Count(i, {1}), hi |-> Count(i, {1, Free}), sumLo |-> 0, sumHi |-> 0]]
           m == Len(Upward(w))
<1>1. \A c, n : n \in 1 .. m /\ HasColumns(0, 0, w, out, 0, 0, c, n - 1) =>
        HasColumns(0, 0, w, out, 0, 0, LoweredStep(0, 0, w, out, 0, 0, c, n), n)
  BY DEF HasColumns, LoweredStep, Snap
<1>2. m \in Nat /\ HasColumns(0, 0, w, out, 0, 0, s, 0)
  BY DEF HasColumns, Upward
<1>3. HasColumns(0, 0, w, out, 0, 0,
        LET after[n \in 0 .. m] ==
              IF n = 0 THEN s ELSE LoweredStep(0, 0, w, out, 0, 0, after[n - 1], n)
        IN after[m], m)
  <2> HIDE DEF m, s, w
  <2> QED
    BY ONLY <1>1, <1>2, LoweredTurns!TurnsKeep
<1> QED
  BY <1>3, Zenon DEF HasColumns, LoweredStep, InTurn, Columns

\* Columns of a product, until nothing changes.
LEMMA MulColumnsTouches ==
  ASSUME NEW s, NEW t, NEW ids, Touches(s, t, ids),
         NEW o \in ids, NEW x \in ids, NEW y \in ids
  PROVE  Touches(s, MulColumns(t, o, x, y), ids)
<1> DEFINE out == t.dom[o].bits
           w   == Width(t.dom[x])
           c   == Columns(t.dom[x], t.dom[y], out)
           f   == FixedPoint(c, out)
<1>1. w \in Nat
  BY WidthRight DEF Touches, Moves, IsState, AreDomains, Wide
<1>2. DOMAIN c = 0 .. w - 1
  BY <1>1, ColumnsRight
<1> HIDE DEF c, w, out
<1>3. DOMAIN f = 0 .. w - 1
  BY <1>1, <1>2, FixedPointRight
<1>4. Cardinality(DOMAIN f) \in Nat
  BY <1>1, <1>3, FS_Interval, FS_CardinalityType
<1> HIDE DEF f
<1>5. Touches(s, SetColumns(t, o, x, y, f), ids)
  BY <1>4, SetColumnsTouches
<1> QED
  BY <1>5 DEF MulColumns, f, c, out

\* The rule of mul.
LEMMA MulTouches ==
  ASSUME NEW s, NEW t, NEW ids, Touches(s, t, ids),
         NEW o \in ids, NEW x \in ids, NEW y \in ids
  PROVE  Touches(s, Mul(t, o, x, y), ids)
<1>1. ASSUME NEW e, Touches(s, e, ids), NEW j \in ids, NEW i \in ids
      PROVE  Touches(s, Quotient(e, o, j, i), ids)
  BY <1>1, ClipTouches DEF Quotient
<1> DEFINE f == FixTrailing(t, x, y, o)
           b == MulBits(t, o, x, y)
           p == Product(b, o, x, y)
           q == Quotient(p, o, x, y)
<1>2. Touches(s, f, ids)
  BY FixTrailingTouches
<1>3. Touches(s, b, ids)
  <2> HIDE DEF f
  <2>1. Touches(s, MulColumns(f, o, x, y), ids)
    BY <1>2, MulColumnsTouches
  <2> QED
    BY <2>1 DEF MulBits, f
<1> HIDE DEF b
<1>4. Touches(s, p, ids)
  BY <1>3, ClipModuloTouches DEF Product
<1> HIDE DEF p
<1>5. Touches(s, q, ids)
  BY <1>1, <1>4
<1> HIDE DEF q
<1>6. Touches(s, Quotient(q, o, y, x), ids)
  BY <1>1, <1>5
<1>7. Mul(t, o, x, y) \in {p, Quotient(q, o, y, x)}
  BY Zenon DEF Mul, Factors, b, p, q
<1> QED
  BY <1>4, <1>6, <1>7

-----------------------------------------------------------------------------
(* Division.                                                               *)

-----------------------------------------------------------------------------
(* Divisions.                                                              *)

\* The body of the loop over the bits of two equal nodes, for Turns.
TogetherStep(s, ids, r, i, j, v, t, n) ==
  IF Stopped(t) THEN t
  ELSE LET k == Upward(Width(r.dom[i]))[n]
       IN Tie(t, i, k, j, k, LAMBDA x : x)
TogetherTurns == INSTANCE Turns WITH P <- Reached, Step <- TogetherStep

\* Two nodes made equal bit by bit, then by their intervals.
LEMMA EnforceEqualityTouches ==
  ASSUME NEW s, NEW t, NEW ids, Touches(s, t, ids), NEW i \in ids, NEW j \in ids
  PROVE  Touches(s, EnforceEquality(t, i, j), ids)
<1> DEFINE ks == Upward(Width(t.dom[i]))
           a  == Align(t, i, j)
<1>1. \A x, n : n \in 1 .. Len(ks) /\ Reached(s, ids, t, i, j, 0, x, n - 1) =>
        Reached(s, ids, t, i, j, 0, TogetherStep(s, ids, t, i, j, 0, x, n), n)
  BY TieTouches DEF Reached, TogetherStep
<1>2. Len(ks) \in Nat /\ Reached(s, ids, t, i, j, 0, a, 0)
  BY UpwardRight, AlignTouches DEF Reached
<1>3. Reached(s, ids, t, i, j, 0,
        LET after[n \in 0 .. Len(ks)] ==
              IF n = 0 THEN a ELSE TogetherStep(s, ids, t, i, j, 0, after[n - 1], n)
        IN after[Len(ks)], Len(ks))
  <2> HIDE DEF ks, a
  <2> QED
    BY <1>1, <1>2, TogetherTurns!TurnsKeep
<1>4. Touches(s, InOrder(a, ks, LAMBDA x, k : Tie(x, i, k, j, k, LAMBDA y : y)), ids)
  BY <1>3 DEF Reached, InOrder, InTurn, TogetherStep
<1>5. Touches(s, Failed(t), ids)
  BY FailedTouches
<1> QED
  BY <1>4, <1>5, Zenon DEF EnforceEquality

\* Bounds of a quotient or a remainder.
LEMMA ApplyBoundsTouches ==
  ASSUME NEW s, NEW t, NEW ids, Touches(s, t, ids), NEW i \in ids, NEW b
  PROVE  Touches(s, ApplyBounds(t, i, b), ids)
<1>1. Touches(s, Clip(t, i, Normal(b.min, b.max)), ids)
  BY ClipTouches
<1> QED
  BY <1>1, TightenBitsOfTouches DEF ApplyBounds

\* The body of the loop over the nodes of a division, for Turns.
BoundsStep(s, ids, ks, p, q, u, t, n) ==
  IF Stopped(t) THEN t ELSE ApplyBounds(t, ks[n][1], ks[n][2])
BoundsTurns == INSTANCE Turns WITH P <- Reached, Step <- BoundsStep

\* Bounds of all the nodes of a division.
LEMMA BoundsAtEndTouches ==
  ASSUME NEW s, NEW t, NEW ids, Touches(s, t, ids),
         NEW o \in ids, NEW a \in ids, NEW b \in ids, NEW quotient, NEW end
  PROVE  Touches(s, BoundsAtEnd(t, o, a, b, quotient, end), ids)
<1> DEFINE last == IF quotient THEN end.quot ELSE end.rem
           ks == <<<<a, end.top>>, <<b, end.bottom>>, <<o, last>>>>
<1>1. Len(ks) = 3 /\ \A n \in 1 .. 3 : ks[n][1] \in ids
  <2> HIDE DEF last
  <2>1. \A n \in 1 .. 3 : n \in {1, 2, 3}
    OBVIOUS
  <2>2. ks[1][1] = a /\ ks[2][1] = b /\ ks[3][1] = o /\ Len(ks) = 3
    OBVIOUS
  <2> HIDE DEF ks
  <2> QED
    BY <2>1, <2>2
<1>2. Touches(s, InOrder(t, ks, LAMBDA x, p : ApplyBounds(x, p[1], p[2])), ids)
  <2> HIDE DEF ks
  <2>1. \A x, n : n \in 1 .. Len(ks) /\ Reached(s, ids, ks, 0, 0, 0, x, n - 1) =>
          Reached(s, ids, ks, 0, 0, 0, BoundsStep(s, ids, ks, 0, 0, 0, x, n), n)
    BY <1>1, ApplyBoundsTouches DEF Reached, BoundsStep
  <2>2. Len(ks) \in Nat /\ Reached(s, ids, ks, 0, 0, 0, t, 0)
    BY <1>1 DEF Reached
  <2>3. Reached(s, ids, ks, 0, 0, 0,
          LET after[n \in 0 .. Len(ks)] ==
                IF n = 0 THEN t ELSE BoundsStep(s, ids, ks, 0, 0, 0, after[n - 1], n)
          IN after[Len(ks)], Len(ks))
    BY <2>1, <2>2, BoundsTurns!TurnsKeep
  <2> QED
    BY <2>3 DEF Reached, InOrder, InTurn, BoundsStep
<1>3. Touches(s, Failed(t), ids)
  BY FailedTouches
<1> QED
  BY <1>2, <1>3, Zenon DEF BoundsAtEnd

\* The rules of udiv and urem.
LEMMA DivisionTouches ==
  ASSUME NEW s, NEW t, NEW ids, Touches(s, t, ids),
         NEW o \in ids, NEW a \in ids, NEW b \in ids, NEW quotient
  PROVE  Touches(s, Division(t, o, a, b, quotient), ids)
<1> DEFINE z == ByZero(t, o, a, quotient)
           n == NotByZero(t, o, a, b, quotient)
           d == DivideBounds(n, o, a, b, quotient)
<1>1. Touches(s, z, ids)
  BY SetConstantTouches, EnforceEqualityTouches DEF ByZero
<1>2. Touches(s, n, ids)
  BY ApplyBoundsTouches DEF NotByZero
<1>3. Touches(s, d, ids)
  <2> HIDE DEF n
  <2>1. \A end : Touches(s, BoundsAtEnd(n, o, a, b, quotient, end), ids)
    BY <1>2, BoundsAtEndTouches
  <2> QED
    BY <1>2, <2>1, Zenon DEF DivideBounds
<1>4. Division(t, o, a, b, quotient) \in {z, d}
  BY Zenon DEF Division
<1> QED
  BY <1>1, <1>3, <1>4

-----------------------------------------------------------------------------
(* Shifts.                                                                 *)

\* A shift by a known amount.
LEMMA ShiftedTouches ==
  ASSUME NEW s, NEW t, NEW ids, Touches(s, t, ids),
         NEW o \in ids, NEW a \in ids, NEW b \in ids,
         NEW dir, NEW possible, NEW S, NEW fill
  PROVE  Touches(s, Shifted(t, o, a, b, dir, possible, S, fill), ids)
<1> DEFINE x == SetShift(t, b, S, possible)
           y == SetOperand(x, o, a, dir, possible)
           z == SetNode(y, o, a, dir, possible, fill)
<1>1. Touches(s, x, ids)
  BY SetBitsTouches DEF SetShift
<1> HIDE DEF x
<1>2. Touches(s, y, ids)
  BY <1>1, SetBitsTouches DEF SetOperand
<1> HIDE DEF y
<1>3. Touches(s, z, ids)
  BY <1>2, SetBitsTouches DEF SetNode
<1>4. Touches(s, Failed(t), ids)
  BY FailedTouches
<1>5. Shifted(t, o, a, b, dir, possible, S, fill) \in {Failed(t), z}
  BY Zenon DEF Shifted, x, y
<1> QED
  BY <1>3, <1>4, <1>5

\* The rule of shl.
LEMMA ShlTouches ==
  ASSUME NEW s, NEW t, NEW ids, Touches(s, t, ids),
         NEW o \in ids, NEW a \in ids, NEW b \in ids
  PROVE  Touches(s, Shl(t, o, a, b), ids)
<1>1. \A dir, possible, S, fill : Touches(s, Shifted(t, o, a, b, dir, possible, S, fill), ids)
  BY ShiftedTouches
<1>2. \A lo, hi : Touches(s, ShiftLeft(t, o, a, b, lo, hi), ids)
  BY <1>1, Zenon DEF ShiftLeft
<1> QED
  BY <1>2, Zenon DEF Shl

\* The domain that has only some bits.
LEMMA OnlyBitsRight ==
  ASSUME NEW w \in Nat, NEW bits
  PROVE  IsDomain(OnlyBits(w, bits)) /\ Wide(w, OnlyBits(w, bits))
<1> DEFINE r == F(w)!SetBits(Fresh(w), Restrict(bits, Known(bits)))
<1>1. IsDomain(Fresh(w)) /\ Wide(w, Fresh(w))
  BY FreshRight
<1>2. Effect(w, Fresh(w), r)
  BY <1>1, SetBitsEffect
<1> HIDE DEF r
<1>3. IsDomain(r.dom) /\ Wide(w, r.dom)
  BY <1>1, <1>2 DEF Effect, Reported, Keeps
<1> QED
  BY <1>3 DEF OnlyBits, r

\* The body of the loop over the turned bits, for Turns.
BackStep(s, ids, r, ks, u, v, t, n) ==
  IF Stopped(t) THEN t
  ELSE LET p == ks[n]
       IN SetBits(t, p[1], KnownOf(Reversed(r.dom[p[2]].bits)))
BackTurns == INSTANCE Turns WITH P <- Reached, Step <- BackStep

\* The bits of the turned nodes, copied back.
BitsBack(t, o, a) ==
  InOrder(t, <<<<a, TurnedOp>>, <<o, TurnedOut>>>>, LAMBDA x, p :
    SetBits(x, p[1], KnownOf(Reversed(t.dom[p[2]].bits))))

\* The shift to the right is one to the left of turned bits, which are turned back.
LEMMA BitsBackTouches ==
  ASSUME NEW s, NEW t, NEW ids, Touches(s, t, ids), NEW o \in ids, NEW a \in ids
  PROVE  Touches(s, BitsBack(t, o, a), ids)
<1> DEFINE ks == <<<<a, TurnedOp>>, <<o, TurnedOut>>>>
<1>1. Len(ks) = 2 /\ \A n \in 1 .. 2 : ks[n][1] \in ids
  <2>1. \A n \in 1 .. 2 : n \in {1, 2}
    OBVIOUS
  <2>2. ks[1][1] = a /\ ks[2][1] = o /\ Len(ks) = 2
    OBVIOUS
  <2> HIDE DEF ks
  <2> QED
    BY <2>1, <2>2
<1>2. Touches(s, InOrder(t, ks, LAMBDA x, p :
                   SetBits(x, p[1], KnownOf(Reversed(t.dom[p[2]].bits)))), ids)
  <2> HIDE DEF ks
  <2>1. \A x, n : n \in 1 .. Len(ks) /\ Reached(s, ids, t, ks, 0, 0, x, n - 1) =>
          Reached(s, ids, t, ks, 0, 0, BackStep(s, ids, t, ks, 0, 0, x, n), n)
    BY <1>1, SetBitsTouches DEF Reached, BackStep
  <2>2. Len(ks) \in Nat /\ Reached(s, ids, t, ks, 0, 0, t, 0)
    BY <1>1 DEF Reached
  <2>3. Reached(s, ids, t, ks, 0, 0,
          LET after[n \in 0 .. Len(ks)] ==
                IF n = 0 THEN t ELSE BackStep(s, ids, t, ks, 0, 0, after[n - 1], n)
          IN after[Len(ks)], Len(ks))
    BY <2>1, <2>2, BackTurns!TurnsKeep
  <2> QED
    BY <2>3 DEF Reached, InOrder, InTurn, BackStep
<1> QED
  BY <1>2 DEF BitsBack, ks

\* The rule of shr.
LEMMA ShrTouches ==
  ASSUME NEW s, NEW t, NEW ids, Touches(s, t, ids),
         {TurnedOp, TurnedOut} \cap DOMAIN t.dom = {},
         NEW o \in ids, NEW a \in ids, NEW b \in ids
  PROVE  Touches(s, Shr(t, o, a, b), ids)
<1> DEFINE own == {TurnedOp, TurnedOut}
           p == OnlyBits(Width(t.dom[a]), Reversed(t.dom[a].bits))
           q == OnlyBits(Width(t.dom[o]), Reversed(t.dom[o].bits))
           f == [n \in DOMAIN t.dom \union own |->
                   CASE n = TurnedOp -> p [] n = TurnedOut -> q [] OTHER -> t.dom[n]]
           e == Turned(t, o, a)
           x == Shl(e, TurnedOut, TurnedOp, b)
           y == BitsBack(x, o, a)
<1>1. Width(t.dom[a]) \in Nat /\ Width(t.dom[o]) \in Nat
  BY WidthRight DEF Touches, Moves, IsState, AreDomains, Wide
<1>2. IsDomain(p) /\ IsDomain(q) /\ (\E w : Wide(w, p)) /\ \E w : Wide(w, q)
  BY <1>1, OnlyBitsRight
<1>3. e = [t EXCEPT !.dom = f]
  BY Zenon DEF Turned
<1> HIDE DEF p, q, e
<1>4. TurnedOp # TurnedOut
  BY DEF TurnedOp, TurnedOut
<1>5. DOMAIN f = DOMAIN t.dom \cup own
  OBVIOUS
<1>6. \A n \in DOMAIN f : IsDomain(f[n]) /\ \E w : Wide(w, f[n])
  <2> SUFFICES ASSUME NEW n \in DOMAIN f PROVE IsDomain(f[n]) /\ \E w : Wide(w, f[n])
    OBVIOUS
  <2>1. /\ n = TurnedOp => f[n] = p
        /\ n # TurnedOp /\ n = TurnedOut => f[n] = q
        /\ n \notin own => n \in DOMAIN t.dom /\ f[n] = t.dom[n]
    <3>1. CASE n = TurnedOp
      <4>1. f[TurnedOp] = p
        BY <1>4
      <4> QED
        BY <3>1, <4>1
    <3>2. CASE n = TurnedOut
      <4>1. f[TurnedOut] = q
        BY <1>4
      <4> QED
        BY <1>4, <3>2, <4>1
    <3>3. CASE n \notin own
      <4>1. n \in DOMAIN t.dom
        BY <3>3
      <4>2. f[n] = t.dom[n]
        BY <3>3, <4>1
      <4> QED
        BY <3>3, <4>1, <4>2
    <3> QED
      BY <3>1, <3>2, <3>3
  <2> HIDE DEF f
  <2> QED
    BY <1>2, <2>1, Zenon DEF Touches, IsState, AreDomains
<1>7. \A n \in DOMAIN t.dom : f[n] = t.dom[n]
  OBVIOUS
<1> HIDE DEF f
<1>8. e = [dom |-> f, res |-> t.res]
  BY <1>3 DEF Touches, IsState
<1>9. IsState(e) /\ e.dom = f /\ e.res = t.res
  BY <1>6, <1>8 DEF Touches, IsState, AreDomains
<1> HIDE DEF own
<1>10. Touches(e, e, ids \cup own)
  BY <1>5, <1>9, TouchesSelf DEF Touches, Moves
<1>11. Touches(e, x, ids \cup own)
  BY <1>10, ShlTouches DEF own
<1> HIDE DEF x
<1>12. Touches(e, y, ids \cup own)
  BY <1>11, BitsBackTouches
<1> HIDE DEF y
<1>13. own \cap DOMAIN t.dom = {}
  BY DEF own
<1>14. Touches(s, Without(y, own), ids)
  BY <1>5, <1>7, <1>9, <1>12, <1>13, WithoutTouches
<1> QED
  BY <1>14 DEF Shr, TurnBack, BitsBack, e, x, y, own

-----------------------------------------------------------------------------
(* propagate_node.                                                         *)

\* The nodes of the rules: what a formula has besides them are symbols and
\* values.
IsInner(n, ids) ==
  /\ n.kind \in Kinds
  /\ n.kids \in Seq(ids)
  /\ Len(n.kids) = Arity(n.kind)

\* Any rule but that of an arithmetic shift.
LEMMA RuleTouches ==
  ASSUME NEW s, NEW t, NEW ids, Touches(s, t, ids), OwnIds \cap DOMAIN t.dom = {},
         NEW o \in ids, NEW n, IsInner(n, ids), n.kind # "ashr"
  PROVE  Touches(s, Rule(t, o, n), ids)
<1> DEFINE a == n.kids[1]
           b == n.kids[2]
           c == n.kids[3]
<1>1. a \in ids
  BY DEF IsInner, Arity
<1>2. n.kind \notin {"not", "extract"} => b \in ids
  BY DEF IsInner, Arity
<1>3. n.kind = "ite" => c \in ids
  BY DEF IsInner, Arity
<1>4. OwnNode \notin DOMAIN t.dom /\ {TurnedOp, TurnedOut} \cap DOMAIN t.dom = {}
  BY DEF OwnIds
<1>5. n.kind \in Kinds \ {"ashr"}
  BY DEF IsInner
<1> HIDE DEF a, b, c
<1> DEFINE r == Rule(t, o, n)
<1>6. /\ n.kind = "not" => r = Not(t, o, a)
      /\ n.kind = "xor" => r = Xor(t, o, a, b)
      /\ n.kind = "and" => r = And(t, o, a, b)
      /\ n.kind = "equal" => r = Equal(t, o, a, b)
      /\ n.kind = "ult" => r = Ult(t, o, a, b)
      /\ n.kind = "slt" => r = Slt(t, o, a, b)
      /\ n.kind = "ite" => r = Ite(t, o, a, b, c)
      /\ n.kind = "extract" => r = Extract(t, o, a, n.arg)
      /\ n.kind = "concat" => r = Concat(t, o, a, b)
      /\ n.kind = "add" => r = Add(t, o, a, b)
      /\ n.kind = "mul" => r = Mul(t, o, a, b)
      /\ n.kind = "udiv" => r = Division(t, o, a, b, TRUE)
      /\ n.kind = "urem" => r = Division(t, o, a, b, FALSE)
      /\ n.kind = "shl" => r = Shl(t, o, a, b)
      /\ n.kind = "shr" => r = Shr(t, o, a, b)
  BY DEF Rule, Udiv, Urem, a, b, c
<1> HIDE DEF r
<1>7. Touches(s, Not(t, o, a), ids) /\ Touches(s, Extract(t, o, a, n.arg), ids)
  BY <1>1, NotTouches, ExtractTouches
<1>8. ASSUME b \in ids
      PROVE  /\ Touches(s, Xor(t, o, a, b), ids)
             /\ Touches(s, And(t, o, a, b), ids)
             /\ Touches(s, Equal(t, o, a, b), ids)
             /\ Touches(s, Ult(t, o, a, b), ids)
             /\ Touches(s, Slt(t, o, a, b), ids)
             /\ Touches(s, Concat(t, o, a, b), ids)
             /\ Touches(s, Add(t, o, a, b), ids)
             /\ Touches(s, Mul(t, o, a, b), ids)
             /\ Touches(s, Shl(t, o, a, b), ids)
  BY <1>1, <1>8, XorTouches, AndTouches, EqualTouches, UltTouches, SltTouches,
     ConcatTouches, AddTouches, MulTouches, ShlTouches
<1>9. ASSUME b \in ids
      PROVE  /\ Touches(s, Division(t, o, a, b, TRUE), ids)
             /\ Touches(s, Division(t, o, a, b, FALSE), ids)
             /\ Touches(s, Shr(t, o, a, b), ids)
  BY <1>1, <1>4, <1>9, DivisionTouches, ShrTouches
<1>10. ASSUME b \in ids, c \in ids
       PROVE  Touches(s, Ite(t, o, a, b, c), ids)
  BY <1>1, <1>4, <1>10, IteTouches
<1>11. Touches(s, r, ids)
  BY <1>2, <1>3, <1>5, <1>6, <1>7, <1>8, <1>9, <1>10 DEF Kinds
<1> QED
  BY <1>11 DEF r

\* A loop over rules has domains that moved from dom.
Settled(dom, ids, p, q, u, v, t, n) == IsState(t) /\ Moves(dom, t.dom, ids)

\* The body of the loop of propagate_node, for Turns.
NodeStep(dom, ids, o, n, u, v, t, k) ==
  IF t.res = Updated THEN TightenEach(Rule(Going(t.dom), o, n), n.kids \o <<o>>) ELSE t
NodeTurns == INSTANCE Turns WITH P <- Settled, Step <- NodeStep

\* A node propagated: only its domain and those of its children move, and a
\* domain that is not what it was is pending.
THEOREM PropagateNodeMoves ==
  ASSUME NEW dom, AreDomains(dom), OwnIds \cap DOMAIN dom = {},
         NEW ids, ids \subseteq DOMAIN dom,
         NEW o \in ids, NEW n, IsInner(n, ids), n.kind # "ashr"
  PROVE  /\ IsState(PropagateNode(dom, o, n))
         /\ Moves(dom, PropagateNode(dom, o, n).dom, ids)
<1> DEFINE s == [dom |-> dom, res |-> Updated]
           u == PropagateNode(dom, o, n)
<1>1. Settled(dom, ids, o, n, 0, 0, s, 0)
  BY MovesSelf DEF Settled, IsState, Results
<1>2. ASSUME NEW t, NEW k, Settled(dom, ids, o, n, 0, 0, t, k - 1)
      PROVE  Settled(dom, ids, o, n, 0, 0, NodeStep(dom, ids, o, n, 0, 0, t, k), k)
  <2> DEFINE g == Going(t.dom)
             r == Rule(g, o, n)
             e == TightenEach(r, n.kids \o <<o>>)
  <2>1. IsState(t) /\ Moves(dom, t.dom, ids)
    BY <1>2 DEF Settled
  <2>2. g.dom = t.dom /\ DOMAIN t.dom = DOMAIN dom /\ Touches(g, g, ids)
    BY <2>1, GoingRight, TouchesSelf DEF Moves, IsState
  <2> HIDE DEF g
  <2>3. Touches(g, r, ids)
    BY <2>2, RuleTouches
  <2> HIDE DEF r
  <2>4. n.kids \o <<o>> \in Seq(ids)
    BY DEF IsInner
  <2>5. Touches(g, e, ids)
    BY <2>3, <2>4, TightenEachTouches
  <2> HIDE DEF e
  <2>6. IsState(e) /\ Moves(dom, e.dom, ids)
    BY <2>1, <2>2, <2>5, MovesBoth DEF Touches
  <2>7. NodeStep(dom, ids, o, n, 0, 0, t, k) \in {t, e}
    BY Zenon DEF NodeStep, e, r, g
  <2> QED
    BY <2>1, <2>6, <2>7 DEF Settled
<1>3. \A t, k : k \in 1 .. 32 /\ Settled(dom, ids, o, n, 0, 0, t, k - 1) =>
        Settled(dom, ids, o, n, 0, 0, NodeStep(dom, ids, o, n, 0, 0, t, k), k)
  BY <1>2
<1> DEFINE m == 32
<1>4. m \in Nat
  OBVIOUS
<1>5. Settled(dom, ids, o, n, 0, 0,
        LET after[k \in 0 .. m] ==
              IF k = 0 THEN s ELSE NodeStep(dom, ids, o, n, 0, 0, after[k - 1], k)
        IN after[m], m)
  <2>1. \A t, k : k \in 1 .. m /\ Settled(dom, ids, o, n, 0, 0, t, k - 1) =>
          Settled(dom, ids, o, n, 0, 0, NodeStep(dom, ids, o, n, 0, 0, t, k), k)
    BY <1>3
  <2> HIDE DEF m, s
  <2> QED
    BY ONLY <1>1, <1>4, <2>1, NodeTurns!TurnsKeep
<1>6. Settled(dom, ids, o, n, 0, 0, u, m)
  BY <1>5 DEF PropagateNode, Loop, NodeStep
<1> QED
  BY <1>6 DEF Settled
=============================================================================
