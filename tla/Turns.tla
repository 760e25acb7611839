-------------------------------- MODULE Turns --------------------------------
(***************************************************************************)
(* A loop, as RuleState writes it with InTurn and Loop: the state after n  *)
(* steps is a recursive function of n.  What each step preserves holds     *)
(* after any number of them.  P and Step are given by an INSTANCE for each *)
(* loop; a, b, p, q, u and v are what its body and P use besides.          *)
(***************************************************************************)
EXTENDS Integers, WellFoundedInduction, TLAPS

CONSTANTS P(_, _, _, _, _, _, _, _), Step(_, _, _, _, _, _, _, _)

\* The states of the first m steps, as a function.
After(a, b, p, q, u, v, s, m, f) ==
  f = [n \in 0 .. m |-> IF n = 0 THEN s ELSE Step(a, b, p, q, u, v, f[n - 1], n)]

\* There is one for every m.
LEMMA AfterExists ==
  ASSUME NEW a, NEW b, NEW p, NEW q, NEW u, NEW v, NEW s, NEW m \in Nat
  PROVE  \E f : After(a, b, p, q, u, v, s, m, f)
<1> DEFINE T == {k \in Nat : ~ \E f : After(a, b, p, q, u, v, s, k, f)}
<1> SUFFICES ASSUME T # {} PROVE FALSE
  OBVIOUS
<1>1. PICK d \in T : \A e \in T : ~(<<e, d>> \in OpToRel(<, Nat))
  <2>1. T \subseteq Nat
    OBVIOUS
  <2> HIDE DEF T
  <2> QED
    BY <2>1, WFMin, NatLessThanWellFounded
<1>2. d \in Nat /\ \A e \in T : e \in Nat /\ ~(e < d)
  BY <1>1 DEF OpToRel
<1>3. CASE d = 0
  <2> DEFINE f == [n \in 0 .. 0 |-> s]
  <2>1. f = [n \in 0 .. 0 |-> IF n = 0 THEN s ELSE Step(a, b, p, q, u, v, f[n - 1], n)]
    OBVIOUS
  <2>2. After(a, b, p, q, u, v, s, 0, f)
    BY <2>1 DEF After
  <2> QED
    BY <1>3, <2>2
<1>4. CASE d # 0
  <2>1. d - 1 \in Nat /\ d - 1 \notin T
    BY <1>2, <1>4
  <2>2. PICK g : After(a, b, p, q, u, v, s, d - 1, g)
    BY <2>1
  <2> DEFINE f == [n \in 0 .. d |-> IF n = d THEN Step(a, b, p, q, u, v, g[d - 1], d) ELSE g[n]]
  <2>3. \A n \in 0 .. d - 1 :
          g[n] = IF n = 0 THEN s ELSE Step(a, b, p, q, u, v, g[n - 1], n)
    BY <2>2 DEF After
  <2>4. ASSUME NEW n \in 0 .. d
        PROVE  f[n] = IF n = 0 THEN s ELSE Step(a, b, p, q, u, v, f[n - 1], n)
    <3>1. CASE n = d
      <4>1. f[n] = Step(a, b, p, q, u, v, g[d - 1], d) /\ n - 1 \in 0 .. d /\ n - 1 # d
        BY <1>2, <1>4, <3>1
      <4>2. f[n - 1] = g[d - 1]
        BY <3>1, <4>1
      <4> QED
        BY <1>4, <3>1, <4>1, <4>2
    <3>2. CASE n # d
      <4>1. n \in 0 .. d - 1 /\ f[n] = g[n]
        BY <1>2, <3>2
      <4>2. CASE n = 0
        BY <2>3, <4>1, <4>2
      <4>3. CASE n # 0
        <5>1. n - 1 \in 0 .. d /\ n - 1 # d
          BY <1>2, <4>1, <4>3
        <5>2. f[n - 1] = g[n - 1]
          BY <5>1
        <5> QED
          BY <2>3, <4>1, <4>3, <5>2
      <4> QED
        BY <4>2, <4>3
    <3> QED
      BY <3>1, <3>2
  <2>5. After(a, b, p, q, u, v, s, d, f)
    <3>1. f = [n \in 0 .. d |-> f[n]]
      OBVIOUS
    <3> HIDE DEF f
    <3>2. f = [n \in 0 .. d |-> IF n = 0 THEN s ELSE Step(a, b, p, q, u, v, f[n - 1], n)]
      BY <2>4, <3>1
    <3> QED
      BY <3>2 DEF After
  <2> QED
    BY <1>2, <2>5
<1> QED
  BY <1>3, <1>4

\* What s satisfies and each step preserves holds after m steps.
THEOREM TurnsKeep ==
  ASSUME NEW a, NEW b, NEW p, NEW q, NEW u, NEW v, NEW s, NEW m \in Nat,
         P(a, b, p, q, u, v, s, 0),
         \A t, n : n \in 1 .. m /\ P(a, b, p, q, u, v, t, n - 1)
                     => P(a, b, p, q, u, v, Step(a, b, p, q, u, v, t, n), n)
  PROVE  LET after[n \in 0 .. m] ==
               IF n = 0 THEN s ELSE Step(a, b, p, q, u, v, after[n - 1], n)
         IN P(a, b, p, q, u, v, after[m], m)
<1> DEFINE f == CHOOSE g :
       g = [n \in 0 .. m |-> IF n = 0 THEN s ELSE Step(a, b, p, q, u, v, g[n - 1], n)]
<1>1. f = [n \in 0 .. m |-> IF n = 0 THEN s ELSE Step(a, b, p, q, u, v, f[n - 1], n)]
  <2>1. \E g : g = [n \in 0 .. m |-> IF n = 0 THEN s ELSE Step(a, b, p, q, u, v, g[n - 1], n)]
    <3>1. PICK g : After(a, b, p, q, u, v, s, m, g)
      BY AfterExists
    <3>2. g = [n \in 0 .. m |-> IF n = 0 THEN s ELSE Step(a, b, p, q, u, v, g[n - 1], n)]
      BY <3>1 DEF After
    <3> QED
      BY <3>2, Zenon
  <2> QED
    BY <2>1, Zenon
<1> HIDE DEF f
<1> DEFINE T == {k \in 0 .. m : ~P(a, b, p, q, u, v, f[k], k)}
<1>2. T = {}
  <2> SUFFICES ASSUME T # {} PROVE FALSE
    OBVIOUS
  <2>1. PICK d \in T : \A e \in T : ~(<<e, d>> \in OpToRel(<, Nat))
    <3>1. T \subseteq Nat
      OBVIOUS
    <3> HIDE DEF T
    <3> QED
      BY <3>1, WFMin, NatLessThanWellFounded
  <2>2. d \in 0 .. m /\ \A e \in T : e \in Nat /\ ~(e < d)
    <3>1. d \in Nat /\ \A e \in T : e \in Nat
      OBVIOUS
    <3>2. \A e \in T : ~(e < d)
      <4> HIDE DEF T
      <4> QED
        BY <2>1, <3>1 DEF OpToRel
    <3> QED
      BY <3>1, <3>2
  <2>3. d # 0
    BY <1>1, <2>1
  <2>4. d - 1 \in 0 .. m /\ d - 1 \notin T
    BY <2>2, <2>3
  <2>5. P(a, b, p, q, u, v, f[d - 1], d - 1)
    BY <2>4
  <2>6. f[d] = Step(a, b, p, q, u, v, f[d - 1], d)
    BY <1>1, <2>2, <2>3
  <2>7. d \in 1 .. m
    BY <2>2, <2>3
  <2>8. P(a, b, p, q, u, v, f[d], d)
    BY <2>5, <2>6, <2>7
  <2> QED
    BY <2>1, <2>8
<1>3. P(a, b, p, q, u, v, f[m], m)
  BY <1>2
<1> QED
  BY <1>3 DEF f
=============================================================================
