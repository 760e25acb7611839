------------------------ MODULE FeasibleDomainProofs ------------------------
(***************************************************************************)
(* Proofs about module FeasibleDomain, for every width: first the interval *)
(* operators, which need only that an interval is a Constraint, then the   *)
(* search for the least and the greatest value that fixed bits allow, then *)
(* each operation of the class, and last the specification.                *)
(*                                                                         *)
(* Good says of a domain what makes an operation safe to start: bits and   *)
(* interval agree unless a conflict is recorded, and the size that the     *)
(* last report is measured against is honest.  Follows says the same of    *)
(* the outcome of an operation.  The invariant DomainInv is that the       *)
(* domain that can be used now is Good, that a recorded conflict was       *)
(* reported, and that the witness is still allowed.                        *)
(***************************************************************************)
EXTENDS FeasibleDomain, FiniteSetTheorems, WellFoundedInduction, TLAPS
-----------------------------------------------------------------------------
(***************************************************************************)
(* Facts about the bits of a number, for module FeasibleDomain: numbers    *)
(* below 2^n and bit vectors of length n are the same thing, and the order *)
(* of two numbers is that of the highest bit they differ in.               *)
(***************************************************************************)

\* Induction over the natural numbers, for the members of a set.
LEMMA NatInd ==
  ASSUME NEW S, 0 \in S, \A n \in Nat : n \in S => n + 1 \in S
  PROVE  Nat \subseteq S
<1> DEFINE T == Nat \ S
<1> SUFFICES ASSUME T # {} PROVE FALSE
  OBVIOUS
<1>1. PICK d \in T : \A e \in T : ~(<<e, d>> \in OpToRel(<, Nat))
  <2>1. T \subseteq Nat
    OBVIOUS
  <2> HIDE DEF T
  <2> QED
    BY <2>1, WFMin, NatLessThanWellFounded
<1>2. \A e \in T : ~(e < d)
  BY <1>1 DEF OpToRel
<1>3. d \in Nat /\ d # 0
  OBVIOUS
<1>4. d - 1 \in Nat /\ d - 1 < d /\ (d - 1) + 1 = d
  BY <1>3
<1>5. d - 1 \notin T
  BY <1>2, <1>4
<1> QED
  BY <1>4, <1>5

\* A set of numbers that has a member has a least one.
LEMMA LeastNat ==
  ASSUME NEW T \in SUBSET Nat, T # {}
  PROVE  \E x \in T : \A y \in T : x <= y
<1>1. PICK d \in T : \A e \in T : ~(<<e, d>> \in OpToRel(<, Nat))
  BY WFMin, NatLessThanWellFounded
<1>2. \A e \in T : ~(e < d)
  BY <1>1 DEF OpToRel
<1> QED
  BY <1>2

\* And a greatest one, if it has a bound.
LEMMA GreatestNat ==
  ASSUME NEW b \in Int, NEW T \in SUBSET (0 .. b), T # {}
  PROVE  \E x \in T : \A y \in T : y <= x
<1> DEFINE D == {k \in Nat : k <= b /\ b - k \in T}
<1>1. D \in SUBSET Nat
  OBVIOUS
<1>2. D # {}
  <2>1. PICK x \in T : TRUE
    OBVIOUS
  <2>2. b - x \in Nat /\ b - x <= b /\ b - (b - x) = x
    BY <2>1
  <2> QED
    BY <2>2
<1>3. PICK d \in D : \A e \in D : d <= e
  <2> HIDE DEF D
  <2> QED
    BY <1>1, <1>2, LeastNat
<1>4. ASSUME NEW y \in T
      PROVE  y <= b - d
  <2>1. y \in Int /\ b - y \in D
    <3>1. y \in 0 .. b
      OBVIOUS
    <3> QED
      BY <3>1
  <2> QED
    BY <2>1, <1>3
<1> QED
  BY <1>3, <1>4

-----------------------------------------------------------------------------
(* Powers of two, quotients and remainders.                                *)

\* The subsets of 1 .. n + 1 are those of 1 .. n, without and with n + 1.
LEMMA PowerDouble ==
  ASSUME NEW n \in Nat
  PROVE  2 ^ n \in Nat /\ 2 ^ (n + 1) = 2 * 2 ^ n
<1> DEFINE A == SUBSET (1 .. n)
           B == {a \union {n + 1} : a \in A}
           f == [a \in A |-> a \union {n + 1}]
<1>1. /\ IsFiniteSet(1 .. n) /\ Cardinality(1 .. n) = n
      /\ IsFiniteSet(1 .. n + 1) /\ Cardinality(1 .. n + 1) = n + 1
  BY FS_Interval
<1>2. /\ IsFiniteSet(A) /\ Cardinality(A) = 2 ^ n
      /\ IsFiniteSet(SUBSET (1 .. n + 1))
      /\ Cardinality(SUBSET (1 .. n + 1)) = 2 ^ (n + 1)
  BY <1>1, FS_SUBSET
<1>3. SUBSET (1 .. n + 1) = A \union B
  <2>1. 1 .. n + 1 = (1 .. n) \union {n + 1}
    OBVIOUS
  <2>2. ASSUME NEW s \in SUBSET (1 .. n + 1)
        PROVE  s \in A \union B
    <3>1. CASE n + 1 \in s
      <4>1. s \ {n + 1} \in A /\ s = (s \ {n + 1}) \union {n + 1}
        BY <2>1, <3>1
      <4> QED
        BY <4>1
    <3>2. CASE n + 1 \notin s
      BY <2>1, <3>2
    <3> QED
      BY <3>1, <3>2
  <2>3. ASSUME NEW s \in A \union B
        PROVE  s \in SUBSET (1 .. n + 1)
    BY <2>1
  <2> QED
    BY <2>2, <2>3
<1>4. A \cap B = {}
  <2>1. n + 1 \notin 1 .. n
    OBVIOUS
  <2> QED
    BY <2>1
<1>5. f \in Bijection(A, B)
  <2>1. f \in [A -> B]
    OBVIOUS
  <2>2. \A a, c \in A : f[a] = f[c] => a = c
    <3>1. n + 1 \notin 1 .. n
      OBVIOUS
    <3> QED
      BY <3>1
  <2>3. \A b \in B : \E a \in A : f[a] = b
    OBVIOUS
  <2> HIDE DEF f, A, B
  <2> QED
    BY <2>1, <2>2, <2>3 DEF Bijection, Injection, Surjection, IsInjective
<1>6. IsFiniteSet(B) /\ Cardinality(B) = Cardinality(A)
  <2> HIDE DEF f, A, B
  <2> QED
    BY <1>2, <1>5, FS_Bijection DEF ExistsBijection
<1>7. Cardinality(A \union B) = Cardinality(A) + Cardinality(B)
  <2>1. Cardinality(A \cap B) = 0
    BY <1>4, FS_EmptySet
  <2>2. Cardinality(A) \in Nat /\ Cardinality(B) \in Nat
    BY <1>2, <1>6, FS_CardinalityType
  <2> HIDE DEF A, B
  <2>3. Cardinality(A \union B)
          = Cardinality(A) + Cardinality(B) - Cardinality(A \cap B)
    BY <1>2, <1>6, FS_Union
  <2> QED
    BY <2>1, <2>2, <2>3
<1>8. 2 ^ n \in Nat
  BY <1>2, FS_CardinalityType
<1> HIDE DEF A, B
<1>9. 2 ^ (n + 1) = Cardinality(A) + Cardinality(A)
  BY <1>2, <1>3, <1>6, <1>7
<1>10. Cardinality(A) = 2 ^ n
  BY <1>2
<1> QED
  BY <1>8, <1>9, <1>10

\* 2^n is positive.
LEMMA PowerPositive ==
  ASSUME NEW n \in Nat
  PROVE  2 ^ n \in Nat /\ 2 ^ n >= 1
<1> DEFINE S == {k \in Nat : 2 ^ k >= 1}
<1>1. 0 \in S
  OBVIOUS
<1>2. \A k \in Nat : k \in S => k + 1 \in S
  <2> SUFFICES ASSUME NEW k \in Nat, 2 ^ k >= 1
               PROVE  2 ^ (k + 1) >= 1
    OBVIOUS
  <2> QED
    BY PowerDouble
<1>3. Nat \subseteq S
  <2> HIDE DEF S
  <2> QED
    BY <1>1, <1>2, NatInd
<1> QED
  BY <1>3, PowerDouble

\* Quotient and remainder of a division by a positive number.
LEMMA DivMod ==
  ASSUME NEW a \in Int, NEW b \in Nat, b >= 1
  PROVE  /\ a \div b \in Int /\ a % b \in Int
         /\ 0 <= a % b /\ a % b < b
         /\ a = b * (a \div b) + (a % b)
OBVIOUS

\* There is only one quotient and one remainder.
LEMMA DivUnique ==
  ASSUME NEW a \in Int, NEW b \in Nat, b >= 1, NEW q \in Int, NEW r \in Int,
         a = b * q + r, 0 <= r, r < b
  PROVE  a \div b = q /\ a % b = r
<1> DEFINE p == a \div b
           s == a % b
<1>1. p \in Int /\ s \in Int /\ 0 <= s /\ s < b /\ a = b * p + s
  BY DivMod
<1> HIDE DEF p, s
<1>2. ASSUME NEW x \in Int, NEW y \in Int, x < y
      PROVE  b * x + b <= b * y
  <2>1. y - x - 1 \in Nat
    BY <1>2
  <2>2. b * (y - x - 1) >= 0
    BY <2>1
  <2>3. b * (y - x - 1) = b * y - b * x - b
    OBVIOUS
  <2>4. b * x \in Int /\ b * y \in Int
    OBVIOUS
  <2> QED
    BY <2>2, <2>3, <2>4
<1>3. b * p \in Int /\ b * q \in Int
  BY <1>1
<1>4. ~(p < q)
  <2> SUFFICES ASSUME p < q PROVE FALSE
    OBVIOUS
  <2>1. b * p + b <= b * q
    BY <1>1, <1>2
  <2> QED
    BY <2>1, <1>1, <1>3
<1>5. ~(q < p)
  <2> SUFFICES ASSUME q < p PROVE FALSE
    OBVIOUS
  <2>1. b * q + b <= b * p
    BY <1>1, <1>2
  <2> QED
    BY <2>1, <1>1, <1>3
<1>6. p = q
  BY <1>1, <1>4, <1>5
<1>7. s = r
  BY <1>1, <1>3, <1>6
<1> QED
  BY <1>6, <1>7 DEF p, s

-----------------------------------------------------------------------------
(* The bits of a number.                                                   *)

\* A bit is 0 or 1.
LEMMA BitType ==
  ASSUME NEW v \in Int, NEW i \in Nat
  PROVE  Bit(v, i) \in {0, 1}
<1>1. v \div 2 ^ i \in Int
  BY PowerPositive, DivMod
<1> QED
  BY <1>1 DEF Bit

\* The number that the low n bits of v make.
Low(v, n) == v % 2 ^ n

\* The low n + 1 bits of a number are bit n and the low n bits.
LEMMA LowStep ==
  ASSUME NEW v \in Int, NEW n \in Nat
  PROVE  Low(v, n + 1) = Bit(v, n) * 2 ^ n + Low(v, n)
<1> DEFINE p == 2 ^ n
           q == v \div p
           r == v % p
           b == Bit(v, n)
           h == q \div 2
<1>1. p \in Nat /\ p >= 1 /\ 2 ^ (n + 1) = 2 * p
  BY PowerDouble, PowerPositive
<1>2. q \in Int /\ r \in Int /\ 0 <= r /\ r < p /\ v = p * q + r
  BY <1>1, DivMod
<1>3. b \in {0, 1} /\ h \in Int /\ q = 2 * h + b
  <2>1. b = q % 2
    BY DEF Bit
  <2> HIDE DEF q, b
  <2> QED
    BY <2>1, <1>2
<1> HIDE DEF p, q, r, b, h
<1>4. v = (2 * p) * h + (b * p + r)
  <2>1. p * (2 * h + b) = (2 * p) * h + b * p
    BY <1>1, <1>2, <1>3
  <2> QED
    BY <2>1, <1>1, <1>2, <1>3
<1>5. 2 * p \in Nat /\ 2 * p >= 1 /\ b * p + r \in Int
      /\ 0 <= b * p + r /\ b * p + r < 2 * p
  BY <1>1, <1>2, <1>3
<1>6. v % (2 * p) = b * p + r
  BY <1>3, <1>4, <1>5, DivUnique
<1> QED
  BY <1>1, <1>6 DEF p, r, b, Low

\* A number below 2^n is its low n bits.
LEMMA LowAll ==
  ASSUME NEW n \in Nat, NEW v \in 0 .. 2 ^ n - 1
  PROVE  Low(v, n) = v
BY PowerPositive DEF Low

\* The low bits of a number are a number of that many bits.
LEMMA LowType ==
  ASSUME NEW v \in Int, NEW n \in Nat
  PROVE  Low(v, n) \in Int /\ 0 <= Low(v, n) /\ Low(v, n) < 2 ^ n /\ 2 ^ n \in Nat
BY PowerPositive, DivMod DEF Low

\* Where the bits from m on are the same, the difference is one of the bits
\* below m.
LEMMA SameAbove ==
  ASSUME NEW u \in Int, NEW v \in Int, NEW m \in Nat, NEW n \in Nat, m <= n,
         \A j \in m .. n - 1 : Bit(u, j) = Bit(v, j)
  PROVE  Low(u, n) - Low(v, n) = Low(u, m) - Low(v, m)
<1> DEFINE Diff(k) == Low(u, k) - Low(v, k)
           S == {k \in Nat : m + k <= n => Diff(m + k) = Diff(m)}
<1>1. 0 \in S
  OBVIOUS
<1>2. ASSUME NEW k \in Nat, k \in S
      PROVE  k + 1 \in S
  <2> SUFFICES ASSUME m + (k + 1) <= n PROVE Diff(m + (k + 1)) = Diff(m)
    OBVIOUS
  <2> DEFINE i == m + k
  <2>1. i \in Nat /\ i \in m .. n - 1 /\ m + (k + 1) = i + 1 /\ Diff(i) = Diff(m)
    BY <1>2
  <2> HIDE DEF i
  <2>2. Bit(u, i) = Bit(v, i) /\ Bit(v, i) \in {0, 1}
    BY <2>1, BitType
  <2>3. /\ Low(u, i + 1) = Bit(v, i) * 2 ^ i + Low(u, i)
        /\ Low(v, i + 1) = Bit(v, i) * 2 ^ i + Low(v, i)
    BY <2>1, <2>2, LowStep
  <2>4. /\ Low(u, i) \in Int /\ Low(v, i) \in Int /\ 2 ^ i \in Nat
    BY <2>1, LowType
  <2>5. Diff(i + 1) = Diff(i)
    BY <2>2, <2>3, <2>4
  <2> HIDE DEF Diff
  <2> QED
    BY <2>1, <2>5
<1>3. n - m \in S
  <2>1. n - m \in Nat
    OBVIOUS
  <2> HIDE DEF S
  <2> QED
    BY <1>1, <1>2, <2>1, NatInd
<1>4. m + (n - m) = n
  OBVIOUS
<1> HIDE DEF Diff
<1>5. Diff(n) = Diff(m)
  BY <1>3, <1>4
<1> QED
  BY <1>5 DEF Diff

\* Where all low bits are the same, the numbers they make are.
LEMMA SameBelow ==
  ASSUME NEW u \in Int, NEW v \in Int, NEW n \in Nat,
         \A j \in 0 .. n - 1 : Bit(u, j) = Bit(v, j)
  PROVE  Low(u, n) = Low(v, n)
<1>1. PICK z \in Nat : z = 0
  OBVIOUS
<1>2. z <= n /\ \A j \in z .. n - 1 : Bit(u, j) = Bit(v, j)
  BY <1>1
<1>3. Low(u, n) - Low(v, n) = Low(u, z) - Low(v, z)
  BY <1>2, SameAbove
<1>4. Low(u, z) = 0 /\ Low(v, z) = 0
  <2>1. Low(u, 0) = 0 /\ Low(v, 0) = 0
    BY DEF Low
  <2> QED
    BY <2>1, <1>1
<1>5. Low(u, n) \in Int /\ Low(v, n) \in Int
  BY LowType
<1> QED
  BY <1>3, <1>4, <1>5

\* Numbers with the same bits are the same.
LEMMA SameBits ==
  ASSUME NEW n \in Nat, NEW u \in 0 .. 2 ^ n - 1, NEW v \in 0 .. 2 ^ n - 1,
         \A j \in 0 .. n - 1 : Bit(u, j) = Bit(v, j)
  PROVE  u = v
<1>1. u \in Int /\ v \in Int
  OBVIOUS
<1>2. Low(u, n) = Low(v, n)
  BY <1>1, SameBelow
<1> QED
  BY <1>2, LowAll

\* The number with the lower bit in the highest place they differ in is less.
LEMMA LowerBit ==
  ASSUME NEW n \in Nat, NEW u \in 0 .. 2 ^ n - 1, NEW v \in 0 .. 2 ^ n - 1,
         NEW i \in 0 .. n - 1, Bit(u, i) = 0, Bit(v, i) = 1,
         \A j \in i + 1 .. n - 1 : Bit(u, j) = Bit(v, j)
  PROVE  u < v
<1>1. Low(u, n) = u /\ Low(v, n) = v /\ u \in Int /\ v \in Int /\ i \in Nat
  BY LowAll
<1>2. Low(u, n) - Low(v, n) = Low(u, i + 1) - Low(v, i + 1)
  <2>1. PICK k \in Nat : k = i + 1
    BY <1>1
  <2>2. k <= n /\ \A j \in k .. n - 1 : Bit(u, j) = Bit(v, j)
    BY <1>1, <2>1
  <2>3. Low(u, n) - Low(v, n) = Low(u, k) - Low(v, k)
    BY <1>1, <2>2, SameAbove
  <2> QED
    BY <2>1, <2>3
<1>3. /\ Low(u, i + 1) = 0 * 2 ^ i + Low(u, i)
      /\ Low(v, i + 1) = 1 * 2 ^ i + Low(v, i)
  BY <1>1, LowStep
<1>4. /\ Low(u, i) \in Int /\ Low(v, i) \in Int /\ 2 ^ i \in Nat
      /\ Low(u, i) < 2 ^ i /\ 0 <= Low(v, i)
  BY <1>1, LowType
<1> QED
  BY <1>1, <1>2, <1>3, <1>4

\* The highest place two numbers differ in.
LEMMA HighestDifference ==
  ASSUME NEW n \in Nat, NEW u \in 0 .. 2 ^ n - 1, NEW v \in 0 .. 2 ^ n - 1, u < v
  PROVE  \E i \in 0 .. n - 1 :
           /\ Bit(u, i) = 0 /\ Bit(v, i) = 1
           /\ \A j \in i + 1 .. n - 1 : Bit(u, j) = Bit(v, j)
<1> DEFINE T == {i \in 0 .. n - 1 : Bit(u, i) # Bit(v, i)}
<1>1. u \in Int /\ v \in Int
  OBVIOUS
<1>2. T # {}
  BY <1>1, SameBits
<1>3. PICK i \in T : \A j \in T : j <= i
  <2>1. T \in SUBSET (0 .. n - 1) /\ n - 1 \in Int
    OBVIOUS
  <2> HIDE DEF T
  <2> QED
    BY <1>2, <2>1, GreatestNat
<1>4. i \in 0 .. n - 1 /\ i \in Nat /\ Bit(u, i) # Bit(v, i)
  OBVIOUS
<1>5. ASSUME NEW j \in i + 1 .. n - 1
      PROVE  Bit(u, j) = Bit(v, j)
  <2>1. j \in 0 .. n - 1 /\ ~(j <= i)
    BY <1>4
  <2> QED
    BY <2>1, <1>3
<1> HIDE DEF T
<1>6. Bit(u, i) \in {0, 1} /\ Bit(v, i) \in {0, 1}
  BY <1>1, <1>4, BitType
<1>7. ~(Bit(u, i) = 1 /\ Bit(v, i) = 0)
  <2> SUFFICES ASSUME Bit(u, i) = 1, Bit(v, i) = 0 PROVE FALSE
    OBVIOUS
  <2>1. v < u
    BY <1>4, <1>5, LowerBit
  <2> QED
    BY <2>1, <1>1
<1> QED
  BY <1>4, <1>5, <1>6, <1>7

\* Numbers that differ in bit i alone are 2^i apart.
LEMMA OneBitApart ==
  ASSUME NEW n \in Nat, NEW u \in 0 .. 2 ^ n - 1, NEW v \in 0 .. 2 ^ n - 1,
         NEW i \in 0 .. n - 1, Bit(u, i) = 0, Bit(v, i) = 1,
         \A j \in 0 .. n - 1 : j # i => Bit(u, j) = Bit(v, j)
  PROVE  v = u + 2 ^ i
<1>1. Low(u, n) = u /\ Low(v, n) = v /\ u \in Int /\ v \in Int /\ i \in Nat
  BY LowAll
<1>2. Low(u, n) - Low(v, n) = Low(u, i + 1) - Low(v, i + 1)
  <2>1. PICK k \in Nat : k = i + 1
    BY <1>1
  <2>2. k <= n /\ \A j \in k .. n - 1 : Bit(u, j) = Bit(v, j)
    BY <1>1, <2>1
  <2>3. Low(u, n) - Low(v, n) = Low(u, k) - Low(v, k)
    BY <1>1, <2>2, SameAbove
  <2> QED
    BY <2>1, <2>3
<1>3. /\ Low(u, i + 1) = 0 * 2 ^ i + Low(u, i)
      /\ Low(v, i + 1) = 1 * 2 ^ i + Low(v, i)
  BY <1>1, LowStep
<1>4. Low(u, i) = Low(v, i)
  <2>1. \A j \in 0 .. i - 1 : Bit(u, j) = Bit(v, j)
    BY <1>1
  <2> QED
    BY <1>1, <2>1, SameBelow
<1>5. /\ Low(u, i) \in Int /\ Low(v, i) \in Int /\ 2 ^ i \in Nat
  BY <1>1, LowType
<1> QED
  BY <1>1, <1>2, <1>3, <1>4, <1>5

\* Numbers with opposite bits add up to 2^n - 1.
LEMMA Opposite ==
  ASSUME NEW n \in Nat, NEW u \in 0 .. 2 ^ n - 1, NEW v \in 0 .. 2 ^ n - 1,
         \A j \in 0 .. n - 1 : Bit(v, j) = 1 - Bit(u, j)
  PROVE  u + v = 2 ^ n - 1
<1> DEFINE Total(k) == Low(u, k) + Low(v, k)
           S == {k \in Nat : k <= n => Total(k) = 2 ^ k - 1}
<1>1. u \in Int /\ v \in Int
  OBVIOUS
<1>2. 0 \in S
  BY <1>1 DEF Low
<1>3. ASSUME NEW k \in Nat, k \in S
      PROVE  k + 1 \in S
  <2> SUFFICES ASSUME k + 1 <= n PROVE Total(k + 1) = 2 ^ (k + 1) - 1
    OBVIOUS
  <2>1. k \in 0 .. n - 1 /\ Total(k) = 2 ^ k - 1
    BY <1>3
  <2>2. Bit(v, k) = 1 - Bit(u, k) /\ Bit(u, k) \in {0, 1}
    BY <1>1, <2>1, BitType
  <2>3. /\ Low(u, k + 1) = Bit(u, k) * 2 ^ k + Low(u, k)
        /\ Low(v, k + 1) = Bit(v, k) * 2 ^ k + Low(v, k)
    BY <1>1, LowStep
  <2>4. /\ Low(u, k) \in Int /\ Low(v, k) \in Int /\ 2 ^ k \in Nat
    BY <1>1, LowType
  <2>5. Bit(u, k) * 2 ^ k + Bit(v, k) * 2 ^ k = 2 ^ k
    BY <2>2, <2>4
  <2>6. /\ Bit(u, k) * 2 ^ k \in Int /\ Bit(v, k) * 2 ^ k \in Int
    BY <2>2, <2>4
  <2>7. 2 ^ (k + 1) = 2 * 2 ^ k
    BY PowerDouble
  <2> QED
    BY <2>1, <2>3, <2>4, <2>5, <2>6, <2>7
<1>4. n \in S
  <2> HIDE DEF S
  <2> QED
    BY <1>2, <1>3, NatInd
<1>5. Low(u, n) = u /\ Low(v, n) = v
  BY LowAll
<1> QED
  BY <1>4, <1>5

\* Appending a bit below shifts the others up.
LEMMA BitShifted ==
  ASSUME NEW v \in Nat, NEW b \in {0, 1}
  PROVE  /\ Bit(2 * v + b, 0) = b
         /\ \A i \in Nat : Bit(2 * v + b, i + 1) = Bit(v, i)
<1>1. Bit(2 * v + b, 0) = b
  <2>1. 2 ^ 0 = 1 /\ (2 * v + b) \div 1 = 2 * v + b /\ (2 * v + b) % 2 = b
    OBVIOUS
  <2> QED
    BY <2>1 DEF Bit
<1>2. ASSUME NEW i \in Nat
      PROVE  Bit(2 * v + b, i + 1) = Bit(v, i)
  <2> DEFINE p == 2 ^ i
             q == v \div p
             r == v % p
  <2>1. p \in Nat /\ p >= 1 /\ 2 ^ (i + 1) = 2 * p
    BY PowerDouble, PowerPositive
  <2>2. q \in Int /\ r \in Int /\ 0 <= r /\ r < p /\ v = p * q + r
    <3>1. v \in Int
      OBVIOUS
    <3> QED
      BY <2>1, <3>1, DivMod
  <2>3. Bit(v, i) = q % 2
    BY DEF Bit
  <2> HIDE DEF p, q, r
  <2>4. /\ 2 * v + b = (2 * p) * q + (2 * r + b)
        /\ 2 * p \in Nat /\ 2 * p >= 1 /\ 2 * r + b \in Int
        /\ 0 <= 2 * r + b /\ 2 * r + b < 2 * p /\ 2 * v + b \in Int
    BY <2>1, <2>2
  <2>5. (2 * v + b) \div (2 * p) = q
    BY <2>2, <2>4, DivUnique
  <2> QED
    BY <2>1, <2>3, <2>5 DEF Bit
<1> QED
  BY <1>1, <1>2

\* Every bit vector is the bits of a number.
LEMMA AnyBits ==
  ASSUME NEW n \in Nat, NEW f \in [0 .. n - 1 -> {0, 1}]
  PROVE  \E v \in 0 .. 2 ^ n - 1 : \A i \in 0 .. n - 1 : Bit(v, i) = f[i]
<1> DEFINE Has(k, g) == \E v \in 0 .. 2 ^ k - 1 : \A i \in 0 .. k - 1 : Bit(v, i) = g[i]
           S == {k \in Nat : \A g \in [0 .. k - 1 -> {0, 1}] : Has(k, g)}
<1>1. 0 \in S
  <2>1. 0 \in 0 .. 2 ^ 0 - 1 /\ 0 .. 0 - 1 = {}
    OBVIOUS
  <2> QED
    BY <2>1
<1>2. ASSUME NEW k \in Nat, k \in S
      PROVE  k + 1 \in S
  <2> SUFFICES ASSUME NEW g \in [0 .. (k + 1) - 1 -> {0, 1}]
               PROVE  Has(k + 1, g)
    OBVIOUS
  <2> DEFINE h == [i \in 0 .. k - 1 |-> g[i + 1]]
  <2>1. h \in [0 .. k - 1 -> {0, 1}]
    <3>1. \A i \in 0 .. k - 1 : i + 1 \in 0 .. (k + 1) - 1
      OBVIOUS
    <3> QED
      BY <3>1
  <2>2. PICK v \in 0 .. 2 ^ k - 1 : \A i \in 0 .. k - 1 : Bit(v, i) = h[i]
    BY <1>2, <2>1
  <2>3. g[0] \in {0, 1}
    OBVIOUS
  <2> DEFINE u == 2 * v + g[0]
  <2>4. 2 ^ (k + 1) = 2 * 2 ^ k /\ 2 ^ k \in Nat /\ v \in Nat
    BY PowerDouble
  <2>5. u \in 0 .. 2 ^ (k + 1) - 1
    BY <2>3, <2>4
  <2>6. Bit(u, 0) = g[0] /\ \A i \in Nat : Bit(u, i + 1) = Bit(v, i)
    BY <2>3, <2>4, BitShifted
  <2>7. ASSUME NEW i \in 0 .. (k + 1) - 1
        PROVE  Bit(u, i) = g[i]
    <3>1. CASE i = 0
      BY <3>1, <2>6
    <3>2. CASE i # 0
      <4>1. i - 1 \in 0 .. k - 1 /\ i - 1 \in Nat /\ (i - 1) + 1 = i
        BY <3>2
      <4>2. Bit(u, i) = Bit(v, i - 1)
        BY <2>6, <4>1
      <4>3. Bit(v, i - 1) = h[i - 1]
        BY <2>2, <4>1
      <4>4. h[i - 1] = g[i]
        BY <4>1
      <4> QED
        BY <4>2, <4>3, <4>4
    <3> QED
      BY <3>1, <3>2
  <2> HIDE DEF u
  <2> QED
    BY <2>5, <2>7
<1>3. n \in S
  <2> HIDE DEF S
  <2> QED
    BY <1>1, <1>2, NatInd
<1> QED
  BY <1>3

-----------------------------------------------------------------------------
(* The interval operators, and what stands on them.                        *)

\* The bounds of a constraint are integers in the right order.
LEMMA Bounds ==
  ASSUME NEW c \in Constraint
  PROVE  /\ c.min \in Int /\ c.max \in Int /\ c.compl \in BOOLEAN
         /\ c.compl => c.min < c.max
         /\ ~c.compl => c.min <= c.max
         /\ 0 <= c.min /\ c.max <= Ones
BY DEF Constraint, Interval, Value

\* intersects says "no" only of intervals without a common value, so the
\* conflict of intersect_interval_constraint is justified.
THEOREM NoMeetNoValue ==
  ASSUME NEW a \in Constraint, NEW b \in Constraint, NEW v \in Value,
         InInterval(a, v), InInterval(b, v)
  PROVE  Meets(a, b)
<1>1. v \in Int
  BY DEF Value
<1>2. QED
  BY <1>1, Bounds DEF Meets, InInterval

\* A normal interval n that meets a complementary one c, and does not reach
\* both of its parts, shares one piece with it.
LEMMA PieceExact ==
  ASSUME NEW n \in Constraint, ~n.compl, NEW c \in Constraint, c.compl,
         n.min <= c.min \/ c.max <= n.max, ~Spans(n, c)
  PROVE  /\ Piece(n, c) # NoPiece
         /\ \A v \in Value : InInterval(Piece(n, c), v)
                               <=> InInterval(n, v) /\ InInterval(c, v)
<1>1. /\ n.min \in Int /\ n.max \in Int /\ n.min <= n.max /\ 0 <= n.min
      /\ c.min \in Int /\ c.max \in Int /\ c.min < c.max /\ 0 <= c.min
  BY Bounds
<1>2. \A v \in Value : v \in Int
  BY DEF Value
<1> DEFINE Inside == n.min >= c.max \/ n.max <= c.min
           Above  == n.max >= c.max /\ n.min < c.max /\ n.max > c.min
           Below  == n.min <= c.min /\ n.max < c.max /\ n.max > c.min
<1>3. /\ Inside \/ Above \/ Below
      /\ ~(Inside /\ Above) /\ ~(Inside /\ Below) /\ ~(Above /\ Below)
  BY <1>1 DEF Spans
<1>4. CASE Inside
  <2>1. Piece(n, c) = n
    BY <1>3, <1>4 DEF Piece
  <2> QED
    BY <2>1, <1>1, <1>2, <1>4 DEF InInterval, NoPiece, Normal, None
<1>5. CASE Above
  <2>1. Piece(n, c) = Normal(c.max, n.max)
    BY <1>3, <1>5 DEF Piece
  <2> QED
    BY <2>1, <1>1, <1>2, <1>5 DEF InInterval, NoPiece, Normal, None, Spans
<1>6. CASE Below
  <2>1. Piece(n, c) = Normal(n.min, c.min)
    BY <1>3, <1>6 DEF Piece
  <2> QED
    BY <2>1, <1>1, <1>2, <1>6 DEF InInterval, NoPiece, Normal, None, Spans
<1> QED
  BY <1>3, <1>4, <1>5, <1>6

\* Where the two intervals share one piece, the four cases of
\* intersect_interval_constraint find it, not one value more and not one
\* less, and "unreachable code reached" is not.
THEOREM IntersectionExact ==
  ASSUME NEW a \in Constraint, NEW b \in Constraint,
         Meets(a, b), ~SplitsInTwo(a, b)
  PROVE  /\ Intersection(b, a) # NoPiece
         /\ \A v \in Value : InInterval(Intersection(b, a), v)
                               <=> InInterval(a, v) /\ InInterval(b, v)
<1>1. CASE a.compl /\ b.compl
  <2>1. Intersection(b, a) = Compl(Smaller(b.min, a.min), Larger(b.max, a.max))
    BY <1>1 DEF Intersection
  <2>2. /\ Intersection(b, a).compl
        /\ Intersection(b, a).min = Smaller(b.min, a.min)
        /\ Intersection(b, a).max = Larger(b.max, a.max)
    BY <2>1 DEF Compl
  <2>3. Intersection(b, a) # NoPiece
    BY <2>2 DEF NoPiece, Normal
  <2>4. Larger(a.min, b.min) < Smaller(a.max, b.max)
    BY <1>1, Bounds DEF SplitsInTwo, Larger, Smaller
  <2>5. ASSUME NEW v \in Value
        PROVE  InInterval(Intersection(b, a), v)
                 <=> InInterval(a, v) /\ InInterval(b, v)
    <3>1. v \in Int
      BY DEF Value
    <3> QED
      BY <3>1, <2>2, <2>4, <1>1, Bounds DEF InInterval, Smaller, Larger
  <2> QED
    BY <2>3, <2>5
<1>2. CASE a.compl /\ ~b.compl
  <2>1. Intersection(b, a) = Piece(b, a)
    BY <1>2 DEF Intersection
  <2>2. (b.min <= a.min \/ a.max <= b.max) /\ ~Spans(b, a)
    BY <1>2 DEF Meets, SplitsInTwo
  <2> QED
    BY <2>1, <2>2, <1>2, PieceExact
<1>3. CASE ~a.compl /\ b.compl
  <2>1. Intersection(b, a) = Piece(a, b)
    BY <1>3 DEF Intersection
  <2>2. (a.min <= b.min \/ b.max <= a.max) /\ ~Spans(a, b)
    BY <1>3 DEF Meets, SplitsInTwo
  <2> QED
    BY <2>1, <2>2, <1>3, PieceExact
<1>4. CASE ~a.compl /\ ~b.compl
  <2>1. Intersection(b, a) = Normal(Larger(b.min, a.min), Smaller(b.max, a.max))
    BY <1>4 DEF Intersection
  <2>2. /\ ~Intersection(b, a).compl
        /\ Intersection(b, a).min = Larger(b.min, a.min)
        /\ Intersection(b, a).max = Smaller(b.max, a.max)
    BY <2>1 DEF Normal
  <2>3. Intersection(b, a) # NoPiece
    BY <2>2, Bounds DEF NoPiece, Normal, None, Larger
  <2>4. ASSUME NEW v \in Value
        PROVE  InInterval(Intersection(b, a), v)
                 <=> InInterval(a, v) /\ InInterval(b, v)
    <3>1. v \in Int
      BY DEF Value
    <3> QED
      BY <3>1, <2>2, <1>4, Bounds DEF InInterval, Smaller, Larger
  <2> QED
    BY <2>3, <2>4
<1> QED
  BY <1>1, <1>2, <1>3, <1>4, Bounds

-----------------------------------------------------------------------------
(* The values of a width.                                                  *)

WidthOK == width \in Nat \ {0}

LEMMA ValueFacts ==
  ASSUME WidthOK
  PROVE  /\ 2 ^ width \in Nat /\ 2 ^ width >= 2 /\ Ones \in Nat /\ Ones >= 1
         /\ Ones = 2 ^ width - 1
         /\ 0 \in Value /\ Ones \in Value
         /\ \A v \in Value : v \in Int /\ v \in Nat /\ 0 <= v /\ v <= Ones
         /\ \A i \in Bits : i \in Nat /\ i < width
         /\ width - 1 \in Bits /\ 0 \in Bits
<1>1. width - 1 \in Nat /\ (width - 1) + 1 = width
  BY DEF WidthOK
<1>2. 2 ^ (width - 1) \in Nat /\ 2 ^ (width - 1) >= 1
  BY <1>1, PowerPositive
<1>3. 2 ^ width = 2 * 2 ^ (width - 1)
  <2>1. 2 ^ ((width - 1) + 1) = 2 * 2 ^ (width - 1)
    BY <1>1, PowerDouble
  <2> QED
    BY <2>1, <1>1
<1>4. 2 ^ width \in Nat /\ 2 ^ width >= 2
  BY <1>2, <1>3
<1> QED
  BY <1>1, <1>4 DEF Value, Ones, Bits, WidthOK

\* What a bit of a value is.
LEMMA ValueBit ==
  ASSUME WidthOK, NEW v \in Value, NEW i \in Bits
  PROVE  Bit(v, i) \in {0, 1}
BY ValueFacts, BitType

\* Every choice of bits is that of one value.
LEMMA ValueWith ==
  ASSUME WidthOK, NEW f \in [Bits -> {0, 1}]
  PROVE  \E v \in Value : \A i \in Bits : Bit(v, i) = f[i]
BY AnyBits DEF WidthOK, Bits, Value, Ones

LEMMA ValueOfBits ==
  ASSUME WidthOK, NEW f \in [Bits -> {0, 1}]
  PROVE  /\ ValueOf(f) \in Value
         /\ \A i \in Bits : Bit(ValueOf(f), i) = f[i]
<1>1. PICK v \in Value : \A i \in Bits : Bit(v, i) = f[i]
  BY ValueWith
<1>2. BitsOf(v) = f
  BY <1>1 DEF BitsOf
<1>3. ValueOf(f) \in Value /\ BitsOf(ValueOf(f)) = f
  BY <1>2 DEF ValueOf
<1>4. \A i \in Bits : BitsOf(ValueOf(f))[i] = Bit(ValueOf(f), i)
  BY DEF BitsOf
<1> QED
  BY <1>3, <1>4

LEMMA ValueSame ==
  ASSUME WidthOK, NEW u \in Value, NEW v \in Value,
         \A i \in Bits : Bit(u, i) = Bit(v, i)
  PROVE  u = v
BY SameBits DEF WidthOK, Bits, Value, Ones

\* The order of two values.
LEMMA ValueLess ==
  ASSUME WidthOK, NEW u \in Value, NEW v \in Value
  PROVE  u < v <=> \E i \in Bits :
                     /\ Bit(u, i) = 0 /\ Bit(v, i) = 1
                     /\ \A j \in Bits : j > i => Bit(u, j) = Bit(v, j)
<1>1. width \in Nat /\ u \in 0 .. 2 ^ width - 1 /\ v \in 0 .. 2 ^ width - 1
  BY DEF WidthOK, Value, Ones
<1>2. ASSUME u < v
      PROVE  \E i \in Bits :
               /\ Bit(u, i) = 0 /\ Bit(v, i) = 1
               /\ \A j \in Bits : j > i => Bit(u, j) = Bit(v, j)
  <2>1. PICK i \in 0 .. width - 1 :
               /\ Bit(u, i) = 0 /\ Bit(v, i) = 1
               /\ \A j \in i + 1 .. width - 1 : Bit(u, j) = Bit(v, j)
    BY <1>1, <1>2, HighestDifference
  <2>2. \A j \in Bits : j > i => j \in i + 1 .. width - 1
    BY <1>1 DEF Bits
  <2> QED
    BY <2>1, <2>2 DEF Bits
<1>3. ASSUME NEW i \in Bits, Bit(u, i) = 0, Bit(v, i) = 1,
             \A j \in Bits : j > i => Bit(u, j) = Bit(v, j)
      PROVE  u < v
  <2>1. i \in 0 .. width - 1 /\ \A j \in i + 1 .. width - 1 : j \in Bits /\ j > i
    BY <1>1 DEF Bits
  <2> QED
    BY <1>1, <1>3, <2>1, LowerBit
<1> QED
  BY <1>2, <1>3

-----------------------------------------------------------------------------
(* The values of some fixed bits.                                          *)

Pattern == [Bits -> {0, 1, Free}]

LEMMA ConsistentWith ==
  ASSUME WidthOK, NEW b \in Pattern, NEW f \in [Bits -> {0, 1}],
         \A i \in Fixed(b) : f[i] = b[i]
  PROVE  \E v \in Consistent(b) : \A i \in Bits : Bit(v, i) = f[i]
<1>1. PICK v \in Value : \A i \in Bits : Bit(v, i) = f[i]
  BY ValueWith
<1>2. v \in Consistent(b)
  BY <1>1 DEF Consistent, Fixed, Pattern
<1> QED
  BY <1>1, <1>2

\* Fixed bits always have a value.
LEMMA SomeConsistent ==
  ASSUME WidthOK, NEW b \in Pattern
  PROVE  Consistent(b) # {} /\ Consistent(b) \subseteq Value
<1> DEFINE f == [i \in Bits |-> IF b[i] = 1 THEN 1 ELSE 0]
<1>1. f \in [Bits -> {0, 1}] /\ \A i \in Fixed(b) : f[i] = b[i]
  BY DEF Fixed, Pattern
<1> HIDE DEF f
<1>2. \E v \in Consistent(b) : \A i \in Bits : Bit(v, i) = f[i]
  BY <1>1, ConsistentWith
<1> QED
  BY <1>2 DEF Consistent

\* All bits fixed have one.
LEMMA OneConsistent ==
  ASSUME WidthOK, NEW b \in Pattern, TotallyFixed(b),
         NEW u \in Consistent(b), NEW v \in Consistent(b)
  PROVE  u = v
<1>1. u \in Value /\ v \in Value /\ \A i \in Bits : Bit(u, i) = Bit(v, i)
  BY DEF Consistent, TotallyFixed, Fixed
<1> QED
  BY <1>1, ValueSame

\* The bounds tighten_fixed_bits_by_interval starts from.
LEMMA LeastConsistent ==
  ASSUME WidthOK, NEW b \in Pattern
  PROVE  /\ LeastOf(b) \in Consistent(b)
         /\ \A w \in Consistent(b) : LeastOf(b) <= w
<1>1. Consistent(b) \in SUBSET Nat /\ Consistent(b) # {}
  BY SomeConsistent, ValueFacts
<1>2. \E v \in Consistent(b) : \A w \in Consistent(b) : v <= w
  BY <1>1, LeastNat
<1> QED
  BY <1>2 DEF LeastOf

LEMMA GreatestConsistent ==
  ASSUME WidthOK, NEW b \in Pattern
  PROVE  /\ GreatestOf(b) \in Consistent(b)
         /\ \A w \in Consistent(b) : w <= GreatestOf(b)
<1>1. Consistent(b) \in SUBSET (0 .. Ones) /\ Consistent(b) # {} /\ Ones \in Int
  BY SomeConsistent, ValueFacts DEF Value
<1>2. \E v \in Consistent(b) : \A w \in Consistent(b) : w <= v
  BY <1>1, GreatestNat
<1> QED
  BY <1>2 DEF GreatestOf

\* Setting and clearing a free bit.
LEMMA FreeBit ==
  ASSUME WidthOK, NEW b \in Pattern, NEW v \in Consistent(b),
         NEW i \in Bits \ Fixed(b)
  PROVE  /\ Bit(v, i) = 0 => v + 2 ^ i \in Consistent(b)
         /\ Bit(v, i) = 1 => v - 2 ^ i \in Consistent(b)
<1> DEFINE f == [j \in Bits |-> IF j = i THEN 1 - Bit(v, j) ELSE Bit(v, j)]
<1>1. v \in Value /\ \A j \in Fixed(b) : Bit(v, j) = b[j]
  BY DEF Consistent, Fixed
<1>2. \A j \in Bits : Bit(v, j) \in {0, 1}
  BY <1>1, ValueBit
<1>3. f \in [Bits -> {0, 1}] /\ \A j \in Fixed(b) : f[j] = b[j]
  BY <1>1, <1>2 DEF Fixed
<1>4. PICK u \in Consistent(b) : \A j \in Bits : Bit(u, j) = f[j]
  <2> HIDE DEF f
  <2> QED
    BY <1>3, ConsistentWith
<1>5. u \in Value /\ Bit(u, i) = 1 - Bit(v, i)
      /\ \A j \in Bits : j # i => Bit(u, j) = Bit(v, j)
  BY <1>4 DEF Consistent
<1> HIDE DEF f
<1>6. width \in Nat /\ u \in 0 .. 2 ^ width - 1 /\ v \in 0 .. 2 ^ width - 1
      /\ i \in 0 .. width - 1 /\ Bits = 0 .. width - 1
  BY <1>1, <1>5 DEF WidthOK, Value, Ones, Bits
<1>7. u \in Int /\ v \in Int /\ 2 ^ i \in Int
  BY <1>6, PowerPositive
<1>8. CASE Bit(v, i) = 0
  <2>1. u = v + 2 ^ i
    BY <1>5, <1>6, <1>8, OneBitApart
  <2> QED
    BY <2>1, <1>4, <1>8
<1>9. CASE Bit(v, i) = 1
  <2>1. v = u + 2 ^ i
    BY <1>5, <1>6, <1>9, OneBitApart
  <2>2. v - 2 ^ i = u
    BY <2>1, <1>7
  <2> QED
    BY <2>2, <1>4, <1>9
<1> QED
  BY <1>2, <1>8, <1>9

-----------------------------------------------------------------------------
(* find_min_consistent and find_max_consistent.                            *)

\* A value that is limit from place c on, where every free bit of limit
\* between first and c is 1 and the fixed bit first is the lower one, is less.
LEMMA StaysBelow ==
  ASSUME WidthOK, NEW b \in Pattern, NEW limit \in Value, NEW u \in Consistent(b),
         NEW first \in Fixed(b), b[first] = 0, Bit(limit, first) = 1,
         \A i \in Fixed(b) : i > first => b[i] = Bit(limit, i),
         NEW c \in Int,
         \A i \in Bits \ Fixed(b) : i > first /\ i < c => Bit(limit, i) = 1,
         \A i \in Bits : i >= c => Bit(u, i) = Bit(limit, i)
  PROVE  u < limit
<1> DEFINE D == {i \in Bits : Bit(u, i) # Bit(limit, i)}
<1>1. u \in Value /\ \A i \in Fixed(b) : i \in Bits /\ Bit(u, i) = b[i]
  BY DEF Consistent, Fixed
<1>2. first \in D
  BY <1>1
<1>3. PICK i \in D : \A j \in D : j <= i
  <2>1. D \in SUBSET (0 .. width - 1) /\ D # {} /\ width - 1 \in Int
    BY <1>2 DEF Bits, WidthOK
  <2> HIDE DEF D
  <2> QED
    BY <2>1, GreatestNat
<1>4. i \in Bits /\ i \in Int /\ Bit(u, i) # Bit(limit, i)
      /\ \A j \in Bits : j \in Int
  BY <1>1, ValueFacts
<1>5. \A j \in Bits : j > i => Bit(u, j) = Bit(limit, j)
  BY <1>3, <1>4
<1>6. first <= i
  BY <1>2, <1>3
<1> HIDE DEF D
<1>7. Bit(u, i) = 0 /\ Bit(limit, i) = 1
  <2>1. CASE i = first
    BY <2>1, <1>1
  <2>2. CASE i > first
    <3>1. i \notin Fixed(b)
      BY <1>1, <1>4, <2>2
    <3>2. Bit(limit, i) = 1
      BY <1>4, <2>2, <3>1
    <3> QED
      BY <3>2, <1>1, <1>4, ValueBit
  <2>3. first \in Int
    BY <1>1, <1>4
  <2> QED
    BY <2>1, <2>2, <2>3, <1>4, <1>6
<1> QED
  BY <1>1, <1>4, <1>5, <1>7, ValueLess

\* What is found is a value of the fixed bits; it is the least one from limit
\* on, or, if there is none, the least one of all.
IsNearest(m, b, limit) ==
  /\ m.val \in Consistent(b)
  /\ m.over \in BOOLEAN
  /\ ~m.over => /\ limit <= m.val
                /\ \A u \in Consistent(b) : limit <= u => m.val <= u
  /\ m.over => \A u \in Consistent(b) : u < limit /\ m.val <= u

\* Given the highest fixed bit that differs from limit, counting up the free
\* bits above it finds that value.
LEMMA NearestRight ==
  ASSUME WidthOK, NEW b \in Pattern, NEW limit \in Value, NEW first \in Int,
         first = -1 \/ (first \in Fixed(b) /\ b[first] # Bit(limit, first)),
         \A i \in Fixed(b) : i > first => b[i] = Bit(limit, i)
  PROVE  IsNearest(Nearest(b, limit, first), b, limit)
<1> DEFINE m == Nearest(b, limit, first)
           below == first >= 0 /\ b[first] = 0
           zeros == {i \in Bits \ Fixed(b) : i > first /\ Bit(limit, i) = 0}
           carry == IF ~below THEN -1 ELSE IF zeros = {} THEN width
                    ELSE CHOOSE i \in zeros : \A j \in zeros : i <= j
           C == CountedUp(b, limit, first, carry)
           val == ValueOf(C)
<1>1. m = [val |-> val, over |-> below /\ zeros = {}]
  BY DEF Nearest
<1>2. /\ width \in Int /\ width >= 1 /\ limit \in Int
      /\ \A i \in Bits : i \in Int /\ 0 <= i /\ i < width /\ Bit(limit, i) \in {0, 1}
      /\ Fixed(b) \subseteq Bits
      /\ \A i \in Fixed(b) : b[i] \in {0, 1}
  BY ValueFacts, ValueBit DEF WidthOK, Fixed, Pattern
<1>3. /\ ~below => carry = -1
      /\ below /\ zeros = {} => carry = width
      /\ below /\ zeros # {} => carry \in zeros /\ \A j \in zeros : carry <= j
  <2>1. below /\ zeros # {} => \E i \in zeros : \A j \in zeros : i <= j
    <3>1. zeros \in SUBSET Nat
      BY ValueFacts
    <3> HIDE DEF zeros
    <3> QED
      BY <3>1, LeastNat
  <2> HIDE DEF zeros, below
  <2> QED
    BY <2>1
<1>4. carry \in Int
  <2>1. \A i \in zeros : i \in Int
    BY <1>2
  <2> HIDE DEF zeros, below, carry
  <2>2. carry = -1 \/ carry = width \/ carry \in zeros
    BY <1>3, Zenon
  <2> QED
    BY <1>2, <2>1, <2>2
<1>5. /\ \A i \in Fixed(b) : C[i] = b[i]
      /\ \A i \in Bits \ Fixed(b) :
           /\ i < first \/ i < carry => C[i] = 0
           /\ i >= first /\ i = carry => C[i] = 1
           /\ i >= first /\ i > carry => C[i] = Bit(limit, i)
      /\ C \in [Bits -> {0, 1}]
  <2>1. C = [i \in Bits |-> IF i \in Fixed(b) THEN b[i]
                 ELSE IF i < first \/ i < carry THEN 0
                 ELSE IF i = carry THEN 1 ELSE Bit(limit, i)]
    BY DEF CountedUp
  <2> HIDE DEF C, carry
  <2> QED
    BY <2>1, <1>2, <1>4
<1>6. val \in Consistent(b) /\ val \in Value /\ \A i \in Bits : Bit(val, i) = C[i]
  <2> HIDE DEF C
  <2>1. val \in Value /\ \A i \in Bits : Bit(val, i) = C[i]
    BY <1>5, ValueOfBits
  <2> HIDE DEF val
  <2> QED
    BY <2>1, <1>5 DEF Consistent, Fixed
<1>7. below => /\ first \in Fixed(b) /\ b[first] = 0 /\ Bit(limit, first) = 1
  BY <1>2
<1>8. below => \A i \in Bits \ Fixed(b) : i > first /\ i < carry => Bit(limit, i) = 1
  <2> SUFFICES ASSUME below, NEW i \in Bits \ Fixed(b), i > first, i < carry
               PROVE  Bit(limit, i) = 1
    BY Zenon
  <2>1. i \notin zeros
    <3> HIDE DEF zeros, below, carry
    <3> QED
      BY <1>2, <1>3, <1>4
  <2>2. Bit(limit, i) # 0
    BY <2>1
  <2> QED
    BY <2>2, <1>2
<1>9. ~below /\ first >= 0 =>
        first \in Fixed(b) /\ b[first] = 1 /\ Bit(limit, first) = 0
  BY <1>2
<1>10. below /\ zeros # {} =>
        carry \in Bits /\ carry \notin Fixed(b) /\ carry > first /\ Bit(limit, carry) = 0
  <2>1. \A i \in zeros : i \in Bits /\ i \notin Fixed(b) /\ i > first /\ Bit(limit, i) = 0
    OBVIOUS
  <2> HIDE DEF zeros, below, carry
  <2> QED
    BY <1>3, <2>1
<1>11. \A i \in Bits : i > first /\ i > carry => C[i] = Bit(limit, i)
  <2> HIDE DEF C, carry
  <2> QED
    BY <1>2, <1>4, <1>5
<1>12. \A i \in Bits \ Fixed(b) : i # first
  BY <1>2
<1>13. first < width /\ first >= -1
  BY <1>2
<1> HIDE DEF below, zeros, carry, C, val, m
\* A value below the one found is below limit too.
<1>14. ASSUME NEW u \in Consistent(b), u < val
       PROVE  ~(below /\ zeros = {}) /\ u < limit
  <2>1. u \in Value /\ u \in Int /\ \A i \in Fixed(b) : Bit(u, i) = b[i]
    BY ValueFacts DEF Consistent, Fixed
  <2>2. PICK k \in Bits : /\ Bit(u, k) = 0 /\ Bit(val, k) = 1
                          /\ \A j \in Bits : j > k => Bit(u, j) = Bit(val, j)
    BY <2>1, <1>6, <1>14, ValueLess
  <2>3. k \notin Fixed(b) /\ C[k] = 1
    BY <2>1, <2>2, <1>5, <1>6
  <2>4. k > first /\ k >= carry
    BY <2>3, <1>2, <1>4, <1>5, <1>12
  <2>5. ~(below /\ zeros = {})
    BY <2>4, <1>2, <1>3
  <2>6. \A j \in Bits : j > k => Bit(u, j) = Bit(limit, j)
    BY <2>2, <2>4, <1>2, <1>4, <1>6, <1>11
  <2>7. CASE k = carry
    <3>1. below /\ zeros # {}
      BY <2>5, <2>7, <1>2, <1>3
    <3>2. Bit(u, k) = Bit(limit, k)
      BY <3>1, <2>2, <2>7, <1>10
    <3>3. \A i \in Bits : i >= carry => Bit(u, i) = Bit(limit, i)
      BY <2>6, <2>7, <3>2, <1>2, <1>4
    <3> QED
      BY <2>5, <3>1, <3>3, <1>4, <1>7, <1>8, StaysBelow
  <2>8. CASE k # carry
    <3>1. Bit(limit, k) = 1
      BY <2>3, <2>4, <2>8, <1>2, <1>4, <1>11
    <3> QED
      BY <2>1, <2>2, <2>5, <2>6, <3>1, ValueLess
  <2> QED
    BY <2>7, <2>8
<1>15. ASSUME ~(below /\ zeros = {})
       PROVE  limit <= val
  <2>1. CASE first = -1
    <3>1. ~below
      BY <2>1 DEF below
    <3>2. \A i \in Bits : Bit(val, i) = Bit(limit, i)
      BY <3>1, <2>1, <1>2, <1>3, <1>6, <1>11
    <3>3. val = limit
      BY <3>2, <1>6, ValueSame
    <3> QED
      BY <3>3, <1>2
  <2>2. CASE first >= 0 /\ ~below
    <3>1. first \in Bits /\ Bit(limit, first) = 0 /\ Bit(val, first) = 1
      BY <2>2, <1>2, <1>5, <1>6, <1>9
    <3>2. \A j \in Bits : j > first => Bit(limit, j) = Bit(val, j)
      BY <2>2, <1>2, <1>3, <1>6, <1>11
    <3>3. limit < val
      BY <3>1, <3>2, <1>6, ValueLess
    <3> QED
      BY <3>3, <1>2, <1>6, ValueFacts
  <2>3. CASE below
    <3>1. carry \in Bits /\ Bit(limit, carry) = 0 /\ Bit(val, carry) = 1
      BY <2>3, <1>15, <1>2, <1>5, <1>6, <1>10
    <3>2. \A j \in Bits : j > carry => Bit(limit, j) = Bit(val, j)
      BY <2>3, <1>15, <1>2, <1>4, <1>6, <1>10, <1>11
    <3>3. limit < val
      BY <3>1, <3>2, <1>6, ValueLess
    <3> QED
      BY <3>3, <1>2, <1>6, ValueFacts
  <2> QED
    BY <2>1, <2>2, <2>3, <1>13
<1>16. ASSUME below, zeros = {}, NEW u \in Consistent(b)
       PROVE  u < limit
  <2>1. \A i \in Bits : i >= carry => Bit(u, i) = Bit(limit, i)
    BY <1>2, <1>3, <1>16
  <2> QED
    BY <2>1, <1>4, <1>7, <1>8, <1>16, StaysBelow
<1>17. \A u \in Consistent(b) : u \in Int
  BY ValueFacts DEF Consistent
<1>18. m.val = val /\ m.over = (below /\ zeros = {})
  BY <1>1
<1>19. ~(below /\ zeros = {}) => \A u \in Consistent(b) : limit <= u => val <= u
  BY <1>2, <1>6, <1>14, <1>17
<1>20. below /\ zeros = {} => \A u \in Consistent(b) : val <= u
  BY <1>6, <1>14, <1>17
<1>21. IsNearest(m, b, limit)
  BY <1>6, <1>15, <1>16, <1>18, <1>19, <1>20 DEF IsNearest
<1> QED
  BY <1>21 DEF m

\* find_min_consistent finds the least value from limit on, and reports an
\* overflow if and only if there is none.
THEOREM FindMinRight ==
  ASSUME WidthOK, NEW b \in Pattern, NEW limit \in Value
  PROVE  IsNearest(FindMin(b, limit), b, limit)
<1> DEFINE differ == {i \in Fixed(b) : b[i] # Bit(limit, i)}
           first == IF differ = {} THEN -1
                    ELSE CHOOSE i \in differ : \A j \in differ : j <= i
<1>1. FindMin(b, limit) = Nearest(b, limit, first)
  BY DEF FindMin
<1>2. \A i \in Bits : i \in Int
  BY ValueFacts
<1>3. differ \in SUBSET (0 .. width - 1) /\ width - 1 \in Int
  BY DEF Fixed, Bits, WidthOK
<1>4. differ # {} => first \in differ /\ \A j \in differ : j <= first
  <2> HIDE DEF differ
  <2> QED
    BY <1>3, GreatestNat
<1>5. first \in Int /\ (first = -1 \/ first \in differ)
  <2> HIDE DEF first
  <2>1. differ = {} => first = -1
    BY DEF first
  <2> QED
    BY <2>1, <1>3, <1>4
<1>6. \A i \in Fixed(b) : i \in Int /\ 0 <= i
  BY ValueFacts DEF Fixed
<1>7. \A i \in Fixed(b) : i > first => b[i] = Bit(limit, i)
  <2> SUFFICES ASSUME NEW i \in Fixed(b), i > first, i \in differ
               PROVE  FALSE
    BY Zenon
  <2> HIDE DEF first
  <2>1. i <= first
    BY <1>4
  <2> QED
    BY <2>1, <1>5, <1>6
<1>8. first = -1 \/ (first \in Fixed(b) /\ b[first] # Bit(limit, first))
  <2> HIDE DEF first
  <2> QED
    BY <1>5
<1> HIDE DEF first
<1> QED
  BY <1>1, <1>5, <1>7, <1>8, NearestRight

\* The bits of Ones - v are those of v inverted.
LEMMA MirrorValue ==
  ASSUME WidthOK, NEW v \in Value
  PROVE  /\ Ones - v \in Value
         /\ \A i \in Bits : Bit(Ones - v, i) = 1 - Bit(v, i)
<1> DEFINE f == [i \in Bits |-> 1 - Bit(v, i)]
<1>1. f \in [Bits -> {0, 1}]
  BY ValueBit
<1>2. PICK u \in Value : \A i \in Bits : Bit(u, i) = f[i]
  <2> HIDE DEF f
  <2> QED
    BY <1>1, ValueWith
<1>3. v + u = 2 ^ width - 1
  <2>1. /\ width \in Nat /\ u \in 0 .. 2 ^ width - 1 /\ v \in 0 .. 2 ^ width - 1
        /\ \A j \in 0 .. width - 1 : Bit(u, j) = 1 - Bit(v, j)
    BY <1>2 DEF WidthOK, Value, Ones, Bits
  <2> QED
    BY <2>1, Opposite
<1>4. Ones - v = u
  BY <1>3, ValueFacts
<1> QED
  BY <1>2, <1>4

\* The mirror image of IsNearest, for find_max_consistent.
IsNearestDown(m, b, limit) ==
  /\ m.val \in Consistent(b)
  /\ m.over \in BOOLEAN
  /\ ~m.over => /\ m.val <= limit
                /\ \A u \in Consistent(b) : u <= limit => u <= m.val
  /\ m.over => \A u \in Consistent(b) : limit < u /\ u <= m.val

\* find_max_consistent finds the greatest value up to limit, and reports an
\* overflow if and only if there is none.
THEOREM FindMaxRight ==
  ASSUME WidthOK, NEW b \in Pattern, NEW limit \in Value
  PROVE  IsNearestDown(FindMax(b, limit), b, limit)
<1> DEFINE c == [i \in Bits |-> IF b[i] = Free THEN Free ELSE 1 - b[i]]
           m == FindMin(c, Ones - limit)
<1>1. c \in Pattern /\ \A i \in Bits : c[i] = Free <=> b[i] = Free
  BY DEF Pattern, Free
<1>2. ASSUME NEW v \in Value
      PROVE  v \in Consistent(b) <=> Ones - v \in Consistent(c)
  <2>1. Ones - v \in Value /\ \A i \in Bits : Bit(Ones - v, i) = 1 - Bit(v, i)
    BY MirrorValue
  <2>2. \A i \in Bits : Bit(v, i) \in {0, 1} /\ b[i] \in {0, 1, Free}
    BY ValueBit DEF Pattern
  <2>3. \A i \in Bits : b[i] \in {Free, Bit(v, i)} <=> c[i] \in {Free, Bit(Ones - v, i)}
    BY <2>1, <2>2 DEF Free
  <2> HIDE DEF c
  <2> QED
    BY <2>1, <2>3 DEF Consistent
<1>3. FindMax(b, limit) = MirrorOf(m)
  BY DEF FindMax
<1>4. Ones - limit \in Value
  BY MirrorValue
<1>5. IsNearest(m, c, Ones - limit)
  <2> HIDE DEF c
  <2> QED
    BY <1>1, <1>4, FindMinRight
<1>6. \E x, y : m = [val |-> x, over |-> y]
  BY DEF FindMin, Nearest
<1>7. MirrorOf(m).val = Ones - m.val /\ MirrorOf(m).over = m.over
  <2> HIDE DEF m
  <2> QED
    BY <1>6 DEF MirrorOf
<1> HIDE DEF m, c
<1>8. /\ Ones \in Int /\ limit \in Int /\ m.val \in Value /\ m.val \in Int
      /\ \A u \in Consistent(b) : u \in Value /\ u \in Int
  BY <1>5, ValueFacts DEF IsNearest, Consistent
<1>9. Ones - m.val \in Consistent(b)
  <2>1. Ones - m.val \in Value /\ Ones - (Ones - m.val) = m.val
    BY <1>8, MirrorValue
  <2> QED
    BY <2>1, <1>2, <1>5 DEF IsNearest
<1>10. ASSUME NEW u \in Consistent(b)
       PROVE  Ones - u \in Consistent(c)
  BY <1>2, <1>8
<1>11. ASSUME ~m.over, NEW u \in Consistent(b), u <= limit
       PROVE  u <= Ones - m.val
  <2>1. Ones - limit <= Ones - u
    BY <1>8, <1>11
  <2>2. m.val <= Ones - u
    BY <2>1, <1>5, <1>10, <1>11 DEF IsNearest
  <2> QED
    BY <2>2, <1>8
<1>12. ASSUME m.over, NEW u \in Consistent(b)
       PROVE  limit < u /\ u <= Ones - m.val
  <2>1. Ones - u < Ones - limit /\ m.val <= Ones - u
    BY <1>5, <1>10, <1>12 DEF IsNearest
  <2> QED
    BY <2>1, <1>8
<1>13. ~m.over => Ones - m.val <= limit
  BY <1>5, <1>8 DEF IsNearest
<1>14. m.over \in BOOLEAN
  BY <1>5 DEF IsNearest
<1> QED
  BY <1>3, <1>7, <1>9, <1>11, <1>12, <1>13, <1>14 DEF IsNearestDown

-----------------------------------------------------------------------------
(* What every operation keeps of a domain.                                 *)

LEMMA IntervalSizes ==
  ASSUME WidthOK, NEW c \in Constraint
  PROVE  /\ ~c.compl => IntervalSize(c) = c.max - c.min
         /\ c.compl => IntervalSize(c) = (c.min - c.max) + 2 ^ width
         /\ IntervalSize(c) \in Value
<1>1. /\ c.min \in Int /\ c.max \in Int /\ c.compl \in BOOLEAN
      /\ 0 <= c.min /\ c.min <= Ones /\ 0 <= c.max /\ c.max <= Ones
      /\ c.compl => c.min < c.max
      /\ ~c.compl => c.min <= c.max
  BY ValueFacts DEF Constraint, Interval
<1>2. 2 ^ width \in Nat /\ 2 ^ width >= 1 /\ Ones = 2 ^ width - 1
  BY ValueFacts
<1>3. CASE ~c.compl
  <2> DEFINE r == c.max - c.min
  <2>1. /\ r = 2 ^ width * 0 + r
        /\ r \in Int /\ 0 <= r /\ r < 2 ^ width /\ 0 \in Int
    BY <1>1, <1>2, <1>3
  <2> HIDE DEF r
  <2>2. r % 2 ^ width = r
    BY <2>1, <1>2, DivUnique
  <2>3. IntervalSize(c) = c.max - c.min
    BY <2>2, <1>3 DEF IntervalSize, r
  <2> QED
    BY <2>3, <1>1, <1>2, <1>3 DEF Value
<1>4. CASE c.compl
  <2> DEFINE r == (c.min - c.max) + 2 ^ width
  <2>1. /\ c.min - c.max = 2 ^ width * (-1) + r
        /\ r \in Int /\ 0 <= r /\ r < 2 ^ width
        /\ c.min - c.max \in Int /\ -1 \in Int
    BY <1>1, <1>2, <1>4
  <2> HIDE DEF r
  <2>2. (c.min - c.max) % 2 ^ width = r
    BY <2>1, <1>2, DivUnique
  <2>3. IntervalSize(c) = r
    BY <2>2, <1>4 DEF IntervalSize
  <2> QED
    BY <2>1, <2>3, <1>2, <1>4 DEF Value, r
<1> QED
  BY <1>1, <1>3, <1>4

\* A domain outside of an operation that met a conflict.
Shape == [bits : Pattern, iv : Constraint, last : Value,
          pending : {Unchanged, Changed, Updated}]

\* The interval is not a full one in disguise.
Honest(c) == c.compl => c.min + 1 # c.max

\* What the parents were not told is less than a quarter.
Told(d) ==
  width > 1 => /\ IntervalSize(d.iv) <= d.last
               /\ d.last - IntervalSize(d.iv) <= d.last \div 4

Agrees(d) ==
  TotallyFixed(d.bits) => \E v \in Consistent(d.bits) : d.iv = Normal(v, v)

Good(d) == d \in Shape /\ Honest(d.iv) /\ Told(d) /\ Agrees(d)

\* What result r of an operation on d says of the changes.
Follows(d, r) ==
  /\ Good(r.dom)
  /\ r.res \in {Unchanged, Changed, Updated, Conflict}
  /\ d.pending <= r.dom.pending
  /\ r.dom.bits # d.bits \/ r.dom.iv # d.iv =>
       r.dom.pending # Unchanged /\ r.res # Unchanged

\* The value v is still there.
Keeps(r, v) == r.res # Conflict /\ Allows(r.dom, v)

\* One value as an interval.
LEMMA Point ==
  ASSUME WidthOK, NEW v \in Value
  PROVE  /\ Normal(v, v) \in Constraint /\ Honest(Normal(v, v))
         /\ IntervalSize(Normal(v, v)) = 0
         /\ \A u \in Value : InInterval(Normal(v, v), u) <=> u = v
<1>1. Normal(v, v) \in Constraint
  BY ValueFacts DEF Normal, Constraint, Interval
<1>2. ~Normal(v, v).compl /\ Normal(v, v).min = v /\ Normal(v, v).max = v
  BY DEF Normal
<1>3. IntervalSize(Normal(v, v)) = 0
  BY <1>1, <1>2, IntervalSizes, ValueFacts
<1> QED
  BY <1>1, <1>2, <1>3, ValueFacts DEF Honest, InInterval

\* What is written down beside the bits and the interval.
LEMMA Rewritten ==
  ASSUME NEW d \in Shape, NEW p \in {Unchanged, Changed, Updated}
  PROVE  /\ [d EXCEPT !.pending = p] \in Shape
         /\ [d EXCEPT !.pending = p].bits = d.bits
         /\ [d EXCEPT !.pending = p].iv = d.iv
         /\ [d EXCEPT !.pending = p].last = d.last
         /\ [d EXCEPT !.pending = p].pending = p
         /\ \A v : Allows([d EXCEPT !.pending = p], v) <=> Allows(d, v)
BY DEF Shape, Allows

LEMMA GoodRewritten ==
  ASSUME NEW d, Good(d), NEW p \in {Unchanged, Changed, Updated}
  PROVE  Good([d EXCEPT !.pending = p])
<1> DEFINE e == [d EXCEPT !.pending = p]
<1>1. e \in Shape /\ e.bits = d.bits /\ e.iv = d.iv /\ e.last = d.last
  BY Rewritten DEF Good
<1> HIDE DEF e
<1>2. Good(e)
  BY <1>1 DEF Good, Honest, Told, Agrees
<1> QED
  BY <1>2 DEF e

\* mark_pending_state records a change, and keeps one that was recorded.
LEMMA MarkRight ==
  ASSUME NEW d \in Shape, NEW r \in {Changed, Updated}
  PROVE  \E p \in {Changed, Updated} :
            /\ Mark(d, r) = [d EXCEPT !.pending = p]
            /\ d.pending <= p /\ r <= p
<1> DEFINE p == IF Updated \in {d.pending, r} THEN Updated ELSE Changed
<1>1. Mark(d, r) = [d EXCEPT !.pending = p]
  BY DEF Mark
<1>2. p \in {Changed, Updated} /\ d.pending <= p /\ r <= p
  BY DEF Shape, Unchanged, Changed, Updated
<1> HIDE DEF p
<1> QED
  BY <1>1, <1>2

\* sync_interval_if_totally_fixed makes a domain whose bits were all fixed
\* agree, whatever its interval was.
LEMMA SyncRight ==
  ASSUME WidthOK, NEW d \in Shape,
         ~TotallyFixed(d.bits) => Honest(d.iv) /\ Told(d)
  PROVE  /\ Good(Sync(d))
         /\ Sync(d).bits = d.bits /\ Sync(d).pending = d.pending
         /\ TotallyFixed(d.bits) \/ Sync(d).iv = d.iv
         /\ \A v \in Value : Allows(d, v) => Allows(Sync(d), v)
<1>1. CASE ~TotallyFixed(d.bits)
  <2>1. Sync(d) = d
    BY <1>1 DEF Sync
  <2> QED
    BY <2>1, <1>1 DEF Good, Agrees
<1>2. CASE TotallyFixed(d.bits)
  <2> DEFINE v == CHOOSE x \in Consistent(d.bits) : TRUE
             e == [d EXCEPT !.iv = Normal(v, v), !.last = 0]
  <2>1. Sync(d) = e
    BY <1>2 DEF Sync
  <2>2. d.bits \in Pattern
    BY DEF Shape
  <2>3. v \in Consistent(d.bits) /\ v \in Value
    BY <2>2, SomeConsistent
  <2> HIDE DEF v
  <2>4. /\ e \in Shape
        /\ e.bits = d.bits /\ e.pending = d.pending /\ e.iv = Normal(v, v) /\ e.last = 0
    BY <2>3, Point, ValueFacts DEF Shape
  <2> HIDE DEF e
  <2>5. Told(e)
    BY <2>3, <2>4, Point DEF Told
  <2>6. Good(e)
    BY <2>3, <2>4, <2>5, Point DEF Good, Agrees
  <2>7. ASSUME NEW u \in Value, Allows(d, u)
        PROVE  Allows(e, u)
    <3>1. u \in Consistent(d.bits)
      BY <2>7 DEF Allows, Consistent
    <3>2. u = v
      BY <3>1, <2>2, <2>3, <1>2, OneConsistent
    <3> QED
      BY <3>2, <2>3, <2>4, <2>7, Point DEF Allows
  <2> QED
    BY <2>1, <2>4, <2>6, <2>7, <1>2
<1> QED
  BY <1>1, <1>2

\* set_fixed never changes a bit that is fixed, reports what it fixes, and
\* keeps each value that has the new bits.
LEMMA SetBitsRight ==
  ASSUME WidthOK, NEW d, Good(d), NEW S \in SUBSET Bits, NEW b \in [S -> {0, 1}]
  PROVE  /\ Follows(d, SetBits(d, b))
         /\ TotallyFixed(SetBits(d, b).dom.bits) \/ SetBits(d, b).dom.iv = d.iv
         /\ \A v \in Value :
              Allows(d, v) /\ (\A i \in S : Bit(v, i) = b[i]) =>
                Keeps(SetBits(d, b), v)
<1> DEFINE clash == {i \in DOMAIN b : d.bits[i] \notin {Free, b[i]}}
           new   == {i \in DOMAIN b : d.bits[i] = Free /\ \A j \in clash : i < j}
           set   == [i \in Bits |-> IF i \in new THEN b[i] ELSE d.bits[i]]
           e     == [d EXCEPT !.bits = set]
           dom   == IF new = {} THEN d ELSE Mark(Sync(e), Updated)
           res   == IF clash # {} THEN Conflict
                    ELSE IF new # {} THEN Updated ELSE Unchanged
<1>1. SetBits(d, b).dom = dom /\ SetBits(d, b).res = res
  BY DEF SetBits, Done
<1>2. d \in Shape /\ d.bits \in Pattern /\ Honest(d.iv) /\ Told(d)
  BY DEF Good, Shape
<1>3. ASSUME NEW v \in Value, Allows(d, v), \A i \in S : Bit(v, i) = b[i]
      PROVE  clash = {} /\ \A i \in Bits : set[i] \in {Free, Bit(v, i)}
  BY <1>2, <1>3 DEF Allows
<1>4. set \in Pattern
  <2>1. \A i \in new : i \in S
    OBVIOUS
  <2> HIDE DEF new
  <2> QED
    BY <2>1, <1>2 DEF Pattern
<1> HIDE DEF set, new, clash
<1>5. /\ e \in Shape /\ e.bits = set /\ e.iv = d.iv /\ e.last = d.last
      /\ e.pending = d.pending
  BY <1>2, <1>4 DEF Shape
<1> HIDE DEF e
<1>6. Honest(e.iv) /\ Told(e)
  BY <1>2, <1>5 DEF Told
<1>7. /\ Good(Sync(e)) /\ Sync(e).pending = d.pending
      /\ TotallyFixed(Sync(e).bits) \/ Sync(e).iv = d.iv
      /\ \A v \in Value : Allows(e, v) => Allows(Sync(e), v)
  BY <1>5, <1>6, SyncRight
<1>8. Sync(e) \in Shape
  BY <1>7 DEF Good
<1>9. PICK p \in {Changed, Updated} :
         /\ Mark(Sync(e), Updated) = [Sync(e) EXCEPT !.pending = p]
         /\ Sync(e).pending <= p
  BY <1>8, MarkRight
<1> DEFINE m == Mark(Sync(e), Updated)
<1>10. /\ Good(m) /\ m.pending = p
       /\ TotallyFixed(m.bits) \/ m.iv = d.iv
       /\ \A v : Allows(m, v) <=> Allows(Sync(e), v)
  <2> DEFINE s == Sync(e)
  <2>1. p \in {Unchanged, Changed, Updated}
    OBVIOUS
  <2>2. Good(s) /\ s \in Shape /\ m = [s EXCEPT !.pending = p]
    BY <1>7, <1>8, <1>9
  <2> HIDE DEF s, m
  <2>3. Good(m)
    BY <2>1, <2>2, GoodRewritten
  <2>4. /\ m.pending = p /\ m.bits = s.bits /\ m.iv = s.iv
        /\ \A v : Allows(m, v) <=> Allows(s, v)
    BY <2>1, <2>2, Rewritten
  <2> QED
    BY <2>3, <2>4, <1>7 DEF s
<1>11. d.pending <= p /\ p # Unchanged
  BY <1>7, <1>9 DEF Changed, Updated, Unchanged
<1> HIDE DEF m
<1>12. dom = IF new = {} THEN d ELSE m
  BY DEF m
<1>13. d.pending <= d.pending
  BY <1>2 DEF Shape, Unchanged, Changed, Updated
<1>14. res \in {Unchanged, Changed, Updated, Conflict} /\ (new # {} => res # Unchanged)
  BY DEF Unchanged, Changed, Updated, Conflict
<1> HIDE DEF dom, res
<1>15. Follows(d, SetBits(d, b))
  <2>1. CASE new = {}
    BY <2>1, <1>1, <1>12, <1>13, <1>14 DEF Follows
  <2>2. CASE new # {}
    BY <2>2, <1>1, <1>10, <1>11, <1>12, <1>14 DEF Follows
  <2> QED
    BY <2>1, <2>2
<1>16. ASSUME NEW v \in Value, Allows(d, v), \A i \in S : Bit(v, i) = b[i]
       PROVE  Keeps(SetBits(d, b), v)
  <2>1. clash = {} /\ \A i \in Bits : set[i] \in {Free, Bit(v, i)}
    BY <1>3, <1>16
  <2>2. Allows(e, v)
    BY <2>1, <1>5, <1>16 DEF Allows
  <2>3. Allows(dom, v)
    BY <2>2, <1>7, <1>10, <1>12, <1>16
  <2>4. res # Conflict
    BY <2>1 DEF res, Conflict, Updated, Unchanged
  <2> QED
    BY <2>3, <2>4, <1>1 DEF Keeps
<1>17. TotallyFixed(SetBits(d, b).dom.bits) \/ SetBits(d, b).dom.iv = d.iv
  BY <1>1, <1>10, <1>12
<1> QED
  BY <1>15, <1>16, <1>17

-----------------------------------------------------------------------------
(* apply_interval_constraint.                                              *)

\* The one piece is an interval of its own, within the normal interval and
\* one part of the complementary one.
LEMMA PieceShape ==
  ASSUME WidthOK, NEW n \in Constraint, ~n.compl, NEW c \in Constraint, c.compl,
         n.min <= c.min \/ c.max <= n.max, ~Spans(n, c)
  PROVE  /\ Piece(n, c) \in Constraint /\ ~Piece(n, c).compl
         /\ n.min <= Piece(n, c).min /\ Piece(n, c).max <= n.max
         /\ Piece(n, c).max <= c.min \/ c.max <= Piece(n, c).min
<1>1. /\ n.min \in Int /\ n.max \in Int /\ n.min <= n.max
      /\ c.min \in Int /\ c.max \in Int /\ c.min < c.max
      /\ n.min \in Value /\ n.max \in Value /\ c.min \in Value /\ c.max \in Value
  BY ValueFacts DEF Constraint, Interval
<1> DEFINE Inside == n.min >= c.max \/ n.max <= c.min
           Above  == n.max >= c.max /\ n.min < c.max /\ n.max > c.min
           Below  == n.min <= c.min /\ n.max < c.max /\ n.max > c.min
<1>2. /\ Inside \/ Above \/ Below
      /\ ~(Inside /\ Above) /\ ~(Inside /\ Below) /\ ~(Above /\ Below)
  BY <1>1 DEF Spans
<1>3. ASSUME NEW x \in Value, NEW y \in Value, x <= y
      PROVE  /\ Normal(x, y) \in Constraint /\ ~Normal(x, y).compl
             /\ Normal(x, y).min = x /\ Normal(x, y).max = y
  BY <1>3 DEF Normal, Constraint, Interval
<1>4. CASE Inside
  <2>1. Piece(n, c) = n
    BY <1>2, <1>4 DEF Piece
  <2> QED
    BY <2>1, <1>1, <1>4
<1>5. CASE Above
  <2>1. Piece(n, c) = Normal(c.max, n.max)
    BY <1>2, <1>5 DEF Piece
  <2> QED
    BY <2>1, <1>1, <1>3, <1>5
<1>6. CASE Below
  <2>1. Piece(n, c) = Normal(n.min, c.min)
    BY <1>2, <1>6 DEF Piece
  <2> QED
    BY <2>1, <1>1, <1>3, <1>6
<1> QED
  BY <1>2, <1>4, <1>5, <1>6

\* The intersection is an interval, not a full one in disguise and not larger
\* than the one it replaces.
LEMMA IntersectionShape ==
  ASSUME WidthOK, NEW a \in Constraint, NEW b \in Constraint, Honest(b),
         Meets(a, b), ~SplitsInTwo(a, b)
  PROVE  /\ Intersection(b, a) \in Constraint
         /\ Honest(Intersection(b, a))
         /\ IntervalSize(Intersection(b, a)) <= IntervalSize(b)
<1> DEFINE i == Intersection(b, a)
<1>1. /\ a.min \in Value /\ a.max \in Value /\ b.min \in Value /\ b.max \in Value
      /\ a.min \in Int /\ a.max \in Int /\ b.min \in Int /\ b.max \in Int
      /\ 0 <= b.min /\ b.max <= Ones
      /\ Ones = 2 ^ width - 1 /\ 2 ^ width \in Int /\ Ones \in Int
      /\ a.compl \in BOOLEAN /\ b.compl \in BOOLEAN
      /\ a.compl => a.min < a.max
      /\ b.compl => b.min < b.max
      /\ ~a.compl => a.min <= a.max
      /\ ~b.compl => b.min <= b.max
  BY ValueFacts DEF Constraint, Interval
<1>2. \A x, y \in Value : x \in Int /\ y \in Int /\ 0 <= x /\ y <= Ones
  BY ValueFacts
<1>3. IntervalSize(b) \in Int
  BY IntervalSizes, ValueFacts
<1>4. CASE a.compl /\ b.compl
  <2>1. i = Compl(Smaller(b.min, a.min), Larger(b.max, a.max))
    BY <1>4 DEF Intersection
  <2>2. i.compl /\ i.min = Smaller(b.min, a.min) /\ i.max = Larger(b.max, a.max)
        /\ i \in [min : {i.min}, max : {i.max}, compl : {i.compl}]
    BY <2>1 DEF Compl
  <2> HIDE DEF i
  <2>3. i.min \in Value /\ i.max \in Value /\ i.min < i.max /\ i.min + 1 # i.max
        /\ i.min <= b.min /\ b.max <= i.max
    BY <2>2, <1>1, <1>4 DEF Smaller, Larger, Honest
  <2>4. i \in Constraint /\ Honest(i)
    BY <2>2, <2>3 DEF Constraint, Interval, Honest
  <2>5. IntervalSize(i) = (i.min - i.max) + 2 ^ width
        /\ IntervalSize(b) = (b.min - b.max) + 2 ^ width
    BY <2>2, <2>4, <1>4, IntervalSizes
  <2>6. IntervalSize(i) <= IntervalSize(b)
    BY <2>3, <2>5, <1>1, <1>2
  <2> QED
    BY <2>4, <2>6 DEF i
<1>5. ASSUME i \in Constraint, ~i.compl, ~b.compl, b.min <= i.min, i.max <= b.max
      PROVE  Honest(i) /\ IntervalSize(i) <= IntervalSize(b)
  <2> HIDE DEF i
  <2>1. i.min \in Value /\ i.max \in Value
    BY <1>5 DEF Constraint, Interval
  <2>2. IntervalSize(i) = i.max - i.min /\ IntervalSize(b) = b.max - b.min
    BY <1>5, IntervalSizes
  <2> QED
    BY <2>1, <2>2, <1>1, <1>2, <1>5 DEF Honest
<1>6. CASE a.compl /\ ~b.compl
  <2>1. i = Piece(b, a)
    BY <1>6 DEF Intersection
  <2>2. (b.min <= a.min \/ a.max <= b.max) /\ ~Spans(b, a)
    BY <1>6 DEF Meets, SplitsInTwo
  <2>3. i \in Constraint /\ ~i.compl /\ b.min <= i.min /\ i.max <= b.max
    BY <2>1, <2>2, <1>6, PieceShape
  <2> QED
    BY <2>3, <1>5, <1>6
<1>7. CASE ~a.compl /\ b.compl
  <2>1. i = Piece(a, b)
    BY <1>7 DEF Intersection
  <2>2. (a.min <= b.min \/ b.max <= a.max) /\ ~Spans(a, b)
    BY <1>7 DEF Meets, SplitsInTwo
  <2>3. i \in Constraint /\ ~i.compl /\ (i.max <= b.min \/ b.max <= i.min)
    BY <2>1, <2>2, <1>7, PieceShape
  <2> HIDE DEF i
  <2>4. i.min \in Value /\ i.max \in Value
    BY <2>3 DEF Constraint, Interval
  <2>5. IntervalSize(i) = i.max - i.min /\ IntervalSize(b) = (b.min - b.max) + 2 ^ width
    BY <2>3, <1>7, IntervalSizes
  <2>6. IntervalSize(i) <= IntervalSize(b)
    BY <2>3, <2>4, <2>5, <1>1, <1>2
  <2> QED
    BY <2>3, <2>6 DEF Honest, i
<1>8. CASE ~a.compl /\ ~b.compl
  <2>1. i = Normal(Larger(b.min, a.min), Smaller(b.max, a.max))
    BY <1>8 DEF Intersection
  <2>2. a.min <= b.max /\ b.min <= a.max
    BY <1>8 DEF Meets
  <2>3. /\ Larger(b.min, a.min) \in Value /\ Smaller(b.max, a.max) \in Value
        /\ Larger(b.min, a.min) <= Smaller(b.max, a.max)
        /\ b.min <= Larger(b.min, a.min) /\ Smaller(b.max, a.max) <= b.max
    BY <2>2, <1>1, <1>8 DEF Larger, Smaller
  <2>4. i \in Constraint /\ ~i.compl /\ b.min <= i.min /\ i.max <= b.max
    BY <2>1, <2>3 DEF Constraint, Interval, Normal
  <2> QED
    BY <2>4, <1>5, <1>8
<1> QED
  BY <1>1, <1>4, <1>6, <1>7, <1>8

\* A full interval excludes nothing, and what is not full is honest.
LEMMA Fullness ==
  ASSUME WidthOK, NEW c \in Constraint
  PROVE  /\ ~IsFull(c) => Honest(c)
         /\ IsFull(c) /\ Honest(c) => c = Normal(0, Ones)
         /\ IsFull(c) => \A v \in Value : InInterval(c, v)
<1>1. /\ c.min \in Int /\ c.max \in Int /\ 0 <= c.min /\ c.max <= Ones
      /\ c.compl => c.min < c.max
  BY Bounds
<1>2. Ones = 2 ^ width - 1 /\ 2 ^ width \in Nat /\ 2 ^ width >= 1
      /\ \A v \in Value : v \in Int /\ 0 <= v /\ v <= Ones
  BY ValueFacts
<1>3. ASSUME c.compl
      PROVE  (c.min + 1) % 2 ^ width = c.min + 1
  <2> DEFINE r == c.min + 1
  <2>1. r = 2 ^ width * 0 + r /\ r \in Int /\ 0 <= r /\ r < 2 ^ width /\ 0 \in Int
    BY <1>1, <1>2, <1>3
  <2> HIDE DEF r
  <2>2. r % 2 ^ width = r
    BY <2>1, <1>2, DivUnique
  <2> QED
    BY <2>2 DEF r
<1>4. CASE c.compl
  <2>1. IsFull(c) <=> c.min + 1 = c.max
    BY <1>3, <1>4 DEF IsFull
  <2>2. c.min + 1 = c.max => \A v \in Value : InInterval(c, v)
    BY <1>1, <1>2, <1>4 DEF InInterval
  <2> QED
    BY <2>1, <2>2, <1>4 DEF Honest
<1>5. CASE ~c.compl
  <2>1. IsFull(c) <=> c = Normal(0, Ones)
    BY <1>5 DEF IsFull
  <2>2. \A v \in Value : InInterval(Normal(0, Ones), v)
    BY <1>2 DEF InInterval, Normal
  <2> QED
    BY <2>1, <2>2, <1>5 DEF Honest
<1> QED
  BY <1>4, <1>5

\* A domain that has got another interval, which was not told yet.
Renarrowed(d, e) ==
  /\ e \in Shape
  /\ e.bits = d.bits /\ e.last = d.last /\ e.pending = d.pending
  /\ Honest(e.iv) /\ Agrees(e)
  /\ IntervalSize(e.iv) <= d.last

\* try_set_update_by_interval and mark_pending_state leave less than a quarter
\* untold and record the change.
LEMMA RecordRight ==
  ASSUME WidthOK, width > 1, NEW d, Good(d), NEW e, Renarrowed(d, e)
  PROVE  /\ Follows(d, Record(Done(e, Changed)))
         /\ Record(Done(e, Changed)).res \in {Changed, Updated}
         /\ Record(Done(e, Changed)).dom.bits = d.bits
         /\ Record(Done(e, Changed)).dom.iv = e.iv
         /\ \A v : Allows(Record(Done(e, Changed)).dom, v) <=> Allows(e, v)
<1> DEFINE size == IntervalSize(e.iv)
           f == [e EXCEPT !.last = size]
           r == Record(Done(e, Changed))
<1>1. /\ e \in Shape /\ e.bits = d.bits /\ e.last = d.last /\ e.pending = d.pending
      /\ Honest(e.iv) /\ Agrees(e) /\ size <= d.last
      /\ e.iv \in Constraint /\ e.last \in Value
  BY DEF Renarrowed, Shape
<1>2. size \in Value /\ size \in Nat /\ d.last \in Nat
  BY <1>1, IntervalSizes, ValueFacts
<1> HIDE DEF size
<1>3. r = IF Shrunk(e) THEN Done(Mark(f, Updated), Updated)
          ELSE Done(Mark(e, Changed), Changed)
  BY DEF Record, Done, Changed, Updated, size
<1>4. Shrunk(e) <=> size < d.last /\ d.last - size > d.last \div 4
  BY <1>1 DEF Shrunk, size
<1> HIDE DEF r
<1>5. ASSUME NEW g \in Shape, g.bits = e.bits, g.iv = e.iv, g.pending = e.pending,
             Told(g), NEW x \in {Changed, Updated}, r = Done(Mark(g, x), x)
      PROVE  /\ Follows(d, r) /\ r.res \in {Changed, Updated}
             /\ r.dom.bits = d.bits /\ r.dom.iv = e.iv
             /\ \A v : Allows(r.dom, v) <=> Allows(e, v)
  <2>1. Good(g)
    BY <1>1, <1>5 DEF Good, Agrees
  <2>2. PICK p \in {Changed, Updated} :
            Mark(g, x) = [g EXCEPT !.pending = p] /\ g.pending <= p
    BY <1>5, MarkRight
  <2>3. r.dom = [g EXCEPT !.pending = p] /\ r.res = x
    BY <1>5, <2>2 DEF Done
  <2>4. p \in {Unchanged, Changed, Updated} /\ p # Unchanged /\ x # Unchanged
    BY DEF Unchanged, Changed, Updated
  <2>5. /\ r.dom.bits = g.bits /\ r.dom.iv = g.iv /\ r.dom.pending = p
        /\ \A v : Allows(r.dom, v) <=> Allows(g, v)
    <3> DEFINE h == [g EXCEPT !.pending = p]
    <3>1. /\ h.bits = g.bits /\ h.iv = g.iv /\ h.pending = p
          /\ \A v : Allows(h, v) <=> Allows(g, v)
      BY <1>5, <2>4, Rewritten
    <3>2. r.dom = h
      BY <2>3
    <3> HIDE DEF h
    <3> QED
      BY <3>1, <3>2
  <2>6. Good(r.dom)
    <3> DEFINE h == [g EXCEPT !.pending = p]
    <3>1. Good(h)
      BY <2>1, <2>4, GoodRewritten
    <3>2. r.dom = h
      BY <2>3
    <3> HIDE DEF h
    <3> QED
      BY <3>1, <3>2
  <2>7. Follows(d, r)
    <3>1. d.pending <= r.dom.pending /\ r.dom.pending # Unchanged
      <4>1. g.pending = d.pending /\ g.pending <= p
        BY <1>1, <1>5, <2>2
      <4> QED
        BY <4>1, <2>4, <2>5
    <3>2. r.res \in {Unchanged, Changed, Updated, Conflict} /\ r.res # Unchanged
      BY <2>3, <2>4
    <3> QED
      BY <2>6, <3>1, <3>2 DEF Follows
  <2> QED
    BY <1>1, <1>5, <2>3, <2>5, <2>7 DEF Allows
<1>6. CASE Shrunk(e)
  <2>1. /\ f \in Shape /\ f.bits = e.bits /\ f.iv = e.iv /\ f.pending = e.pending
        /\ f.last = size
    BY <1>1, <1>2 DEF Shape
  <2>2. Told(f)
    <3>1. IntervalSize(f.iv) = size /\ size - size = 0 /\ size \div 4 >= 0
      BY <1>2, <2>1 DEF size
    <3> QED
      BY <1>2, <2>1, <3>1 DEF Told
  <2>3. r = Done(Mark(f, Updated), Updated)
    BY <1>3, <1>6
  <2> HIDE DEF f
  <2> QED
    BY <1>5, <2>1, <2>2, <2>3 DEF r
<1>7. CASE ~Shrunk(e)
  <2>1. size <= d.last /\ d.last - size <= d.last \div 4
    BY <1>1, <1>2, <1>4, <1>7
  <2>2. Told(e)
    BY <1>1, <2>1 DEF Told, size
  <2>3. r = Done(Mark(e, Changed), Changed)
    BY <1>3, <1>7
  <2> QED
    BY <1>1, <1>5, <2>2, <2>3 DEF r
<1> QED
  BY <1>6, <1>7

\* Where nothing was done, nothing is recorded.
LEMMA RecordNothing ==
  ASSUME NEW d, Good(d), NEW x \in {Unchanged, Conflict}
  PROVE  /\ Record(Done(d, x)) = Done(d, x)
         /\ Follows(d, Done(d, x))
<1>1. Record(Done(d, x)) = Done(d, x)
  BY DEF Record, Done, Unchanged, Conflict, Changed, Updated
<1>2. Done(d, x).dom = d /\ Done(d, x).res = x
  BY DEF Done
<1>3. d.pending <= d.pending
  BY DEF Good, Shape, Unchanged, Changed, Updated
<1>4. Follows(d, Done(d, x))
  BY <1>2, <1>3 DEF Follows
<1> QED
  BY <1>1, <1>4

\* intersect_interval_constraint of a node of more than one bit: the interval
\* stays, or becomes another one that is not larger; conflicts are only of
\* intervals without a common value, and "unreachable code" is not reached.
LEMMA NarrowRight ==
  ASSUME WidthOK, width > 1, NEW d, Good(d), NEW c \in Constraint
  PROVE  \/ Narrow(d, c) = Done(d, Unchanged)
         \/ /\ Narrow(d, c) = Done(d, Conflict)
            /\ \A v \in Value : ~(InInterval(d.iv, v) /\ InInterval(c, v))
         \/ \E e : /\ Narrow(d, c) = Done(e, Changed)
                   /\ Renarrowed(d, e)
                   /\ ~IsConstant(d.iv)
                   /\ \A v \in Value : InInterval(e.iv, v) <=>
                                         InInterval(d.iv, v) /\ InInterval(c, v)
<1> DEFINE n == Narrow(d, c)
           With(i) == [d EXCEPT !.iv = i]
           a == d.iv
<1>1. d \in Shape /\ a \in Constraint /\ Honest(a) /\ d.last \in Value /\ Agrees(d)
      /\ IntervalSize(a) <= d.last
  BY DEF Good, Told, Shape
<1>2. a.min \in Int /\ a.max \in Int /\ c.min \in Int /\ c.max \in Int
      /\ \A v \in Value : v \in Int
  BY <1>1, Bounds, ValueFacts
<1>3. ~IsConstant(a) => ~TotallyFixed(d.bits)
  <2>1. \A v : IsConstant(Normal(v, v))
    BY DEF IsConstant, Normal
  <2> QED
    BY <2>1, <1>1 DEF Agrees
<1>4. ASSUME ~IsConstant(a), NEW i \in Constraint, Honest(i), IntervalSize(i) <= d.last
      PROVE  Renarrowed(d, With(i)) /\ With(i).iv = i
  <2> DEFINE e == With(i)
  <2>1. /\ e \in Shape /\ e.bits = d.bits /\ e.last = d.last /\ e.pending = d.pending
        /\ e.iv = i
    BY <1>1 DEF Shape
  <2> HIDE DEF e
  <2>2. Renarrowed(d, e)
    BY <1>3, <1>4, <2>1 DEF Renarrowed, Agrees
  <2> QED
    BY <2>1, <2>2 DEF e
<1>5. width # 1
  BY DEF WidthOK
<1>6. CASE IsFull(c)
  <2>1. n = Done(d, Unchanged)
    BY <1>6 DEF Narrow
  <2> QED
    BY <2>1
<1>7. CASE ~IsFull(c) /\ IsConstant(a)
  <2>1. n = Done(d, IF InInterval(c, a.min) THEN Unchanged ELSE Conflict)
    BY <1>7 DEF Narrow
  <2>2. \A v \in Value : InInterval(a, v) => v = a.min
    BY <1>2, <1>7 DEF InInterval, IsConstant
  <2> QED
    BY <2>1, <2>2
<1>8. CASE ~IsFull(c) /\ ~IsConstant(a) /\ IsFull(a)
  <2>1. n = Done(With(c), Changed)
    BY <1>5, <1>8 DEF Narrow
  <2>2. Honest(c) /\ a = Normal(0, Ones) /\ \A v \in Value : InInterval(a, v)
    BY <1>1, <1>8, Fullness
  <2>3. IntervalSize(c) <= d.last
    <3>1. IntervalSize(a) = Ones
      <4>1. ~a.compl /\ a.min = 0 /\ a.max = Ones
        BY <2>2 DEF Normal
      <4> QED
        BY <4>1, <1>1, IntervalSizes, ValueFacts
    <3> QED
      BY <3>1, <1>1, IntervalSizes, ValueFacts
  <2>4. Renarrowed(d, With(c)) /\ With(c).iv = c
    BY <1>4, <1>8, <2>2, <2>3
  <2> HIDE DEF With
  <2> QED
    BY <2>1, <2>2, <2>4, <1>8
<1>9. CASE ~IsFull(c) /\ ~IsConstant(a) /\ ~IsFull(a) /\ ~Meets(c, a)
  <2>1. n = Done(d, Conflict)
    BY <1>5, <1>9 DEF Narrow
  <2>2. \A v \in Value : ~(InInterval(a, v) /\ InInterval(c, v))
    BY <1>1, <1>9, NoMeetNoValue
  <2> QED
    BY <2>1, <2>2
<1>10. CASE ~IsFull(c) /\ ~IsConstant(a) /\ ~IsFull(a) /\ Meets(c, a)
            /\ SplitsInTwo(c, a)
  <2>1. n = Done(d, Unchanged)
    BY <1>5, <1>10 DEF Narrow
  <2> QED
    BY <2>1
<1>11. CASE ~IsFull(c) /\ ~IsConstant(a) /\ ~IsFull(a) /\ Meets(c, a)
            /\ ~SplitsInTwo(c, a)
  <2> DEFINE i == Intersection(a, c)
  <2>1. n = Cut(d, i)
    BY <1>5, <1>11 DEF Narrow
  <2>2. i # NoPiece /\ \A v \in Value : InInterval(i, v) <=>
                                          InInterval(c, v) /\ InInterval(a, v)
    BY <1>1, <1>11, IntersectionExact
  <2>3. i \in Constraint /\ Honest(i) /\ IntervalSize(i) <= IntervalSize(a)
    BY <1>1, <1>11, IntersectionShape
  <2> HIDE DEF i
  <2>4. IntervalSize(i) <= d.last
    BY <1>1, <2>3, IntervalSizes, ValueFacts
  <2>5. Renarrowed(d, With(i)) /\ With(i).iv = i
    BY <1>4, <1>11, <2>3, <2>4
  <2>6. n = Done(With(i), IF i = a THEN Unchanged ELSE Changed)
    BY <2>1, <2>2 DEF Cut
  <2>7. i = a => With(i) = d
    BY <1>1 DEF Shape
  <2> HIDE DEF With
  <2>8. CASE i = a
    BY <2>6, <2>7, <2>8
  <2>9. CASE i # a
    BY <2>2, <2>5, <2>6, <2>9, <1>11
  <2> QED
    BY <2>8, <2>9
<1> QED
  BY <1>6, <1>7, <1>8, <1>9, <1>10, <1>11

\* Recording a change that was recorded already.
LEMMA MarkAgain ==
  ASSUME NEW d, Good(d), NEW r, Follows(d, r), r.res = Updated
  PROVE  /\ Follows(d, Done(Mark(r.dom, Changed), r.res))
         /\ \A v : Allows(Mark(r.dom, Changed), v) <=> Allows(r.dom, v)
<1> DEFINE e == r.dom
<1>1. Good(e) /\ e \in Shape /\ d.pending <= e.pending
  BY DEF Follows, Good
<1>2. PICK p \in {Changed, Updated} :
          Mark(e, Changed) = [e EXCEPT !.pending = p] /\ e.pending <= p
  BY <1>1, MarkRight
<1> HIDE DEF e
<1>3. p \in {Unchanged, Changed, Updated} /\ p # Unchanged
  BY DEF Unchanged, Changed, Updated
<1> DEFINE h == [e EXCEPT !.pending = p]
<1>4. /\ h.bits = e.bits /\ h.iv = e.iv /\ h.pending = p
      /\ \A v : Allows(h, v) <=> Allows(e, v)
  BY <1>1, <1>3, Rewritten
<1>5. Good(h)
  BY <1>1, <1>3, GoodRewritten
<1> HIDE DEF h
<1>6. d.pending <= p
  <2>1. /\ d.pending <= e.pending /\ e.pending <= p
        /\ e.pending \in Int /\ p \in Int /\ d.pending \in Int
    BY <1>1, <1>2, <1>3 DEF Good, Shape, Unchanged, Changed, Updated
  <2> QED
    BY <2>1
<1>7. Done(h, r.res).dom = h /\ Done(h, r.res).res = Updated
  BY DEF Done
<1>8. Follows(d, Done(h, r.res))
  BY <1>3, <1>4, <1>5, <1>6, <1>7 DEF Follows, Unchanged, Updated, Changed, Conflict
<1> QED
  BY <1>2, <1>4, <1>8 DEF h, e

\* apply_interval_constraint loses no value that the domain and the constraint
\* allow, answers with a conflict only if there is none, and reports what it
\* changes, whatever the width and however wrong the constraint.
THEOREM ApplySound ==
  ASSUME WidthOK, NEW d, Good(d), NEW c \in Constraint
  PROVE  /\ Follows(d, Apply(d, c))
         /\ \A v \in Value :
              Allows(d, v) /\ InInterval(c, v) => Keeps(Apply(d, c), v)
<1> DEFINE n == Narrow(d, c)
           a == d.iv
           r == SetBits(d, [i \in {0} |-> Bit(c.min, 0)])
<1>1. Apply(d, c) = Record(n)
  BY DEF Apply
<1>2. Unchanged # Conflict /\ Changed # Conflict /\ Updated # Conflict
  BY DEF Unchanged, Conflict, Changed, Updated
<1>3. CASE n = Done(d, Unchanged)
  <2>1. Apply(d, c) = Done(d, Unchanged) /\ Follows(d, Done(d, Unchanged))
    BY <1>1, <1>3, RecordNothing
  <2>2. Done(d, Unchanged).dom = d /\ Done(d, Unchanged).res = Unchanged
    BY DEF Done
  <2> QED
    BY <2>1, <2>2, <1>2 DEF Keeps
<1>4. CASE /\ n = Done(d, Conflict)
           /\ \A v \in Value : ~(InInterval(a, v) /\ InInterval(c, v))
  <2>1. Apply(d, c) = Done(d, Conflict) /\ Follows(d, Done(d, Conflict))
    BY <1>1, <1>4, RecordNothing
  <2> QED
    BY <2>1, <1>4 DEF Allows
<1>5. CASE width > 1
  <2>1. ASSUME NEW e, n = Done(e, Changed), Renarrowed(d, e),
               \A v \in Value : InInterval(e.iv, v) <=> InInterval(a, v) /\ InInterval(c, v)
        PROVE  /\ Follows(d, Apply(d, c))
               /\ \A v \in Value : Allows(d, v) /\ InInterval(c, v) => Keeps(Apply(d, c), v)
    <3>1. /\ Follows(d, Record(n)) /\ Record(n).res \in {Changed, Updated}
          /\ \A v : Allows(Record(n).dom, v) <=> Allows(e, v)
      BY <1>5, <2>1, RecordRight
    <3>2. \A v \in Value : Allows(d, v) /\ InInterval(c, v) => Allows(e, v)
      BY <2>1 DEF Allows, Renarrowed
    <3> HIDE DEF n
    <3> QED
      BY <3>1, <3>2, <1>1, <1>2 DEF Keeps
  <2> HIDE DEF n
  <2>2. \/ n = Done(d, Unchanged)
        \/ /\ n = Done(d, Conflict)
           /\ \A v \in Value : ~(InInterval(a, v) /\ InInterval(c, v))
        \/ \E e : /\ n = Done(e, Changed) /\ Renarrowed(d, e)
                  /\ \A v \in Value : InInterval(e.iv, v) <=> InInterval(a, v) /\ InInterval(c, v)
    BY <1>5, NarrowRight DEF n
  <2> QED
    BY <2>1, <2>2, <1>3, <1>4
<1>6. CASE width = 1
  <2>1. Ones = 1 /\ Value = {0, 1} /\ Bits = {0}
    <3>1. 2 ^ 1 = 2
      OBVIOUS
    <3> QED
      BY <3>1, <1>6 DEF Ones, Value, Bits
  <2>2. /\ c.min \in {0, 1} /\ c.max \in {0, 1} /\ c.compl \in BOOLEAN
        /\ c = [min |-> c.min, max |-> c.max, compl |-> c.compl]
        /\ c.compl => c.min < c.max
        /\ ~c.compl => c.min <= c.max
    BY <2>1 DEF Constraint, Interval
  <2>3. a \in Constraint
    BY DEF Good, Shape
  <2>4. ASSUME ~IsFull(c), NEW v \in Value, InInterval(c, v)
        PROVE  v = c.min
    <3>1. c.min = c.max
      <4>1. Honest(c)
        BY <2>4, Fullness
      <4>2. c.compl => c.min = 0 /\ c.max = 1
        BY <2>2
      <4>3. ~c.compl
        BY <4>1, <4>2 DEF Honest
      <4>4. c # Normal(0, 1)
        BY <4>3, <2>1, <2>4 DEF IsFull
      <4> QED
        BY <4>3, <4>4, <2>2 DEF Normal
    <3> QED
      BY <3>1, <2>1, <2>2, <2>4 DEF InInterval
  <2>5. CASE IsFull(c)
    <3>1. n = Done(d, Unchanged)
      BY <2>5 DEF Narrow
    <3> QED
      BY <3>1, <1>3
  <2>6. CASE ~IsFull(c) /\ IsConstant(a)
    <3>1. n = Done(d, IF InInterval(c, a.min) THEN Unchanged ELSE Conflict)
      BY <2>6 DEF Narrow
    <3>2. \A v \in Value : InInterval(a, v) => v = a.min
      BY <2>1, <2>3, <2>6, Bounds DEF InInterval, IsConstant
    <3> QED
      BY <3>1, <3>2, <1>3, <1>4
  <2>7. CASE ~IsFull(c) /\ ~IsConstant(a)
    <3>1. n = r
      BY <2>7, <1>6 DEF Narrow
    <3> DEFINE b == [i \in {0} |-> Bit(c.min, 0)]
    <3>2. b \in [{0} -> {0, 1}] /\ b[0] = Bit(c.min, 0) /\ {0} \in SUBSET Bits
      BY <2>1, <2>2, ValueBit
    <3> HIDE DEF b
    <3>3. /\ Follows(d, r)
          /\ \A v \in Value : Allows(d, v) /\ (\A i \in {0} : Bit(v, i) = b[i]) =>
                Keeps(r, v)
      BY <3>2, SetBitsRight DEF b
    <3>4. \A v \in Value : Allows(d, v) /\ InInterval(c, v) => Keeps(r, v)
      BY <3>2, <3>3, <2>4, <2>7
    <3>5. r.res \in {Unchanged, Updated, Conflict}
      BY DEF SetBits, Done
    <3>6. ~Shrunk(r.dom)
      BY <1>6 DEF Shrunk
    <3> HIDE DEF r
    <3>7. CASE r.res # Updated
      <4>1. Record(r) = r
        BY <3>5, <3>7 DEF Record, Unchanged, Changed, Updated, Conflict
      <4> QED
        BY <4>1, <3>1, <3>3, <3>4, <1>1
    <3>8. CASE r.res = Updated
      <4>1. Record(r) = Done(Mark(r.dom, Changed), r.res)
        BY <3>6, <3>8 DEF Record
      <4>2. /\ Follows(d, Done(Mark(r.dom, Changed), r.res))
            /\ \A v : Allows(Mark(r.dom, Changed), v) <=> Allows(r.dom, v)
        BY <3>3, <3>8, MarkAgain
      <4>3. /\ Done(Mark(r.dom, Changed), r.res).dom = Mark(r.dom, Changed)
            /\ Done(Mark(r.dom, Changed), r.res).res = r.res
        BY DEF Done
      <4> QED
        BY <4>1, <4>2, <4>3, <3>1, <3>4, <1>1 DEF Keeps
    <3> QED
      BY <3>7, <3>8
  <2> QED
    BY <2>5, <2>6, <2>7
<1>7. width > 1 \/ width = 1
  BY DEF WidthOK
<1> QED
  BY <1>5, <1>6, <1>7

\* Interval c lies within interval a, in one part of it or with both of its
\* own around the gap of a.
Within(c, a) ==
  \/ ~c.compl /\ ~a.compl /\ a.min <= c.min /\ c.max <= a.max
  \/ ~c.compl /\ a.compl /\ (c.max <= a.min \/ a.max <= c.min)
  \/ c.compl /\ a.compl /\ c.min <= a.min /\ a.max <= c.max

\* A constraint within the interval takes its place.
LEMMA ApplyWithin ==
  ASSUME WidthOK, width > 1, NEW d, Good(d), NEW c \in Constraint, Honest(c),
         Within(c, d.iv)
  PROVE  Apply(d, c).dom.iv = c /\ Apply(d, c).res # Conflict
<1> DEFINE a == d.iv
           n == Narrow(d, c)
           With(i) == [d EXCEPT !.iv = i]
<1>1. d \in Shape /\ a \in Constraint /\ Honest(a) /\ width # 1
  BY DEF Good, Shape, WidthOK
<1>2. /\ a.min \in Int /\ a.max \in Int /\ c.min \in Int /\ c.max \in Int
      /\ 0 <= a.min /\ a.max <= Ones /\ 0 <= c.min /\ c.max <= Ones
      /\ a.compl \in BOOLEAN /\ c.compl \in BOOLEAN
      /\ a.compl => a.min < a.max
      /\ c.compl => c.min < c.max
      /\ ~a.compl => a.min <= a.max
      /\ ~c.compl => c.min <= c.max
      /\ Ones \in Int /\ Ones >= 1
  BY <1>1, Bounds, ValueFacts
<1>3. /\ a = [min |-> a.min, max |-> a.max, compl |-> a.compl]
      /\ c = [min |-> c.min, max |-> c.max, compl |-> c.compl]
  BY <1>1 DEF Constraint, Interval
<1>4. ASSUME n = Done(d, Unchanged), a = c
      PROVE  Apply(d, c).dom.iv = c /\ Apply(d, c).res # Conflict
  <2>1. Apply(d, c) = Done(d, Unchanged)
    BY <1>4, RecordNothing DEF Apply
  <2> QED
    BY <2>1, <1>4 DEF Done, Unchanged, Conflict
<1>5. ASSUME n = Done(With(c), Changed)
      PROVE  Apply(d, c).dom.iv = c /\ Apply(d, c).res # Conflict
  <2> DEFINE e == With(c)
  <2>1. e.iv = c
    BY <1>1 DEF Shape
  <2> HIDE DEF e
  <2>2. n = Done(e, Changed)
    BY <1>5 DEF e
  <2>3. \A f, x : Done(f, x).dom = f /\ Done(f, x).res = x
    BY DEF Done
  <2> HIDE DEF n
  <2>4. Renarrowed(d, e)
    <3>1. \/ n = Done(d, Unchanged)
          \/ n = Done(d, Conflict)
          \/ \E f : n = Done(f, Changed) /\ Renarrowed(d, f)
      BY NarrowRight DEF n
    <3>2. n.dom = e /\ n.res = Changed
      BY <2>2, <2>3
    <3>3. ~(n = Done(d, Unchanged) \/ n = Done(d, Conflict))
      BY <3>2, <2>3 DEF Changed, Unchanged, Conflict
    <3> QED
      BY <3>1, <3>2, <3>3, <2>3
  <2>5. Record(n).dom.iv = e.iv /\ Record(n).res \in {Changed, Updated}
    BY <2>2, <2>4, RecordRight
  <2>6. Apply(d, c) = Record(n)
    BY DEF Apply, n
  <2> QED
    BY <2>1, <2>5, <2>6 DEF Changed, Updated, Conflict
<1>6. CASE IsFull(c)
  <2>1. c = Normal(0, Ones)
    BY <1>6, Fullness
  <2>2. c.min = 0 /\ c.max = Ones /\ ~c.compl
    BY <2>1 DEF Normal
  <2>3. a = c
    BY <2>2, <1>2, <1>3 DEF Within
  <2>4. n = Done(d, Unchanged)
    BY <1>6 DEF Narrow
  <2> QED
    BY <2>3, <2>4, <1>4
<1>7. CASE ~IsFull(c) /\ IsConstant(a)
  <2>1. n = Done(d, IF InInterval(c, a.min) THEN Unchanged ELSE Conflict)
    BY <1>7 DEF Narrow
  <2>2. a = c /\ InInterval(c, a.min)
    BY <1>2, <1>3, <1>7 DEF Within, IsConstant, InInterval
  <2> QED
    BY <2>1, <2>2, <1>4
<1>8. CASE ~IsFull(c) /\ ~IsConstant(a) /\ IsFull(a)
  <2>1. n = Done(With(c), Changed)
    BY <1>1, <1>8 DEF Narrow
  <2> QED
    BY <2>1, <1>5
<1>9. CASE ~IsFull(c) /\ ~IsConstant(a) /\ ~IsFull(a)
  <2>1. Meets(c, a)
    BY <1>2 DEF Within, Meets
  <2>2. ~SplitsInTwo(c, a)
    BY <1>2 DEF Within, SplitsInTwo, Spans, Larger, Smaller
  <2>3. n = Cut(d, Intersection(a, c))
    BY <2>1, <2>2, <1>1, <1>9 DEF Narrow
  <2>4. Intersection(a, c) = c
    <3>1. CASE c.compl /\ a.compl
      <4>1. Intersection(a, c) = Compl(Smaller(a.min, c.min), Larger(a.max, c.max))
        BY <3>1 DEF Intersection
      <4>2. Smaller(a.min, c.min) = c.min /\ Larger(a.max, c.max) = c.max
        BY <3>1, <1>2 DEF Within, Smaller, Larger
      <4> QED
        BY <4>1, <4>2, <3>1, <1>2, <1>3 DEF Compl
    <3>2. CASE ~c.compl /\ a.compl
      <4>1. Intersection(a, c) = Piece(c, a)
        BY <3>2 DEF Intersection
      <4>2. /\ c.min >= a.max \/ c.max <= a.min
            /\ ~(c.max >= a.max /\ c.min < a.max /\ c.max > a.min)
            /\ ~(c.min <= a.min /\ c.max < a.max /\ c.max > a.min)
        BY <3>2, <1>2 DEF Within
      <4> QED
        BY <4>1, <4>2 DEF Piece
    <3>3. CASE ~c.compl /\ ~a.compl
      <4>1. Intersection(a, c) = Normal(Larger(a.min, c.min), Smaller(a.max, c.max))
        BY <3>3 DEF Intersection
      <4>2. Larger(a.min, c.min) = c.min /\ Smaller(a.max, c.max) = c.max
        BY <3>3, <1>2 DEF Within, Smaller, Larger
      <4> QED
        BY <4>1, <4>2, <3>3, <1>2, <1>3 DEF Normal
    <3> QED
      BY <3>1, <3>2, <3>3 DEF Within
  <2>5. c # NoPiece
    BY <1>2 DEF NoPiece, Normal, None
  <2>6. n = Done(With(c), IF c = a THEN Unchanged ELSE Changed)
    BY <2>3, <2>4, <2>5 DEF Cut
  <2>7. CASE c = a
    <3>1. With(c) = d
      BY <2>7, <1>1 DEF Shape
    <3> QED
      BY <3>1, <2>6, <2>7, <1>4
  <2>8. CASE c # a
    BY <2>6, <2>8, <1>5
  <2> QED
    BY <2>7, <2>8
<1> QED
  BY <1>6, <1>7, <1>8, <1>9

-----------------------------------------------------------------------------
(* Tightening.                                                             *)

\* Two operations in a row.
LEMMA FollowsBoth ==
  ASSUME NEW d, Good(d), NEW r, Follows(d, r), NEW o, Follows(r.dom, o)
  PROVE  Follows(d, Done(o.dom, Or(r.res, o.res)))
<1> DEFINE e == r.dom
           t == Done(o.dom, Or(r.res, o.res))
<1>1. t.dom = o.dom /\ t.res = Or(r.res, o.res)
  BY DEF Done
<1>2. /\ Good(e) /\ Good(o.dom)
      /\ r.res \in {Unchanged, Changed, Updated, Conflict}
      /\ o.res \in {Unchanged, Changed, Updated, Conflict}
  BY DEF Follows
<1>3. /\ d.pending \in {Unchanged, Changed, Updated}
      /\ e.pending \in {Unchanged, Changed, Updated}
      /\ o.dom.pending \in {Unchanged, Changed, Updated}
  BY <1>2 DEF Good, Shape
<1>4. /\ Or(r.res, o.res) \in {Unchanged, Changed, Updated, Conflict}
      /\ Or(r.res, o.res) # Unchanged <=> r.res # Unchanged \/ o.res # Unchanged
  BY <1>2 DEF Or, Unchanged, Changed, Updated, Conflict
<1>5. d.pending <= e.pending /\ e.pending <= o.dom.pending
  BY DEF Follows
<1>6. /\ d.pending <= o.dom.pending
      /\ e.pending # Unchanged => o.dom.pending # Unchanged
  BY <1>3, <1>5 DEF Unchanged, Changed, Updated
<1>7. o.dom.bits # d.bits \/ o.dom.iv # d.iv =>
        \/ e.bits # d.bits \/ e.iv # d.iv
        \/ o.dom.bits # e.bits \/ o.dom.iv # e.iv
  OBVIOUS
<1>8. /\ e.bits # d.bits \/ e.iv # d.iv => e.pending # Unchanged /\ r.res # Unchanged
      /\ o.dom.bits # e.bits \/ o.dom.iv # e.iv => o.dom.pending # Unchanged /\ o.res # Unchanged
  BY DEF Follows
<1> HIDE DEF t, e
<1> QED
  BY <1>1, <1>2, <1>4, <1>6, <1>7, <1>8 DEF Follows, t

LEMMA KeepsBoth ==
  ASSUME NEW r, r.res \in {Unchanged, Changed, Updated, Conflict},
         NEW o, o.res \in {Unchanged, Changed, Updated, Conflict},
         NEW v, Keeps(r, v), Keeps(o, v)
  PROVE  Keeps(Done(o.dom, Or(r.res, o.res)), v)
BY DEF Keeps, Done, Or, Unchanged, Changed, Updated, Conflict

\* What both directions of tightening, and what propagators do, have in
\* common: no value is lost and every change is reported.
Tightens(d, r) ==
  Follows(d, r) /\ \A v \in Value : Allows(d, v) => Keeps(r, v)

LEMMA TightensBoth ==
  ASSUME NEW d, Good(d), NEW r, Tightens(d, r), NEW o, Tightens(r.dom, o)
  PROVE  Tightens(d, Done(o.dom, Or(r.res, o.res)))
<1>1. Follows(d, Done(o.dom, Or(r.res, o.res)))
  BY FollowsBoth DEF Tightens
<1>2. /\ r.res \in {Unchanged, Changed, Updated, Conflict}
      /\ o.res \in {Unchanged, Changed, Updated, Conflict}
  BY DEF Tightens, Follows
<1>3. ASSUME NEW v \in Value, Allows(d, v)
      PROVE  Keeps(Done(o.dom, Or(r.res, o.res)), v)
  <2>1. Keeps(r, v) /\ Keeps(o, v)
    BY <1>3 DEF Tightens, Keeps
  <2> QED
    BY <2>1, <1>2, KeepsBoth
<1> QED
  BY <1>1, <1>3 DEF Tightens

LEMMA NothingTightens ==
  ASSUME NEW d, Good(d)
  PROVE  Tightens(d, Done(d, Unchanged))
<1>1. Follows(d, Done(d, Unchanged))
  BY RecordNothing
<1> QED
  BY <1>1 DEF Tightens, Keeps, Done, Unchanged, Conflict

\* tighten_fixed_bits_by_interval: the bits it fixes are those of every value
\* between the bounds.
THEOREM TightenBitsSound ==
  ASSUME WidthOK, NEW d, Good(d)
  PROVE  Tightens(d, TightenBits(d))
<1>1. d.bits \in Pattern /\ d.iv \in Constraint
  BY DEF Good, Shape
<1>2. \A v \in Value, i \in Bits : Bit(v, i) \in {0, 1}
  BY ValueBit
<1>3. CASE TotallyFixed(d.bits) \/ d.iv.compl \/ width = 1
  <2>1. TightenBits(d) = Done(d, Unchanged)
    BY <1>3 DEF TightenBits
  <2> QED
    BY <2>1, NothingTightens
<1>4. CASE ~(TotallyFixed(d.bits) \/ d.iv.compl \/ width = 1) /\ IsConstant(d.iv)
  <2> DEFINE b == BitsOf(d.iv.min)
  <2>1. TightenBits(d) = SetBits(d, b)
    BY <1>4 DEF TightenBits
  <2>2. d.iv.min \in Value
    BY <1>1 DEF Constraint, Interval
  <2>3. b \in [Bits -> {0, 1}] /\ \A i \in Bits : b[i] = Bit(d.iv.min, i)
    BY <2>2, <1>2 DEF BitsOf
  <2>4. \A v \in Value : Allows(d, v) => v = d.iv.min
    BY <1>1, <1>4, Bounds, ValueFacts DEF Allows, InInterval, IsConstant
  <2> HIDE DEF b
  <2>5. Follows(d, SetBits(d, b))
        /\ \A v \in Value : Allows(d, v) /\ (\A i \in Bits : Bit(v, i) = b[i]) =>
                Keeps(SetBits(d, b), v)
    BY <2>3, SetBitsRight
  <2> QED
    BY <2>1, <2>3, <2>4, <2>5 DEF Tightens
<1>5. CASE ~(TotallyFixed(d.bits) \/ d.iv.compl \/ width = 1) /\ ~IsConstant(d.iv)
  <2> DEFINE Z == ZeroBits(d, LeastOf(d.bits))
             z == [i \in Z |-> 0]
             r == SetBits(d, z)
             O(e) == OneBits(e, GreatestOf(e.bits))
             Op(e) == SetBits(e, [i \in O(e) |-> 1])
  <2>1. TightenBits(d) = After(r, Op)
    BY <1>5 DEF TightenBits
  <2>2. Z \in SUBSET Bits /\ z \in [Z -> {0, 1}] /\ \A i \in Z : z[i] = 0
    BY DEF ZeroBits
  <2>3. ASSUME NEW v \in Value, Allows(d, v), NEW i \in Z
        PROVE  Bit(v, i) = 0
    <3>1. v \in Consistent(d.bits) /\ v <= d.iv.max
      BY <1>5, <2>3 DEF Allows, Consistent, InInterval
    <3>2. i \in Bits \ Fixed(d.bits) /\ LeastOf(d.bits) + 2 ^ i > d.iv.max
      BY DEF ZeroBits
    <3> SUFFICES ASSUME Bit(v, i) = 1 PROVE FALSE
      BY <3>2, <1>2
    <3>3. v - 2 ^ i \in Consistent(d.bits)
      BY <3>1, <3>2, <1>1, FreeBit
    <3>4. LeastOf(d.bits) <= v - 2 ^ i /\ LeastOf(d.bits) \in Value
      BY <3>3, <1>1, LeastConsistent, SomeConsistent
    <3>5. LeastOf(d.bits) \in Int /\ v \in Int /\ 2 ^ i \in Int /\ d.iv.max \in Int
      BY <3>2, <3>4, <1>1, ValueFacts, PowerPositive, Bounds
    <3> QED
      BY <3>1, <3>2, <3>4, <3>5
  <2> HIDE DEF z, Z
  <2>4. Follows(d, r)
        /\ \A v \in Value : Allows(d, v) /\ (\A i \in Z : Bit(v, i) = z[i]) =>
                Keeps(r, v)
    BY <2>2, SetBitsRight
  <2>5. Tightens(d, r)
    BY <2>2, <2>3, <2>4 DEF Tightens
  <2>6. CASE r.res = Conflict
    BY <2>1, <2>5, <2>6 DEF After
  <2>7. CASE r.res # Conflict
    <3> DEFINE e == r.dom
               o == Op(e)
    <3>1. TightenBits(d) = Done(o.dom, Or(r.res, o.res))
      BY <2>1, <2>7 DEF After
    <3>2. Good(e) /\ e.bits \in Pattern /\ e.iv \in Constraint
      BY <2>4 DEF Follows, Good, Shape
    <3>3. ~e.iv.compl
      <4>1. TotallyFixed(e.bits) \/ e.iv = d.iv
        BY <2>2, SetBitsRight
      <4>2. TotallyFixed(e.bits) => ~e.iv.compl
        <5>1. \A x, y : ~Normal(x, y).compl
          BY DEF Normal
        <5> HIDE DEF e
        <5> QED
          BY <5>1, <3>2 DEF Good, Agrees
      <4> QED
        BY <4>1, <4>2, <1>5
    <3> DEFINE one == [i \in O(e) |-> 1]
    <3>4. O(e) \in SUBSET Bits /\ one \in [O(e) -> {0, 1}] /\ \A i \in O(e) : one[i] = 1
      BY DEF OneBits
    <3>5. ASSUME NEW v \in Value, Allows(e, v), NEW i \in O(e)
          PROVE  Bit(v, i) = 1
      <4>1. v \in Consistent(e.bits) /\ e.iv.min <= v
        BY <3>3, <3>5 DEF Allows, Consistent, InInterval
      <4>2. i \in Bits \ Fixed(e.bits) /\ GreatestOf(e.bits) - 2 ^ i < e.iv.min
        BY DEF OneBits
      <4> HIDE DEF e, O
      <4> SUFFICES ASSUME Bit(v, i) = 0 PROVE FALSE
        BY <4>2, <1>2
      <4>3. v + 2 ^ i \in Consistent(e.bits)
        BY <3>2, <4>1, <4>2, FreeBit
      <4>4. v + 2 ^ i <= GreatestOf(e.bits) /\ GreatestOf(e.bits) \in Value
        BY <3>2, <4>3, GreatestConsistent, SomeConsistent
      <4>5. GreatestOf(e.bits) \in Int /\ v \in Int /\ 2 ^ i \in Int /\ e.iv.min \in Int
        BY <3>2, <4>2, <4>4, ValueFacts, PowerPositive, Bounds
      <4> QED
        BY <4>1, <4>2, <4>4, <4>5
    <3>6. o = SetBits(e, one)
      OBVIOUS
    <3> HIDE DEF one, O, o, e
    <3>7. Follows(e, o)
          /\ \A v \in Value : Allows(e, v) /\ (\A i \in O(e) : Bit(v, i) = one[i]) =>
                Keeps(o, v)
      BY <3>2, <3>4, <3>6, SetBitsRight
    <3>8. Tightens(e, o)
      BY <3>4, <3>5, <3>7 DEF Tightens
    <3> QED
      BY <2>5, <3>1, <3>8, TightensBoth DEF e
  <2> QED
    BY <2>6, <2>7
<1> QED
  BY <1>3, <1>4, <1>5

\* Both bounds are values of the fixed bits, and the domain has a value.
Exact(d, r) ==
  r.res # Conflict => /\ {r.dom.iv.min, r.dom.iv.max} \subseteq Consistent(d.bits)
                      /\ \E v \in Value : Allows(d, v)

\* A constraint that excludes no value of the domain, within its interval and
\* with values of the fixed bits for bounds.
LEMMA ApplyExact ==
  ASSUME WidthOK, width > 1, NEW d, Good(d), NEW c \in Constraint, Honest(c),
         Within(c, d.iv), c.min \in Consistent(d.bits), c.max \in Consistent(d.bits),
         \A v \in Value : Allows(d, v) => InInterval(c, v),
         InInterval(d.iv, c.min)
  PROVE  Tightens(d, Apply(d, c)) /\ Exact(d, Apply(d, c))
<1>1. Tightens(d, Apply(d, c))
  BY ApplySound DEF Tightens
<1>2. Apply(d, c).dom.iv = c
  BY ApplyWithin
<1>3. c.min \in Value /\ Allows(d, c.min)
  BY DEF Allows, Consistent
<1> QED
  BY <1>1, <1>2, <1>3 DEF Exact

\* A conflict is found where there is no value, and only there.
LEMMA ConflictExact ==
  ASSUME NEW d, Good(d), \A v \in Value : ~Allows(d, v)
  PROVE  Tightens(d, Done(d, Conflict)) /\ Exact(d, Done(d, Conflict))
<1>1. Follows(d, Done(d, Conflict))
  BY RecordNothing
<1> QED
  BY <1>1 DEF Tightens, Exact, Done

\* tighten_interval_by_fixed_bits of an interval [min, max].
LEMMA BetweenExact ==
  ASSUME WidthOK, width > 1, NEW d, Good(d), ~d.iv.compl,
         NEW lo, IsNearest(lo, d.bits, d.iv.min),
         NEW hi, IsNearestDown(hi, d.bits, d.iv.max)
  PROVE  Tightens(d, BetweenBounds(d, lo, hi)) /\ Exact(d, BetweenBounds(d, lo, hi))
<1> DEFINE a == d.iv
           c == Normal(lo.val, hi.val)
<1>1. /\ d.bits \in Pattern /\ a \in Constraint
      /\ a.min \in Int /\ a.max \in Int /\ a.min <= a.max
  BY Bounds DEF Good, Shape
<1>2. /\ \A u \in Consistent(d.bits) : u \in Value /\ u \in Int
      /\ Consistent(d.bits) # {}
  BY <1>1, SomeConsistent, ValueFacts
<1>3. \A v \in Value : Allows(d, v) <=> v \in Consistent(d.bits) /\ a.min <= v /\ v <= a.max
  BY DEF Allows, Consistent, InInterval
<1>4. ~(lo.over /\ hi.over)
  BY <1>1, <1>2 DEF IsNearest, IsNearestDown
<1>5. CASE lo.over \/ hi.over \/ lo.val > hi.val
  <2>1. BetweenBounds(d, lo, hi) = Done(d, Conflict)
    BY <1>4, <1>5 DEF BetweenBounds
  <2>2. \A v \in Value : ~Allows(d, v)
    <3> SUFFICES ASSUME NEW v \in Value, v \in Consistent(d.bits), a.min <= v, v <= a.max
                 PROVE  FALSE
      BY <1>3
    <3>1. v \in Int /\ lo.val \in Int /\ hi.val \in Int
      BY <1>2 DEF IsNearest, IsNearestDown
    <3>2. ~lo.over /\ ~hi.over
      BY <1>1, <3>1 DEF IsNearest, IsNearestDown
    <3>3. lo.val <= v /\ v <= hi.val
      BY <3>2 DEF IsNearest, IsNearestDown
    <3> QED
      BY <3>1, <3>2, <3>3, <1>5
  <2> QED
    BY <2>1, <2>2, ConflictExact
<1>6. CASE ~(lo.over \/ hi.over \/ lo.val > hi.val)
  <2>1. BetweenBounds(d, lo, hi) = Apply(d, c)
    BY <1>6 DEF BetweenBounds
  <2>2. /\ lo.val \in Consistent(d.bits) /\ hi.val \in Consistent(d.bits)
        /\ a.min <= lo.val /\ hi.val <= a.max
        /\ \A u \in Consistent(d.bits) : a.min <= u => lo.val <= u
        /\ \A u \in Consistent(d.bits) : u <= a.max => u <= hi.val
    BY <1>6 DEF IsNearest, IsNearestDown
  <2>3. lo.val \in Value /\ hi.val \in Value /\ lo.val \in Int /\ hi.val \in Int
        /\ lo.val <= hi.val
    BY <1>2, <1>6, <2>2
  <2>4. c.min = lo.val /\ c.max = hi.val /\ ~c.compl /\ c \in Constraint
    BY <2>3 DEF Constraint, Interval, Normal
  <2> HIDE DEF c
  <2>5. Honest(c) /\ Within(c, a)
    BY <2>2, <2>4 DEF Honest, Within
  <2>6. \A v \in Value : Allows(d, v) => InInterval(c, v)
    BY <1>3, <2>2, <2>4 DEF InInterval
  <2>7. InInterval(a, c.min)
    BY <1>1, <2>2, <2>3, <2>4 DEF InInterval
  <2> QED
    BY <2>1, <2>2, <2>4, <2>5, <2>6, <2>7, ApplyExact
<1> QED
  BY <1>5, <1>6

\* And of a complementary one.
LEMMA OutsideExact ==
  ASSUME WidthOK, width > 1, NEW d, Good(d), d.iv.compl,
         NEW lo, IsNearestDown(lo, d.bits, d.iv.min),
         NEW hi, IsNearest(hi, d.bits, d.iv.max)
  PROVE  Tightens(d, OutsideBounds(d, lo, hi)) /\ Exact(d, OutsideBounds(d, lo, hi))
<1> DEFINE a == d.iv
           one == Normal(hi.val, lo.val)
           two == Compl(lo.val, hi.val)
<1>1. /\ d.bits \in Pattern /\ a \in Constraint
      /\ a.min \in Int /\ a.max \in Int /\ a.min < a.max /\ a.min + 1 # a.max
  BY Bounds DEF Good, Shape, Honest
<1>2. \A u \in Consistent(d.bits) : u \in Value /\ u \in Int
  BY <1>1, SomeConsistent, ValueFacts
<1>3. \A v \in Value : Allows(d, v) <=> v \in Consistent(d.bits) /\ (v <= a.min \/ v >= a.max)
  BY DEF Allows, Consistent, InInterval
<1>4. /\ lo.val \in Consistent(d.bits) /\ hi.val \in Consistent(d.bits)
      /\ lo.over \in BOOLEAN /\ hi.over \in BOOLEAN
      /\ ~lo.over => /\ lo.val <= a.min
                     /\ \A u \in Consistent(d.bits) : u <= a.min => u <= lo.val
      /\ lo.over => \A u \in Consistent(d.bits) : a.min < u /\ u <= lo.val
      /\ ~hi.over => /\ a.max <= hi.val
                     /\ \A u \in Consistent(d.bits) : a.max <= u => hi.val <= u
      /\ hi.over => \A u \in Consistent(d.bits) : u < a.max /\ hi.val <= u
  BY DEF IsNearest, IsNearestDown
<1>5. lo.val \in Value /\ hi.val \in Value /\ lo.val \in Int /\ hi.val \in Int
  BY <1>2, <1>4
<1>6. CASE lo.over /\ hi.over
  <2>1. OutsideBounds(d, lo, hi) = Done(d, Conflict)
    BY <1>6 DEF OutsideBounds
  <2>2. \A v \in Value : ~Allows(d, v)
    BY <1>1, <1>2, <1>3, <1>4, <1>6
  <2> QED
    BY <2>1, <2>2, ConflictExact
<1>7. CASE lo.over # hi.over
  <2>1. hi.val <= lo.val
    BY <1>4, <1>7
  <2>2. OutsideBounds(d, lo, hi) = Apply(d, one)
    <3>1. ~(lo.over /\ hi.over) /\ ~(lo.val < hi.val)
      BY <1>4, <1>5, <1>7, <2>1
    <3> QED
      BY <3>1, <1>7, Zenon DEF OutsideBounds
  <2>3. one.min = hi.val /\ one.max = lo.val /\ ~one.compl /\ one \in Constraint
    BY <1>5, <2>1 DEF Constraint, Interval, Normal
  <2> HIDE DEF one
  <2>4. Honest(one) /\ Within(one, a)
    BY <1>4, <1>7, <2>3 DEF Honest, Within
  <2>5. \A v \in Value : Allows(d, v) => InInterval(one, v)
    <3> SUFFICES ASSUME NEW v \in Value, v \in Consistent(d.bits), v <= a.min \/ v >= a.max
                 PROVE  hi.val <= v /\ v <= lo.val
      BY <1>3, <2>3 DEF InInterval
    <3> QED
      BY <1>1, <1>2, <1>4, <1>5, <1>7
  <2>6. InInterval(a, one.min)
    BY <1>1, <1>4, <1>5, <1>7, <2>1, <2>3 DEF InInterval
  <2> QED
    BY <1>4, <2>2, <2>3, <2>4, <2>5, <2>6, ApplyExact
<1>8. CASE ~lo.over /\ ~hi.over
  <2>1. lo.val <= a.min /\ a.max <= hi.val
    BY <1>4, <1>8
  <2>2. OutsideBounds(d, lo, hi) = Apply(d, two)
    <3>1. ~(lo.over # hi.over) /\ ~(lo.over /\ hi.over) /\ ~(lo.val > hi.val)
      BY <1>1, <1>4, <1>5, <1>8, <2>1
    <3> QED
      BY <3>1, Zenon DEF OutsideBounds
  <2>3. two.min = lo.val /\ two.max = hi.val /\ two.compl /\ two \in Constraint
    BY <1>1, <1>5, <2>1 DEF Constraint, Interval, Compl
  <2> HIDE DEF two
  <2>4. Honest(two) /\ Within(two, a)
    BY <1>1, <1>5, <2>1, <2>3 DEF Honest, Within
  <2>5. \A v \in Value : Allows(d, v) => InInterval(two, v)
    BY <1>2, <1>3, <1>4, <1>8, <2>3 DEF InInterval
  <2>6. InInterval(a, two.min)
    BY <2>1, <2>3 DEF InInterval
  <2> QED
    BY <1>4, <2>2, <2>3, <2>4, <2>5, <2>6, ApplyExact
<1> QED
  BY <1>4, <1>6, <1>7, <1>8

\* tighten_interval_by_fixed_bits: it loses no value, notices that there is
\* none, and leaves bounds that are values of the fixed bits.
THEOREM TightenIntervalSound ==
  ASSUME WidthOK, NEW d, Good(d)
  PROVE  Tightens(d, TightenInterval(d)) /\ Exact(d, TightenInterval(d))
<1>1. d.bits \in Pattern /\ d.iv \in Constraint
      /\ d.iv.min \in Value /\ d.iv.max \in Value /\ d.iv.compl \in BOOLEAN
  BY DEF Good, Shape, Constraint, Interval
<1>2. Done(d, Unchanged).dom = d /\ Done(d, Unchanged).res # Conflict
  BY DEF Done, Unchanged, Conflict
<1>3. CASE TotallyFixed(d.bits)
  <2> DEFINE x == CHOOSE v \in Consistent(d.bits) : TRUE
  <2>1. x \in Consistent(d.bits) /\ x \in Value
    BY <1>1, SomeConsistent
  <2>2. TightenInterval(d) = OnlyValue(d, x)
    BY <1>3 DEF TightenInterval
  <2> HIDE DEF x
  <2>3. d.iv = Normal(x, x)
    BY <2>1, <1>1, <1>3, OneConsistent DEF Good, Agrees
  <2>4. d.iv.min = x /\ d.iv.max = x /\ InInterval(d.iv, x)
    BY <2>1, <2>3, ValueFacts DEF Normal, InInterval
  <2>5. TightenInterval(d) = Done(d, Unchanged)
    BY <2>2, <2>4 DEF OnlyValue
  <2>6. Allows(d, x)
    BY <2>1, <2>4 DEF Allows, Consistent
  <2>7. Exact(d, TightenInterval(d))
    BY <2>1, <2>4, <2>5, <2>6, <1>2 DEF Exact
  <2> QED
    BY <2>5, <2>7, NothingTightens
<1>4. CASE ~TotallyFixed(d.bits) /\ width = 1
  <2>1. TightenInterval(d) = Done(d, Unchanged)
    BY <1>4 DEF TightenInterval
  <2>2. \A v \in Value : v \in Consistent(d.bits)
    <3>1. Bits = {0}
      BY <1>4 DEF Bits
    <3>2. \A i \in Bits : d.bits[i] = Free
      BY <3>1, <1>4 DEF TotallyFixed, Fixed
    <3> QED
      BY <3>2 DEF Consistent
  <2>3. Allows(d, d.iv.min)
    <3>1. InInterval(d.iv, d.iv.min)
      BY <1>1, Bounds DEF InInterval
    <3> QED
      BY <3>1, <2>2, <1>1 DEF Allows, Consistent
  <2>4. Exact(d, TightenInterval(d))
    BY <2>1, <2>2, <2>3, <1>1, <1>2 DEF Exact
  <2> QED
    BY <2>1, <2>4, NothingTightens
<1>5. CASE ~TotallyFixed(d.bits) /\ width # 1 /\ d.iv.compl
  <2>1. TightenInterval(d) =
          OutsideBounds(d, FindMax(d.bits, d.iv.min), FindMin(d.bits, d.iv.max))
    BY <1>5 DEF TightenInterval
  <2>2. width > 1
    BY <1>5 DEF WidthOK
  <2> QED
    BY <2>1, <2>2, <1>1, <1>5, FindMinRight, FindMaxRight, OutsideExact
<1>6. CASE ~TotallyFixed(d.bits) /\ width # 1 /\ ~d.iv.compl
  <2>1. TightenInterval(d) =
          BetweenBounds(d, FindMin(d.bits, d.iv.min), FindMax(d.bits, d.iv.max))
    BY <1>6 DEF TightenInterval
  <2>2. width > 1
    BY <1>6 DEF WidthOK
  <2> QED
    BY <2>1, <2>2, <1>1, <1>6, FindMinRight, FindMaxRight, BetweenExact
<1> QED
  BY <1>3, <1>4, <1>5, <1>6

-----------------------------------------------------------------------------
(* Operations that use another domain.                                     *)

\* apply_fixed_bits and apply_interval_constraint in a row.
LEMMA ImposedRight ==
  ASSUME WidthOK, NEW d, Good(d), NEW S \in SUBSET Bits, NEW b \in [S -> {0, 1}],
         NEW c \in Constraint
  PROVE  /\ Follows(d, Imposed(d, b, c))
         /\ \A v \in Value :
              Allows(d, v) /\ (\A i \in S : Bit(v, i) = b[i]) /\ InInterval(c, v) =>
                Keeps(Imposed(d, b, c), v)
<1> DEFINE r == SetBits(d, b)
           o == Apply(r.dom, c)
           t == Imposed(d, b, c)
<1>1. /\ Follows(d, r)
      /\ \A v \in Value :
           Allows(d, v) /\ (\A i \in S : Bit(v, i) = b[i]) => Keeps(r, v)
  BY SetBitsRight
<1>2. t = IF r.res = Conflict THEN r ELSE Done(o.dom, Or(r.res, o.res))
  BY DEF Imposed, After
<1> HIDE DEF r, t
<1>3. Good(r.dom) /\ r.res \in {Unchanged, Changed, Updated, Conflict}
  BY <1>1 DEF Follows
<1>4. /\ Follows(r.dom, o)
      /\ \A v \in Value : Allows(r.dom, v) /\ InInterval(c, v) => Keeps(o, v)
  BY <1>3, ApplySound
<1> HIDE DEF o
<1>5. CASE r.res = Conflict
  BY <1>1, <1>2, <1>5 DEF Keeps, t
<1>6. CASE r.res # Conflict
  <2>1. t = Done(o.dom, Or(r.res, o.res))
    BY <1>2, <1>6
  <2>2. Follows(d, t)
    BY <2>1, <1>1, <1>4, FollowsBoth
  <2>3. o.res \in {Unchanged, Changed, Updated, Conflict}
    BY <1>4 DEF Follows
  <2>4. ASSUME NEW v \in Value, Allows(d, v), \A i \in S : Bit(v, i) = b[i],
               InInterval(c, v)
        PROVE  Keeps(t, v)
    <3>1. Keeps(r, v)
      BY <1>1, <2>4
    <3>2. Keeps(o, v)
      BY <3>1, <1>4, <2>4 DEF Keeps
    <3> QED
      BY <3>1, <3>2, <2>1, <2>3, <1>3, KeepsBoth
  <2> QED
    BY <2>2, <2>4 DEF t
<1> QED
  BY <1>5, <1>6

\* A fresh domain allows everything.
LEMMA FreshGood ==
  ASSUME WidthOK
  PROVE  Good(Fresh) /\ \A v \in Value : Allows(Fresh, v)
<1>1. /\ Fresh.bits = [i \in Bits |-> Free] /\ Fresh.iv = Normal(0, Ones)
      /\ Fresh.last = Ones /\ Fresh.pending = Unchanged
      /\ Fresh = [bits |-> Fresh.bits, iv |-> Fresh.iv, last |-> Fresh.last,
                  pending |-> Fresh.pending]
  BY DEF Fresh
<1>2. /\ Normal(0, Ones).min = 0 /\ Normal(0, Ones).max = Ones
      /\ ~Normal(0, Ones).compl
  BY DEF Normal
<1>3. Normal(0, Ones) \in Constraint
  BY ValueFacts DEF Constraint, Interval, Normal
<1>4. Fresh.bits \in Pattern
  BY <1>1 DEF Pattern
<1>5. Fresh \in Shape
  BY <1>1, <1>3, <1>4, ValueFacts DEF Shape
<1>6. IntervalSize(Fresh.iv) = Ones
  BY <1>1, <1>2, <1>3, IntervalSizes, ValueFacts
<1>7. Told(Fresh)
  <2>1. Ones \in Nat /\ Ones - Ones = 0 /\ Ones \div 4 >= 0
    BY ValueFacts
  <2> QED
    BY <2>1, <1>1, <1>6 DEF Told
<1>8. Agrees(Fresh)
  BY <1>1, ValueFacts DEF Agrees, TotallyFixed, Fixed
<1>9. \A v \in Value : Allows(Fresh, v)
  BY <1>1, <1>2, ValueFacts DEF Allows, InInterval
<1> QED
  BY <1>1, <1>2, <1>5, <1>7, <1>8, <1>9 DEF Good, Honest

\* What a history stores is a good domain without a pending state.
LEMMA SnapshotGood ==
  ASSUME WidthOK, NEW e \in Snapshot
  PROVE  Good(e)
<1>1. ASSUME NEW d, Good(d)
      PROVE  Good(Stored(d))
  BY <1>1, GoodRewritten DEF Stored
<1>2. Good(Fresh)
  BY FreshGood
<1>3. ASSUME NEW b \in {0, 1}
      PROVE  Good(SetBits(Fresh, [i \in {width - 1} |-> b]).dom)
  <2> DEFINE f == [i \in {width - 1} |-> b]
  <2>1. f \in [{width - 1} -> {0, 1}] /\ {width - 1} \in SUBSET Bits
    BY ValueFacts
  <2> HIDE DEF f
  <2>2. Good(SetBits(Fresh, f).dom)
    BY <1>2, <2>1, SetBitsRight DEF Follows
  <2> QED
    BY <2>2 DEF f
<1>4. ASSUME NEW c \in Constraint
      PROVE  Good(Tightened(Apply(Fresh, c).dom))
  <2> DEFINE d == Apply(Fresh, c).dom
             t == TightenInterval(d).dom
  <2>1. Good(d)
    BY <1>2, ApplySound DEF Follows
  <2> HIDE DEF d
  <2>2. Good(t)
    BY <2>1, TightenIntervalSound DEF Tightens, Follows
  <2> HIDE DEF t
  <2>3. Good(TightenBits(t).dom)
    BY <2>2, TightenBitsSound DEF Tightens, Follows
  <2> QED
    BY <2>3 DEF Tightened, d, t
<1>5. PICK d : /\ e = Stored(d)
               /\ \/ d = Fresh
                  \/ \E b \in {0, 1} : d = SetBits(Fresh, [i \in {width - 1} |-> b]).dom
                  \/ \E c \in Constraint : d = Tightened(Apply(Fresh, c).dom)
  BY Zenon DEF Snapshot
<1>6. Good(d)
  BY <1>2, <1>3, <1>4, <1>5
<1> QED
  BY <1>1, <1>5, <1>6

-----------------------------------------------------------------------------
(* The states of the specification.                                        *)

\* What an operation may leave behind: a pending state may say CONFLICT, if
\* the operation does.
Ends(d, r) ==
  /\ Good(Stored(r.dom))
  /\ r.dom.pending \in {Unchanged, Changed, Updated, Conflict}
  /\ r.res \in {Unchanged, Changed, Updated, Conflict}
  /\ r.dom.pending = Conflict => r.res = Conflict
  /\ d.pending <= r.dom.pending
  /\ r.dom.bits # d.bits \/ r.dom.iv # d.iv =>
       r.dom.pending # Unchanged /\ r.res # Unchanged

LEMMA FollowsEnds ==
  ASSUME NEW d, NEW r, Follows(d, r)
  PROVE  Ends(d, r)
<1>1. Good(Stored(r.dom))
  BY GoodRewritten DEF Follows, Stored
<1> QED
  BY <1>1 DEF Follows, Ends, Good, Shape, Unchanged, Changed, Updated, Conflict

\* The half of e that replaces that of d makes a good domain, once its bits
\* are synchronised.
LEMMA TakenRight ==
  ASSUME WidthOK, NEW d, Good(d), ~TotallyFixed(d.bits), NEW e, Good(e),
         NEW mark \in {"bits", "interval", "both"}, TotallyFixed(e.bits) => mark = "bits"
  PROVE  /\ Taken(d, e, mark) \in Shape
         /\ Taken(d, e, mark).pending = Updated
         /\ mark = "interval" => Good(Taken(d, e, mark))
         /\ ~TotallyFixed(Taken(d, e, mark).bits) =>
              Honest(Taken(d, e, mark).iv) /\ Told(Taken(d, e, mark))
         /\ mark = "bits" => Taken(d, e, mark).bits = e.bits
         /\ \A v : Allows(d, v) /\ Allows(e, v) => Allows(Taken(d, e, mark), v)
<1> DEFINE t == Taken(d, e, mark)
<1>1. d \in Shape /\ e \in Shape
  BY DEF Good
<1>2. /\ t.bits = IF mark = "interval" THEN d.bits ELSE e.bits
      /\ t.iv = IF mark = "bits" THEN d.iv ELSE e.iv
      /\ t.last = IF mark = "bits" THEN d.last ELSE e.last
      /\ t.pending = Updated
      /\ t \in [bits : {t.bits}, iv : {t.iv}, last : {t.last}, pending : {t.pending}]
  BY <1>1 DEF Taken, Shape
<1> HIDE DEF t
<1>3. t \in Shape
  BY <1>1, <1>2 DEF Shape
<1>4. Honest(t.iv) /\ Told(t)
  <2>1. CASE mark = "bits"
    <3>1. t.iv = d.iv /\ t.last = d.last
      BY <1>2, <2>1
    <3> QED
      BY <3>1 DEF Good, Told
  <2>2. CASE mark # "bits"
    <3>1. t.iv = e.iv /\ t.last = e.last
      BY <1>2, <2>2
    <3> QED
      BY <3>1 DEF Good, Told
  <2> QED
    BY <2>1, <2>2
<1>5. mark = "interval" => Good(t)
  BY <1>2, <1>3, <1>4 DEF Good, Agrees
<1>6. \A v : Allows(d, v) /\ Allows(e, v) => Allows(t, v)
  BY <1>2 DEF Allows
<1> QED
  BY <1>2, <1>3, <1>4, <1>5, <1>6 DEF t

\* overwrite: whatever half of another domain is taken, and however it is
\* tightened, the values of both are kept and the answer is at least UPDATED.
THEOREM OverwrittenSound ==
  ASSUME WidthOK, NEW d, Good(d), ~TotallyFixed(d.bits), NEW e, Good(e),
         NEW mark \in {"bits", "interval", "both"}, TotallyFixed(e.bits) => mark = "bits"
  PROVE  /\ Ends(d, Overwritten(d, e, mark))
         /\ \A v \in Value : Allows(d, v) /\ Allows(e, v) =>
                               Keeps(Overwritten(d, e, mark), v)
<1> DEFINE t == Taken(d, e, mark)
           r == CASE mark = "interval" -> TightenBits(t)
                  [] mark = "bits" /\ ~TotallyFixed(e.bits) -> TightenInterval(Sync(t))
                  [] OTHER -> Done(Sync(t), Unchanged)
           s == Overwritten(d, e, mark)
<1>1. s = Settled(r)
  BY DEF Overwritten
<1>2. /\ t \in Shape /\ t.pending = Updated
      /\ mark = "interval" => Good(t)
      /\ ~TotallyFixed(t.bits) => Honest(t.iv) /\ Told(t)
      /\ \A v : Allows(d, v) /\ Allows(e, v) => Allows(t, v)
  BY TakenRight
<1>3. /\ Good(Sync(t)) /\ Sync(t).pending = Updated
      /\ \A v \in Value : Allows(t, v) => Allows(Sync(t), v)
  <2> HIDE DEF t
  <2> QED
    BY <1>2, SyncRight
<1>4. \E g : /\ Good(g) /\ g.pending = Updated /\ Tightens(g, r)
             /\ \A v \in Value : Allows(t, v) => Allows(g, v)
  <2> HIDE DEF t
  <2>1. CASE mark = "interval"
    <3>1. r = TightenBits(t) /\ Good(t)
      BY <2>1, <1>2
    <3> QED
      BY <3>1, <1>2, TightenBitsSound
  <2>2. CASE mark # "interval" /\ mark = "bits" /\ ~TotallyFixed(e.bits)
    <3>1. r = TightenInterval(Sync(t))
      BY <2>2
    <3> QED
      BY <3>1, <1>3, TightenIntervalSound
  <2>3. CASE mark # "interval" /\ ~(mark = "bits" /\ ~TotallyFixed(e.bits))
    <3>1. r = Done(Sync(t), Unchanged)
      BY <2>3
    <3> QED
      BY <3>1, <1>3, NothingTightens
  <2> QED
    BY <2>1, <2>2, <2>3
<1> HIDE DEF t, r, s
<1>5. PICK g : /\ Good(g) /\ g.pending = Updated /\ Tightens(g, r)
               /\ \A v \in Value : Allows(t, v) => Allows(g, v)
  BY <1>4
<1>6. /\ Good(r.dom) /\ r.dom \in Shape /\ r.dom.pending = Updated
      /\ r.res \in {Unchanged, Changed, Updated, Conflict}
  BY <1>5 DEF Tightens, Follows, Good, Shape, Unchanged, Changed, Updated
<1> DEFINE x == IF r.res = Conflict THEN Conflict ELSE Or(r.dom.pending, r.res)
           f == [r.dom EXCEPT !.pending = x]
<1>7. s.dom = f /\ s.res = x
  BY <1>1 DEF Settled, Done
<1>8. x \in {Updated, Conflict} /\ (x = Conflict => r.res = Conflict)
  BY <1>6 DEF Or, Unchanged, Changed, Updated, Conflict
<1> HIDE DEF x
<1>9. /\ Stored(f) = [r.dom EXCEPT !.pending = Unchanged]
      /\ f.pending = x /\ f.bits = r.dom.bits /\ f.iv = r.dom.iv
  BY <1>6 DEF Stored, Shape
<1> HIDE DEF f
<1>10. Good(Stored(f))
  BY <1>6, <1>9, GoodRewritten
<1>11. d.pending <= x /\ x # Unchanged
  BY <1>8 DEF Good, Shape, Unchanged, Changed, Updated, Conflict
<1>12. Ends(d, s)
  BY <1>7, <1>8, <1>9, <1>10, <1>11 DEF Ends
<1>13. ASSUME NEW v \in Value, Allows(d, v), Allows(e, v)
       PROVE  Keeps(s, v)
  <2>1. Keeps(r, v)
    BY <1>2, <1>5, <1>13 DEF Tightens
  <2>2. Allows(f, v)
    BY <2>1, <1>9 DEF Keeps, Allows
  <2> QED
    BY <2>1, <2>2, <1>7, <1>8 DEF Keeps
<1> QED
  BY <1>12, <1>13 DEF s

\* The inductive invariant: beside what is pending the domain is a good one, a
\* pending CONFLICT was answered, and the witness is in the domain.
DomainInv ==
  /\ WidthOK
  /\ Good(Stored(Current))
  /\ pending \in {Unchanged, Changed, Updated, Conflict}
  /\ pending = Conflict => result = Conflict
  /\ result \in {Void, Unchanged, Changed, Updated, Conflict}
  /\ witness \in Value \union {None}
  /\ witness # None => Allows(Current, witness) /\ result # Conflict

\* What ChangesReported says of one step.
Reports ==
  /\ <<bits, iv>>' # <<bits, iv>> => pending' # Unchanged /\ result' # Unchanged
  /\ pending' >= pending

\* While the propagator works, the domain is a good one.
LEMMA CurrentGood ==
  ASSUME DomainInv, Working
  PROVE  /\ Good(Current)
         /\ Current.bits = bits /\ Current.iv = iv /\ Current.last = last
         /\ Current.pending = pending
<1>1. pending \in {Unchanged, Changed, Updated}
  BY DEF DomainInv, Working, Conflict, Thrown
<1>2. Current = [Stored(Current) EXCEPT !.pending = pending]
  <2> DEFINE s == [bits |-> bits, iv |-> iv, last |-> last, pending |-> Unchanged]
  <2>1. Stored(Current) = s
    BY DEF Stored, Current
  <2>2. [s EXCEPT !.pending = pending]
          = [bits |-> bits, iv |-> iv, last |-> last, pending |-> pending]
    OBVIOUS
  <2> QED
    BY <2>1, <2>2 DEF Current
<1>3. Good(Current)
  BY <1>1, <1>2, GoodRewritten DEF DomainInv
<1> QED
  BY <1>3 DEF Current

\* What the next state is made of.
LEMMA NextState ==
  ASSUME WidthOK, UNCHANGED width, NEW d, Good(Stored(d)),
         bits' = d.bits, iv' = d.iv, last' = d.last
  PROVE  /\ WidthOK'
         /\ Good(Stored(Current))'
         /\ Value' = Value
         /\ \A v : Allows(d, v) => Allows(Current, v)'
<1> DEFINE e == Stored(d)
<1>1. e.bits = bits' /\ e.iv = iv' /\ e.last = last' /\ e.pending = Unchanged
      /\ e \in Shape
  <2>1. e = [d EXCEPT !.pending = Unchanged] /\ e \in Shape
    BY DEF Stored, Good
  <2>2. e.bits = d.bits /\ e.iv = d.iv /\ e.last = d.last
    BY <2>1
  <2>3. e.pending = Unchanged
    BY <2>1 DEF Shape
  <2> QED
    BY <2>1, <2>2, <2>3
<1>2. Stored(Current)' = e
  <2> HIDE DEF e
  <2>1. e = [bits |-> e.bits, iv |-> e.iv, last |-> e.last, pending |-> e.pending]
    BY <1>1 DEF Shape
  <2> QED
    BY <2>1, <1>1 DEF Stored, Current
<1>3. /\ Bits' = Bits /\ Ones' = Ones /\ Value' = Value /\ Pattern' = Pattern
  BY DEF Bits, Ones, Value, Pattern
<1>4. Constraint' = Constraint
  BY <1>3 DEF Constraint, Interval
<1>5. Shape' = Shape
  BY <1>3, <1>4 DEF Shape
<1>6. /\ \A c : IntervalSize(c)' = IntervalSize(c)
      /\ \A b : Consistent(b)' = Consistent(b)
      /\ \A b : TotallyFixed(b)' <=> TotallyFixed(b)
  BY <1>3 DEF IntervalSize, Consistent, TotallyFixed, Fixed
<1>7. /\ \A x : Told(x)' <=> Told(x)
      /\ \A x : Agrees(x)' <=> Agrees(x)
  BY <1>6 DEF Told, Agrees
<1>8. \A x : Good(x)' <=> Good(x)
  BY <1>5, <1>7 DEF Good
<1>9. Good(Stored(Current))'
  <2>1. Good(e)
    OBVIOUS
  <2> HIDE DEF e
  <2> QED
    BY <2>1, <1>2, <1>5, <1>7 DEF Good
<1>10. \A v : Allows(d, v) => Allows(Current, v)'
  BY <1>3 DEF Allows, Current
<1> QED
  BY <1>3, <1>9, <1>10 DEF WidthOK

\* An operation that returns, and the witness that it keeps or that the
\* constraint excludes.
LEMMA OperationKept ==
  ASSUME DomainInv, Working, NEW r, Ends(Current, r), Returns(r),
         witness' \in {witness, None},
         witness' # None => Keeps(r, witness)
  PROVE  DomainInv' /\ Reports
<1>1. /\ bits' = r.dom.bits /\ iv' = r.dom.iv /\ last' = r.dom.last
      /\ pending' = r.dom.pending /\ result' = r.res /\ width' = width
  BY DEF Returns, Becomes
<1>2. /\ WidthOK' /\ Good(Stored(Current))' /\ Value' = Value
      /\ \A v : Allows(r.dom, v) => Allows(Current, v)'
  BY <1>1, NextState DEF DomainInv, Ends
<1>3. witness' \in Value' \union {None}
  BY <1>2 DEF DomainInv
<1>4. witness' # None => Allows(Current, witness)' /\ result' # Conflict
  BY <1>1, <1>2 DEF Keeps, Allows
<1>5. DomainInv'
  BY <1>1, <1>2, <1>3, <1>4 DEF DomainInv, Ends
<1>6. Reports
  <2>1. /\ Current.bits = bits /\ Current.iv = iv /\ Current.pending = pending
        /\ pending \in {Unchanged, Changed, Updated, Conflict}
    BY DEF Current, DomainInv
  <2> QED
    BY <2>1, <1>1 DEF Reports, Ends, Unchanged, Changed, Updated, Conflict
<1> QED
  BY <1>5, <1>6

LEMMA DomainInit == Init => DomainInv
<1> SUFFICES ASSUME Init PROVE DomainInv
  OBVIOUS
<1>1. WidthOK
  BY WidthAssumption DEF Init, WidthOK
<1>2. Good(Fresh) /\ \A v \in Value : Allows(Fresh, v)
  BY <1>1, FreshGood
<1>3. Current = Fresh /\ Stored(Current) = Fresh
  BY DEF Init, Current, Stored, Fresh
<1> QED
  BY <1>1, <1>2, <1>3 DEF Init, DomainInv, Void, Unchanged, Changed, Updated, Conflict

LEMMA SetFixedKept ==
  ASSUME DomainInv, NEW i \in Bits, NEW b \in {0, 1}, SetFixed(i, b)
  PROVE  DomainInv' /\ Reports
<1> DEFINE f == [j \in {i} |-> b]
           r == SetBits(Current, f)
<1>1. f \in [{i} -> {0, 1}] /\ {i} \in SUBSET Bits /\ f[i] = b
  OBVIOUS
<1> HIDE DEF f
<1>2. Good(Current) /\ WidthOK
  BY CurrentGood DEF SetFixed, DomainInv
<1>3. /\ Follows(Current, r)
      /\ \A v \in Value :
           Allows(Current, v) /\ (\A j \in {i} : Bit(v, j) = f[j]) => Keeps(r, v)
  BY <1>1, <1>2, SetBitsRight
<1>4. Ends(Current, r)
  BY <1>3, FollowsEnds
<1>5. Working /\ Returns(r)
      /\ witness' = IF witness # None /\ Bit(witness, i) = b THEN witness ELSE None
  BY DEF SetFixed, Impose, f
<1>6. witness' # None => Keeps(r, witness)
  BY <1>1, <1>3, <1>5 DEF DomainInv
<1> HIDE DEF r
<1> QED
  BY <1>4, <1>5, <1>6, OperationKept

LEMMA SetConstantKept ==
  ASSUME DomainInv, NEW v \in Value, SetConstant(v)
  PROVE  DomainInv' /\ Reports
<1> DEFINE r == Imposed(Current, BitsOf(v), Normal(v, v))
<1>1. Good(Current) /\ WidthOK
  BY CurrentGood DEF SetConstant, DomainInv
<1>2. BitsOf(v) \in [Bits -> {0, 1}] /\ \A i \in Bits : BitsOf(v)[i] = Bit(v, i)
  BY <1>1, ValueBit DEF BitsOf
<1>3. Normal(v, v) \in Constraint /\ InInterval(Normal(v, v), v)
  BY <1>1, Point
<1>4. /\ Follows(Current, r)
      /\ \A u \in Value :
           Allows(Current, u) /\ (\A i \in Bits : Bit(u, i) = BitsOf(v)[i])
             /\ InInterval(Normal(v, v), u) => Keeps(r, u)
  BY <1>1, <1>2, <1>3, ImposedRight
<1>5. Ends(Current, r)
  BY <1>4, FollowsEnds
<1>6. Working /\ Returns(r) /\ witness' = IF witness = v THEN witness ELSE None
  BY DEF SetConstant, Impose
<1>7. witness' # None => Keeps(r, witness)
  BY <1>2, <1>3, <1>4, <1>6 DEF DomainInv
<1> HIDE DEF r
<1> QED
  BY <1>5, <1>6, <1>7, OperationKept

LEMMA ApplyIntervalKept ==
  ASSUME DomainInv, NEW c \in Constraint, ApplyInterval(c)
  PROVE  DomainInv' /\ Reports
<1> DEFINE r == Apply(Current, c)
<1>1. Good(Current) /\ WidthOK
  BY CurrentGood DEF ApplyInterval, DomainInv
<1>2. /\ Follows(Current, r)
      /\ \A v \in Value : Allows(Current, v) /\ InInterval(c, v) => Keeps(r, v)
  BY <1>1, ApplySound
<1>3. Ends(Current, r)
  BY <1>2, FollowsEnds
<1>4. Working /\ Returns(r)
      /\ witness' = IF InInterval(c, witness) THEN witness ELSE None
  BY DEF ApplyInterval, Impose
<1>5. witness' # None => Keeps(r, witness)
  BY <1>2, <1>4 DEF DomainInv
<1> HIDE DEF r
<1> QED
  BY <1>3, <1>4, <1>5, OperationKept

\* Tightening imposes nothing.
LEMMA TightenKept ==
  ASSUME DomainInv, Working, NEW r, Tightens(Current, r), Returns(r), UNCHANGED witness
  PROVE  DomainInv' /\ Reports
<1>1. Ends(Current, r)
  BY FollowsEnds DEF Tightens
<1>2. witness' # None => Keeps(r, witness)
  BY DEF DomainInv, Tightens
<1> QED
  BY <1>1, <1>2, OperationKept

LEMMA MergeKept ==
  ASSUME DomainInv, NEW e \in Snapshot, Merge(e)
  PROVE  DomainInv' /\ Reports
<1> DEFINE b == [i \in Fixed(e.bits) |-> e.bits[i]]
           r == Imposed(Current, b, e.iv)
<1>1. Good(Current) /\ WidthOK
  BY CurrentGood DEF Merge, DomainInv
<1>2. e.bits \in Pattern /\ e.iv \in Constraint
  BY <1>1, SnapshotGood DEF Good, Shape
<1>3. /\ Fixed(e.bits) \in SUBSET Bits /\ b \in [Fixed(e.bits) -> {0, 1}]
      /\ \A i \in Fixed(e.bits) : b[i] = e.bits[i] /\ e.bits[i] # Free
  BY <1>2 DEF Fixed, Pattern
<1>4. r = Merged(Current, e)
  BY DEF Merged
<1> HIDE DEF b
<1>5. /\ Follows(Current, r)
      /\ \A v \in Value :
           Allows(Current, v) /\ (\A i \in Fixed(e.bits) : Bit(v, i) = b[i])
             /\ InInterval(e.iv, v) => Keeps(r, v)
  BY <1>1, <1>2, <1>3, ImposedRight
<1> HIDE DEF r
<1>6. Ends(Current, r)
  BY <1>5, FollowsEnds
<1>7. Working /\ Returns(r)
      /\ witness' = IF witness # None /\ Allows(e, witness) THEN witness ELSE None
  BY <1>4 DEF Merge, Impose
<1>8. witness' # None => Keeps(r, witness)
  <2> SUFFICES ASSUME witness' # None PROVE Keeps(r, witness)
    OBVIOUS
  <2>1. witness \in Value /\ Allows(Current, witness) /\ Allows(e, witness)
    BY <1>7 DEF DomainInv
  <2>2. \A i \in Fixed(e.bits) : Bit(witness, i) = b[i]
    BY <2>1, <1>3 DEF Allows
  <2> QED
    BY <2>1, <2>2, <1>5 DEF Allows
<1> QED
  BY <1>6, <1>7, <1>8, OperationKept

LEMMA OverwriteKept ==
  ASSUME DomainInv, NEW e \in Snapshot, NEW mark \in {"bits", "interval", "both"},
         Overwrite(e, mark)
  PROVE  DomainInv' /\ Reports
<1> DEFINE r == Overwritten(Current, e, mark)
<1>1. Good(Current) /\ Current.bits = bits /\ WidthOK
  BY CurrentGood DEF Overwrite, DomainInv
<1>2. Good(e)
  BY <1>1, SnapshotGood
<1>3. ~TotallyFixed(Current.bits) /\ (TotallyFixed(e.bits) => mark = "bits")
  BY <1>1 DEF Overwrite
<1>4. /\ Ends(Current, r)
      /\ \A v \in Value : Allows(Current, v) /\ Allows(e, v) => Keeps(r, v)
  BY <1>1, <1>2, <1>3, OverwrittenSound
<1>5. Working /\ Returns(r)
      /\ witness' = IF witness # None /\ Allows(e, witness) THEN witness ELSE None
  BY DEF Overwrite, Impose
<1>6. witness' # None => Keeps(r, witness)
  BY <1>4, <1>5 DEF DomainInv
<1> HIDE DEF r
<1> QED
  BY <1>4, <1>5, <1>6, OperationKept

LEMMA RestoreKept ==
  ASSUME DomainInv, NEW e \in Snapshot, Restore(e)
  PROVE  DomainInv'
<1> DEFINE s == Sync(e)
           d == [s EXCEPT !.pending = Unchanged]
<1>1. WidthOK
  BY DEF DomainInv
<1>2. Good(e)
  BY <1>1, SnapshotGood
<1>3. Good(s) /\ \A v \in Value : Allows(e, v) => Allows(s, v)
  BY <1>1, <1>2, SyncRight DEF Good
<1> HIDE DEF s
<1>4. s \in Shape
  BY <1>3 DEF Good
<1>5. d.pending = Unchanged /\ Good(d) /\ d \in Shape
      /\ \A v : Allows(d, v) <=> Allows(s, v)
  BY <1>3, <1>4, GoodRewritten, Rewritten DEF Good
<1>6. bits' = d.bits /\ iv' = d.iv /\ last' = d.last /\ pending' = d.pending
      /\ result' = Void /\ width' = width
      /\ witness' \in IF witness # None /\ Allows(e, witness)
                        THEN {witness} ELSE Values(e)
  BY DEF Restore, Becomes, s
<1> HIDE DEF d
<1>7. Good(Stored(d))
  BY <1>5, GoodRewritten DEF Stored
<1>8. /\ WidthOK' /\ Good(Stored(Current))' /\ Value' = Value
      /\ \A v : Allows(d, v) => Allows(Current, v)'
  BY <1>1, <1>6, <1>7, NextState
<1>9. witness' \in Value /\ Allows(e, witness')
  BY <1>6 DEF DomainInv, Values
<1>10. Allows(d, witness')
  BY <1>3, <1>5, <1>9
<1>11. Allows(Current, witness)'
  BY <1>8, <1>10 DEF Allows
<1> QED
  BY <1>5, <1>6, <1>8, <1>9, <1>11 DEF DomainInv, Void, Unchanged, Conflict

LEMMA ConsumeKept ==
  ASSUME DomainInv, ConsumeState
  PROVE  DomainInv'
<1> DEFINE size == IntervalSize(iv)
           l == IF pending = Updated THEN size ELSE last
           d == [Current EXCEPT !.last = l, !.pending = Unchanged]
<1>1. Good(Current) /\ Current.bits = bits /\ Current.iv = iv /\ Current.last = last
  BY CurrentGood DEF ConsumeState
<1>2. WidthOK /\ Current \in Shape /\ iv \in Constraint /\ last \in Value
  BY <1>1 DEF Good, Shape, DomainInv
<1>3. size \in Value /\ size \in Nat
  BY <1>2, IntervalSizes, ValueFacts
<1>4. /\ d \in Shape /\ d.bits = bits /\ d.iv = iv /\ d.last = l
      /\ d.pending = Unchanged
  BY <1>1, <1>2, <1>3 DEF Shape
<1> HIDE DEF d
<1>5. Told(d)
  <2>1. CASE pending = Updated
    <3>1. l = size /\ size - size = 0 /\ size \div 4 >= 0
      BY <2>1, <1>3
    <3> QED
      BY <3>1, <1>3, <1>4 DEF Told
  <2>2. CASE pending # Updated
    <3>1. l = last
      BY <2>2
    <3> QED
      BY <3>1, <1>1, <1>4 DEF Good, Told
  <2> QED
    BY <2>1, <2>2
<1> HIDE DEF size, l
<1>6. Good(d)
  BY <1>1, <1>4, <1>5 DEF Good, Agrees
<1>7. Good(Stored(d))
  BY <1>6, GoodRewritten DEF Stored
<1>8. bits' = d.bits /\ iv' = d.iv /\ last' = d.last /\ pending' = Unchanged
      /\ result' = Void /\ width' = width /\ witness' = witness
  BY <1>4 DEF ConsumeState, l, size
<1>9. /\ WidthOK' /\ Good(Stored(Current))' /\ Value' = Value
      /\ \A v : Allows(d, v) => Allows(Current, v)'
  BY <1>2, <1>7, <1>8, NextState
<1>10. witness' # None => Allows(Current, witness)'
  BY <1>1, <1>4, <1>8, <1>9 DEF DomainInv, Allows
<1> QED
  BY <1>8, <1>9, <1>10 DEF DomainInv, Void, Unchanged, Conflict

\* Every step keeps the invariant, and every operation reports.
LEMMA StepKept ==
  ASSUME DomainInv, Next
  PROVE  DomainInv' /\ (result' # Void => Reports)
<1>1. ASSUME NEW i \in Bits, NEW b \in {0, 1}, SetFixed(i, b)
      PROVE  DomainInv' /\ Reports
  BY <1>1, SetFixedKept
<1>2. ASSUME NEW v \in Value, SetConstant(v)
      PROVE  DomainInv' /\ Reports
  BY <1>2, SetConstantKept
<1>3. ASSUME NEW c \in Constraint, ApplyInterval(c)
      PROVE  DomainInv' /\ Reports
  BY <1>3, ApplyIntervalKept
<1>4. CASE TightenIntervalByFixedBits
  <2>1. Tightens(Current, TightenInterval(Current))
    BY <1>4, CurrentGood, TightenIntervalSound DEF TightenIntervalByFixedBits, DomainInv
  <2> QED
    BY <2>1, <1>4, TightenKept DEF TightenIntervalByFixedBits
<1>5. CASE TightenFixedBitsByInterval
  <2>1. Tightens(Current, TightenBits(Current))
    BY <1>5, CurrentGood, TightenBitsSound DEF TightenFixedBitsByInterval, DomainInv
  <2> QED
    BY <2>1, <1>5, TightenKept DEF TightenFixedBitsByInterval
<1>6. ASSUME NEW e \in Snapshot, Merge(e)
      PROVE  DomainInv' /\ Reports
  BY <1>6, MergeKept
<1>7. ASSUME NEW e \in Snapshot, NEW mark \in {"bits", "interval", "both"},
             Overwrite(e, mark)
      PROVE  DomainInv' /\ Reports
  BY <1>7, OverwriteKept
<1>8. ASSUME NEW e \in Snapshot, Restore(e)
      PROVE  DomainInv' /\ result' = Void
  BY <1>8, RestoreKept DEF Restore
<1>9. CASE ConsumeState
  BY <1>9, ConsumeKept DEF ConsumeState
<1> QED
  BY <1>1, <1>2, <1>3, <1>4, <1>5, <1>6, <1>7, <1>8, <1>9 DEF Next

LEMMA DomainInvHolds == Spec => []DomainInv
<1>1. DomainInv /\ [Next]_vars => DomainInv'
  <2> SUFFICES ASSUME DomainInv, [Next]_vars PROVE DomainInv'
    OBVIOUS
  <2>1. CASE Next
    BY <2>1, StepKept
  <2>2. CASE UNCHANGED vars
    BY <2>2 DEF vars, DomainInv, WidthOK, Good, Stored, Current, Shape, Pattern, Bits,
       Value, Ones, Constraint, Interval, Honest, Told, IntervalSize, Agrees,
       TotallyFixed, Fixed, Consistent, Allows
  <2> QED
    BY <2>1, <2>2
<1> QED
  BY <1>1, DomainInit, PTL DEF Spec

-----------------------------------------------------------------------------
\* Every variable has its type, and the interval is never a full one in
\* disguise, which is_interval_complete asserts.
THEOREM DomainTypes == Spec => []TypeOK
<1>1. DomainInv => TypeOK
  <2> SUFFICES ASSUME DomainInv PROVE TypeOK
    OBVIOUS
  <2>1. Stored(Current).bits = bits /\ Stored(Current).iv = iv
        /\ Stored(Current).last = last
    BY DEF Stored, Current
  <2> QED
    BY <2>1 DEF DomainInv, TypeOK, Good, Shape, Pattern, Honest,
       Void, Unchanged, Changed, Updated, Conflict, Thrown
<1> QED
  BY <1>1, DomainInvHolds, PTL

\* No sequence of the operations of FeasibleDomain loses a value that every
\* constraint allows, or comes to the code called unreachable.
THEOREM ValuesAreKept == Spec => []WitnessKept
<1>1. DomainInv => WitnessKept
  BY DEF DomainInv, WitnessKept, Values, Void, Unchanged, Changed, Updated, Conflict, Thrown
<1> QED
  BY <1>1, DomainInvHolds, PTL

\* What check_invariants demands of a domain whose bits are all fixed holds
\* after every operation.
THEOREM FixedDomainsAgree == Spec => []FixedAgrees
<1>1. DomainInv => FixedAgrees
  <2> SUFFICES ASSUME DomainInv PROVE FixedAgrees
    OBVIOUS
  <2>1. Stored(Current).bits = bits /\ Stored(Current).iv = iv
    BY DEF Stored, Current
  <2> QED
    BY <2>1 DEF DomainInv, FixedAgrees, Good, Agrees
<1> QED
  BY <1>1, DomainInvHolds, PTL

\* What the parents of a node were not told of its interval stays below a
\* quarter, over any sequence of operations.
THEOREM DriftIsBounded == Spec => []DriftBounded
<1>1. DomainInv => DriftBounded
  <2> SUFFICES ASSUME DomainInv PROVE DriftBounded
    OBVIOUS
  <2>1. Stored(Current).iv = iv /\ Stored(Current).last = last
    BY DEF Stored, Current
  <2> QED
    BY <2>1 DEF DomainInv, DriftBounded, Good, Told
<1> QED
  BY <1>1, DomainInvHolds, PTL

\* tighten_interval_by_fixed_bits reports a conflict exactly when the domain
\* has no values, and otherwise both bounds become values of the fixed bits.
THEOREM EmptinessIsNoticed == Spec => []EmptyNoticed
<1>1. DomainInv => EmptyNoticed
  <2> SUFFICES ASSUME DomainInv, Working
               PROVE  LET t == TightenInterval(Current)
                          c == t.dom.iv
                      IN IF Values(Current) = {} THEN t.res = Conflict
                         ELSE t.res # Conflict /\ {c.min, c.max} \subseteq Consistent(bits)
    BY DEF EmptyNoticed
  <2> DEFINE t == TightenInterval(Current)
  <2>1. Good(Current) /\ Current.bits = bits
    BY CurrentGood
  <2>2. Tightens(Current, t) /\ Exact(Current, t)
    BY <2>1, TightenIntervalSound DEF DomainInv
  <2> HIDE DEF t
  <2>3. CASE Values(Current) = {}
    <3>1. \A v \in Value : ~Allows(Current, v)
      BY <2>3 DEF Values
    <3> QED
      BY <3>1, <2>2, <2>3 DEF Exact, t
  <2>4. CASE Values(Current) # {}
    <3>1. \E v \in Value : Allows(Current, v)
      BY <2>4 DEF Values
    <3>2. t.res # Conflict
      BY <3>1, <2>2 DEF Tightens, Keeps
    <3> QED
      BY <3>2, <2>1, <2>2, <2>4 DEF Exact, t
  <2> QED
    BY <2>3, <2>4
<1> QED
  BY <1>1, DomainInvHolds, PTL

\* No operation changes a domain without saying so, in what it returns and in
\* the state it leaves pending for consume_domain_state.
THEOREM ChangesAreReported == Spec => ChangesReported
<1>1. DomainInv /\ [Next]_vars =>
        [result' # Void =>
          /\ <<bits, iv>>' # <<bits, iv>> => pending' # Unchanged /\ result' # Unchanged
          /\ pending' >= pending]_vars
  BY StepKept DEF Reports
<1> QED
  BY <1>1, DomainInvHolds, PTL DEF Spec, ChangesReported
=============================================================================
