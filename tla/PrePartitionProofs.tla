-------------------------- MODULE PrePartitionProofs --------------------------
(***************************************************************************)
(* Theorems about pre_partition: what it hands out has a file, and covers  *)
(* the formula when the list cannot outgrow the coordinators.              *)
(***************************************************************************)
EXTENDS PrePartition, CoordinatorProofs

-----------------------------------------------------------------------------
(* The sequence that the for loop of pre_partition builds.                 *)

\* Induction over the natural numbers, for the members of a set.
LEMMA Induct ==
  ASSUME NEW S, 0 \in S, \A n \in Nat : n \in S => n + 1 \in S
  PROVE  Nat \subseteq S
<1> DEFINE T == Nat \ S
<1> SUFFICES ASSUME T # {} PROVE FALSE
  OBVIOUS
<1>1. PICK d \in T : \A e \in T : ~(<<e, d>> \in OpToRel(<, Nat))
  <2>1. T \subseteq Nat
    OBVIOUS
  <2> HIDE DEF T
  <2> QED
    BY <2>1, WFMin, NatLessThanWellFounded
<1>2. \A e \in T : ~(e < d)
  BY <1>1 DEF OpToRel
<1>3. d \in Nat /\ d # 0
  OBVIOUS
<1>4. d - 1 \in Nat /\ d - 1 < d /\ (d - 1) + 1 = d
  BY <1>3
<1> QED
  BY <1>2, <1>4

\* f is what the recursion in FlattenSeq defines for the sequence q.
Flattens(q, f) ==
  f = [i \in 1 .. Len(q) |-> IF i = 1 THEN q[i] ELSE f[i - 1] \o q[i]]

LEMMA FlattenAt ==
  ASSUME NEW q, NEW f, Flattens(q, f), NEW i \in 1 .. Len(q)
  PROVE  f[i] = IF i = 1 THEN q[i] ELSE f[i - 1] \o q[i]
<1> DEFINE F(j) == IF j = 1 THEN q[j] ELSE f[j - 1] \o q[j]
<1>1. f = [j \in 1 .. Len(q) |-> F(j)]
  BY DEF Flattens
<1> HIDE DEF F
<1>2. f[i] = F(i)
  BY <1>1
<1> QED
  BY <1>2 DEF F

LEMMA FlattenDef ==
  ASSUME NEW q, Len(q) # 0
  PROVE  FlattenSeq(q) = (CHOOSE f : Flattens(q, f))[Len(q)]
BY DEF FlattenSeq, Flattens

LEMMA FlattenExists ==
  ASSUME NEW q, Len(q) \in Nat
  PROVE  \E f : Flattens(q, f)
<1> DEFINE Is(n, f) == f = [i \in 1 .. n |-> IF i = 1 THEN q[i] ELSE f[i - 1] \o q[i]]
           S == {n \in Nat : \E f : Is(n, f)}
<1>1. 0 \in S
  <2>1. Is(0, [i \in 1 .. 0 |-> 0])
    OBVIOUS
  <2> QED
    BY <2>1
<1>2. ASSUME NEW n \in Nat, n \in S
      PROVE  n + 1 \in S
  <2>1. PICK f : Is(n, f)
    BY <1>2
  <2> DEFINE last == IF n = 0 THEN q[1] ELSE f[n] \o q[n + 1]
             g == [i \in 1 .. n + 1 |-> IF i = n + 1 THEN last ELSE f[i]]
             h == [i \in 1 .. n + 1 |-> IF i = 1 THEN q[i] ELSE g[i - 1] \o q[i]]
  <2>2. ASSUME NEW i \in 1 .. n + 1
        PROVE  g[i] = h[i]
    <3>1. CASE i = n + 1
      <4>1. g[i] = last
        BY <3>1
      <4>2. CASE n = 0
        BY <3>1, <4>1, <4>2
      <4>3. CASE n # 0
        <5>1. g[i - 1] = f[n] /\ i # 1
          BY <3>1, <4>3
        <5> QED
          BY <3>1, <4>1, <4>3, <5>1
      <4> QED
        BY <4>2, <4>3
    <3>2. CASE i # n + 1
      <4>1. i \in 1 .. n /\ g[i] = f[i]
        BY <3>2
      <4>2. f[i] = IF i = 1 THEN q[i] ELSE f[i - 1] \o q[i]
        BY <2>1, <4>1
      <4>3. i # 1 => g[i - 1] = f[i - 1]
        BY <4>1
      <4> QED
        BY <4>1, <4>2, <4>3
    <3> QED
      BY <3>1, <3>2
  <2>3. g = h
    BY <2>2
  <2>4. Is(n + 1, g)
    BY <2>3
  <2>5. n + 1 \in Nat
    OBVIOUS
  <2> HIDE DEF g
  <2> QED
    BY <2>4, <2>5
<1>3. Nat \subseteq S
  <2> HIDE DEF S
  <2> QED
    BY <1>1, <1>2, Induct
<1> QED
  BY <1>3 DEF Flattens

\* Two sequences with the same beginning are flattened in the same way so far.
LEMMA FlattenUnique ==
  ASSUME NEW q, NEW r, NEW f, NEW g, Flattens(q, f), Flattens(r, g),
         Len(q) \in Nat, Len(r) \in Nat, NEW n \in Nat \ {0}, n <= Len(q), n <= Len(r),
         \A i \in 1 .. n : q[i] = r[i]
  PROVE  f[n] = g[n]
<1> DEFINE S == {k \in Nat : k \in 1 .. n => f[k] = g[k]}
<1>1. 0 \in S
  OBVIOUS
<1>2. ASSUME NEW k \in Nat, k \in S, k + 1 \in 1 .. n
      PROVE  f[k + 1] = g[k + 1]
  <2>1. /\ f[k + 1] = IF k + 1 = 1 THEN q[k + 1] ELSE f[(k + 1) - 1] \o q[k + 1]
        /\ g[k + 1] = IF k + 1 = 1 THEN r[k + 1] ELSE g[(k + 1) - 1] \o r[k + 1]
    <3>1. k + 1 \in 1 .. Len(q) /\ k + 1 \in 1 .. Len(r)
      BY <1>2
    <3> QED
      BY <3>1, FlattenAt
  <2>2. q[k + 1] = r[k + 1] /\ (k + 1) - 1 = k
    BY <1>2
  <2>3. k + 1 # 1 => f[k] = g[k]
    BY <1>2
  <2> QED
    BY <2>1, <2>2, <2>3
<1>3. Nat \subseteq S
  <2>1. \A k \in Nat : k \in S => k + 1 \in S
    BY <1>2
  <2> HIDE DEF S
  <2> QED
    BY <1>1, <2>1, Induct
<1> QED
  BY <1>3

\* FlattenSeq adds one sequence after the other.
LEMMA FlattenSteps ==
  ASSUME NEW S, NEW n \in Nat, NEW q \in [1 .. n -> Seq(S)]
  PROVE  /\ FlattenSeq([j \in 1 .. 0 |-> q[j]]) = <<>>
         /\ \A i \in 0 .. n - 1 :
              FlattenSeq([j \in 1 .. i + 1 |-> q[j]])
                = FlattenSeq([j \in 1 .. i |-> q[j]]) \o q[i + 1]
<1> DEFINE Up(i) == [j \in 1 .. i |-> q[j]]
<1>1. ASSUME NEW i \in 0 .. n
      PROVE  Len(Up(i)) = i /\ \A j \in 1 .. i : Up(i)[j] = q[j]
  <2>1. Up(i) \in [1 .. i -> Seq(S)]
    OBVIOUS
  <2>2. Up(i) \in Seq(Seq(S)) /\ i \in Nat
    BY <2>1
  <2> QED
    BY <2>1, <2>2, LenProperties
<1>2. FlattenSeq(Up(0)) = <<>>
  <2>1. Len(Up(0)) = 0 /\ Up(0) = <<>>
    BY <1>1
  <2> QED
    BY <2>1 DEF FlattenSeq
<1>3. ASSUME NEW i \in 0 .. n - 1
      PROVE  FlattenSeq(Up(i + 1)) = FlattenSeq(Up(i)) \o q[i + 1]
  <2> DEFINE g == CHOOSE f : Flattens(Up(i + 1), f)
             h == CHOOSE f : Flattens(Up(i), f)
  <2>1. /\ i \in Nat /\ i \in 0 .. n /\ i + 1 \in 0 .. n
        /\ Len(Up(i + 1)) = i + 1 /\ Len(Up(i)) = i
        /\ \A j \in 1 .. i + 1 : Up(i + 1)[j] = q[j]
        /\ \A j \in 1 .. i : Up(i)[j] = q[j]
    BY <1>1
  <2> HIDE DEF Up
  <2>2. Flattens(Up(i + 1), g) /\ Flattens(Up(i), h)
    BY <2>1, FlattenExists
  <2>3. FlattenSeq(Up(i + 1)) = g[i + 1]
    BY <2>1, FlattenDef
  <2>4. g[i + 1] = IF i = 0 THEN q[1] ELSE g[i] \o q[i + 1]
    <3>1. g[i + 1] = IF i + 1 = 1 THEN Up(i + 1)[i + 1]
                     ELSE g[(i + 1) - 1] \o Up(i + 1)[i + 1]
      <4>1. i + 1 \in 1 .. Len(Up(i + 1))
        BY <2>1
      <4> QED
        BY <2>2, <4>1, FlattenAt
    <3>2. i + 1 = 1 <=> i = 0
      BY <2>1
    <3>3. (i + 1) - 1 = i /\ Up(i + 1)[i + 1] = q[i + 1]
      BY <2>1
    <3> QED
      BY <3>1, <3>2, <3>3
  <2>5. CASE i = 0
    <3>1. FlattenSeq(Up(i)) = <<>> /\ q[1] \in Seq(S)
      BY <1>2, <2>1, <2>5 DEF Up
    <3> QED
      BY <2>3, <2>4, <2>5, <3>1
  <2>6. CASE i # 0
    <3>1. FlattenSeq(Up(i)) = h[i]
      BY <2>1, <2>6, FlattenDef
    <3>2. g[i] = h[i]
      <4> DEFINE a == Up(i + 1)
                 b == Up(i)
      <4>1. /\ Flattens(a, g) /\ Flattens(b, h)
            /\ Len(a) \in Nat /\ Len(b) \in Nat /\ i <= Len(a) /\ i <= Len(b)
            /\ \A j \in 1 .. i : a[j] = b[j]
        BY <2>1, <2>2
      <4>2. i \in Nat \ {0}
        BY <2>1, <2>6
      <4> HIDE DEF a, b, g, h
      <4> QED
        BY <4>1, <4>2, FlattenUnique
    <3> QED
      BY <2>3, <2>4, <2>6, <3>1, <3>2
  <2> QED
    BY <2>5, <2>6
<1> QED
  BY <1>2, <1>3
-----------------------------------------------------------------------------
(* The invariant.                                                          *)

Positions == 1 .. Len(subnodes)

\* Where the loop is before a task is handed out.
Searching == pc \in {"simplifyings", "partition"}

\* No base solver, no sub-problem split away, and no result.
IsoRound ==
  /\ result = "unsolved" /\ status[Root] # "unsat"
  /\ solvings = <<>> /\ started = {} /\ given = {}
  /\ \A n \in Node : status[n] \in {"unsolved", "simplifying", "simplified", "unsat"}

(***************************************************************************)
(* The scan that comes next finds the file of s, or of what replaces s.    *)
(* Children of a node that is in the list can start only after the poll in *)
(* which their parent became simplified, and the scan is before their own. *)
(***************************************************************************)
Ready(s) ==
  /\ s \in Created
  /\ \A a \in anc[s] : status[a] \in {"simplified", "unsat"}
  /\ status[s] # "unsat" => s \in tasks
  /\ status[s] = "simplified" =>
       /\ left[s] # 0
       /\ \A c \in Children(s) :
            /\ c \in tasks
            /\ status[c] = "unsolved" \/ (pc = "partition" /\ status[c] = "simplifying")

\* No subnode is another one, or below another one.
Apart == \A i, j \in Positions : subnodes[i] \in Path(subnodes[j]) => i = j

\* Some open subnode is above or below a.
Reached(a) ==
  \E i \in Positions :
    /\ status[subnodes[i]] # "unsat"
    /\ a \in Path(subnodes[i]) \/ subnodes[i] \in Path(a)

AllReached == \A a \in Created : status[a] # "unsat" => Reached(a)

Whole == mods[Root] \subseteq UNION {mods[subnodes[i]] : i \in Positions}

Scanned == (\A i \in Positions : Ready(subnodes[i])) /\ Apart /\ AllReached /\ Whole

\* The list is too short, or the only coordinator gets the whole formula.
Short ==
  \/ Len(subnodes) < dists
  \/ /\ dists = 1 /\ subnodes = <<Root>>
     /\ status[Root] \in {"unsolved", "simplifying"}
     /\ pc = "simplifyings" => todo = <<>>

\* With one core, at most one node is simplified from one scan to the next.
OneByOne ==
  cores = 1 =>
    /\ Len(simplifyings) <= 1
    /\ pc = "simplifyings" => Len(kept) + Len(todo) <= 1
    /\ \A i, j \in Positions :
         status[subnodes[i]] = "simplified" /\ status[subnodes[j]] = "simplified" => i = j
    /\ pc = "simplifyings" /\ todo # <<>> =>
         \A i \in Positions : status[subnodes[i]] # "simplified"

IsoTypes ==
  /\ dists \in Nat \ {0} /\ cores \in Nat
  /\ subnodes \in Seq(Node)

IsoLoop == IInv /\ CInv /\ ChildrenWait /\ IsoRound /\ Scanned /\ Short /\ OneByOne

IsoInv ==
  /\ IsoTypes
  /\ pc = "recv" => Init /\ subnodes = <<>>
  /\ Searching => IsoLoop
  /\ SubnodesHaveFiles /\ SmallPrePartitionCovers

-----------------------------------------------------------------------------
(* One scan of the list.                                                   *)

LEMMA ListFacts ==
  ASSUME IsoTypes
  PROVE  /\ Len(subnodes) \in Nat
         /\ \A i \in Positions : subnodes[i] \in Node
         /\ Positions \subseteq Nat
BY LenProperties DEF IsoTypes, Positions

LEMMA ListEmpty ==
  ASSUME NEW S, NEW s \in Seq(S)
  PROVE  s = <<>> <=> Len(s) = 0
BY EmptySeq, LenProperties

\* What replaces an open node of the list.
LEMMA OffspringFacts ==
  ASSUME TypeOK, TreeShape, IsoRound, NEW s \in Node, Ready(s)
  PROVE  /\ Offspring(s) \in Seq(Node)
         /\ status[s] = "unsat" => Offspring(s) = <<>>
         /\ status[s] \in {"unsolved", "simplifying"} => Offspring(s) = <<s>>
         /\ status[s] = "simplified" =>
              /\ Offspring(s) = <<left[s], left[s] + 1>>
              /\ left[s] \in Node /\ left[s] + 1 \in Node /\ left[s] \in Nat
              /\ Children(s) = {left[s], left[s] + 1}
              /\ left[s] < numNodes /\ left[s] + 1 < numNodes
         /\ status[s] \in {"unsolved", "simplifying", "simplified", "unsat"}
<1>1. status[s] \in {"unsolved", "simplifying", "simplified", "unsat"}
  BY DEF IsoRound
<1>2. /\ status[s] = "unsat" => Offspring(s) = <<>>
      /\ status[s] \in {"unsolved", "simplifying"} => Offspring(s) = <<s>>
      /\ status[s] = "simplified" => Offspring(s) = <<left[s], left[s] + 1>>
  BY DEF Offspring, ChildPair
<1>3. ASSUME status[s] = "simplified"
      PROVE  /\ left[s] \in Node /\ left[s] + 1 \in Node /\ left[s] \in Nat
             /\ Children(s) = {left[s], left[s] + 1}
             /\ left[s] < numNodes /\ left[s] + 1 < numNodes
  <2>1. Children(s) = {left[s], left[s] + 1}
    BY <1>3 DEF Ready, Children
  <2>2. \A c \in Children(s) : c \in Node /\ c < numNodes
    BY ChainFacts
  <2> QED
    BY <2>1, <2>2, NodeFacts
<1>4. Offspring(s) \in Seq(Node)
  <2>1. <<>> \in Seq(Node) /\ <<s>> \in Seq(Node)
    OBVIOUS
  <2>2. status[s] = "simplified" => <<left[s], left[s] + 1>> \in Seq(Node)
    BY <1>3
  <2> QED
    BY <1>1, <1>2, <2>1, <2>2
<1> QED
  BY <1>1, <1>2, <1>3, <1>4

\* The nodes that replace s.
LEMMA OffspringElements ==
  ASSUME TypeOK, TreeShape, IsoRound, NEW s \in Node, Ready(s)
  PROVE  /\ Elements(Offspring(s)) =
              CASE status[s] = "unsat" -> {}
                [] status[s] \in {"unsolved", "simplifying"} -> {s}
                [] OTHER -> Children(s)
         /\ Len(Offspring(s)) <= 2
         /\ Len(Offspring(s)) = 2 => status[s] = "simplified"
         /\ \A i, j \in 1 .. Len(Offspring(s)) :
              Offspring(s)[i] \in Path(Offspring(s)[j]) => i = j
<1>1. CASE status[s] = "unsat"
  <2>1. Offspring(s) = <<>> /\ Len(Offspring(s)) = 0
    BY <1>1, OffspringFacts
  <2> QED
    BY <1>1, <2>1 DEF Elements
<1>2. CASE status[s] \in {"unsolved", "simplifying"}
  <2>1. Offspring(s) = <<s>> /\ Len(Offspring(s)) = 1 /\ Offspring(s)[1] = s
    BY <1>2, OffspringFacts
  <2> QED
    BY <1>2, <2>1 DEF Elements
<1>3. CASE status[s] = "simplified"
  <2> DEFINE l == left[s]
  <2>1. /\ Offspring(s) = <<l, l + 1>> /\ Len(Offspring(s)) = 2
        /\ Offspring(s)[1] = l /\ Offspring(s)[2] = l + 1
        /\ Children(s) = {l, l + 1} /\ l \in Node /\ l + 1 \in Node /\ l \in Nat
    BY <1>3, OffspringFacts
  <2>2. anc[l] = Path(s) /\ anc[l + 1] = Path(s) /\ s < l /\ s < l + 1
    BY <2>1, ChainFacts
  <2>3. \A a \in Path(s) : a < l /\ a \in Nat
    <3>1. \A a \in anc[s] : a < s /\ a \in Nat
      BY ChainFacts, NodeFacts
    <3> QED
      BY <2>1, <2>2, <3>1, NodeFacts DEF Path
  <2>4. l \notin Path(l + 1) /\ l + 1 \notin Path(l)
    BY <2>1, <2>2, <2>3 DEF Path
  <2>5. \A i \in 1 .. Len(Offspring(s)) : i = 1 \/ i = 2
    BY <2>1
  <2> HIDE DEF l
  <2>6. Elements(Offspring(s)) = {l, l + 1}
    BY <2>1, <2>5 DEF Elements
  <2> QED
    BY <1>3, <2>1, <2>4, <2>5, <2>6
<1> QED
  BY <1>1, <1>2, <1>3, OffspringFacts

\* The list after one more node.
LEMMA UpToSteps ==
  ASSUME IInv, IsoTypes, IsoRound, Scanned
  PROVE  /\ OffspringUpTo(0) = <<>>
         /\ \A i \in 0 .. Len(subnodes) - 1 :
              OffspringUpTo(i + 1) = OffspringUpTo(i) \o Offspring(subnodes[i + 1])
         /\ \A i \in 0 .. Len(subnodes) : OffspringUpTo(i) \in Seq(Node)
<1> DEFINE n == Len(subnodes)
           q == [j \in 1 .. n |-> Offspring(subnodes[j])]
<1>1. n \in Nat /\ \A i \in 1 .. n : Offspring(subnodes[i]) \in Seq(Node)
  BY ListFacts, OffspringFacts DEF IInv, Scanned, Positions
<1>2. q \in [1 .. n -> Seq(Node)]
  BY <1>1
<1>3. ASSUME NEW i \in 0 .. n
      PROVE  OffspringUpTo(i) = FlattenSeq([j \in 1 .. i |-> q[j]])
  <2>1. [j \in 1 .. i |-> q[j]] = [j \in 1 .. i |-> Offspring(subnodes[j])]
    BY <1>1, <1>3
  <2> QED
    BY <2>1 DEF OffspringUpTo
<1>4. /\ OffspringUpTo(0) = <<>>
      /\ \A i \in 0 .. n - 1 :
           OffspringUpTo(i + 1) = OffspringUpTo(i) \o Offspring(subnodes[i + 1])
  <2>1. /\ FlattenSeq([j \in 1 .. 0 |-> q[j]]) = <<>>
        /\ \A i \in 0 .. n - 1 :
             FlattenSeq([j \in 1 .. i + 1 |-> q[j]])
               = FlattenSeq([j \in 1 .. i |-> q[j]]) \o q[i + 1]
    <3> HIDE DEF n, q
    <3> QED
      BY <1>1, <1>2, FlattenSteps
  <2>2. 0 \in 0 .. n
    BY <1>1
  <2>3. ASSUME NEW i \in 0 .. n - 1
        PROVE  OffspringUpTo(i + 1) = OffspringUpTo(i) \o Offspring(subnodes[i + 1])
    <3>1. i \in 0 .. n /\ i + 1 \in 0 .. n /\ i + 1 \in 1 .. n
      BY <1>1
    <3>2. q[i + 1] = Offspring(subnodes[i + 1])
      BY <3>1
    <3> HIDE DEF q, n
    <3> QED
      BY <1>3, <2>1, <3>1, <3>2
  <2> HIDE DEF q
  <2> QED
    BY <1>3, <2>1, <2>2, <2>3
<1>5. \A i \in 0 .. n : OffspringUpTo(i) \in Seq(Node)
  <2> DEFINE S == {i \in Nat : i <= n => OffspringUpTo(i) \in Seq(Node)}
  <2>1. 0 \in S
    <3>1. 0 \in Nat /\ <<>> \in Seq(Node)
      OBVIOUS
    <3>2. OffspringUpTo(0) \in Seq(Node)
      BY <1>4, <3>1
    <3> HIDE DEF n
    <3> QED
      BY <3>1, <3>2
  <2>2. ASSUME NEW i \in Nat, i \in S
        PROVE  i + 1 \in S
    <3> SUFFICES ASSUME i + 1 <= n PROVE OffspringUpTo(i + 1) \in Seq(Node)
      OBVIOUS
    <3>1. i \in 0 .. n - 1 /\ i + 1 \in 1 .. n /\ OffspringUpTo(i) \in Seq(Node)
      BY <1>1, <2>2
    <3>2. Offspring(subnodes[i + 1]) \in Seq(Node)
      BY <1>1, <3>1
    <3>3. OffspringUpTo(i + 1) = OffspringUpTo(i) \o Offspring(subnodes[i + 1])
      BY <1>4, <3>1
    <3> QED
      BY <3>1, <3>2, <3>3, ConcatProperties
  <2>3. Nat \subseteq S
    <3> HIDE DEF S
    <3> QED
      BY <2>1, <2>2, Induct
  <2> QED
    BY <1>1, <2>3
<1> QED
  BY <1>4, <1>5

LEMMA ConcatAll ==
  ASSUME NEW s \in Seq(Node), NEW t \in Seq(Node)
  PROVE  Elements(s \o t) = Elements(s) \union Elements(t)
<1>1. /\ Len(s) \in Nat /\ Len(t) \in Nat /\ Len(s \o t) = Len(s) + Len(t)
      /\ \A i \in 1 .. Len(s) + Len(t) :
           (s \o t)[i] = IF i <= Len(s) THEN s[i] ELSE t[i - Len(s)]
  BY ConcatProperties, LenProperties
<1>2. ASSUME NEW i \in 1 .. Len(s)
      PROVE  s[i] \in Elements(s \o t)
  <2>1. i \in 1 .. Len(s \o t) /\ (s \o t)[i] = s[i]
    BY <1>1
  <2> QED
    BY <2>1 DEF Elements
<1>3. ASSUME NEW i \in 1 .. Len(t)
      PROVE  t[i] \in Elements(s \o t)
  <2>1. Len(s) + i \in 1 .. Len(s \o t) /\ (s \o t)[Len(s) + i] = t[i]
    BY <1>1
  <2> QED
    BY <2>1 DEF Elements
<1>4. Elements(s) \subseteq Elements(s \o t) /\ Elements(t) \subseteq Elements(s \o t)
  BY <1>2, <1>3 DEF Elements
<1> QED
  BY <1>4, ConcatElements

\* What is in the list after the first i nodes, and how long it can be.
LEMMA UpToElements ==
  ASSUME IInv, IsoTypes, IsoRound, Scanned, NEW i \in 0 .. Len(subnodes)
  PROVE  /\ \A x : x \in Elements(OffspringUpTo(i)) <=>
                     \E j \in 1 .. i : x \in Elements(Offspring(subnodes[j]))
         /\ Len(OffspringUpTo(i)) \in Nat
<1> DEFINE n == Len(subnodes)
           Has(k) == \A x : x \in Elements(OffspringUpTo(k)) <=>
                              \E j \in 1 .. k : x \in Elements(Offspring(subnodes[j]))
           S == {k \in Nat : k <= n => Has(k)}
<1>1. n \in Nat /\ \A j \in 1 .. n : Offspring(subnodes[j]) \in Seq(Node)
  BY ListFacts, OffspringFacts DEF IInv, Scanned, Positions
<1>2. 0 \in S
  <2>1. OffspringUpTo(0) = <<>> /\ 1 .. 0 = {}
    BY UpToSteps
  <2>2. Elements(<<>>) = {}
    BY DEF Elements
  <2>3. Has(0)
    BY <2>1, <2>2
  <2>4. 0 \in Nat
    OBVIOUS
  <2> HIDE DEF Has, n
  <2> QED
    BY <2>3, <2>4
<1>3. ASSUME NEW k \in Nat, k \in S
      PROVE  k + 1 \in S
  <2> SUFFICES ASSUME k + 1 <= n PROVE Has(k + 1)
    OBVIOUS
  <2>1. k \in 0 .. n - 1 /\ k \in 0 .. n /\ k + 1 \in 1 .. n /\ Has(k)
    BY <1>1, <1>3
  <2>2. /\ OffspringUpTo(k + 1) = OffspringUpTo(k) \o Offspring(subnodes[k + 1])
        /\ OffspringUpTo(k) \in Seq(Node) /\ Offspring(subnodes[k + 1]) \in Seq(Node)
    BY <1>1, <2>1, UpToSteps
  <2>3. Elements(OffspringUpTo(k + 1))
          = Elements(OffspringUpTo(k)) \union Elements(Offspring(subnodes[k + 1]))
    BY <2>2, ConcatAll
  <2>4. 1 .. k + 1 = (1 .. k) \union {k + 1}
    BY <2>1
  <2> QED
    BY <2>1, <2>3, <2>4
<1>4. Nat \subseteq S
  <2> HIDE DEF S
  <2> QED
    BY <1>2, <1>3, Induct
<1>5. OffspringUpTo(i) \in Seq(Node)
  BY UpToSteps
<1> QED
  BY <1>1, <1>4, <1>5, LenProperties


LEMMA LeastOf ==
  ASSUME NEW n \in Nat, NEW T \in SUBSET (0 .. n), T # {}
  PROVE  \E x \in T : \A y \in 0 .. x - 1 : y \notin T
<1>1. T \subseteq Nat
  OBVIOUS
<1>2. PICK x \in T : \A y \in T : ~(<<y, x>> \in OpToRel(<, Nat))
  BY <1>1, WFMin, NatLessThanWellFounded
<1>3. \A y \in T : ~(y < x)
  BY <1>1, <1>2 DEF OpToRel
<1>4. \A y \in 0 .. x - 1 : y < x
  BY <1>1
<1> QED
  BY <1>3, <1>4

\* Where the for loop stops.
LEMMA ScanStops ==
  ASSUME IInv, IsoTypes, IsoRound, Scanned
  PROVE  \E k \in 0 .. Len(subnodes) :
           /\ Rescanned = OffspringUpTo(k)
           /\ k = Len(subnodes) \/ Len(OffspringUpTo(k)) >= dists
<1> DEFINE n == Len(subnodes)
           stops(i) == i = n \/ Len(OffspringUpTo(i)) >= dists
           first(i) == stops(i) /\ \A j \in 0 .. i - 1 : ~stops(j)
           T == {i \in 0 .. n : stops(i)}
           k == CHOOSE i \in 0 .. n : first(i)
<1>1. n \in Nat
  BY ListFacts
<1>2. n \in T
  BY <1>1
<1>3. PICK x \in T : \A y \in 0 .. x - 1 : y \notin T
  <2>1. T \in SUBSET (0 .. n)
    OBVIOUS
  <2> HIDE DEF T, n
  <2> QED
    BY <1>1, <1>2, <2>1, LeastOf
<1>4. x \in 0 .. n /\ first(x)
  <2>1. \A y \in 0 .. x - 1 : y \in 0 .. n
    BY <1>1, <1>3
  <2> QED
    BY <1>3, <2>1
<1>5. k \in 0 .. n /\ first(k)
  <2> HIDE DEF first, n
  <2> QED
    BY <1>4
<1>6. Rescanned = OffspringUpTo(k)
  BY DEF Rescanned
<1> HIDE DEF k
<1> QED
  BY <1>5, <1>6

\* What is true of each node that replaces an open node of the list.
LEMMA OffspringReady ==
  ASSUME IInv, IsoRound, NEW s \in Node, Ready(s), NEW x \in Elements(Offspring(s))
  PROVE  /\ x \in Created /\ x \in Node /\ x \in tasks
         /\ status[x] \in {"unsolved", "simplifying"}
         /\ \A a \in anc[x] : status[a] \in {"simplified", "unsat"}
         /\ x = s \/ (status[s] = "simplified" /\ x \in Children(s) /\ anc[x] = Path(s))
<1>1. /\ TypeOK /\ TreeShape
      /\ Elements(Offspring(s)) =
              CASE status[s] = "unsat" -> {}
                [] status[s] \in {"unsolved", "simplifying"} -> {s}
                [] OTHER -> Children(s)
      /\ status[s] \in {"unsolved", "simplifying", "simplified", "unsat"}
  BY OffspringElements, OffspringFacts DEF IInv
<1>2. CASE status[s] \in {"unsolved", "simplifying"}
  <2>1. x = s
    BY <1>1, <1>2
  <2> QED
    BY <1>2, <2>1 DEF Ready
<1>3. CASE status[s] = "simplified"
  <2>1. x \in Children(s)
    BY <1>1, <1>3
  <2>2. x \in Node /\ x < numNodes /\ anc[x] = Path(s)
    BY <1>1, <2>1, ChainFacts
  <2>3. x \in Created
    BY <1>1, <2>2, CreatedIsNode
  <2>4. x \in tasks /\ status[x] \in {"unsolved", "simplifying"}
    BY <1>3, <2>1 DEF Ready
  <2>5. \A a \in anc[x] : status[a] \in {"simplified", "unsat"}
    BY <1>3, <2>2 DEF Ready, Path
  <2> QED
    BY <1>3, <2>1, <2>2, <2>3, <2>4, <2>5
<1>4. status[s] # "unsat"
  BY <1>1
<1> QED
  BY <1>1, <1>2, <1>3, <1>4

\* What replaces two separate nodes is separate.
LEMMA OffspringApart ==
  ASSUME IInv, IsoRound, NEW s \in Node, NEW t \in Node, Ready(s), Ready(t),
         s \notin Path(t), t \notin Path(s),
         NEW x \in Elements(Offspring(s)), NEW y \in Elements(Offspring(t))
  PROVE  x \notin Path(y)
<1>1. /\ x = s \/ anc[x] = Path(s)
      /\ y = t \/ anc[y] = Path(t)
      /\ x \in Node /\ y \in Node
  BY OffspringReady
<1>2. \A m \in Node : \A a \in anc[m] : anc[a] \subseteq anc[m]
  BY ChainFacts DEF IInv
<1>3. s \in Path(x) /\ t \in Path(y)
  BY <1>1 DEF Path
<1>4. x \notin Path(t)
  <2> SUFFICES ASSUME x \in Path(t) PROVE FALSE
    OBVIOUS
  <2>1. Path(x) \subseteq Path(t)
    BY <1>2 DEF Path
  <2> QED
    BY <1>3, <2>1
<1>5. x # y
  BY <1>1, <1>3 DEF Path
<1> QED
  BY <1>1, <1>4, <1>5 DEF Path

LEMMA UpToType ==
  ASSUME IInv, IsoTypes, IsoRound, Scanned, NEW k \in 0 .. Len(subnodes)
  PROVE  /\ OffspringUpTo(k) \in Seq(Node)
         /\ Len(OffspringUpTo(k)) \in Nat
         /\ \A i \in 1 .. Len(OffspringUpTo(k)) :
              \E j \in 1 .. k :
                /\ j \in Positions /\ subnodes[j] \in Node /\ Ready(subnodes[j])
                /\ OffspringUpTo(k)[i] \in Elements(Offspring(subnodes[j]))
<1>1. OffspringUpTo(k) \in Seq(Node)
  BY UpToSteps
<1>2. ASSUME NEW i \in 1 .. Len(OffspringUpTo(k))
      PROVE  \E j \in 1 .. k : OffspringUpTo(k)[i] \in Elements(Offspring(subnodes[j]))
  <2>1. OffspringUpTo(k)[i] \in Elements(OffspringUpTo(k))
    BY DEF Elements
  <2> QED
    BY <2>1, UpToElements
<1>3. Len(subnodes) \in Nat /\ \A j \in Positions : subnodes[j] \in Node
  BY ListFacts
<1>4. \A j \in 1 .. k : j \in Positions /\ subnodes[j] \in Node /\ Ready(subnodes[j])
  <2>1. \A j \in 1 .. k : j \in Positions
    BY <1>3 DEF Positions
  <2> QED
    BY <2>1, <1>3 DEF Scanned
<1>5. Len(OffspringUpTo(k)) \in Nat
  BY <1>1, LenProperties
<1> QED
  BY <1>1, <1>2, <1>4, <1>5

\* The nodes of the list so far are separate.
SeparateUpTo(k) ==
  \A i, j \in 1 .. Len(OffspringUpTo(k)) :
    OffspringUpTo(k)[i] \in Path(OffspringUpTo(k)[j]) => i = j

LEMMA UpToApart ==
  ASSUME IInv, IsoTypes, IsoRound, Scanned, NEW k \in 0 .. Len(subnodes)
  PROVE  SeparateUpTo(k)
<1> DEFINE n == Len(subnodes)
           S == {m \in Nat : m <= n => SeparateUpTo(m)}
<1>1. n \in Nat /\ n = Len(subnodes)
  BY ListFacts
<1>2. 0 \in S
  <2>1. OffspringUpTo(0) = <<>>
    BY UpToSteps
  <2>2. Len(OffspringUpTo(0)) = 0
    BY <2>1
  <2>3. SeparateUpTo(0)
    BY <2>2 DEF SeparateUpTo
  <2>4. 0 \in Nat
    OBVIOUS
  <2> HIDE DEF n
  <2> QED
    BY <2>3, <2>4
<1>3. ASSUME NEW m \in Nat, m \in S
      PROVE  m + 1 \in S
  <2> SUFFICES ASSUME m + 1 <= n PROVE SeparateUpTo(m + 1)
    OBVIOUS
  <2> DEFINE u == OffspringUpTo(m)
             s == subnodes[m + 1]
             o == Offspring(s)
  <2>1. m \in 0 .. n /\ m \in 0 .. n - 1 /\ m + 1 \in 1 .. n /\ SeparateUpTo(m)
    BY <1>1, <1>3
  <2>2. s \in Node /\ Ready(s) /\ m + 1 \in Positions
    BY <2>1, ListFacts DEF Scanned, Positions
  <2>3. u \in Seq(Node) /\ o \in Seq(Node) /\ OffspringUpTo(m + 1) = u \o o
    BY <2>1, <2>2, UpToSteps, OffspringFacts DEF IInv
  <2>4. /\ Len(u) \in Nat /\ Len(o) \in Nat /\ Len(u \o o) = Len(u) + Len(o)
        /\ \A i \in 1 .. Len(u) + Len(o) :
             (u \o o)[i] = IF i <= Len(u) THEN u[i] ELSE o[i - Len(u)]
    BY <2>3, ConcatProperties, LenProperties
  <2>5. \A i, j \in 1 .. Len(u) : u[i] \in Path(u[j]) => i = j
    BY <2>1 DEF SeparateUpTo
  <2>6. \A i, j \in 1 .. Len(o) : o[i] \in Path(o[j]) => i = j
    BY <2>2, OffspringElements DEF IInv
  <2>7. ASSUME NEW i \in 1 .. Len(u), NEW j \in 1 .. Len(o)
        PROVE  u[i] \notin Path(o[j]) /\ o[j] \notin Path(u[i])
    <3>1. PICK a \in 1 .. m :
            /\ a \in Positions /\ subnodes[a] \in Node /\ Ready(subnodes[a])
            /\ u[i] \in Elements(Offspring(subnodes[a]))
      BY <2>1, UpToType
    <3>2. a # m + 1
      BY <2>1
    <3>3. subnodes[a] \notin Path(s) /\ s \notin Path(subnodes[a])
      BY <2>2, <3>1, <3>2 DEF Scanned, Apart
    <3>4. o[j] \in Elements(o)
      BY DEF Elements
    <3> HIDE DEF u, s
    <3> QED
      BY <2>2, <3>1, <3>3, <3>4, OffspringApart
  <2> HIDE DEF u, o, s
  <2>8. ASSUME NEW i \in 1 .. Len(u) + Len(o), NEW j \in 1 .. Len(u) + Len(o),
               (u \o o)[i] \in Path((u \o o)[j])
        PROVE  i = j
    <3>1. CASE i <= Len(u) /\ j <= Len(u)
      <4>1. i \in 1 .. Len(u) /\ j \in 1 .. Len(u)
        BY <2>4, <3>1
      <4>2. (u \o o)[i] = u[i] /\ (u \o o)[j] = u[j]
        BY <2>4, <3>1
      <4> QED
        BY <2>5, <2>8, <4>1, <4>2
    <3>2. CASE i <= Len(u) /\ j > Len(u)
      <4>1. i \in 1 .. Len(u) /\ j - Len(u) \in 1 .. Len(o)
        BY <2>4, <3>2
      <4>2. (u \o o)[i] = u[i] /\ (u \o o)[j] = o[j - Len(u)]
        BY <2>4, <3>2
      <4> QED
        BY <2>7, <2>8, <4>1, <4>2
    <3>3. CASE i > Len(u) /\ j <= Len(u)
      <4>1. j \in 1 .. Len(u) /\ i - Len(u) \in 1 .. Len(o)
        BY <2>4, <3>3
      <4>2. (u \o o)[j] = u[j] /\ (u \o o)[i] = o[i - Len(u)]
        BY <2>4, <3>3
      <4> QED
        BY <2>7, <2>8, <4>1, <4>2
    <3>4. CASE i > Len(u) /\ j > Len(u)
      <4>1. j - Len(u) \in 1 .. Len(o) /\ i - Len(u) \in 1 .. Len(o)
        BY <2>4, <3>4
      <4>2. (u \o o)[j] = o[j - Len(u)] /\ (u \o o)[i] = o[i - Len(u)]
        BY <2>4, <3>4
      <4>3. i - Len(u) = j - Len(u)
        BY <2>6, <2>8, <4>1, <4>2
      <4> QED
        BY <2>4, <4>3
    <3> QED
      BY <2>4, <3>1, <3>2, <3>3, <3>4
  <2> QED
    BY <2>3, <2>4, <2>8 DEF SeparateUpTo
<1>4. Nat \subseteq S
  <2> HIDE DEF S
  <2> QED
    BY <1>2, <1>3, Induct
<1> QED
  BY <1>1, <1>4

\* All of the list: each open node is still reached, and no model is lost.
LEMMA AllReplaced ==
  ASSUME IInv, CInv, IsoTypes, IsoRound, Scanned
  PROVE  /\ \A a \in Created : status[a] # "unsat" =>
              \E x \in Elements(OffspringUpTo(Len(subnodes))) :
                a \in Path(x) \/ x \in Path(a)
         /\ mods[Root] \subseteq
              UNION {mods[x] : x \in Elements(OffspringUpTo(Len(subnodes)))}
<1> DEFINE n == Len(subnodes)
           New == Elements(OffspringUpTo(n))
<1>1. n \in Nat /\ n \in 0 .. n /\ \A i \in Positions : subnodes[i] \in Node
  BY ListFacts
<1>2. ASSUME NEW i \in Positions
      PROVE  Elements(Offspring(subnodes[i])) \subseteq New
  <2>1. i \in 1 .. n
    BY DEF Positions
  <2> QED
    BY <1>1, <2>1, UpToElements
<1> HIDE DEF New
<1>3. ASSUME NEW a \in Created, status[a] # "unsat"
      PROVE  \E x \in New : a \in Path(x) \/ x \in Path(a)
  <2>1. PICK i \in Positions :
          /\ status[subnodes[i]] # "unsat"
          /\ a \in Path(subnodes[i]) \/ subnodes[i] \in Path(a)
    BY <1>3 DEF Scanned, AllReached, Reached
  <2> DEFINE s == subnodes[i]
  <2>2. s \in Node /\ Ready(s) /\ Elements(Offspring(s)) \subseteq New
    BY <1>1, <1>2 DEF Scanned
  <2>3. /\ Elements(Offspring(s)) =
              CASE status[s] = "unsat" -> {}
                [] status[s] \in {"unsolved", "simplifying"} -> {s}
                [] OTHER -> Children(s)
        /\ status[s] \in {"unsolved", "simplifying", "simplified", "unsat"}
    BY <2>2, OffspringElements, OffspringFacts DEF IInv
  <2> HIDE DEF s
  <2>4. CASE status[s] \in {"unsolved", "simplifying"}
    <3>1. s \in New
      BY <2>2, <2>3, <2>4
    <3> QED
      BY <2>1, <3>1 DEF s
  <2>5. CASE status[s] = "simplified"
    <3>1. Children(s) \subseteq New /\ Children(s) # {}
      <4>1. Children(s) = {left[s], left[s] + 1}
        BY <2>2, <2>5, OffspringFacts DEF IInv
      <4> QED
        BY <2>2, <2>3, <2>5, <4>1
    <3>2. \A c \in Children(s) : anc[c] = Path(s)
      BY <2>2, ChainFacts DEF IInv
    <3>3. CASE a \in Path(s)
      <4>1. PICK c \in Children(s) : TRUE
        BY <3>1
      <4>2. a \in Path(c)
        BY <3>2, <3>3 DEF Path
      <4> QED
        BY <3>1, <4>2
    <3>4. CASE s \in anc[a]
      <4>1. a \in Node
        BY CreatedIsNode DEF IInv
      <4>2. PICK c \in Node : Children(s) \intersect Path(a) = {c}
        BY <3>4, <4>1 DEF CInv, OnePath
      <4>3. c \in Children(s) /\ c \in Path(a)
        BY <4>2
      <4> QED
        BY <3>1, <4>3
    <3> QED
      BY <2>1, <3>3, <3>4 DEF s, Path
  <2> QED
    BY <2>1, <2>3, <2>4, <2>5 DEF s
<1>4. ASSUME NEW f \in mods[Root]
      PROVE  \E x \in New : f \in mods[x]
  <2>1. PICK i \in Positions : f \in mods[subnodes[i]]
    BY <1>4 DEF Scanned, Whole
  <2> DEFINE s == subnodes[i]
  <2>2. s \in Node /\ Ready(s) /\ Elements(Offspring(s)) \subseteq New
    BY <1>1, <1>2 DEF Scanned
  <2>3. /\ Elements(Offspring(s)) =
              CASE status[s] = "unsat" -> {}
                [] status[s] \in {"unsolved", "simplifying"} -> {s}
                [] OTHER -> Children(s)
        /\ status[s] \in {"unsolved", "simplifying", "simplified", "unsat"}
    BY <2>2, OffspringElements, OffspringFacts DEF IInv
  <2>4. status[s] # "unsat"
    <3>1. status[s] = "unsat" => mods[s] \subseteq given
      BY <2>2 DEF Ready, IInv, UnsatSound
    <3> QED
      BY <2>1, <3>1 DEF IsoRound
  <2>5. f \in mods[s]
    BY <2>1
  <2> HIDE DEF s
  <2>6. CASE status[s] \in {"unsolved", "simplifying"}
    BY <2>2, <2>3, <2>5, <2>6
  <2>7. CASE status[s] = "simplified"
    <3>1. Children(s) = {left[s], left[s] + 1} /\ left[s] # 0
      BY <2>2, <2>7, OffspringFacts DEF IInv, Ready
    <3>2. mods[s] = mods[left[s]] \union mods[left[s] + 1]
      BY <2>2, <3>1 DEF IInv, ModelsCovered
    <3>3. Children(s) \subseteq New
      BY <2>2, <2>3, <2>7
    <3> QED
      BY <2>5, <3>1, <3>2, <3>3
  <2> QED
    BY <2>3, <2>4, <2>6, <2>7
<1> QED
  BY <1>3, <1>4 DEF New

\* With at most one simplified node, the list grows by one at most.
LEMMA UpToLength ==
  ASSUME IInv, IsoTypes, IsoRound, Scanned,
         \A i, j \in Positions :
           status[subnodes[i]] = "simplified" /\ status[subnodes[j]] = "simplified" => i = j,
         NEW k \in 0 .. Len(subnodes)
  PROVE  Len(OffspringUpTo(k)) <= k + 1
<1> DEFINE n == Len(subnodes)
           Fits(m) ==
             /\ Len(OffspringUpTo(m)) <= m + 1
             /\ (\A j \in 1 .. m : status[subnodes[j]] # "simplified") =>
                  Len(OffspringUpTo(m)) <= m
           S == {m \in Nat : m <= n => Fits(m)}
<1>1. n \in Nat /\ n = Len(subnodes)
  BY ListFacts
<1>2. 0 \in S
  <2>1. OffspringUpTo(0) = <<>>
    BY UpToSteps
  <2>2. Len(OffspringUpTo(0)) = 0
    BY <2>1
  <2>3. Fits(0)
    BY <2>2
  <2>4. 0 \in Nat
    OBVIOUS
  <2> HIDE DEF n, Fits
  <2> QED
    BY <2>3, <2>4
<1>3. ASSUME NEW m \in Nat, m \in S
      PROVE  m + 1 \in S
  <2> SUFFICES ASSUME m + 1 <= n PROVE Fits(m + 1)
    OBVIOUS
  <2> DEFINE u == OffspringUpTo(m)
             s == subnodes[m + 1]
             o == Offspring(s)
  <2>1. m \in 0 .. n /\ m \in 0 .. n - 1 /\ m + 1 \in 1 .. n /\ Fits(m)
    BY <1>1, <1>3
  <2>2. s \in Node /\ Ready(s) /\ m + 1 \in Positions
    BY <2>1, ListFacts DEF Scanned, Positions
  <2>3. u \in Seq(Node) /\ o \in Seq(Node) /\ OffspringUpTo(m + 1) = u \o o
    BY <2>1, <2>2, UpToSteps, OffspringFacts DEF IInv
  <2>4. /\ Len(u) \in Nat /\ Len(o) \in Nat
        /\ Len(OffspringUpTo(m + 1)) = Len(u) + Len(o)
    BY <2>3, ConcatProperties, LenProperties
  <2>5. Len(o) <= 2 /\ (Len(o) = 2 => status[s] = "simplified")
    BY <2>2, OffspringElements DEF IInv
  <2>6. Len(u) <= m + 1
    BY <2>1
  <2>7. CASE status[s] = "simplified"
    <3>1. \A j \in 1 .. m : j \in Positions /\ j # m + 1
      BY <1>1, <2>1 DEF Positions
    <3>2. \A j \in 1 .. m : status[subnodes[j]] # "simplified"
      BY <2>2, <2>7, <3>1
    <3>3. Len(u) <= m
      BY <2>1, <3>2
    <3>4. Len(OffspringUpTo(m + 1)) <= (m + 1) + 1
      BY <2>4, <2>5, <3>3
    <3> QED
      BY <2>1, <2>7, <3>4
  <2>8. CASE status[s] # "simplified"
    <3>1. Len(o) <= 1
      <4>1. Len(o) # 2 /\ Len(o) <= 2 /\ Len(o) \in Nat
        BY <2>4, <2>5, <2>8
      <4>2. \A x \in Nat : x # 2 /\ x <= 2 => x <= 1
        OBVIOUS
      <4> HIDE DEF o
      <4> QED
        BY <4>1, <4>2, Zenon
    <3>2. Len(OffspringUpTo(m + 1)) <= (m + 1) + 1
      BY <2>4, <2>6, <3>1
    <3>3. (\A j \in 1 .. m + 1 : status[subnodes[j]] # "simplified") =>
            Len(OffspringUpTo(m + 1)) <= m + 1
      <4>1. \A j \in 1 .. m : j \in 1 .. m + 1
        OBVIOUS
      <4>2. (\A j \in 1 .. m : status[subnodes[j]] # "simplified") => Len(u) <= m
        BY <2>1
      <4> HIDE DEF u, o, s
      <4> QED
        BY <2>4, <3>1, <4>1, <4>2
    <3> QED
      BY <3>2, <3>3
  <2> QED
    BY <2>7, <2>8
<1>4. Nat \subseteq S
  <2> HIDE DEF S
  <2> QED
    BY <1>2, <1>3, Induct
<1> QED
  BY <1>1, <1>4

\* Nobody has solved the formula yet, so something replaces the root.
LEMMA SomethingLeft ==
  ASSUME IInv, CInv, IsoTypes, IsoRound, Scanned, solving
  PROVE  /\ Len(subnodes) # 0
         /\ Len(OffspringUpTo(Len(subnodes))) # 0
<1>1. Root \in Created /\ status[Root] # "unsat"
  <2>1. numNodes > 0
    BY DEF IInv, LoopShape
  <2> QED
    BY <2>1, MaxNodesAssumption
       DEF IInv, TypeOK, TreeTypeOK, Created, Root, IsoRound
<1>2. PICK i \in Positions : status[subnodes[i]] # "unsat"
  BY <1>1 DEF Scanned, AllReached, Reached
<1>3. PICK x \in Elements(OffspringUpTo(Len(subnodes))) : TRUE
  BY <1>1, AllReplaced
<1>4. Len(subnodes) \in Nat /\ Len(subnodes) \in 0 .. Len(subnodes)
  BY ListFacts
<1>5. Len(OffspringUpTo(Len(subnodes))) \in Nat
  BY <1>4, UpToType
<1> QED
  BY <1>2, <1>3, <1>4, <1>5 DEF Positions, Elements

\* The new list fits the coordinators, and nothing is cut off it.
LEMMA SmallScan ==
  ASSUME IInv, CInv, IsoTypes, IsoRound, Scanned, solving, Short,
         cores = 1 => \A i, j \in Positions :
           status[subnodes[i]] = "simplified" /\ status[subnodes[j]] = "simplified" => i = j,
         dists <= 2 \/ cores = 1
  PROVE  /\ Len(Rescanned) <= dists
         /\ Rescanned = OffspringUpTo(Len(subnodes))
<1> DEFINE n == Len(subnodes)
<1>1. PICK k \in 0 .. n :
        /\ Rescanned = OffspringUpTo(k)
        /\ k = n \/ Len(OffspringUpTo(k)) >= dists
  BY ScanStops
<1>2. n \in Nat /\ n # 0 /\ dists \in Nat /\ dists # 0 /\ k \in Nat
  BY ListFacts, SomethingLeft DEF IsoTypes
<1>3. CASE n < dists
  <2>1. \A i, j \in Positions :
          status[subnodes[i]] = "simplified" /\ status[subnodes[j]] = "simplified" => i = j
    <3>1. CASE dists <= 2
      <4>1. n = 1
        <5> HIDE DEF n
        <5> QED
          BY <1>2, <1>3, <3>1
      <4>2. \A i, j \in Positions : i = j
        BY <4>1 DEF Positions
      <4> QED
        BY <4>2
    <3> QED
      BY <3>1
  <2>2. Len(OffspringUpTo(k)) <= k + 1 /\ Len(OffspringUpTo(k)) \in Nat
    BY <2>1, UpToLength, UpToType
  <2>3. k = n
    BY <1>1, <1>2, <1>3, <2>2
  <2> QED
    BY <1>1, <1>2, <1>3, <2>2, <2>3
<1>4. CASE ~(n < dists)
  <2>1. /\ dists = 1 /\ subnodes = <<Root>>
        /\ status[Root] \in {"unsolved", "simplifying"}
    BY <1>4 DEF Short
  <2>2. n = 1 /\ subnodes[1] = Root
    BY <2>1
  <2>3. \A i, j \in Positions :
          status[subnodes[i]] = "simplified" /\ status[subnodes[j]] = "simplified" => i = j
    BY <2>2 DEF Positions
  <2>4. OffspringUpTo(0) = <<>>
    BY UpToSteps
  <2>5. k = n
    <3>1. k = 0 => Len(OffspringUpTo(k)) = 0
      BY <2>4
    <3> QED
      BY <1>1, <1>2, <2>1, <2>2, <3>1
  <2>6. OffspringUpTo(1) = <<Root>>
    <3>1. 0 \in 0 .. n - 1
      BY <2>2
    <3>2. OffspringUpTo(1) = OffspringUpTo(0) \o Offspring(subnodes[0 + 1])
      BY <2>2, <3>1, UpToSteps
    <3>3. Offspring(Root) = <<Root>>
      BY <2>1 DEF Offspring
    <3>4. <<>> \o <<Root>> = <<Root>>
      OBVIOUS
    <3> QED
      BY <2>2, <2>4, <3>2, <3>3, <3>4
  <2>7. Rescanned = <<Root>> /\ Rescanned = OffspringUpTo(n)
    BY <1>1, <2>2, <2>5, <2>6
  <2>8. Len(Rescanned) = 1
    BY <2>7
  <2>9. Len(Rescanned) <= dists
    BY <2>1, <2>8
  <2> QED
    BY <2>7, <2>9
<1> QED
  BY <1>3, <1>4

\* The list that a turn of the loop leaves.
LEMMA NewList ==
  ASSUME IsoTypes, IsoLoop, pc = "partition"
  PROVE  /\ Rescanned \in Seq(Node) /\ Rescanned # <<>>
         /\ \A i \in 1 .. Len(Rescanned) :
              /\ Rescanned[i] \in Created /\ Rescanned[i] \in tasks
              /\ status[Rescanned[i]] \in {"unsolved", "simplifying"}
              /\ \A a \in anc[Rescanned[i]] : status[a] \in {"simplified", "unsat"}
         /\ \A i, j \in 1 .. Len(Rescanned) :
              Rescanned[i] \in Path(Rescanned[j]) => i = j
         /\ Rescanned = OffspringUpTo(Len(subnodes)) =>
              /\ \A a \in Created : status[a] # "unsat" =>
                   \E i \in 1 .. Len(Rescanned) :
                     a \in Path(Rescanned[i]) \/ Rescanned[i] \in Path(a)
              /\ mods[Root] \subseteq
                   UNION {mods[Rescanned[i]] : i \in 1 .. Len(Rescanned)}
         /\ Len(Rescanned) < dists => Rescanned = OffspringUpTo(Len(subnodes))
         /\ dists <= 2 \/ cores = 1 =>
              Len(Rescanned) <= dists /\ Rescanned = OffspringUpTo(Len(subnodes))
<1> DEFINE n == Len(subnodes)
<1>1. /\ IInv /\ CInv /\ IsoRound /\ Scanned /\ Short /\ OneByOne /\ solving
      /\ dists \in Nat /\ dists # 0
  BY DEF IsoLoop, IInv, LoopShape, IsoTypes
<1>2. PICK k \in 0 .. n :
        /\ Rescanned = OffspringUpTo(k)
        /\ k = n \/ Len(OffspringUpTo(k)) >= dists
  BY <1>1, ScanStops
<1> HIDE DEF n
<1>3. /\ Rescanned \in Seq(Node) /\ Len(Rescanned) \in Nat
      /\ \A i \in 1 .. Len(Rescanned) :
           \E j \in 1 .. k :
             /\ j \in Positions /\ subnodes[j] \in Node /\ Ready(subnodes[j])
             /\ Rescanned[i] \in Elements(Offspring(subnodes[j]))
  BY <1>1, <1>2, UpToType DEF n
<1>4. Rescanned # <<>>
  <2>1. Len(Rescanned) # 0
    <3>1. CASE k = n
      BY <1>1, <1>2, <3>1, SomethingLeft DEF n
    <3>2. CASE k # n
      BY <1>1, <1>2, <1>3, <3>2
    <3> QED
      BY <3>1, <3>2
  <2> QED
    BY <1>3, <2>1, ListEmpty
<1>5. ASSUME NEW i \in 1 .. Len(Rescanned)
      PROVE  /\ Rescanned[i] \in Created /\ Rescanned[i] \in tasks
             /\ status[Rescanned[i]] \in {"unsolved", "simplifying"}
             /\ \A a \in anc[Rescanned[i]] : status[a] \in {"simplified", "unsat"}
  <2>1. PICK j \in 1 .. k :
          /\ j \in Positions /\ subnodes[j] \in Node /\ Ready(subnodes[j])
          /\ Rescanned[i] \in Elements(Offspring(subnodes[j]))
    BY <1>3
  <2> QED
    BY <1>1, <2>1, OffspringReady
<1>6. \A i, j \in 1 .. Len(Rescanned) : Rescanned[i] \in Path(Rescanned[j]) => i = j
  BY <1>1, <1>2, UpToApart DEF n, SeparateUpTo
<1>7. ASSUME Rescanned = OffspringUpTo(Len(subnodes))
      PROVE  /\ \A a \in Created : status[a] # "unsat" =>
                  \E i \in 1 .. Len(Rescanned) :
                    a \in Path(Rescanned[i]) \/ Rescanned[i] \in Path(a)
             /\ mods[Root] \subseteq
                  UNION {mods[Rescanned[i]] : i \in 1 .. Len(Rescanned)}
  <2>1. /\ \A a \in Created : status[a] # "unsat" =>
             \E x \in Elements(Rescanned) : a \in Path(x) \/ x \in Path(a)
        /\ mods[Root] \subseteq UNION {mods[x] : x \in Elements(Rescanned)}
    BY <1>1, <1>7, AllReplaced
  <2>2. \A x : x \in Elements(Rescanned) <=> \E i \in 1 .. Len(Rescanned) : x = Rescanned[i]
    BY DEF Elements
  <2> QED
    BY <2>1, <2>2
<1>8. Len(Rescanned) < dists => Rescanned = OffspringUpTo(Len(subnodes))
  BY <1>1, <1>2, <1>3 DEF n
<1>9. dists <= 2 \/ cores = 1 =>
        Len(Rescanned) <= dists /\ Rescanned = OffspringUpTo(Len(subnodes))
  <2>1. cores = 1 => \A i, j \in Positions :
          status[subnodes[i]] = "simplified" /\ status[subnodes[j]] = "simplified" => i = j
    BY <1>1 DEF OneByOne
  <2> QED
    BY <1>1, <2>1, SmallScan
<1> QED
  BY <1>3, <1>4, <1>5, <1>6, <1>7, <1>8, <1>9

\* A step that leaves the tree as it is, and what it says about the round.
LEMMA TreeStays ==
  ASSUME IInv, CInv, ChildrenWait, IsoRound, UNCHANGED treeVars
  PROVE  CInv' /\ ChildrenWait' /\ IsoRound'
<1>1. CInv'
  BY ClosedFrame DEF IInv, treeVars, shape, marks
<1>2. ChildrenWait' /\ IsoRound'
  BY DEF ChildrenWait, IsoRound, Children, treeVars, shape, marks, queues, lists
<1> QED
  BY <1>1, <1>2

LEMMA RescanInv ==
  ASSUME IsoTypes, IsoLoop, Rescan
  PROVE  IsoInv'
<1>1. /\ pc = "partition" /\ subnodes' = Rescanned
      /\ UNCHANGED treeVars /\ UNCHANGED roundVars /\ UNCHANGED sizes
      /\ \/ Len(Rescanned) < dists /\ StartPolling
         \/ pc' = "solve" /\ UNCHANGED <<todo, kept>>
  BY DEF Rescan
<1>2. /\ Rescanned \in Seq(Node) /\ Rescanned # <<>>
      /\ \A i \in 1 .. Len(Rescanned) :
              /\ Rescanned[i] \in Created /\ Rescanned[i] \in tasks
              /\ status[Rescanned[i]] \in {"unsolved", "simplifying"}
              /\ \A a \in anc[Rescanned[i]] : status[a] \in {"simplified", "unsat"}
      /\ \A i, j \in 1 .. Len(Rescanned) :
              Rescanned[i] \in Path(Rescanned[j]) => i = j
      /\ Rescanned = OffspringUpTo(Len(subnodes)) =>
              /\ \A a \in Created : status[a] # "unsat" =>
                   \E i \in 1 .. Len(Rescanned) :
                     a \in Path(Rescanned[i]) \/ Rescanned[i] \in Path(a)
              /\ mods[Root] \subseteq
                   UNION {mods[Rescanned[i]] : i \in 1 .. Len(Rescanned)}
      /\ Len(Rescanned) < dists => Rescanned = OffspringUpTo(Len(subnodes))
      /\ dists <= 2 \/ cores = 1 =>
              Len(Rescanned) <= dists /\ Rescanned = OffspringUpTo(Len(subnodes))
  BY <1>1, NewList
<1>3. IsoTypes'
  BY <1>1, <1>2 DEF IsoTypes, sizes
<1>4. pc' # "recv"
  BY <1>1 DEF StartPolling
<1>5. SubnodesHaveFiles'
  <2>1. tasks' = tasks
    BY <1>1 DEF treeVars, marks
  <2>2. ToSet(Rescanned) \subseteq tasks
    BY <1>2 DEF ToSet
  <2> QED
    BY <1>1, <1>2, <2>1, <2>2 DEF SubnodesHaveFiles, ToSet
<1>6. SmallPrePartitionCovers'
  <2> SUFFICES ASSUME dists <= 2 \/ cores = 1
               PROVE  /\ Len(Rescanned) <= dists
                      /\ mods[Root] \subseteq
                           UNION {mods[Rescanned[i]] :
                                    i \in {j \in 1 .. Len(Rescanned) : j <= dists}}
    BY <1>1 DEF SmallPrePartitionCovers, PrePartitionCovers, sizes, treeVars, shape
  <2>1. /\ Len(Rescanned) <= dists
        /\ mods[Root] \subseteq UNION {mods[Rescanned[i]] : i \in 1 .. Len(Rescanned)}
    BY <1>2
  <2>2. Len(Rescanned) \in Nat /\ dists \in Nat
    BY <1>2, LenProperties DEF IsoTypes
  <2>3. \A j \in 1 .. Len(Rescanned) : j <= dists
    BY <2>1, <2>2
  <2> QED
    BY <2>1, <2>3
<1>7. ASSUME Searching'
      PROVE  IsoLoop'
  <2>1. /\ Len(Rescanned) < dists /\ StartPolling
        /\ Rescanned = OffspringUpTo(Len(subnodes))
    BY <1>1, <1>2, <1>7 DEF Searching
  <2>2. IInv /\ CInv /\ ChildrenWait /\ IsoRound /\ OneByOne
    BY DEF IsoLoop
  <2>3. IInv'
    <3>1. todo' \in Seq(Node) /\ kept' \in Seq(Node) /\ pc' = "simplifyings"
      BY <2>1, <2>2 DEF StartPolling, IInv, TypeOK, TreeTypeOK
    <3>2. LoopTypeOK' /\ LoopShape'
      BY <1>1, <2>2, <3>1
         DEF IInv, TypeOK, LoopTypeOK, LoopShape, PC, roundVars, treeVars, shape
    <3> QED
      BY <1>1, <2>2, <3>2, SameTree
  <2>4. CInv' /\ ChildrenWait' /\ IsoRound'
    BY <1>1, <2>2, TreeStays
  <2>5. /\ \A i \in Positions' : Ready(subnodes[i])'
        /\ Apart'
    <3>1. /\ Positions' = 1 .. Len(Rescanned) /\ Created' = Created
          /\ status' = status /\ anc' = anc /\ tasks' = tasks
      BY <1>1 DEF Positions, treeVars, marks, shape, Created
    <3>2. ASSUME NEW i \in Positions'
          PROVE  Ready(subnodes[i])'
      <4>1. status[Rescanned[i]] # "simplified"
        BY <1>2, <3>1
      <4> QED
        BY <1>1, <1>2, <3>1, <4>1 DEF Ready
    <3>3. Apart'
      BY <1>1, <1>2, <3>1 DEF Apart, Path
    <3> QED
      BY <3>2, <3>3
  <2>6. AllReached' /\ Whole'
    <3>1. /\ Positions' = 1 .. Len(Rescanned) /\ Created' = Created
          /\ status' = status /\ anc' = anc /\ mods' = mods
      BY <1>1 DEF Positions, treeVars, marks, shape, Created
    <3>2. ASSUME NEW a \in Created, status[a] # "unsat"
          PROVE  Reached(a)'
      <4>1. PICK i \in 1 .. Len(Rescanned) :
              a \in Path(Rescanned[i]) \/ Rescanned[i] \in Path(a)
        BY <1>2, <2>1, <3>2
      <4>2. status[Rescanned[i]] # "unsat"
        BY <1>2
      <4> QED
        BY <1>1, <3>1, <4>1, <4>2 DEF Reached, Path
    <3>3. Whole'
      BY <1>1, <1>2, <2>1, <3>1 DEF Whole
    <3> QED
      BY <3>1, <3>2, <3>3 DEF AllReached
  <2>7. Short'
    BY <1>1, <2>1 DEF Short, sizes
  <2>8. OneByOne'
    <3> SUFFICES ASSUME cores = 1
                 PROVE  /\ Len(simplifyings) <= 1
                        /\ Len(<<>>) + Len(simplifyings) <= 1
                        /\ \A i \in 1 .. Len(Rescanned) :
                             status[Rescanned[i]] # "simplified"
      BY <1>1, <2>1
         DEF OneByOne, sizes, treeVars, marks, lists, StartPolling, Positions
    <3>1. Len(simplifyings) <= 1 /\ Len(simplifyings) \in Nat
      BY <2>2, LenProperties DEF OneByOne, IInv, TypeOK, TreeTypeOK
    <3>2. \A i \in 1 .. Len(Rescanned) : status[Rescanned[i]] # "simplified"
      BY <1>2
    <3> QED
      BY <3>1, <3>2
  <2> QED
    BY <2>3, <2>4, <2>5, <2>6, <2>7, <2>8 DEF IsoLoop, Scanned
<1> QED
  BY <1>3, <1>4, <1>5, <1>6, <1>7 DEF IsoInv
-----------------------------------------------------------------------------
(* The other steps.                                                        *)

\* What the scan needs, after a step that keeps the shape of the tree.
LEMMA ListStays ==
  ASSUME IsoTypes, Scanned, UNCHANGED <<shape, subnodes>>
  PROVE  /\ Positions' = Positions /\ Created' = Created
         /\ Apart' /\ Whole'
         /\ \A a \in Node : Path(a)' = Path(a) /\ Children(a)' = Children(a)
<1>1. Positions' = Positions /\ Created' = Created
  BY DEF Positions, Created, shape
<1>2. Apart' /\ Whole'
  BY <1>1 DEF Scanned, Apart, Whole, Path, shape
<1>3. \A a \in Node : Path(a)' = Path(a) /\ Children(a)' = Children(a)
  BY DEF Path, Children, shape
<1> QED
  BY <1>1, <1>2, <1>3

LEMMA EndPollIso ==
  ASSUME IsoTypes, IsoLoop, IsoEndPoll
  PROVE  IsoInv'
<1>1. /\ pc = "simplifyings" /\ pc' = "partition" /\ todo = <<>> /\ todo' = todo
      /\ simplifyings' = kept /\ kept' = <<>>
      /\ UNCHANGED <<shape, marks, queues, solvings, started, given, roundVars>>
      /\ UNCHANGED <<sizes, subnodes>>
  BY DEF IsoEndPoll
<1>2. IInv /\ CInv /\ ChildrenWait /\ IsoRound /\ Scanned /\ Short /\ OneByOne
  BY DEF IsoLoop
<1>3. IInv'
  <2>1. TypeOK /\ StatusShape /\ UnsatSound /\ ResultSound /\ LoopShape
    BY <1>2 DEF IInv
  <2>2. MarksKept
    BY <1>1, <2>1
       DEF MarksKept, TypeOK, TreeTypeOK, StatusShape, UnsatSound, ResultSound,
           Created, shape, marks
  <2>3. /\ LoopTypeOK' /\ LoopShape'
        /\ started' \in SUBSET Node /\ given' \in SUBSET Models
        /\ unsolveds' \in Seq(Node) /\ simplifieds' \in Seq(Node)
        /\ simplifyings' \in Seq(Node) /\ solvings' \in Seq(Node)
    <3>1. <<>> \in Seq(Node)
      OBVIOUS
    <3> QED
      BY <1>1, <2>1, <3>1
         DEF TypeOK, TreeTypeOK, LoopTypeOK, LoopShape, PC, shape, marks, queues, roundVars
  <2>4. \A i \in 1 .. Len(unsolveds') : unsolveds'[i] < numNodes
    BY <1>1, <2>1 DEF StatusShape, queues
  <2> QED
    BY <1>1, <1>2, <2>2, <2>3, <2>4, SameShape
<1>4. CInv' /\ ChildrenWait' /\ IsoRound'
  <2>1. CInv'
    BY <1>1, <1>2, ClosedFrame DEF IInv, shape, marks
  <2>2. ChildrenWait' /\ IsoRound'
    BY <1>1, <1>2
       DEF ChildrenWait, IsoRound, Children, treeVars, shape, marks, queues
  <2> QED
    BY <2>1, <2>2
<1>5. Scanned'
  <2>1. /\ Positions' = Positions /\ Created' = Created /\ Apart' /\ Whole'
    BY <1>1, <1>2, ListStays
  <2>2. ASSUME NEW i \in Positions
        PROVE  Ready(subnodes[i])'
    <3>1. Ready(subnodes[i])
      BY <1>2 DEF Scanned
    <3> QED
      BY <1>1, <2>1, <3>1 DEF Ready, Children, shape, marks
  <2>3. AllReached'
    BY <1>1, <1>2, <2>1 DEF Scanned, AllReached, Reached, Path, shape, marks
  <2> QED
    BY <2>1, <2>2, <2>3 DEF Scanned
<1>6. Short'
  BY <1>1, <1>2 DEF Short, sizes, marks
<1>7. OneByOne'
  <2>1. Len(kept) \in Nat
    BY <1>2, LenProperties DEF IInv, TypeOK
  <2>2. cores = 1 => Len(kept) + Len(<<>>) <= 1
    BY <1>1, <1>2 DEF OneByOne
  <2>3. cores = 1 => Len(kept) <= 1
    BY <2>1, <2>2
  <2> QED
    BY <1>1, <1>2, <2>3 DEF OneByOne, Positions, sizes, marks
<1>8. IsoTypes'
  BY <1>1 DEF IsoTypes, sizes
<1>9. SubnodesHaveFiles' /\ SmallPrePartitionCovers' /\ pc' # "recv"
  BY <1>1 DEF SubnodesHaveFiles, SmallPrePartitionCovers, HandingOut
<1> QED
  BY <1>3, <1>4, <1>5, <1>6, <1>7, <1>8, <1>9 DEF IsoInv, IsoLoop

LEMMA AssignIso ==
  ASSUME IsoInv, NEW f \in SUBSET Models, IsoAssign(f)
  PROVE  IsoInv'
<1>1. /\ Init /\ subnodes = <<>> /\ IsoTypes /\ Assign(f) /\ UNCHANGED sizes
      /\ subnodes' = <<Root>>
  BY DEF IsoInv, IsoAssign, Assign
<1>2. IInv /\ IInv'
  BY <1>1, InitInv, AssignInv
<1>3. /\ numNodes' = 1 /\ tasks' = {Root} /\ pc' = "simplifyings"
      /\ todo' = <<>> /\ kept' = <<>> /\ simplifyings' = <<>> /\ solvings' = <<>>
      /\ result' = "unsolved" /\ started' = {} /\ given' = {}
      /\ \A n \in Node : status'[n] = "unsolved" /\ left'[n] = 0 /\ anc'[n] = {}
  BY <1>1 DEF Assign, MakeRoot, StartPolling, lists, Init, NoTree
<1>4. Created' = {Root} /\ Root \in Node
  BY <1>3, NodeFacts DEF Created, Root
<1>5. CInv'
  BY <1>3, ClosedWithout
<1>6. ChildrenWait' /\ IsoRound'
  BY <1>3, <1>4 DEF ChildrenWait, IsoRound
<1>7. Positions' = {1} /\ subnodes'[1] = Root /\ Len(subnodes') = 1
  BY <1>1 DEF Positions
<1>8. Scanned'
  <2>1. Ready(Root)'
    BY <1>3, <1>4 DEF Ready
  <2>2. Apart' /\ Whole'
    BY <1>7 DEF Apart, Whole
  <2>3. AllReached'
    BY <1>3, <1>4, <1>7 DEF AllReached, Reached, Path
  <2> QED
    BY <1>7, <2>1, <2>2, <2>3 DEF Scanned
<1>9. Short'
  <2>1. dists' = dists /\ dists \in Nat /\ dists # 0
    BY <1>1 DEF IsoTypes, sizes
  <2> QED
    BY <1>1, <1>3, <1>4, <1>7, <2>1 DEF Short
<1>10. OneByOne'
  BY <1>3, <1>7 DEF OneByOne
<1>11. IsoTypes'
  <2>1. <<Root>> \in Seq(Node)
    BY <1>4
  <2> QED
    BY <1>1, <2>1 DEF IsoTypes, sizes
<1>12. SubnodesHaveFiles' /\ SmallPrePartitionCovers' /\ pc' # "recv"
  BY <1>3 DEF SubnodesHaveFiles, SmallPrePartitionCovers, HandingOut
<1> QED
  BY <1>2, <1>5, <1>6, <1>8, <1>9, <1>10, <1>11, <1>12 DEF IsoInv, IsoLoop

\* pre_partition_tasks gives a queued node its children, or drops it.
LEMMA TakeIso ==
  ASSUME IsoTypes, IsoLoop, NEW n \in Node, PrePartitionNext(n)
  PROVE  IsoInv'
<1>1. /\ pc = "partition" /\ TakeUnsolved(n) /\ Running < cores
      /\ UNCHANGED <<tasks, simps, result, simplifieds, solvings, started, given>>
      /\ UNCHANGED loopVars /\ UNCHANGED <<sizes, subnodes>>
  BY DEF PrePartitionNext, MayPrePartition, TakeUnsolved
<1>2. IInv /\ CInv /\ ChildrenWait /\ IsoRound /\ Scanned /\ Short /\ OneByOne
  BY DEF IsoLoop
<1>3. IInv' /\ CInv' /\ ChildrenWait'
  BY <1>1, <1>2, PartitionInv, TakeClosed, TakeWait
<1>4. IsoTypes' /\ Positions' = Positions /\ pc' = pc
  BY <1>1 DEF IsoTypes, sizes, Positions, loopVars
<1>5. SubnodesHaveFiles' /\ SmallPrePartitionCovers' /\ pc' # "recv"
  BY <1>1, <1>4 DEF SubnodesHaveFiles, SmallPrePartitionCovers, HandingOut
<1>6. \A i \in Positions : subnodes[i] \in Created /\ subnodes[i] \in Node
  BY <1>2, ListFacts DEF Scanned, Ready
<1>7. Created \subseteq Node /\ Root \in Node
  BY <1>2, CreatedIsNode, NodeFacts DEF IInv
<1>8. Root \in Created
  BY <1>1, <1>2, MaxNodesAssumption
     DEF IInv, LoopShape, TypeOK, TreeTypeOK, Created, Root
<1>9. CASE ~StillUnsolved(n)
  <2>1. UNCHANGED <<shape, status, assign_to, simplifyings>>
    BY <1>1, <1>9 DEF TakeUnsolved
  <2>2. IsoRound'
    BY <1>1, <1>2, <2>1 DEF IsoRound
  <2>3. Scanned'
    <3>1. /\ Created' = Created /\ Apart' /\ Whole'
      BY <1>1, <1>2, <2>1, ListStays
    <3>2. ASSUME NEW i \in Positions
          PROVE  Ready(subnodes[i])'
      <4>1. Ready(subnodes[i])
        BY <1>2 DEF Scanned
      <4> QED
        BY <1>1, <1>4, <2>1, <3>1, <4>1 DEF Ready, Children, shape
    <3>3. AllReached'
      BY <1>1, <1>2, <1>4, <2>1, <3>1 DEF Scanned, AllReached, Reached, Path, shape
    <3> QED
      BY <1>4, <3>1, <3>2, <3>3 DEF Scanned
  <2>4. Short' /\ OneByOne'
    BY <1>1, <1>2, <1>4, <2>1 DEF Short, OneByOne, sizes, loopVars
  <2> QED
    BY <1>3, <1>4, <1>5, <2>2, <2>3, <2>4 DEF IsoInv, IsoLoop
<1>10. CASE StillUnsolved(n)
  <2> DEFINE New == {numNodes, numNodes + 1}
  <2>1. /\ status[n] = "unsolved" /\ left[n] = 0 /\ n \in Created
        /\ status' = [status EXCEPT ![n] = "simplifying"]
        /\ Children(n)' = New
        /\ \A p \in Node \ {n} : Children(p)' = Children(p)
        /\ \A m \in New : m \in Node /\ m # n /\ m \notin Created
        /\ Created' = Created \union New
    BY <1>2, <1>1, <1>10, PartitionFacts
  <2>2. /\ \A m \in Created : /\ anc'[m] = anc[m] /\ mods'[m] = mods[m]
                              /\ m # n => left'[m] = left[m]
        /\ \A m \in New : anc'[m] = Path(n)
        /\ simplifyings' = Append(simplifyings, n)
    <3>1. SimplifyPartitionTask(n)
      BY <1>1, <1>10 DEF TakeUnsolved
    <3>2. /\ anc' = [anc EXCEPT ![numNodes] = Path(n), ![numNodes + 1] = Path(n)]
          /\ left' = [left EXCEPT ![n] = numNodes]
          /\ simplifyings' = Append(simplifyings, n)
      BY <3>1 DEF SimplifyPartitionTask
    <3>3. \A m \in Created : mods'[m] = mods[m]
      <4>1. PICK A \in SUBSET mods[n], B \in SUBSET mods[n] :
              mods' = [mods EXCEPT ![numNodes] = A, ![numNodes + 1] = B]
        BY <3>1 DEF SimplifyPartitionTask
      <4>2. \A m \in Created : m \in Node /\ m # numNodes /\ m # numNodes + 1
        BY <1>7, <2>1
      <4>3. mods \in [Node -> SUBSET Models]
        BY <1>2 DEF IInv, TypeOK, TreeTypeOK
      <4> QED
        BY <4>1, <4>2, <4>3
    <3>4. anc \in [Node -> SUBSET Node] /\ left \in [Node -> Node]
      BY <1>2 DEF IInv, TypeOK, TreeTypeOK
    <3>5. \A m \in Created : m \in Node /\ m # numNodes /\ m # numNodes + 1
      BY <1>7, <2>1
    <3>6. \A m \in Created : anc'[m] = anc[m] /\ (m # n => left'[m] = left[m])
      BY <3>2, <3>4, <3>5
    <3>7. numNodes # numNodes + 1
      BY <1>2 DEF IInv, TypeOK, TreeTypeOK
    <3>8. \A m \in New : anc'[m] = Path(n)
      BY <2>1, <3>2, <3>4, <3>7
    <3> QED
      BY <3>2, <3>3, <3>6, <3>8
  <2>3. /\ n \in Node /\ status \in [Node -> Status]
        /\ status'[n] = "simplifying"
        /\ \A m \in Node : m # n => status'[m] = status[m]
    BY <1>2, <2>1 DEF IInv, TypeOK, TreeTypeOK
  <2> HIDE DEF New
  <2>4. IsoRound'
    BY <1>1, <1>2, <1>7, <2>3 DEF IsoRound
  <2>5. ASSUME NEW i \in Positions
        PROVE  Ready(subnodes[i])'
    <3> DEFINE s == subnodes[i]
    <3>1. Ready(s) /\ s \in Created /\ s \in Node
      BY <1>2, <1>6 DEF Scanned
    <3>2. s' = s /\ s \in Created' /\ anc'[s] = anc[s] /\ tasks' = tasks
      BY <1>1, <2>1, <2>2, <3>1
    <3> HIDE DEF s
    <3>3. \A a \in anc[s] : a \in Node
      BY <1>2, <3>1, ChainFacts DEF IInv
    <3>4. \A a \in anc[s] : status'[a] \in {"simplified", "unsat"}
      BY <2>1, <2>3, <3>1, <3>3 DEF Ready
    <3>5. status'[s] # "unsat" => s \in tasks
      BY <2>1, <2>3, <3>1 DEF Ready
    <3>6. ASSUME status'[s] = "simplified"
          PROVE  /\ left'[s] # 0
                 /\ \A c \in Children(s)' :
                      /\ c \in tasks
                      /\ status'[c] = "unsolved" \/ status'[c] = "simplifying"
      <4>1. s # n /\ status[s] = "simplified"
        BY <2>3, <3>1, <3>6
      <4>2. left'[s] = left[s] /\ Children(s)' = Children(s)
        <5>1. left'[s] = left[s]
          BY <2>2, <3>1, <4>1
        <5> QED
          BY <3>2, <5>1 DEF Children
      <4>3. \A c \in Children(s) : c \in Node
        BY <1>2, <3>1, ChainFacts DEF IInv
      <4> QED
        BY <2>3, <3>1, <4>1, <4>2, <4>3 DEF Ready
    <3> QED
      BY <1>1, <1>4, <3>2, <3>4, <3>5, <3>6 DEF Ready, s
  <2>6. Apart' /\ Whole'
    <3>1. \A i \in Positions : Path(subnodes[i])' = Path(subnodes[i])
      BY <1>1, <1>6, <2>2 DEF Path
    <3>2. Apart'
      BY <1>1, <1>2, <1>4, <3>1 DEF Scanned, Apart
    <3>3. mods'[Root] = mods[Root] /\ \A i \in Positions : mods'[subnodes[i]] = mods[subnodes[i]]
      BY <1>6, <1>8, <2>2
    <3>4. Whole'
      BY <1>1, <1>2, <1>4, <3>3 DEF Scanned, Whole
    <3> QED
      BY <3>2, <3>4
  <2>7. \A i \in Positions : status[subnodes[i]] # "unsat" => status'[subnodes[i]] # "unsat"
    BY <1>6, <2>3
  <2>8. ASSUME NEW a \in Created', status'[a] # "unsat"
        PROVE  Reached(a)'
    <3>1. CASE a \in Created
      <4>1. status[a] # "unsat"
        BY <1>7, <2>1, <2>3, <2>8, <3>1
      <4>2. PICK i \in Positions :
              /\ status[subnodes[i]] # "unsat"
              /\ a \in Path(subnodes[i]) \/ subnodes[i] \in Path(a)
        BY <1>2, <3>1, <4>1 DEF Scanned, AllReached, Reached
      <4>3. Path(subnodes[i])' = Path(subnodes[i]) /\ Path(a)' = Path(a)
        BY <1>1, <1>6, <2>2, <3>1 DEF Path
      <4>4. a \in Path(subnodes[i])' \/ subnodes'[i] \in Path(a)'
        BY <1>1, <4>2, <4>3
      <4> QED
        BY <1>1, <1>4, <2>7, <4>2, <4>4 DEF Reached
    <3>2. CASE a \in New
      <4>1. PICK i \in Positions :
              /\ status[subnodes[i]] # "unsat"
              /\ n \in Path(subnodes[i]) \/ subnodes[i] \in Path(n)
        BY <1>2, <2>1 DEF Scanned, AllReached, Reached
      <4>2. n \notin anc[subnodes[i]]
        BY <1>2, <2>1 DEF Scanned, Ready
      <4>3. subnodes[i] \in Path(n)
        BY <4>1, <4>2 DEF Path
      <4>4. subnodes'[i] \in Path(a)'
        BY <1>1, <2>2, <3>2, <4>3 DEF Path
      <4> QED
        BY <1>1, <1>4, <2>7, <4>1, <4>4 DEF Reached
    <3> QED
      BY <2>1, <2>8, <3>1, <3>2
  <2>9. Short'
    <3>1. status[Root] \in {"unsolved", "simplifying"} =>
            status'[Root] \in {"unsolved", "simplifying"}
      BY <1>7, <2>3
    <3> QED
      BY <1>1, <1>2, <1>4, <3>1 DEF Short, sizes
  <2>10. OneByOne'
    <3> SUFFICES ASSUME cores = 1
                 PROVE  /\ Len(simplifyings') <= 1
                        /\ \A i, j \in Positions :
                             status'[subnodes[i]] = "simplified"
                             /\ status'[subnodes[j]] = "simplified" => i = j
      BY <1>1, <1>4 DEF OneByOne, sizes
    <3>1. simplifyings \in Seq(Node) /\ solvings \in Seq(Node)
      BY <1>2 DEF IInv, TypeOK, TreeTypeOK
    <3>2. /\ Len(simplifyings) \in Nat /\ Len(solvings) \in Nat
          /\ Len(simplifyings') = Len(simplifyings) + 1
      BY <2>2, <3>1, AppendProperties, LenProperties
    <3>3. Len(simplifyings') <= 1
      BY <1>1, <3>2 DEF Running
    <3>4. \A i \in Positions : status'[subnodes[i]] = "simplified" =>
                                 status[subnodes[i]] = "simplified"
      BY <1>6, <2>3
    <3> QED
      BY <1>2, <3>3, <3>4 DEF OneByOne
  <2>11. Scanned'
    BY <1>4, <2>5, <2>6, <2>8 DEF Scanned, AllReached
  <2> QED
    BY <1>3, <1>4, <1>5, <2>4, <2>9, <2>10, <2>11 DEF IsoInv, IsoLoop
<1> QED
  BY <1>9, <1>10

(***************************************************************************)
(* A poll that goes on to the next node: what is left to show is what it   *)
(* did to the nodes of the list.                                           *)
(***************************************************************************)
LEMMA PollGoesOn ==
  ASSUME IsoTypes, IsoLoop, pc = "simplifyings", todo # <<>>,
         pc' = pc, todo' = Tail(todo), kept' = kept \/ \E n : kept' = Append(kept, n),
         UNCHANGED <<shape, lists, sizes, subnodes>>,
         IInv', CInv', ChildrenWait', IsoRound',
         \A i \in Positions : Ready(subnodes[i])', AllReached',
         cores = 1 => \A i, j \in Positions :
           status'[subnodes[i]] = "simplified" /\ status'[subnodes[j]] = "simplified" => i = j
  PROVE  IsoInv'
<1>1. IInv /\ Scanned /\ Short /\ OneByOne
  BY DEF IsoLoop
<1>2. IsoTypes' /\ Positions' = Positions /\ Apart' /\ Whole'
  BY <1>1, ListStays DEF IsoTypes, sizes
<1>3. SubnodesHaveFiles' /\ SmallPrePartitionCovers' /\ pc' # "recv"
  BY DEF SubnodesHaveFiles, SmallPrePartitionCovers, HandingOut
<1>4. Scanned'
  BY <1>2 DEF Scanned
<1>5. Short'
  BY <1>1 DEF Short, sizes
<1>6. OneByOne'
  <2> SUFFICES ASSUME cores = 1
               PROVE  /\ Len(simplifyings) <= 1
                      /\ Len(kept') + Len(todo') <= 1
                      /\ todo' = <<>>
    BY <1>2 DEF OneByOne, lists, sizes
  <2>1. Len(kept) + Len(todo) <= 1 /\ Len(simplifyings) <= 1
    BY <1>1 DEF OneByOne
  <2>2. todo \in Seq(Node) /\ kept \in Seq(Node)
    BY <1>1 DEF IInv, TypeOK
  <2>3. /\ Len(todo) \in Nat /\ Len(kept) \in Nat /\ Len(todo) # 0
        /\ todo' \in Seq(Node) /\ Len(todo') = Len(todo) - 1
    BY <2>2, LenProperties, EmptySeq, HeadTailProperties
  <2>4. Len(kept) = 0 /\ Len(todo) = 1 /\ Len(todo') = 0
    BY <2>1, <2>3
  <2>5. todo' = <<>>
    BY <2>3, <2>4, ListEmpty
  <2>6. Len(kept') <= 1 /\ Len(kept') \in Nat
    <3>1. CASE kept' = kept
      BY <2>4, <3>1
    <3>2. CASE \E n : kept' = Append(kept, n)
      <4>1. PICK n : kept' = Append(kept, n)
        BY <3>2
      <4>2. kept = <<>>
        BY <2>2, <2>4, ListEmpty
      <4>3. kept' = <<n>>
        BY <4>1, <4>2
      <4>4. Len(<<n>>) = 1
        OBVIOUS
      <4> QED
        BY <4>3, <4>4
    <3> QED
      BY <3>1, <3>2
  <2> QED
    BY <2>1, <2>4, <2>5, <2>6
<1> QED
  BY <1>2, <1>3, <1>4, <1>5, <1>6 DEF IsoInv, IsoLoop

\* The search is over, or has failed.
LEMMA PollStops ==
  ASSUME IsoTypes, pc' \in {"done", "memout"}, UNCHANGED <<sizes, subnodes>>
  PROVE  IsoInv'
<1>1. IsoTypes'
  BY DEF IsoTypes, sizes
<1>2. SubnodesHaveFiles' /\ SmallPrePartitionCovers' /\ pc' # "recv" /\ ~Searching'
  BY DEF SubnodesHaveFiles, SmallPrePartitionCovers, HandingOut, Searching
<1> QED
  BY <1>1, <1>2 DEF IsoInv

\* Polls of a process that has not stopped, or of a node that has none.
LEMMA NothingIso ==
  ASSUME IsoTypes, IsoLoop, pc = "simplifyings", NEW n \in Node,
         SkipStale(n) \/ StillRunning(n), UNCHANGED <<sizes, subnodes>>
  PROVE  IsoInv'
<1>1. /\ UNCHANGED treeVars /\ pc' = pc /\ todo # <<>> /\ todo' = Tail(todo)
      /\ kept' = kept \/ kept' = Append(kept, n)
  BY DEF SkipStale, StillRunning, Keep, PollPartitioner, PollSolver, PollNext
<1>2. IInv /\ CInv /\ ChildrenWait /\ IsoRound /\ Scanned /\ OneByOne
  BY DEF IsoLoop
<1>3. IInv'
  <2>1. Next
    BY DEF Next, Step
  <2> QED
    BY <1>2, <2>1, NextInv
<1>4. CInv' /\ ChildrenWait' /\ IsoRound'
  BY <1>1, <1>2, TreeStays
<1>5. UNCHANGED <<shape, marks, lists>>
  BY <1>1 DEF treeVars
<1>6. Positions' = Positions /\ Created' = Created
  BY <1>2, <1>5, ListStays
<1>7. ASSUME NEW i \in Positions
      PROVE  Ready(subnodes[i])'
  <2>1. Ready(subnodes[i])
    BY <1>2 DEF Scanned
  <2> QED
    BY <1>1, <1>5, <1>6, <2>1 DEF Ready, Children, shape, marks
<1>8. AllReached'
  BY <1>2, <1>5, <1>6 DEF Scanned, AllReached, Reached, Path, shape, marks
<1>9. cores = 1 => \A i, j \in Positions :
        status'[subnodes[i]] = "simplified" /\ status'[subnodes[j]] = "simplified" => i = j
  BY <1>2, <1>5 DEF OneByOne, marks
<1> QED
  BY <1>1, <1>3, <1>4, <1>5, <1>7, <1>8, <1>9, PollGoesOn

\* The check of a polled node never removes what the scan needs.
LEMMA UnsatReady ==
  ASSUME IInv, IsoRound, NEW n \in Node, status[n] # "unsolved",
         NodeSolvedUnsat(n, {}), UNCHANGED shape, pc = "simplifyings", pc' = pc,
         NEW s \in Node, Ready(s)
  PROVE  Ready(s)'
<1>1. TypeOK /\ TreeShape /\ StatusShape
  BY DEF IInv
<1>2. /\ \A m \in Node : Children(m)' = Children(m) /\ anc'[m] = anc[m]
      /\ \A m \in Node : status'[m] = "unsat" <=>
                           status[m] = "unsat" \/ m \in NowUnsat(n)
  BY <1>1, MarksAfter
<1>3. /\ \A m \in Node : status'[m] = IF m \in NowUnsat(n) THEN "unsat" ELSE status[m]
      /\ tasks' = tasks \ NowUnsat(n)
      /\ left' = left /\ Created' = Created
  BY DEF NodeSolvedUnsat, shape, Created
<1>4. \A a \in anc[s] : a \in Node
  BY <1>1, ChainFacts
<1>5. \A a \in anc[s] : status'[a] \in {"simplified", "unsat"}
  BY <1>3, <1>4 DEF Ready
<1>6. status'[s] # "unsat" => s \in tasks'
  BY <1>3 DEF Ready
<1>7. ASSUME status'[s] = "simplified"
      PROVE  /\ left[s] # 0
             /\ \A c \in Children(s) : c \in tasks' /\ status'[c] = "unsolved"
  <2>1. s \notin NowUnsat(n) /\ status[s] = "simplified"
    BY <1>3, <1>7
  <2>2. ASSUME NEW c \in Children(s)
        PROVE  c \in tasks' /\ status'[c] = "unsolved"
    <3>1. c \in tasks /\ status[c] = "unsolved" /\ c \in Node
      BY <1>1, <2>1, ChainFacts DEF Ready
    <3>2. c \notin NowUnsat(n)
      BY <1>1, <2>1, <3>1, WaitingUnmarked
    <3> QED
      BY <1>3, <3>1, <3>2
  <2> QED
    BY <2>1, <2>2 DEF Ready
<1>8. Children(s)' = Children(s) /\ left'[s] = left[s] /\ anc'[s] = anc[s]
  BY <1>2, <1>3 DEF Children
<1> QED
  BY <1>3, <1>5, <1>6, <1>7, <1>8 DEF Ready

(***************************************************************************)
(* node_solved_unsat leaves each open node with an open subnode above or   *)
(* below it: a node all of whose subnodes below it are unsat is unsat, by  *)
(* unsat_push_up, and the subnode above an open node is open, by           *)
(* unsat_push_down.                                                        *)
(***************************************************************************)
LEMMA UnsatReached ==
  ASSUME IInv, IsoTypes, IsoRound, Scanned, NEW n \in Node,
         NodeSolvedUnsat(n, {}), UNCHANGED <<shape, subnodes>>,
         status'[Root] # "unsat", CInv'
  PROVE  AllReached'
<1>1. TypeOK /\ TreeShape
  BY DEF IInv
<1>2. /\ \A m \in Node : Children(m)' = Children(m) /\ anc'[m] = anc[m]
      /\ \A m \in Node : status'[m] = "unsat" <=>
                           status[m] = "unsat" \/ m \in NowUnsat(n)
  BY <1>1, MarksAfter
<1>3. /\ Positions' = Positions /\ Created' = Created
      /\ \A a \in Node : Path(a)' = Path(a) /\ Children(a)' = Children(a)
  BY ListStays
<1>4. Created \subseteq Node /\ \A i \in Positions : subnodes[i] \in Node
  BY <1>1, CreatedIsNode, ListFacts
<1> DEFINE Hit(a) == \E i \in Positions :
                       /\ status'[subnodes[i]] # "unsat"
                       /\ a \in Path(subnodes[i]) \/ subnodes[i] \in Path(a)
           T == {a \in Created : status'[a] # "unsat" /\ ~Hit(a)}
<1>5. ASSUME NEW a \in Created, Hit(a)
      PROVE  Reached(a)'
  <2>1. PICK i \in Positions :
          /\ status'[subnodes[i]] # "unsat"
          /\ a \in Path(subnodes[i]) \/ subnodes[i] \in Path(a)
    BY <1>5
  <2>2. Path(subnodes[i])' = Path(subnodes[i]) /\ Path(a)' = Path(a)
    BY <1>2, <1>4 DEF Path
  <2> QED
    BY <1>3, <2>1, <2>2 DEF Reached
<1>6. T = {}
  <2> SUFFICES ASSUME T # {} PROVE FALSE
    OBVIOUS
  <2>1. PICK a \in T : \A b \in T : b <= a
    <3>1. T \in SUBSET (0 .. MaxNodes - 1) /\ MaxNodes - 1 \in Nat
      BY <1>4, NodeFacts DEF Node
    <3> HIDE DEF T
    <3> QED
      BY <3>1, MaxOfBounded
  <2>2. a \in Created /\ a \in Node /\ status'[a] # "unsat" /\ ~Hit(a)
    BY <1>4, <2>1
  <2>3. status[a] # "unsat"
    BY <1>2, <2>2
  <2>4. PICK i \in Positions :
          /\ status[subnodes[i]] # "unsat"
          /\ a \in Path(subnodes[i]) \/ subnodes[i] \in Path(a)
    BY <2>2, <2>3 DEF Scanned, AllReached, Reached
  <2> DEFINE s == subnodes[i]
  <2>5. s \in Node /\ status'[s] = "unsat" /\ s # a
    BY <1>4, <2>2, <2>4
  <2>6. UnsatDown' /\ UnsatUp'
    BY DEF CInv
  <2>7. s \notin anc[a]
    BY <1>2, <2>2, <2>5, <2>6 DEF UnsatDown
  <2>8. a \in anc[s]
    BY <2>4, <2>5, <2>7 DEF Path
  <2>9. Children(a) # {}
    BY <1>1, <2>5, <2>8 DEF TreeShape, Children
  <2>10. PICK c \in Children(a) : status'[c] # "unsat"
    BY <1>3, <2>2, <2>6, <2>9 DEF UnsatUp
  <2>11. c \in Node /\ c \in Created /\ a < c /\ anc[c] = Path(a)
    BY <1>1, <2>2, ChainFacts, CreatedIsNode
  <2>12. c \notin T
    <3>1. ~(c <= a)
      <4>1. a \in Nat /\ c \in Nat /\ a < c
        BY <2>2, <2>11, NodeFacts
      <4> QED
        BY <4>1
    <3> QED
      BY <2>1, <3>1
  <2>13. Hit(c)
    BY <2>10, <2>11, <2>12
  <2>14. PICK j \in Positions :
           /\ status'[subnodes[j]] # "unsat"
           /\ c \in Path(subnodes[j]) \/ subnodes[j] \in Path(c)
    BY <2>13
  <2>15. a \in Path(subnodes[j]) \/ subnodes[j] \in Path(a)
    <3>1. \A m \in Node : \A b \in anc[m] : anc[b] \subseteq anc[m]
      BY <1>1, ChainFacts
    <3>2. a \in anc[c]
      BY <2>11 DEF Path
    <3>3. CASE c \in Path(subnodes[j])
      BY <1>4, <3>1, <3>2, <3>3 DEF Path
    <3>4. CASE subnodes[j] \in Path(c)
      BY <2>11, <3>2, <3>4 DEF Path
    <3> QED
      BY <2>14, <3>3, <3>4
  <2> QED
    BY <2>2, <2>14, <2>15
<1>7. \A a \in Created : status'[a] # "unsat" => Hit(a)
  BY <1>6
<1> HIDE DEF Hit
<1> QED
  BY <1>3, <1>5, <1>7 DEF AllReached

\* A partitioner has stopped.
LEMMA ExitIso ==
  ASSUME IsoTypes, IsoLoop, pc = "simplifyings", NEW n \in Node,
         PartitionerExits(n), UNCHANGED <<sizes, subnodes>>
  PROVE  IsoInv'
<1>1. /\ PollPartitioner(n) /\ Dropped /\ UNCHANGED <<shape, lists, given, started>>
      /\ todo # <<>> /\ status[n] = "simplifying"
  BY DEF PartitionerExits, PartitionerAnswers, PartitionerSucceeds, PartitionerFails,
         PollPartitioner, PollNext
<1>2. IInv /\ CInv /\ ChildrenWait /\ IsoRound /\ Scanned /\ OneByOne
  BY DEF IsoLoop
<1>3. IInv' /\ CInv' /\ ChildrenWait'
  <2>1. Next
    BY DEF Next, Step
  <2>2. StartedShape
    BY <1>2 DEF StartedShape, IsoRound
  <2> QED
    BY <1>2, <2>1, <2>2, NextInv, NextClosed, NextWait
<1>4. CASE result' # "unsolved"
  <2>1. pc' = "done"
    BY <1>1, <1>4 DEF Dropped
  <2> QED
    BY <2>1, PollStops
<1>5. CASE result' = "unsolved"
  <2>1. pc' = pc /\ todo' = Tail(todo) /\ kept' = kept
    BY <1>1, <1>5 DEF Dropped
  <2>2. /\ Positions' = Positions /\ Created' = Created
        /\ \A i \in Positions : subnodes[i] \in Node /\ Ready(subnodes[i])
        /\ Created \subseteq Node /\ Root \in Node
        /\ \A a \in Node : Path(a)' = Path(a) /\ Children(a)' = Children(a)
    BY <1>1, <1>2, ListStays, ListFacts, CreatedIsNode, NodeFacts DEF Scanned, IInv
  <2>3. SUFFICES /\ IsoRound' /\ AllReached'
                 /\ \A i \in Positions : Ready(subnodes[i])'
                 /\ cores = 1 => \A i, j \in Positions :
                      status'[subnodes[i]] = "simplified"
                      /\ status'[subnodes[j]] = "simplified" => i = j
    BY <1>1, <1>3, <2>1, PollGoesOn
  <2>4. \/ NodeSolvedSat(n) /\ UNCHANGED queues
        \/ NodeSolvedUnsat(n, {}) /\ UNCHANGED queues
        \/ PartitionerSucceeds(n)
        \/ \E fault \in PartitionerFaults \ {"memout"} :
             /\ PartitionerFails(n, fault)
             /\ UNCHANGED <<status, queues, result>>
    BY <1>1, ExitKinds
  <2>5. CASE NodeSolvedSat(n)
    BY <1>5, <2>5 DEF NodeSolvedSat
  <2>6. CASE NodeSolvedUnsat(n, {})
    <3>1. /\ \A m \in Node : status'[m] = IF m \in NowUnsat(n) THEN "unsat" ELSE status[m]
          /\ Root \notin NowUnsat(n)
      BY <1>5, <2>6 DEF NodeSolvedUnsat
    <3>2. IsoRound'
      BY <1>1, <1>2, <1>5, <2>2, <3>1 DEF IsoRound, lists
    <3>3. AllReached'
      BY <1>1, <1>2, <1>3, <2>6, <3>2, UnsatReached DEF IsoRound
    <3>4. ASSUME NEW i \in Positions
          PROVE  Ready(subnodes[i])'
      <4>1. PICK s \in Node : s = subnodes[i] /\ Ready(s)
        BY <2>2
      <4>2. Ready(s)'
        BY <1>1, <1>2, <2>1, <2>6, <4>1, UnsatReady
      <4>3. subnodes'[i] = s
        BY <4>1
      <4> QED
        BY <4>2, <4>3 DEF Ready, Children
    <3>5. \A i \in Positions : status'[subnodes[i]] = "simplified" =>
                                 status[subnodes[i]] = "simplified"
      BY <2>2, <3>1
    <3> QED
      BY <1>2, <3>2, <3>3, <3>4, <3>5 DEF OneByOne
  <2>7. CASE PartitionerSucceeds(n)
    <3>1. /\ status' = [status EXCEPT ![n] = "simplified"]
          /\ tasks' = tasks \union Children(n)
      BY <2>7 DEF PartitionerSucceeds, NodeSimplified
    <3>2. /\ \A m \in Node : m # n => status'[m] = status[m]
          /\ status'[n] = "simplified"
      BY <1>2, <3>1 DEF IInv, TypeOK, TreeTypeOK
    <3>3. IsoRound'
      BY <1>1, <1>2, <1>5, <2>2, <3>2 DEF IsoRound, lists
    <3>4. \A m \in Node : status'[m] = "unsat" <=> status[m] = "unsat"
      BY <1>1, <3>2
    <3>5. AllReached'
      <4> SUFFICES ASSUME NEW a \in Created, status[a] # "unsat" PROVE Reached(a)'
        BY <2>2, <3>4 DEF AllReached
      <4>1. PICK i \in Positions :
              /\ status[subnodes[i]] # "unsat"
              /\ a \in Path(subnodes[i]) \/ subnodes[i] \in Path(a)
        BY <1>2 DEF Scanned, AllReached, Reached
      <4>2. status'[subnodes[i]] # "unsat"
        BY <2>2, <3>4, <4>1
      <4> QED
        BY <1>1, <2>2, <4>1, <4>2 DEF Reached, Path, shape
    <3>6. ASSUME NEW i \in Positions
          PROVE  Ready(subnodes[i])'
      <4>1. PICK s \in Node : s = subnodes[i] /\ Ready(s)
        BY <2>2
      <4>2. \A a \in anc[s] : a \in Node
        BY <1>2, ChainFacts DEF IInv
      <4>3. \A a \in anc[s] : status'[a] \in {"simplified", "unsat"}
        BY <3>2, <4>1, <4>2 DEF Ready
      <4>4. status'[s] # "unsat" => s \in tasks'
        BY <3>1, <3>4, <4>1 DEF Ready
      <4>5. ASSUME status'[s] = "simplified"
            PROVE  /\ left[s] # 0
                   /\ \A c \in Children(s) : c \in tasks' /\ status'[c] = "unsolved"
        <5>1. \A c \in Children(s) : c \in Node
          BY <1>2, ChainFacts DEF IInv
        <5>2. CASE s = n
          <6>1. left[s] # 0
            BY <1>1, <1>2, <5>2 DEF IInv, StatusShape
          <6>2. \A c \in Children(n) : status[c] = "unsolved"
            BY <1>1, <1>2 DEF ChildrenWait
          <6>3. \A c \in Children(n) : c # n
            BY <1>1, <6>2
          <6> QED
            BY <3>1, <3>2, <5>1, <5>2, <6>1, <6>2, <6>3
        <5>3. CASE s # n
          <6>1. status[s] = "simplified"
            BY <3>2, <4>5, <5>3
          <6>2. left[s] # 0 /\ \A c \in Children(s) : c \in tasks /\ status[c] = "unsolved"
            BY <2>1, <4>1, <6>1 DEF Ready
          <6>3. \A c \in Children(s) : c # n
            BY <1>1, <6>2
          <6> QED
            BY <3>1, <3>2, <5>1, <6>2, <6>3
        <5> QED
          BY <5>2, <5>3
      <4>6. subnodes'[i] = s /\ anc' = anc /\ left' = left
        BY <1>1, <4>1 DEF shape
      <4>7. Children(s)' = Children(s)
        BY <4>6 DEF Children
      <4>8. s \in Created'
        BY <2>2, <4>1 DEF Ready
      <4>9. Ready(s)'
        BY <4>3, <4>4, <4>5, <4>6, <4>7, <4>8 DEF Ready
      <4> QED
        BY <4>6, <4>9 DEF Ready, Children
    <3>7. ASSUME cores = 1, NEW i \in Positions, NEW j \in Positions,
                 status'[subnodes[i]] = "simplified", status'[subnodes[j]] = "simplified"
          PROVE  i = j
      <4>1. \A k \in Positions : status[subnodes[k]] # "simplified"
        BY <1>1, <1>2, <3>7 DEF OneByOne
      <4>2. subnodes[i] = n /\ subnodes[j] = n
        BY <2>2, <3>2, <3>7, <4>1
      <4>3. subnodes[i] \in Path(subnodes[j])
        BY <4>2 DEF Path
      <4> QED
        BY <1>2, <4>3 DEF Scanned, Apart
    <3> QED
      BY <3>3, <3>5, <3>6, <3>7
  <2>8. CASE \E fault \in PartitionerFaults \ {"memout"} :
               /\ PartitionerFails(n, fault)
               /\ UNCHANGED <<status, queues, result>>
    <3>1. status' = status /\ tasks' = tasks /\ result' = result
      BY <2>8 DEF PartitionerFails
    <3>2. IsoRound'
      BY <1>1, <1>2, <3>1 DEF IsoRound, lists
    <3>3. AllReached'
      BY <1>1, <1>2, <2>2, <3>1 DEF Scanned, AllReached, Reached, Path, shape
    <3>4. ASSUME NEW i \in Positions
          PROVE  Ready(subnodes[i])'
      BY <1>1, <2>1, <2>2, <3>1 DEF Ready, Children, shape
    <3> QED
      BY <1>2, <3>1, <3>2, <3>3, <3>4 DEF OneByOne
  <2> QED
    BY <2>4, <2>5, <2>6, <2>7, <2>8
<1> QED
  BY <1>4, <1>5

LEMMA StutterIso ==
  ASSUME IsoInv, UNCHANGED isoVars
  PROVE  IsoInv'
<1>1. /\ UNCHANGED treeVars /\ UNCHANGED loopVars /\ UNCHANGED <<dists, cores, subnodes>>
      /\ UNCHANGED vars /\ pc' = pc
  BY DEF isoVars, vars, loopVars, sizes
<1>2. UNCHANGED <<shape, marks, queues, lists, started, given>>
  BY <1>1 DEF treeVars
<1>3. IsoTypes' /\ (pc' = "recv" => Init' /\ subnodes' = <<>>)
  <2>1. Init => Init'
    BY <1>1, <1>2 DEF Init, NoTree, loopVars, roundVars, shape, marks, queues, lists
  <2> QED
    BY <1>1, <2>1 DEF IsoInv, IsoTypes
<1>4. SubnodesHaveFiles' /\ SmallPrePartitionCovers'
  BY <1>1, <1>2
     DEF IsoInv, SubnodesHaveFiles, SmallPrePartitionCovers, PrePartitionCovers,
         HandingOut, shape, marks
<1>5. ASSUME Searching
      PROVE  IsoLoop'
  <2>1. IInv /\ CInv /\ ChildrenWait /\ IsoRound /\ Scanned /\ Short /\ OneByOne /\ IsoTypes
    BY <1>5 DEF IsoInv, IsoLoop
  <2>2. IInv' /\ CInv' /\ ChildrenWait' /\ IsoRound'
    BY <1>1, <2>1, NextInv, TreeStays
  <2>3. Positions' = Positions /\ Created' = Created /\ Apart' /\ Whole'
    BY <1>1, <1>2, <2>1, ListStays
  <2>4. ASSUME NEW i \in Positions
        PROVE  Ready(subnodes[i])'
    <3>1. Ready(subnodes[i])
      BY <2>1 DEF Scanned
    <3> QED
      BY <1>1, <1>2, <2>3, <3>1 DEF Ready, Children, shape, marks
  <2>5. AllReached'
    BY <1>1, <1>2, <2>1, <2>3 DEF Scanned, AllReached, Reached, Path, shape, marks
  <2>6. Short' /\ OneByOne'
    BY <1>1, <1>2, <2>1, <2>3 DEF Short, OneByOne, loopVars, marks, lists
  <2> QED
    BY <2>2, <2>3, <2>4, <2>5, <2>6 DEF IsoLoop, Scanned
<1>6. Searching' <=> Searching
  BY <1>1 DEF Searching
<1> QED
  BY <1>3, <1>4, <1>5, <1>6 DEF IsoInv

LEMMA IsoInitInv == IsoInit => IsoInv
<1> SUFFICES ASSUME IsoInit PROVE IsoInv
  OBVIOUS
<1>1. IsoTypes
  <2>1. <<>> \in Seq(Node)
    OBVIOUS
  <2>2. dists \in Nat \ {0} /\ cores \in Nat
    BY DistsAssumption, CoresAssumption DEF IsoInit
  <2> QED
    BY <2>1, <2>2 DEF IsoInit, IsoTypes
<1>2. Init /\ subnodes = <<>> /\ pc = "recv"
  BY DEF IsoInit, Init
<1> QED
  BY <1>1, <1>2
     DEF IsoInv, Searching, SubnodesHaveFiles, SmallPrePartitionCovers, HandingOut

LEMMA IsoNextInv == IsoInv /\ [IsoNext]_isoVars => IsoInv'
<1> SUFFICES ASSUME IsoInv, [IsoNext]_isoVars PROVE IsoInv'
  OBVIOUS
<1>1. IsoTypes /\ (Searching => IsoLoop)
  BY DEF IsoInv
<1>2. CASE \E f \in SUBSET Models : IsoAssign(f)
  BY <1>2, AssignIso
<1>3. CASE \E answer \in {"sat", "unsat"} : OriginalAnswers(answer)
  BY <1>1, <1>3, PollStops DEF OriginalAnswers
<1>4. CASE IsoPoll
  <2>1. pc = "simplifyings" /\ IsoLoop /\ UNCHANGED <<sizes, subnodes>>
    BY <1>1, <1>4 DEF IsoPoll, Searching
  <2>2. PICK n \in Node :
          SkipStale(n) \/ StillRunning(n) \/ PartitionerExits(n) \/ MemoryOut(n)
    BY <1>4 DEF IsoPoll
  <2>3. CASE SkipStale(n) \/ StillRunning(n)
    BY <1>1, <2>1, <2>3, NothingIso
  <2>4. CASE PartitionerExits(n)
    BY <1>1, <2>1, <2>4, ExitIso
  <2>5. CASE MemoryOut(n)
    BY <1>1, <2>1, <2>5, PollStops DEF MemoryOut
  <2> QED
    BY <2>2, <2>3, <2>4, <2>5
<1>5. CASE IsoEndPoll
  BY <1>1, <1>5, EndPollIso DEF IsoEndPoll, Searching
<1>6. CASE \E n \in Node : PrePartitionNext(n)
  BY <1>1, <1>6, TakeIso DEF PrePartitionNext, TakeUnsolved, Searching
<1>7. CASE Rescan
  BY <1>1, <1>7, RescanInv DEF Rescan, Searching
<1>8. CASE UNCHANGED isoVars
  BY <1>8, StutterIso
<1> QED
  BY <1>2, <1>3, <1>4, <1>5, <1>6, <1>7, <1>8 DEF IsoNext

LEMMA IsoInductive == IsoSpec => []IsoInv
BY IsoInitInv, IsoNextInv, PTL DEF IsoSpec

(***************************************************************************)
(* pre_partition always has something to hand out, and copy_split_node_file*)
(* finds the task file of each subnode, for every number of coordinators   *)
(* and cores, and whatever the partitioners answer: the loop looks at the  *)
(* children of a subnode before they get partitioners of their own.        *)
(***************************************************************************)
THEOREM TasksHaveFiles == IsoSpec => []SubnodesHaveFiles
BY IsoInductive, PTL DEF IsoInv

(***************************************************************************)
(* With at most two distributed coordinators, or with one core for the     *)
(* isolated one, the break in the for loop of pre_partition cuts nothing   *)
(* off the list: each task has its coordinator, and the tasks cover the    *)
(* formula.                                                                *)
(***************************************************************************)
THEOREM SmallRoundsCover == IsoSpec => []SmallPrePartitionCovers
BY IsoInductive, PTL DEF IsoInv
=============================================================================
