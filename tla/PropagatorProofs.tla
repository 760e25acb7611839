------------------------- MODULE PropagatorProofs -------------------------
(***************************************************************************)
(* That a rollback of the domain propagator is complete, for every formula *)
(* without an arithmetic shift: RollbackComplete.  The invariant relates   *)
(* the domains to the history: a node that is not marked as changed, and   *)
(* for which nothing is pending, has what the last level knows of it.      *)
(* What the rules do to domains is in RuleProofs.                          *)
(***************************************************************************)
EXTENDS PartitionTasks, RuleProofs, WellFoundedInduction

-----------------------------------------------------------------------------
(* What holds of the domains.                                              *)

\* Domains as the propagator has them for node i.
Fits(i, d) ==
  IsDomain(d) /\ InStep(Node(i).width, d) /\ d.pending \in {Unchanged, Changed, Updated}

\* Domains of all nodes.
Doms(f) == DOMAIN f = Ids /\ \A i \in Ids : Fits(i, f[i])

\* A level of a history: domains of some nodes.
IsLevel(l) == DOMAIN l \subseteq Ids /\ \A i \in DOMAIN l : Fits(i, l[i])

\* A history.
IsHistory(h) == h \in Seq(Range(h)) /\ \A k \in DOMAIN h : IsLevel(h[k])

\* What is known of a node at the last level of a history.
Base(h, i) ==
  IF Has(h, MaxLevel(h), i) THEN GetPtr(h, MaxLevel(h), i) ELSE Fresh(Node(i).width)

\* Domains with the same bits and the same interval.
Agree(d, e) == d.bits = e.bits /\ d.iv = e.iv

\* Where domains of nodes are remembered.
Reference ==
  IF stage \in {"full", "marking"} THEN <<>>
  ELSE IF stage = "adding" THEN prefix ELSE history

\* Of h or since then: domains f, of which those in some have changed and those
\* in line may be about to be found so.
Remembered(h, f, line, some) ==
  \A i \in Ids \ some :
    i \notin line \/ f[i].pending = Unchanged => Agree(f[i], Base(h, i))

\* Of the domains in run: they fit, and those that are not in changed are remembered.
DomainsRight ==
  /\ Doms(dom)
  /\ queue \subseteq Ids
  /\ changed \subseteq Ids
  /\ Remembered(Reference, dom, queue, changed)

\* The stages that need a first level in the history.
Trials == {"trying", "adding", "removing"}

\* What a stage of run has, and what one of its steps needs.
Steps ==
  /\ stage \in {"full", "marking"} => step = "next"
  /\ stage = "marking" => IsLevel(saved) /\ todo \in Seq(DOMAIN saved)
  /\ stage = "trying" => Len(history) = 1 /\ step \in {"next", "count"}
  /\ stage = "adding" =>
       /\ Len(history) = 1 /\ step \in {"next", "level"}
       /\ Len(prefix) = Len(kept) + 1 /\ prefix[1] = history[1]
  /\ stage \in {"adding", "removing"} => IsHistory(prefix)
  /\ stage \in Trials =>
       /\ IsHistory(history) /\ Len(history) >= 1
       /\ todo \in Seq(Ids)
       /\ step # "next" => todo # <<>>
       /\ step \in {"next", "keep"} => queue = {} /\ changed = {}

\* The nodes that are collected.
NodesRight ==
  /\ DOMAIN gain \subseteq Ids
  /\ frontier \in Seq(Ids)
  /\ kept \in Seq(Ids)
  /\ stage \in {"start", "full", "marking", "trying"} => kept = <<>>

\* The inductive invariant: once a conflict is found nothing more is said.
IInv ==
  /\ formula \in Formulas
  /\ stage = "start" => NodesRight /\ step = "next"
  /\ Running /\ ~conflict => NodesRight /\ Steps /\ DomainsRight

\* No formula has an arithmetic shift to the right: its rule replaces domains by copies, of which
\* nothing is pending, so that what it finds is not marked as changed.
NoShift == \A f \in Formulas : \A i \in DOMAIN f.nodes : f.nodes[i].kind # "ashr"

-----------------------------------------------------------------------------
(* Formulas.                                                               *)

\* The nodes of a formula are numbered from 0.
LEMMA IdsRight ==
  ASSUME formula \in Formulas
  PROVE  /\ IsFiniteSet(Ids) /\ Cardinality(Ids) \in Nat /\ Ids = 0 .. Cardinality(Ids) - 1
         /\ OwnIds \cap Ids = {}
         /\ formula.roots \in Seq(Ids)
<1>1. IsFiniteSet(Ids) /\ Ids = 0 .. Cardinality(Ids) - 1 /\ formula.roots \in Seq(Ids)
  BY FormulaAssumption DEF IsFormula, Ids
<1>2. Cardinality(Ids) \in Nat
  BY <1>1, FS_CardinalityType
<1>3. \A i \in Ids : i >= 0
  BY <1>1, <1>2
<1>4. OwnIds \cap Ids = {}
  BY <1>3 DEF OwnIds, OwnNode, TurnedOp, TurnedOut
<1> QED
  BY <1>1, <1>2, <1>4

\* A node has a width, and children among the others.
LEMMA NodeRight ==
  ASSUME formula \in Formulas, NEW i \in Ids
  PROVE  /\ Node(i).width \in Nat \ {0}
         /\ Node(i).kids \in Seq(Ids) /\ Kids(i) \subseteq Ids
         /\ i \notin Symbols \union Constants => IsInner(Node(i), {i} \union Kids(i))
<1> DEFINE n == Node(i)
<1>1. /\ n.width \in Nat \ {0} /\ n.kids \in Seq(Ids)
      /\ n.kind \in {"symbol", "value"} \/ (n.kind \in Kinds /\ Len(n.kids) = Arity(n.kind))
  BY FormulaAssumption DEF IsFormula, Ids, Node
<1>2. Kids(i) = Range(n.kids)
  BY DEF Kids
<1>3. i \notin Symbols \union Constants => n.kind \notin {"symbol", "value"}
  BY DEF Symbols, Constants
<1> HIDE DEF n
<1>4. Kids(i) \subseteq Ids /\ n.kids \in Seq({i} \union Kids(i))
  <2>1. \A k \in 1 .. Len(n.kids) : n.kids[k] \in Kids(i) /\ n.kids[k] \in Ids
    BY <1>1, <1>2 DEF Range
  <2>2. n.kids \in Seq({i} \union Kids(i))
    <3>1. n.kids = [k \in 1 .. Len(n.kids) |-> n.kids[k]] /\ Len(n.kids) \in Nat
      BY <1>1
    <3> QED
      BY <2>1, <3>1
  <2>3. Kids(i) \subseteq Ids
    BY <1>1, <1>2 DEF Range
  <2> QED
    BY <2>2, <2>3
<1>5. i \notin Symbols \union Constants => IsInner(n, {i} \union Kids(i))
  BY <1>1, <1>3, <1>4 DEF IsInner
<1> QED
  BY <1>1, <1>4, <1>5 DEF n

\* Passes over the nodes, downwards and upwards.
LEMMA PassesRight ==
  ASSUME formula \in Formulas
  PROVE  /\ FromTop \in Seq(Ids) /\ FromBottom \in Seq(Ids)
         /\ \A k, l \in 1 .. Len(FromBottom) : k # l => FromBottom[k] # FromBottom[l]
<1> DEFINE n == Cardinality(Ids)
<1>1. n \in Nat /\ Ids = 0 .. n - 1
  BY IdsRight
<1>2. FromTop = [k \in 1 .. n |-> k - 1] /\ FromBottom = [k \in 1 .. n |-> n - k]
  BY DEF FromTop, FromBottom, Upward, Downward
<1> HIDE DEF n
<1>3. \A k \in 1 .. n : k - 1 \in Ids /\ n - k \in Ids
  BY <1>1
<1>4. FromTop \in Seq(Ids) /\ FromBottom \in Seq(Ids) /\ Len(FromBottom) = n
  BY <1>1, <1>2, <1>3
<1> QED
  BY <1>1, <1>2, <1>4

-----------------------------------------------------------------------------
(* Domains.                                                                *)

\* Nothing is known of a node at first.
LEMMA FreshFits ==
  ASSUME formula \in Formulas, NEW i \in Ids
  PROVE  Fits(i, Fresh(Node(i).width)) /\ Fresh(Node(i).width).pending = Unchanged
BY NodeRight, FreshRight DEF Fits

\* A copy of a domain has its bits and its interval, and nothing is pending.
LEMMA CopyFits ==
  ASSUME NEW i, NEW d, Fits(i, d)
  PROVE  Fits(i, CopyFrom(d)) /\ Agree(CopyFrom(d), d) /\ CopyFrom(d).pending = Unchanged
BY CopyFromRight DEF Fits, Agree

\* What became of a domain fits too, and if nothing is pending it is the same.
LEMMA FollowsFits ==
  ASSUME NEW i, NEW d, Fits(i, d), NEW e, Follows(d, e)
  PROVE  /\ Fits(i, e)
         /\ e.pending = Unchanged => Agree(e, d) /\ d.pending = Unchanged
<1>1. Reported(Node(i).width, d, e)
  BY DEF Follows
<1> QED
  BY <1>1 DEF Fits, Reported, Keeps, Same, Agree, Unchanged, Changed, Updated

\* Domains of all nodes are a state of the rules.
LEMMA DomsRight ==
  ASSUME NEW f, Doms(f)
  PROVE  AreDomains(f) /\ IsState(Going(f)) /\ Going(f).dom = f /\ Going(f).res = Unchanged
<1>1. AreDomains(f)
  BY DEF Doms, Fits, InStep, AreDomains
<1> QED
  BY <1>1, GoingRight

\* Domains that moved still fit; one for which nothing is pending is what it was.
LEMMA MovesDoms ==
  ASSUME NEW f, Doms(f), NEW g, NEW ids, Moves(f, g, ids)
  PROVE  /\ Doms(g)
         /\ \A i \in Ids : g[i].pending = Unchanged => Agree(g[i], f[i]) /\ f[i].pending = Unchanged
BY FollowsFits DEF Doms, Moves

\* The width of a domain is that of its node.
LEMMA FitsWidth ==
  ASSUME NEW i, NEW d, Fits(i, d)
  PROVE  Width(d) = Node(i).width
BY WidthRight DEF Fits, InStep

-----------------------------------------------------------------------------
(* Levels.                                                                 *)

\* A sequence is one of its own elements.
LEMMA OwnRange ==
  ASSUME NEW S, NEW h \in Seq(S)
  PROVE  h \in Seq(Range(h)) /\ DOMAIN h = 1 .. Len(h) /\ Len(h) \in Nat
<1>1. h = [k \in 1 .. Len(h) |-> h[k]] /\ Len(h) \in Nat /\ DOMAIN h = 1 .. Len(h)
  OBVIOUS
<1>2. \A k \in 1 .. Len(h) : h[k] \in Range(h)
  BY <1>1 DEF Range
<1> QED
  BY <1>1, <1>2

\* A new level.
LEMMA AddLevelRight ==
  ASSUME NEW h, IsHistory(h), NEW l, IsLevel(l)
  PROVE  /\ IsHistory(AddLevel(h, l)) /\ Len(AddLevel(h, l)) = Len(h) + 1
         /\ DOMAIN h = 1 .. Len(h) /\ Len(h) \in Nat
         /\ \A k \in 1 .. Len(h) : AddLevel(h, l)[k] = h[k]
         /\ AddLevel(h, l)[Len(h) + 1] = l
<1> DEFINE S == Range(h) \union {l}
           g == AddLevel(h, l)
<1>1. h \in Seq(Range(h))
  BY DEF IsHistory
<1>2. h \in Seq(S) /\ l \in S
  <2>1. /\ Len(h) \in Nat /\ h = [k \in 1 .. Len(h) |-> h[k]]
        /\ \A k \in 1 .. Len(h) : h[k] \in Range(h)
    BY <1>1
  <2> QED
    BY <2>1
<1> HIDE DEF S
<1>3. g \in Seq(S) /\ Len(g) = Len(h) + 1 /\ DOMAIN h = 1 .. Len(h) /\ Len(h) \in Nat
      /\ (\A k \in 1 .. Len(h) : g[k] = h[k]) /\ g[Len(h) + 1] = l
  BY <1>2 DEF AddLevel
<1> HIDE DEF g
<1>4. g \in Seq(Range(g)) /\ DOMAIN g = 1 .. Len(g)
  BY <1>3, OwnRange
<1>5. ASSUME NEW k \in DOMAIN g PROVE IsLevel(g[k])
  <2>1. k \in 1 .. Len(h) \/ k = Len(h) + 1
    BY <1>3, <1>4
  <2>2. CASE k \in 1 .. Len(h)
    BY <1>3, <2>2 DEF IsHistory
  <2>3. CASE k = Len(h) + 1
    BY <1>3, <2>3
  <2> QED
    BY <2>1, <2>2, <2>3
<1> QED
  BY <1>3, <1>4, <1>5 DEF IsHistory, g

\* The first level.
LEMMA NewHistoryRight ==
  ASSUME NEW l, IsLevel(l)
  PROVE  IsHistory(NewHistory(l)) /\ Len(NewHistory(l)) = 1 /\ NewHistory(l)[1] = l
<1>1. NewHistory(l) \in Seq({l}) /\ Len(NewHistory(l)) = 1 /\ NewHistory(l)[1] = l
  BY DEF NewHistory
<1> QED
  BY <1>1, OwnRange DEF IsHistory

\* At no level, nothing is known.
LEMMA BaseNone ==
  ASSUME NEW i
  PROVE  Base(<<>>, i) = Fresh(Node(i).width) /\ ~Has(<<>>, 0, i)
<1>1. \A level : StoredAt(<<>>, level, i) = {}
  BY DEF StoredAt
<1> QED
  BY <1>1 DEF Base, Has

\* With one level it is the base of the nodes it has.
LEMMA BaseFirst ==
  ASSUME NEW h, IsHistory(h), Len(h) = 1, NEW i
  PROVE  Base(h, i) = IF i \in DOMAIN h[1] THEN h[1][i] ELSE Fresh(Node(i).width)
<1>1. MaxLevel(h) = 0
  BY DEF MaxLevel
<1>2. StoredAt(h, 0, i) = IF i \in DOMAIN h[1] THEN {1} ELSE {}
  BY DEF StoredAt
<1>3. CASE i \in DOMAIN h[1]
  <2>1. StoredAt(h, 0, i) = {1}
    BY <1>2, <1>3
  <2>2. (CHOOSE k \in {1} : \A j \in {1} : j <= k) = 1
    OBVIOUS
  <2>3. GetPtr(h, 0, i) = h[1][i] /\ Has(h, 0, i)
    BY <2>1, <2>2 DEF GetPtr, Has
  <2> QED
    BY <1>1, <1>3, <2>3 DEF Base
<1>4. CASE i \notin DOMAIN h[1]
  BY <1>1, <1>2, <1>4 DEF Base, Has
<1> QED
  BY <1>3, <1>4

\* The last of some levels.
LEMMA LastLevel ==
  ASSUME NEW n \in Nat, NEW S, S \subseteq 0 .. n, S # {}
  PROVE  \E m \in S : \A j \in S : j <= m
<1> DEFINE T == {n - k : k \in S}
<1>1. T \subseteq Nat /\ T # {}
  <2>1. \A k \in S : n - k \in T /\ n - k \in Nat
    OBVIOUS
  <2>2. T \subseteq Nat
    BY <2>1
  <2> HIDE DEF T
  <2> QED
    BY <2>1, <2>2
<1>2. PICK d \in T : \A e \in T : ~(<<e, d>> \in OpToRel(<, Nat))
  <2> HIDE DEF T
  <2> QED
    BY <1>1, WFMin, NatLessThanWellFounded
<1>3. \A e \in T : e \in Nat /\ d \in Nat /\ ~(e < d)
  <2> HIDE DEF T
  <2> QED
    BY <1>1, <1>2 DEF OpToRel
<1>4. PICK m \in S : d = n - m
  OBVIOUS
<1>5. ASSUME NEW j \in S PROVE j <= m
  <2>1. n - j \in T /\ j \in 0 .. n /\ m \in 0 .. n
    OBVIOUS
  <2>2. ~(n - j < n - m)
    BY <1>3, <1>4, <2>1
  <2> QED
    BY <2>1, <2>2
<1> QED
  BY <1>5

\* A level more, and it is the base of the nodes it has.
LEMMA BaseAdded ==
  ASSUME NEW h, IsHistory(h), NEW l, IsLevel(l), NEW i
  PROVE  Base(AddLevel(h, l), i) = IF i \in DOMAIN l THEN l[i] ELSE Base(h, i)
<1> DEFINE g == AddLevel(h, l)
           n == Len(h)
<1>1. /\ Len(g) = n + 1 /\ n \in Nat /\ DOMAIN h = 1 .. n
      /\ \A k \in 1 .. n : g[k] = h[k]
      /\ g[n + 1] = l
  BY AddLevelRight
<1>2. MaxLevel(g) = n /\ MaxLevel(h) = n - 1
  BY <1>1 DEF MaxLevel
<1> DEFINE new == StoredAt(g, n, i)
           old == StoredAt(h, n - 1, i)
<1>3. new = {k \in 1 .. n + 1 : i \in DOMAIN g[k]} /\ old = {k \in 1 .. n : i \in DOMAIN h[k]}
  BY <1>1 DEF StoredAt
<1>4. new = old \union (IF i \in DOMAIN l THEN {n + 1} ELSE {})
  <2> HIDE DEF new, old, g, n
  <2>1. \A k : k \in new <=> k \in old \/ (k = n + 1 /\ i \in DOMAIN l)
    BY <1>1, <1>3
  <2> QED
    BY <2>1
<1>5. \A k \in old : k \in 1 .. n
  BY <1>3
<1>6. CASE i \in DOMAIN l
  <2>1. n + 1 \in new /\ \A j \in new : j <= n + 1
    BY <1>1, <1>4, <1>5, <1>6
  <2>2. (CHOOSE k \in new : \A j \in new : j <= k) = n + 1
    <3>1. \A k \in new : k \in Int /\ ((\A j \in new : j <= k) => k = n + 1)
      <4> HIDE DEF new, old, n
      <4> QED
        BY <1>1, <1>4, <1>5, <1>6, <2>1
    <3> HIDE DEF new
    <3> QED
      BY <2>1, <3>1
  <2>3. Has(g, n, i) /\ GetPtr(g, n, i) = l[i]
    BY <1>1, <2>1, <2>2 DEF Has, GetPtr
  <2> QED
    BY <1>2, <1>6, <2>3 DEF Base
<1>7. CASE i \notin DOMAIN l
  <2>1. new = old
    BY <1>4, <1>7
  <2>2. CASE old = {}
    BY <1>2, <1>7, <2>1, <2>2 DEF Base, Has
  <2>3. CASE old # {}
    <3>1. PICK m \in old : \A j \in old : j <= m
      <4>1. old \subseteq 0 .. n
        BY <1>5
      <4> HIDE DEF old, n
      <4> QED
        BY <1>1, <2>3, <4>1, LastLevel
    <3> DEFINE c == CHOOSE k \in old : \A j \in old : j <= k
    <3>2. c \in old
      BY <3>1
    <3> HIDE DEF c
    <3>3. g[c] = h[c]
      BY <1>1, <1>5, <3>2
    <3>4. GetPtr(g, n, i) = GetPtr(h, n - 1, i)
      BY <2>1, <3>3 DEF GetPtr, c
    <3> QED
      BY <1>2, <1>7, <2>1, <2>3, <3>4 DEF Base, Has
  <2> QED
    BY <2>2, <2>3
<1> QED
  BY <1>6, <1>7

-----------------------------------------------------------------------------
(* Bases and rollbacks.                                                    *)

\* What is known of a node at a level fits it.
LEMMA BaseFits ==
  ASSUME formula \in Formulas, NEW h, IsHistory(h), NEW i \in Ids
  PROVE  Fits(i, Base(h, i))
<1> DEFINE at == StoredAt(h, MaxLevel(h), i)
           m == CHOOSE k \in at : \A j \in at : j <= k
<1>1. h \in Seq(Range(h)) /\ Len(h) \in Nat /\ DOMAIN h = 1 .. Len(h)
  BY DEF IsHistory
<1>2. at \subseteq 1 .. Len(h) /\ \A k \in at : i \in DOMAIN h[k]
  BY DEF StoredAt
<1>3. CASE at = {}
  BY <1>3, FreshFits DEF Base, Has
<1>4. CASE at # {}
  <2>1. m \in at
    <3>1. at \subseteq 0 .. Len(h)
      BY <1>1, <1>2
    <3> HIDE DEF at
    <3>2. \E k \in at : \A j \in at : j <= k
      BY <1>1, <1>4, <3>1, LastLevel
    <3> QED
      BY <3>2
  <2> HIDE DEF m
  <2>2. m \in DOMAIN h /\ i \in DOMAIN h[m]
    BY <1>1, <1>2, <2>1
  <2>3. Base(h, i) = h[m][i]
    BY <1>4 DEF Base, Has, GetPtr, m
  <2> QED
    BY <2>2, <2>3 DEF IsHistory, IsLevel
<1> QED
  BY <1>3, <1>4

\* The last level; without any it is taken for level 0.
AtLast(h, level) == level = MaxLevel(h) \/ (h = <<>> /\ level = 0)

\* A rollback restores the nodes it is told.
LEMMA RestoredRight ==
  ASSUME formula \in Formulas, NEW h, IsHistory(h), NEW f, Doms(f), NEW ids, ids \subseteq Ids,
         NEW level, AtLast(h, level)
  PROVE  LET g == RestoredFrom(h, level, f, ids) IN
         /\ Doms(g)
         /\ \A i \in ids : Agree(g[i], Base(h, i)) /\ g[i].pending = Unchanged
         /\ \A i \in Ids \ ids : g[i] = f[i]
<1> DEFINE g == RestoredFrom(h, level, f, ids)
<1>1. DOMAIN g = Ids /\ \A i \in Ids : g[i] =
        IF i \notin ids THEN f[i]
        ELSE IF Has(h, level, i) THEN CopyFrom(GetPtr(h, level, i))
        ELSE Fresh(Width(f[i]))
  BY DEF RestoredFrom, Doms
<1> HIDE DEF g
<1>2. ASSUME NEW i \in ids
      PROVE  Fits(i, g[i]) /\ Agree(g[i], Base(h, i)) /\ g[i].pending = Unchanged
  <2>1. i \in Ids /\ Width(f[i]) = Node(i).width /\ Fits(i, Base(h, i))
    BY BaseFits, FitsWidth DEF Doms
  <2>2. \/ Has(h, level, i) /\ Base(h, i) = GetPtr(h, level, i)
        \/ ~Has(h, level, i) /\ Base(h, i) = Fresh(Node(i).width)
    <3>1. CASE level = MaxLevel(h)
      BY <3>1 DEF Base
    <3>2. CASE h = <<>> /\ level = 0
      BY <3>2, BaseNone
    <3> QED
      BY <3>1, <3>2 DEF AtLast
  <2>3. CASE Has(h, level, i) /\ Base(h, i) = GetPtr(h, level, i)
    BY <1>1, <2>1, <2>3, CopyFits
  <2>4. CASE ~Has(h, level, i) /\ Base(h, i) = Fresh(Node(i).width)
    <3>1. g[i] = Base(h, i) /\ g[i].pending = Unchanged
      BY <1>1, <2>1, <2>4, FreshFits
    <3> QED
      BY <2>1, <3>1 DEF Agree
  <2> QED
    BY <2>2, <2>3, <2>4
<1>3. Doms(g)
  BY <1>1, <1>2 DEF Doms
<1> QED
  BY <1>1, <1>2, <1>3 DEF g

\* After a rollback of all that changed nothing has.
LEMMA RollbackRight ==
  ASSUME formula \in Formulas, NEW h, IsHistory(h), NEW f, Doms(f), NEW some, some \subseteq Ids,
         Remembered(h, f, {}, some)
  PROVE  LET g == RestoredFrom(h, MaxLevel(h), f, some) IN
         Doms(g) /\ Remembered(h, g, {}, {})
<1> DEFINE g == RestoredFrom(h, MaxLevel(h), f, some)
<1>1. /\ Doms(g)
      /\ \A i \in some : Agree(g[i], Base(h, i))
      /\ \A i \in Ids \ some : g[i] = f[i]
  <2>1. AtLast(h, MaxLevel(h))
    BY DEF AtLast
  <2> QED
    BY <2>1, RestoredRight
<1> HIDE DEF g
<1>2. Remembered(h, g, {}, {})
  BY <1>1 DEF Remembered
<1> QED
  BY <1>1, <1>2 DEF g

\* A new level with all that changed, and nothing has.
LEMMA StoreRight ==
  ASSUME formula \in Formulas, NEW h, IsHistory(h), NEW f, Doms(f), NEW some, some \subseteq Ids,
         Remembered(h, f, {}, some), NEW l, l = [i \in some |-> f[i]]
  PROVE  IsLevel(l) /\ IsHistory(AddLevel(h, l)) /\ Remembered(AddLevel(h, l), f, {}, {})
<1>1. IsLevel(l) /\ DOMAIN l = some /\ \A i \in some : l[i] = f[i]
  BY DEF IsLevel, Doms
<1>2. \A i : Base(AddLevel(h, l), i) = IF i \in some THEN f[i] ELSE Base(h, i)
  BY <1>1, BaseAdded
<1>3. Remembered(AddLevel(h, l), f, {}, {})
  BY <1>2 DEF Remembered, Agree
<1> QED
  BY <1>1, <1>3, AddLevelRight

-----------------------------------------------------------------------------
(* The work list.                                                          *)

\* Domains that moved at the nodes in ids, of which those in line are next.
LEMMA WorkRight ==
  ASSUME NEW h, NEW f, Doms(f), NEW some, Remembered(h, f, {}, some),
         NEW g, NEW ids, Moves(f, g, ids), NEW line,
         \A i \in ids \ line : i \in DOMAIN f => Agree(g[i], f[i])
  PROVE  Doms(g) /\ Remembered(h, g, line, some)
<1>1. /\ Doms(g)
      /\ \A i \in Ids : g[i].pending = Unchanged => Agree(g[i], f[i])
      /\ \A i \in Ids \ ids : g[i] = f[i]
  BY MovesDoms DEF Moves, Doms
<1>2. ASSUME NEW i \in Ids \ some, i \notin line \/ g[i].pending = Unchanged
      PROVE  Agree(g[i], Base(h, i))
  <2>1. Agree(f[i], Base(h, i))
    BY DEF Remembered
  <2>2. Agree(g[i], f[i])
    BY <1>1, <1>2 DEF Doms, Agree
  <2> QED
    BY <2>1, <2>2 DEF Agree
<1> QED
  BY <1>1, <1>2 DEF Remembered

\* Assigning a value to a node, which is next if anything was done.
LEMMA AssignRight ==
  ASSUME NEW h, NEW f, Doms(f), NEW some, Remembered(h, f, {}, some), NEW i \in Ids, NEW v
  PROVE  LET s == SetConstant(Going(f), i, v) IN
         Doms(s.dom) /\ Remembered(h, s.dom, IF s.res = Unchanged THEN {} ELSE {i}, some)
<1> DEFINE s == SetConstant(Going(f), i, v)
           line == IF s.res = Unchanged THEN {} ELSE {i}
<1>1. Touches(Going(f), Going(f), {i}) /\ Going(f).dom = f
  BY DomsRight, TouchesSelf DEF Doms
<1>2. Touches(Going(f), s, {i})
  BY <1>1, SetConstantTouches
<1> HIDE DEF s
<1>3. Moves(f, s.dom, {i}) /\ (s.res = Unchanged => \A j \in DOMAIN f : Same(f[j], s.dom[j]))
  BY <1>1, <1>2 DEF Touches
<1>4. \A j \in {i} \ line : j \in DOMAIN f => Agree(s.dom[j], f[j])
  BY <1>3 DEF Same, Agree
<1> HIDE DEF line
<1>5. Doms(s.dom) /\ Remembered(h, s.dom, line, some)
  BY <1>3, <1>4, WorkRight
<1> QED
  BY <1>5 DEF s, line

\* The highest node of the list.
LEMMA TopRight ==
  ASSUME formula \in Formulas, queue \subseteq Ids, queue # {}
  PROVE  Top \in queue
<1>1. Ids = 0 .. Cardinality(Ids) - 1 /\ Cardinality(Ids) \in Nat
  BY IdsRight
<1>2. queue \subseteq 0 .. Cardinality(Ids)
  BY <1>1
<1>3. \E i \in queue : \A j \in queue : j <= i
  BY <1>1, <1>2, LastLevel
<1> QED
  BY <1>3 DEF Top

\* propagate_node at a node.
LEMMA RunNodeRight ==
  ASSUME formula \in Formulas, NoShift, Doms(dom), NEW i \in Ids
  PROVE  IsState(RunNode(i)) /\ Moves(dom, RunNode(i).dom, {i} \union Kids(i))
<1> DEFINE ids == {i} \union Kids(i)
<1>1. AreDomains(dom) /\ IsState(Going(dom)) /\ Going(dom).dom = dom
  BY DomsRight
<1>2. CASE i \in Symbols \union Constants
  BY <1>1, <1>2, MovesSelf DEF RunNode
<1>3. CASE i \notin Symbols \union Constants
  <2>1. IsInner(Node(i), ids) /\ ids \subseteq DOMAIN dom
    BY <1>3, NodeRight DEF Doms
  <2>2. Node(i).kind # "ashr"
    BY DEF NoShift, Node, Ids
  <2>3. OwnIds \cap DOMAIN dom = {}
    BY IdsRight DEF Doms
  <2> HIDE DEF ids
  <2>4. i \in ids
    BY DEF ids
  <2>5. /\ IsState(PropagateNode(dom, i, Node(i)))
        /\ Moves(dom, PropagateNode(dom, i, Node(i)).dom, ids)
    BY <1>1, <2>1, <2>2, <2>3, <2>4, PropagateNodeMoves
  <2> QED
    BY <1>3, <2>5 DEF RunNode, ids
<1> QED
  BY <1>2, <1>3

\* One round of the work list.
LEMMA SettleRight ==
  ASSUME formula \in Formulas, NoShift, Doms(dom), queue \subseteq Ids, changed \subseteq Ids,
         PropagateTop, ~conflict', NEW h, Remembered(h, dom, queue, changed)
  PROVE  /\ Doms(dom') /\ queue' \subseteq Ids /\ changed' \subseteq Ids
         /\ Remembered(h, dom', queue', changed')
<1> DEFINE i == Top
           t == RunNode(i)
<1>1. i \in queue /\ i \in Ids /\ Kids(i) \subseteq Ids
  BY TopRight, NodeRight DEF PropagateTop
<1>2. IsState(t) /\ Moves(dom, t.dom, {i} \union Kids(i))
  BY <1>1, RunNodeRight
<1>3. Settle(i, t)
  BY DEF PropagateTop
<1> HIDE DEF i, t
<1>4. Doms(t.dom) /\ \A j \in Ids : t.dom[j].pending = Unchanged =>
        Agree(t.dom[j], dom[j]) /\ dom[j].pending = Unchanged
  BY <1>2, MovesDoms
<1>5. \A j \in Ids \ ({i} \union Kids(i)) : t.dom[j] = dom[j]
  BY <1>2 DEF Moves, Doms
<1>6. /\ dom' = [t.dom EXCEPT ![i] = Consumed(@)]
      /\ queue' = (queue \ {i})
           \union (IF t.dom[i].pending = Updated THEN Parents(i) ELSE {})
           \union {k \in Kids(i) : t.dom[k].pending = Updated}
      /\ changed' = changed \union {k \in Kids(i) : t.dom[k].pending = Changed}
           \union (IF t.dom[i].pending = Unchanged THEN {} ELSE {i})
  BY <1>3 DEF Settle, TouchedKids
<1> DEFINE c == Consumed(t.dom[i])
<1>7. Fits(i, c) /\ Agree(c, t.dom[i]) /\ c.pending = Unchanged
  <2> DEFINE d == t.dom[i]
             l == IF d.pending = Updated THEN F(Width(d))!IntervalSize(d.iv) ELSE d.last
  <2>1. c = [d EXCEPT !.pending = Unchanged, !.last = l]
    BY DEF Consumed
  <2>2. Fits(i, d)
    BY <1>1, <1>4 DEF Doms
  <2> HIDE DEF c, d, l
  <2>3. c = [bits |-> d.bits, iv |-> d.iv, last |-> l, pending |-> Unchanged]
    BY <2>1, <2>2 DEF Fits, IsDomain
  <2>4. IsDomain(c) /\ c.bits = d.bits /\ c.iv = d.iv /\ c.pending = Unchanged
    BY <2>3 DEF IsDomain
  <2>5. InStep(Node(i).width, c)
    BY <2>2, <2>4, KeepsAlike DEF Fits, Keeps
  <2> QED
    BY <2>4, <2>5 DEF Fits, Agree, d
<1> HIDE DEF c
<1>8. DOMAIN dom' = Ids /\ \A j \in Ids : dom'[j] = IF j = i THEN c ELSE t.dom[j]
  BY <1>1, <1>4, <1>6 DEF Doms, c
<1>9. Doms(dom')
  BY <1>4, <1>7, <1>8 DEF Doms
<1>10. queue' \subseteq Ids /\ changed' \subseteq Ids
  BY <1>1, <1>6 DEF Parents
<1>11. ASSUME NEW j \in Ids \ changed', j \notin queue' \/ dom'[j].pending = Unchanged
       PROVE  Agree(dom'[j], Base(h, j))
  <2>1. j \notin changed
    BY <1>6
  <2>2. CASE j = i
    <3>1. t.dom[i].pending = Unchanged
      BY <1>6, <2>2
    <3>2. Agree(t.dom[i], dom[i]) /\ dom[i].pending = Unchanged
      BY <1>1, <1>4, <3>1
    <3>3. Agree(dom[i], Base(h, i))
      BY <1>1, <2>1, <2>2, <3>2 DEF Remembered
    <3> QED
      BY <1>7, <1>8, <2>2, <3>2, <3>3 DEF Agree
  <2>3. CASE j # i /\ t.dom[j].pending = Unchanged
    <3>1. Agree(t.dom[j], dom[j]) /\ dom[j].pending = Unchanged
      BY <1>4, <2>3
    <3>2. Agree(dom[j], Base(h, j))
      BY <2>1, <3>1 DEF Remembered
    <3> QED
      BY <1>8, <2>3, <3>1, <3>2 DEF Agree
  <2>4. CASE j # i /\ t.dom[j].pending # Unchanged
    <3>1. j \notin queue'
      BY <1>8, <1>11, <2>4
    <3>2. j \notin Kids(i)
      <4>1. t.dom[j].pending \in {Changed, Updated}
        BY <1>4, <2>4 DEF Doms, Fits
      <4> QED
        BY <1>6, <3>1, <4>1
    <3>3. t.dom[j] = dom[j] /\ j \notin queue
      BY <1>5, <1>6, <2>4, <3>1, <3>2
    <3> QED
      BY <1>8, <2>1, <2>4, <3>3 DEF Remembered
  <2> QED
    BY <2>2, <2>3, <2>4
<1>12. Remembered(h, dom', queue', changed')
  BY <1>11 DEF Remembered
<1> QED
  BY <1>9, <1>10, <1>12

-----------------------------------------------------------------------------
(* run_full_propagation.                                                   *)

\* The body of the loop of set_constant_domains, for Turns.
ConstantStep(s, ids, p, q, u, v, t, n) ==
  IF Stopped(t) THEN t
  ELSE LET i == FromTop[n] IN IF i \in Constants THEN SetConstant(t, i, Node(i).arg) ELSE t

\* The loop of set_constant_domains.
ConstantTurns == INSTANCE Turns WITH P <- Reached, Step <- ConstantStep

\* set_constant_domains touches values alone.
LEMMA WithConstantsRight ==
  ASSUME formula \in Formulas, NEW f, Doms(f)
  PROVE  Touches(Going(f), WithConstants(f), Constants)
<1> DEFINE s == Going(f)
           ks == FromTop
<1>1. Touches(s, s, Constants)
  <2>1. IsState(s) /\ s.dom = f
    BY DomsRight
  <2>2. Constants \subseteq Ids
    BY DEF Constants
  <2> QED
    BY <2>1, <2>2, TouchesSelf DEF Doms
<1> HIDE DEF s
<1>2. \A x, n : n \in 1 .. Len(ks) /\ Reached(s, Constants, 0, 0, 0, 0, x, n - 1) =>
        Reached(s, Constants, 0, 0, 0, 0, ConstantStep(s, Constants, 0, 0, 0, 0, x, n), n)
  BY SetConstantTouches DEF Reached, ConstantStep
<1>3. Len(ks) \in Nat /\ Reached(s, Constants, 0, 0, 0, 0, s, 0)
  BY <1>1, PassesRight DEF Reached
<1>4. Reached(s, Constants, 0, 0, 0, 0,
        LET after[n \in 0 .. Len(ks)] ==
              IF n = 0 THEN s ELSE ConstantStep(s, Constants, 0, 0, 0, 0, after[n - 1], n)
        IN after[Len(ks)], Len(ks))
  <2> HIDE DEF ks
  <2> QED
    BY <1>2, <1>3, ConstantTurns!TurnsKeep
<1>5. Touches(s, WithConstants(f), Constants)
  BY <1>4 DEF Reached, WithConstants, InOrder, InTurn, ConstantStep, s
<1> QED
  BY <1>5 DEF s

\* The body of the loop over the roots, for Turns.
RootStep(s, ids, ks, q, u, v, t, n) ==
  IF Stopped(t) THEN t ELSE SetConstant(t, ks[n], 1)

\* The loop over the roots.
RootTurns == INSTANCE Turns WITH P <- Reached, Step <- RootStep

\* run_full_propagation: what moved is pending, the others are fresh.
LEMMA FullPropagationRight ==
  ASSUME formula \in Formulas, FullPropagation
  PROVE  /\ ~conflict' => Doms(dom') /\ Remembered(<<>>, dom', queue', {}) /\ queue' \subseteq Ids
         /\ changed' = {}
<1> DEFINE f == FreshDomains
           c == WithConstants(f)
           ks == formula.roots
           r == InOrder(c, ks, LAMBDA s, i : SetConstant(s, i, 1))
<1>1. Doms(f) /\ \A i \in Ids : f[i] = Fresh(Node(i).width)
  BY FreshFits DEF FreshDomains, Doms
<1>2. IsState(Going(f)) /\ Going(f).dom = f /\ DOMAIN f = Ids
  BY <1>1, DomsRight DEF Doms
<1>3. Touches(Going(f), c, Ids)
  <2>1. Touches(Going(f), c, Constants)
    BY <1>1, WithConstantsRight
  <2>2. Constants \subseteq Ids
    BY DEF Constants
  <2> HIDE DEF c
  <2> QED
    BY <1>2, <2>1, <2>2 DEF Touches, Moves
<1>4. /\ conflict' = Stopped(r) /\ dom' = r.dom /\ changed' = {}
      /\ queue' = IF Stopped(r) THEN {} ELSE Pending(r.dom)
  BY DEF FullPropagation, Work
<1>5. ks \in Seq(Ids)
  BY IdsRight
<1> HIDE DEF c, f, ks
<1> DEFINE s == Going(f)
<1>6. Touches(s, r, Ids)
  <2> HIDE DEF s
  <2>1. \A x, n : n \in 1 .. Len(ks) /\ Reached(s, Ids, ks, 0, 0, 0, x, n - 1) =>
          Reached(s, Ids, ks, 0, 0, 0, RootStep(s, Ids, ks, 0, 0, 0, x, n), n)
    BY <1>5, SetConstantTouches DEF Reached, RootStep
  <2>2. Len(ks) \in Nat /\ Reached(s, Ids, ks, 0, 0, 0, c, 0)
    BY <1>3, <1>5 DEF Reached, s
  <2>3. Reached(s, Ids, ks, 0, 0, 0,
          LET after[n \in 0 .. Len(ks)] ==
                IF n = 0 THEN c ELSE RootStep(s, Ids, ks, 0, 0, 0, after[n - 1], n)
          IN after[Len(ks)], Len(ks))
    BY <2>1, <2>2, RootTurns!TurnsKeep
  <2> QED
    BY <2>3 DEF Reached, InOrder, InTurn, RootStep
<1> HIDE DEF r
<1>7. Moves(f, r.dom, Ids)
  BY <1>2, <1>6 DEF Touches
<1>8. /\ Doms(r.dom)
      /\ \A i \in Ids : r.dom[i].pending = Unchanged => Agree(r.dom[i], f[i])
  BY <1>1, <1>7, MovesDoms
<1>9. Pending(r.dom) = {i \in Ids : r.dom[i].pending # Unchanged}
  BY <1>8 DEF Pending, Doms
<1>10. Remembered(<<>>, r.dom, Pending(r.dom), {})
  BY <1>1, <1>8, <1>9, BaseNone DEF Remembered
<1> QED
  BY <1>4, <1>8, <1>9, <1>10

-----------------------------------------------------------------------------
(* The encodings.                                                          *)

\* overwrite, at a node of a state: the node fits, and is pending.
LEMMA EncodeFits ==
  ASSUME NEW t, t.res \in Results, ~Stopped(t), NEW i, i \in DOMAIN t.dom, Fits(i, t.dom[i]),
         NEW d, Fits(i, d), ~TotallyFixed(t.dom[i]), NEW mark,
         NEW u, u = Encode(t, i, d, mark)
  PROVE  /\ DOMAIN u.dom = DOMAIN t.dom
         /\ u.res \in Results
         /\ \A j \in DOMAIN t.dom \ {i} : u.dom[j] = t.dom[j]
         /\ ~Stopped(u) => Fits(i, u.dom[i]) /\ u.dom[i].pending # Unchanged
<1> DEFINE w == Node(i).width
           e == t.dom[i]
           r == F(w)!Overwritten(e, d, mark)
<1>1. IsDomain(e) /\ InStep(w, e) /\ IsDomain(d) /\ InStep(w, d) /\ Width(e) = w
  BY FitsWidth DEF Fits
<1>2. u = [dom |-> [t.dom EXCEPT ![i] = r.dom], res |-> Or(t.res, r.res)]
  BY <1>1 DEF Encode, On
<1>3. F(w)!TotallyFixed(e.bits) <=> TotallyFixed(e)
  <2>1. DOMAIN e.bits = F(w)!Bits
    BY <1>1 DEF InStep, Wide, F!Bits
  <2> QED
    BY <2>1 DEF F!TotallyFixed, F!Fixed, F!Free, TotallyFixed, Free
<1>4. /\ r.res \in Results
      /\ r.res \in {Conflict, Thrown} \/ r.dom.pending \in {Changed, Updated}
      /\ IsDomain(r.dom) /\ InStep(w, r.dom)
  <2>1. ~F(w)!TotallyFixed(e.bits)
    BY <1>3
  <2> HIDE DEF w, e
  <2> QED
    BY <1>1, <2>1, OverwrittenEffect
<1> HIDE DEF r, w
<1>5. Or(t.res, r.res) \in Results
  BY <1>4, OrRight
<1>6. ASSUME ~Stopped(u) PROVE r.res \notin {Conflict, Thrown}
  BY <1>2, <1>4, <1>6 DEF Stopped, Or, Results, Unchanged, Changed, Updated, Conflict, Thrown
<1>7. \A j \in DOMAIN t.dom : u.dom[j] = IF j = i THEN r.dom ELSE t.dom[j]
  BY <1>2
<1>8. ~Stopped(u) => Fits(i, u.dom[i]) /\ u.dom[i].pending # Unchanged
  BY <1>4, <1>6, <1>7 DEF Fits, w, Unchanged, Changed, Updated
<1> QED
  BY <1>2, <1>5, <1>7, <1>8

\* Symbols are encoded one after the other: of domains c, those of the nodes
\* in marked by those in d, as far as ks says.
Encoding(c, ks, marked, d, new, v, t, n) ==
  /\ t.res \in Results
  /\ DOMAIN t.dom = Ids
  /\ ~Stopped(t) =>
       \A j \in Ids :
         /\ Fits(j, t.dom[j])
         /\ t.dom[j] = c[j] \/ (j \in marked /\ t.dom[j].pending # Unchanged)
         /\ (\A k \in 1 .. n : ks[k] # j) => t.dom[j] = c[j]

\* The body of the loop over the symbols, for Turns.
EncodeStep(c, ks, marked, d, new, v, t, n) ==
  IF Stopped(t) THEN t
  ELSE IF ks[n] \in marked THEN Encode(t, ks[n], d[ks[n]], new[ks[n]]) ELSE t

\* The loop over the symbols.
EncodeTurns == INSTANCE Turns WITH P <- Encoding, Step <- EncodeStep

\* The nodes in marked, encoded from the bottom.
EncodeAll(s, marked, d, new) ==
  InOrder(s, FromBottom, LAMBDA t, i : IF i \in marked THEN Encode(t, i, d[i], new[i]) ELSE t)

\* They are pending after that, and the others are what they were.
LEMMA EncodeAllRight ==
  ASSUME formula \in Formulas, NEW s, s.res \in Results, Doms(s.dom), NEW d, Doms(d),
         NEW marked, marked \subseteq Ids, NEW new,
         \A i \in marked : ~TotallyFixed(s.dom[i])
  PROVE  LET u == EncodeAll(s, marked, d, new) IN
         ~Stopped(u) =>
           /\ Doms(u.dom)
           /\ \A j \in Ids : u.dom[j] = s.dom[j]
                             \/ (j \in marked /\ u.dom[j].pending # Unchanged)
<1> DEFINE ks == FromBottom
           c == s.dom
           u == EncodeAll(s, marked, d, new)
<1>1. /\ ks \in Seq(Ids) /\ Len(ks) \in Nat
      /\ \A k, l \in 1 .. Len(ks) : k # l => ks[k] # ks[l]
  BY PassesRight
<1>2. Encoding(c, ks, marked, d, new, 0, s, 0)
  BY DEF Encoding, Doms
<1>3. \A j \in Ids : Fits(j, d[j]) /\ (j \in marked => ~TotallyFixed(c[j]))
  BY DEF Doms
<1> HIDE DEF ks, c
<1>4. ASSUME NEW t, NEW n, n \in 1 .. Len(ks), Encoding(c, ks, marked, d, new, 0, t, n - 1)
      PROVE  Encoding(c, ks, marked, d, new, 0, EncodeStep(c, ks, marked, d, new, 0, t, n), n)
  <2> DEFINE i == ks[n]
             x == Encode(t, i, d[i], new[i])
             y == EncodeStep(c, ks, marked, d, new, 0, t, n)
  <2>1. i \in Ids /\ \A k \in 1 .. n - 1 : ks[k] # i
    BY <1>1, <1>4
  <2>2. CASE Stopped(t) \/ i \notin marked
    <3>1. y = t
      BY <2>2 DEF EncodeStep
    <3>2. ASSUME NEW j, \A k \in 1 .. n : ks[k] # j
          PROVE  \A k \in 1 .. n - 1 : ks[k] # j
      BY <1>4, <3>2
    <3> HIDE DEF y
    <3>3. Encoding(c, ks, marked, d, new, 0, y, n)
      BY <1>4, <3>1, <3>2 DEF Encoding
    <3> QED
      BY <3>3 DEF y
  <2>3. CASE ~Stopped(t) /\ i \in marked
    <3>1. y = x
      BY <2>3 DEF EncodeStep
    <3>2. /\ t.res \in Results /\ DOMAIN t.dom = Ids
          /\ Fits(i, t.dom[i]) /\ t.dom[i] = c[i] /\ Fits(i, d[i]) /\ ~TotallyFixed(c[i])
      BY <1>3, <1>4, <2>1, <2>3 DEF Encoding
    <3>3. /\ x.res \in Results /\ DOMAIN x.dom = Ids
          /\ \A j \in Ids \ {i} : x.dom[j] = t.dom[j]
          /\ ~Stopped(x) => Fits(i, x.dom[i]) /\ x.dom[i].pending # Unchanged
      <4> HIDE DEF x, i, u
      <4>1. i \in DOMAIN t.dom /\ ~TotallyFixed(t.dom[i]) /\ ~Stopped(t)
        BY <2>1, <2>3, <3>2
      <4> DEFINE e == d[i]
                 m == new[i]
      <4>2. x = Encode(t, i, e, m) /\ Fits(i, e)
        BY <3>2 DEF x
      <4> HIDE DEF e, m
      <4>3. /\ DOMAIN x.dom = DOMAIN t.dom
            /\ x.res \in Results
            /\ \A j \in DOMAIN t.dom \ {i} : x.dom[j] = t.dom[j]
            /\ ~Stopped(x) => Fits(i, x.dom[i]) /\ x.dom[i].pending # Unchanged
        BY <3>2, <4>1, <4>2, EncodeFits
      <4> QED
        BY <3>2, <4>3
    <3> HIDE DEF x, y, i
    <3>4. ASSUME ~Stopped(x), NEW j \in Ids
          PROVE  /\ Fits(j, x.dom[j])
                 /\ x.dom[j] = c[j] \/ (j \in marked /\ x.dom[j].pending # Unchanged)
                 /\ (\A k \in 1 .. n : ks[k] # j) => x.dom[j] = c[j]
      <4>1. CASE j = i
        <5>1. Fits(i, x.dom[i]) /\ x.dom[i].pending # Unchanged
          BY <3>3, <3>4
        <5>2. n \in 1 .. n /\ ks[n] = i
          BY <1>4 DEF i
        <5> QED
          BY <2>3, <4>1, <5>1, <5>2
      <4>2. CASE j # i
        <5>1. x.dom[j] = t.dom[j]
          BY <3>3, <4>2
        <5>2. (\A k \in 1 .. n : ks[k] # j) => \A k \in 1 .. n - 1 : ks[k] # j
          BY <1>4
        <5> QED
          BY <1>4, <2>3, <5>1, <5>2 DEF Encoding
      <4> QED
        BY <4>1, <4>2
    <3>5. Encoding(c, ks, marked, d, new, 0, x, n)
      BY <3>3, <3>4 DEF Encoding
    <3> QED
      BY <3>1, <3>5 DEF y
  <2> QED
    BY <2>2, <2>3
<1>5. Encoding(c, ks, marked, d, new, 0,
        LET after[n \in 0 .. Len(ks)] ==
              IF n = 0 THEN s ELSE EncodeStep(c, ks, marked, d, new, 0, after[n - 1], n)
        IN after[Len(ks)], Len(ks))
  <2>1. \A t, n : n \in 1 .. Len(ks) /\ Encoding(c, ks, marked, d, new, 0, t, n - 1) =>
          Encoding(c, ks, marked, d, new, 0, EncodeStep(c, ks, marked, d, new, 0, t, n), n)
    BY <1>4
  <2>2. Len(ks) \in Nat
    BY <1>1
  <2> QED
    BY <1>2, <2>1, <2>2, EncodeTurns!TurnsKeep
<1>6. Encoding(c, ks, marked, d, new, 0, u, Len(ks))
  BY <1>5 DEF EncodeAll, InOrder, InTurn, EncodeStep, ks
<1> HIDE DEF u
<1>7. ~Stopped(u) =>
        /\ Doms(u.dom)
        /\ \A j \in Ids : u.dom[j] = c[j] \/ (j \in marked /\ u.dom[j].pending # Unchanged)
  BY <1>6 DEF Encoding, Doms
<1> QED
  BY <1>7 DEF u, c

-----------------------------------------------------------------------------
(* Nodes that are collected.                                               *)

\* A sequence of nodes of a set.
Picked(S, p, q, u, v, w, t, n) == t \in Seq(S)

\* The body of the loop over the candidates, for Turns.
PickStep(S, p, q, u, v, w, t, n) ==
  IF FromBottom[n] \in S THEN Append(t, FromBottom[n]) ELSE t

\* The loop over the candidates.
PickTurns == INSTANCE Turns WITH P <- Picked, Step <- PickStep

\* The nodes of a set, from the bottom.
Pick(S) == InTurn(<<>>, FromBottom, LAMBDA ids, i : IF i \in S THEN Append(ids, i) ELSE ids)

\* They are nodes.
LEMMA PickRight ==
  ASSUME formula \in Formulas, NEW S
  PROVE  Pick(S) \in Seq(S)
<1> DEFINE ks == FromBottom
           s == <<>>
<1>1. \A t, n : n \in 1 .. Len(ks) /\ Picked(S, 0, 0, 0, 0, 0, t, n - 1) =>
        Picked(S, 0, 0, 0, 0, 0, PickStep(S, 0, 0, 0, 0, 0, t, n), n)
  BY DEF Picked, PickStep
<1>2. Len(ks) \in Nat /\ Picked(S, 0, 0, 0, 0, 0, s, 0)
  BY PassesRight DEF Picked
<1>3. Picked(S, 0, 0, 0, 0, 0,
        LET after[n \in 0 .. Len(ks)] ==
              IF n = 0 THEN s ELSE PickStep(S, 0, 0, 0, 0, 0, after[n - 1], n)
        IN after[Len(ks)], Len(ks))
  <2> HIDE DEF ks, s
  <2> QED
    BY <1>1, <1>2, PickTurns!TurnsKeep
<1> QED
  BY <1>3 DEF Picked, Pick, InTurn, PickStep

\* Nodes of the formula.
Below(p, q, u, v, w, x, t, n) == t \subseteq Ids

\* The body of the loop over the nodes under the frontier, for Turns.
BelowStep(p, q, u, v, w, x, t, n) ==
  IF FromTop[n] \in t THEN t \union Kids(FromTop[n]) ELSE t

\* The loop over the nodes under the frontier.
BelowTurns == INSTANCE Turns WITH P <- Below, Step <- BelowStep

\* The nodes under others, and the candidates among them.
LEMMA RelevantRight ==
  ASSUME formula \in Formulas, NEW top, top \subseteq Ids
  PROVE  Relevant(top) \subseteq Ids /\ Candidates(top) \subseteq Ids
<1> DEFINE ks == FromTop
           r == InTurn(top, ks, LAMBDA t, i : IF i \in t THEN t \union Kids(i) ELSE t)
<1>1. \A t, n : n \in 1 .. Len(ks) /\ Below(0, 0, 0, 0, 0, 0, t, n - 1) =>
        Below(0, 0, 0, 0, 0, 0, BelowStep(0, 0, 0, 0, 0, 0, t, n), n)
  BY NodeRight DEF Below, BelowStep
<1>2. Len(ks) \in Nat /\ Below(0, 0, 0, 0, 0, 0, top, 0)
  BY PassesRight DEF Below
<1>3. Below(0, 0, 0, 0, 0, 0,
        LET after[n \in 0 .. Len(ks)] ==
              IF n = 0 THEN top ELSE BelowStep(0, 0, 0, 0, 0, 0, after[n - 1], n)
        IN after[Len(ks)], Len(ks))
  <2> HIDE DEF ks
  <2> QED
    BY <1>1, <1>2, BelowTurns!TurnsKeep
<1>4. r \subseteq Ids
  BY <1>3 DEF Below, InTurn, BelowStep
<1>5. Relevant(top) = r \union Symbols \union Constants
  BY DEF Relevant
<1> HIDE DEF r
<1>6. Relevant(top) \subseteq Ids
  BY <1>4, <1>5 DEF Symbols, Constants
<1> QED
  BY <1>6 DEF Candidates

-----------------------------------------------------------------------------
(* The frontier.                                                           *)

\* The state of the search for the frontier.
IsSearch(t) ==
  /\ t = [line |-> t.line, seen |-> t.seen, found |-> t.found]
  /\ t.line \in Seq(Ids)
  /\ t.found \in Seq(Ids)

\* What is kept by the search, for Turns.
Searching(ks, p, q, u, v, w, t, n) == IsSearch(t)

\* A node is put in line when it is seen first.
Seen(t, i) == IF i \in t.seen THEN t ELSE [t EXCEPT !.seen = @ \union {i}, !.line = Append(@, i)]

\* The body of the loop over children, for Turns.
SeenStep(ks, p, q, u, v, w, t, n) == Seen(t, ks[n])

\* The loop over children.
SeenTurns == INSTANCE Turns WITH P <- Searching, Step <- SeenStep

\* All nodes of a sequence, seen.
SeenAll(s, ks) == InTurn(s, ks, LAMBDA t, i :
  IF i \in t.seen THEN t ELSE [t EXCEPT !.seen = @ \union {i}, !.line = Append(@, i)])

\* A node that is seen leaves a search.
LEMMA SeenRight ==
  ASSUME NEW t, IsSearch(t), NEW i, i \in Ids
  PROVE  IsSearch(Seen(t, i))
<1> DEFINE more == t.seen \union {i}
           line == Append(t.line, i)
           u == [t EXCEPT !.seen = more, !.line = line]
<1>1. t = [line |-> t.line, seen |-> t.seen, found |-> t.found]
      /\ t.line \in Seq(Ids) /\ t.found \in Seq(Ids)
  BY DEF IsSearch
<1>2. line \in Seq(Ids)
  BY <1>1
<1>3. Seen(t, i) \in {t, u}
  BY Zenon DEF Seen
<1> HIDE DEF more, line
<1>4. u = [line |-> line, seen |-> more, found |-> t.found]
  <2> DEFINE v == [t EXCEPT !.seen = more]
  <2>1. v = [line |-> t.line, seen |-> more, found |-> t.found]
    BY <1>1
  <2>2. u = [v EXCEPT !.line = line]
    <3> DEFINE l == t.line
               fo == t.found
    <3>1. t = [line |-> l, seen |-> t.seen, found |-> fo]
      BY <1>1
    <3> HIDE DEF l, fo
    <3> QED
      BY <3>1
  <2> HIDE DEF v, u
  <2> QED
    BY <2>1, <2>2
<1>5. IsSearch(u)
  BY <1>1, <1>2, <1>4 DEF IsSearch
<1> QED
  BY <1>3, <1>5

\* So do some nodes.
LEMMA SeenAllRight ==
  ASSUME NEW s, IsSearch(s), NEW ks, ks \in Seq(Ids)
  PROVE  IsSearch(SeenAll(s, ks))
<1>1. \A t, n : n \in 1 .. Len(ks) /\ Searching(ks, 0, 0, 0, 0, 0, t, n - 1) =>
        Searching(ks, 0, 0, 0, 0, 0, SeenStep(ks, 0, 0, 0, 0, 0, t, n), n)
  BY SeenRight DEF Searching, SeenStep
<1>2. Len(ks) \in Nat /\ Searching(ks, 0, 0, 0, 0, 0, s, 0)
  BY DEF Searching
<1>3. Searching(ks, 0, 0, 0, 0, 0,
        LET after[n \in 0 .. Len(ks)] ==
              IF n = 0 THEN s ELSE SeenStep(ks, 0, 0, 0, 0, 0, after[n - 1], n)
        IN after[Len(ks)], Len(ks))
  BY <1>1, <1>2, SeenTurns!TurnsKeep
<1> QED
  BY <1>3 DEF Searching, SeenAll, InTurn, SeenStep, Seen

\* What a node is replaced by in the frontier are children of it.
LEMMA ImpliedByRight ==
  ASSUME NEW ids, NEW n, n.kids \in Seq(ids), n.kind \in BooleanKinds, Len(n.kids) = Arity(n.kind),
         NEW self, NEW d
  PROVE  ImpliedBy(n, self, d).kids \in Seq(ids)
<1> DEFINE r == ImpliedBy(n, self, d)
           a == d[n.kids[1]]
           b == d[n.kids[2]]
           ks == n.kids
<1>0. n.kind \in {"not", "xor", "and", "equal", "ite"}
  BY DEF BooleanKinds
<1>1. /\ n.kind = "not" => r = ReplacedBy(ks)
      /\ n.kind \in {"xor", "equal"} => r \in {ReplacedBy(ks), NotImplied}
      /\ n.kind = "and" => r = AndImpliedBy(ks, self, a, b)
      /\ n.kind = "ite" => r = IteImpliedBy(ks, self, d)
  BY DEF ImpliedBy
<1> HIDE DEF r, a, b
<1>2. /\ AndImpliedBy(ks, self, a, b) \in
           {ReplacedBy(ks), ReplacedBy(<<ks[1]>>), ReplacedBy(<<ks[2]>>), LeftOut, NotImplied}
  BY Zenon DEF AndImpliedBy
<1>3. \E taken \in {2, 3} : IteImpliedBy(ks, self, d) \in
           {ReplacedBy(<<ks[1], ks[taken]>>), ReplacedBy(<<ks[taken]>>), LeftOut, NotImplied}
  <2> DEFINE taken == IF IsOne(d[ks[1]]) THEN 2 ELSE 3
             g == d[ks[1]]
             other == d[ks[5 - taken]]
             same == TotallyFixed(d[ks[2]]) /\ d[ks[2]].bits = d[ks[3]].bits
  <2>1. IteImpliedBy(ks, self, d) =
          CASE TotallyFixed(g) /\ TotallyFixed(other) /\ other.bits # self.bits ->
                 ReplacedBy(<<ks[1], ks[taken]>>)
            [] TotallyFixed(g) /\ ~(TotallyFixed(other) /\ other.bits # self.bits) ->
                 ReplacedBy(<<ks[taken]>>)
            [] ~TotallyFixed(g) /\ same -> LeftOut
            [] OTHER -> NotImplied
    BY DEF IteImpliedBy
  <2>2. taken \in {2, 3}
    OBVIOUS
  <2> HIDE DEF taken, g, other, same
  <2>3. IteImpliedBy(ks, self, d) \in
           {ReplacedBy(<<ks[1], ks[taken]>>), ReplacedBy(<<ks[taken]>>), LeftOut, NotImplied}
    BY <2>1, Zenon
  <2> QED
    BY <2>2, <2>3
<1>4. ks \in Seq(ids) /\ Len(ks) = Arity(n.kind)
  OBVIOUS
<1> HIDE DEF ks
<1>5. LeftOut.kids \in Seq(ids) /\ NotImplied.kids \in Seq(ids) /\ ReplacedBy(ks).kids \in Seq(ids)
  BY <1>4 DEF LeftOut, NotImplied, ReplacedBy
<1>6. ASSUME Len(ks) \in {2, 3}
      PROVE  ReplacedBy(<<ks[1]>>).kids \in Seq(ids) /\ ReplacedBy(<<ks[2]>>).kids \in Seq(ids)
  BY <1>4, <1>6 DEF ReplacedBy
<1>7. ASSUME Len(ks) = 3, NEW taken \in {2, 3}
      PROVE  /\ ReplacedBy(<<ks[taken]>>).kids \in Seq(ids)
             /\ ReplacedBy(<<ks[1], ks[taken]>>).kids \in Seq(ids)
  BY <1>4, <1>7 DEF ReplacedBy
<1>8. r.kids \in Seq(ids)
  <2>1. CASE n.kind \in {"not", "xor", "equal"}
    BY <1>1, <1>5, <2>1
  <2>2. CASE n.kind = "and"
    <3>1. Len(ks) = 2
      BY <1>4, <2>2 DEF Arity
    <3> QED
      BY <1>1, <1>2, <1>5, <1>6, <2>2, <3>1
  <2>3. CASE n.kind = "ite"
    <3>1. Len(ks) = 3
      BY <1>4, <2>3 DEF Arity
    <3> QED
      BY <1>1, <1>3, <1>5, <1>7, <2>3, <3>1
  <2> QED
    BY <1>0, <2>1, <2>2, <2>3
<1> QED
  BY <1>8 DEF r

\* One node of the search.
VisitOf(s) ==
  LET i  == Head(s.line)
      t  == [s EXCEPT !.line = Tail(@)]
      by == ImpliedBy(Node(i), dom[i], dom)
  IN IF i \in Constants THEN t
     ELSE IF IsAtom(i) THEN [t EXCEPT !.found = Append(@, i)]
     ELSE IF by.drop THEN t
     ELSE IF by.kids = <<>> THEN [t EXCEPT !.found = Append(@, i)]
     ELSE SeenAll(t, by.kids)

\* A node whose kind is not for Booleans has a bit-vector among its children.
LEMMA WordBelow ==
  ASSUME NEW f, IsFormula(f), NEW i \in DOMAIN f.nodes, f.nodes[i].kind \in Kinds \ BooleanKinds
  PROVE  \E k \in Range(f.nodes[i].kids) : ~f.nodes[k].bool
BY DEF IsFormula

\* One node of the search leaves a search.
LEMMA VisitRight ==
  ASSUME formula \in Formulas, NEW s, IsSearch(s), s.line # <<>>
  PROVE  IsSearch(VisitOf(s))
<1> DEFINE i  == Head(s.line)
           t  == [s EXCEPT !.line = Tail(@)]
           f  == [t EXCEPT !.found = Append(@, i)]
           by == ImpliedBy(Node(i), dom[i], dom)
<1>1. i \in Ids /\ IsSearch(t)
  <2> DEFINE l == Tail(s.line)
  <2>1. i \in Ids /\ l \in Seq(Ids)
    BY DEF IsSearch
  <2>2. t = [s EXCEPT !.line = l]
    OBVIOUS
  <2> HIDE DEF l, t
  <2>3. t = [line |-> l, seen |-> s.seen, found |-> s.found]
    BY <2>2 DEF IsSearch
  <2> QED
    BY <2>1, <2>3 DEF IsSearch
<1> HIDE DEF i, t
<1>2. IsSearch(f)
  <2> DEFINE l == Append(t.found, i)
  <2>1. l \in Seq(Ids)
    BY <1>1 DEF IsSearch
  <2>2. f = [t EXCEPT !.found = l]
    OBVIOUS
  <2> HIDE DEF l, f
  <2>3. f = [line |-> t.line, seen |-> t.seen, found |-> l]
    BY <1>1, <2>2 DEF IsSearch
  <2> QED
    BY <1>1, <2>1, <2>3 DEF IsSearch
<1>3. \/ VisitOf(s) \in {t, f}
      \/ ~IsAtom(i) /\ i \notin Constants /\ VisitOf(s) = SeenAll(t, by.kids)
  BY Zenon DEF VisitOf, i, t
<1>4. ASSUME ~IsAtom(i), i \notin Constants
      PROVE  by.kids \in Seq(Ids)
  <2> DEFINE n == Node(i)
  <2>1. /\ n.kids \in Seq(Ids)
        /\ n.kind \in {"symbol", "value"} \/ (n.kind \in Kinds /\ Len(n.kids) = Arity(n.kind))
        /\ n.kind \in Kinds \ BooleanKinds => \E k \in Range(n.kids) : ~Node(k).bool
    <3>1. IsFormula(formula)
      BY FormulaAssumption
    <3>2. /\ n.kids \in Seq(Ids)
          /\ n.kind \in {"symbol", "value"} \/ (n.kind \in Kinds /\ Len(n.kids) = Arity(n.kind))
      BY <1>1, <3>1 DEF IsFormula, Ids, Node
    <3>3. n.kind \in Kinds \ BooleanKinds => \E k \in Range(n.kids) : ~Node(k).bool
      BY <1>1, <3>1, WordBelow DEF Ids, Node
    <3> QED
      BY <3>2, <3>3
  <2>2. n.kind # "value" /\ n.kind # "symbol" /\ \A k \in Range(n.kids) : Node(k).bool
    BY <1>1, <1>4 DEF IsAtom, Kids, Constants
  <2> HIDE DEF n
  <2>3. n.kind \in BooleanKinds /\ Len(n.kids) = Arity(n.kind)
    BY <2>1, <2>2
  <2> DEFINE e == dom[i]
  <2>4. by = ImpliedBy(n, e, dom)
    BY DEF n
  <2> HIDE DEF by, e
  <2> QED
    BY <2>1, <2>3, <2>4, ImpliedByRight
<1> HIDE DEF by, f
<1>5. ASSUME by.kids \in Seq(Ids) PROVE IsSearch(SeenAll(t, by.kids))
  BY <1>1, <1>5, SeenAllRight
<1> QED
  BY <1>1, <1>2, <1>3, <1>4, <1>5

\* The body of the search, for Turns.
VisitStep(ks, p, q, u, v, w, t, n) == IF t.line # <<>> THEN VisitOf(t) ELSE t

\* The search.
VisitTurns == INSTANCE Turns WITH P <- Searching, Step <- VisitStep

\* The frontier is a sequence of nodes.
LEMMA CollectFrontierRight ==
  ASSUME formula \in Formulas
  PROVE  CollectFrontier \in Seq(Ids)
<1> DEFINE s0 == [line |-> <<>>, seen |-> {}, found |-> <<>>]
           s == SeenAll(s0, formula.roots)
           m == Cardinality(Ids)
<1>1. IsSearch(s)
  <2>1. IsSearch(s0)
    BY DEF IsSearch
  <2> HIDE DEF s0
  <2> QED
    BY <2>1, IdsRight, SeenAllRight
<1>2. m \in Nat
  BY IdsRight
<1> DEFINE r == LET after[n \in 0 .. m] ==
                   IF n = 0 THEN s ELSE VisitStep(0, 0, 0, 0, 0, 0, after[n - 1], n)
                IN after[m]
<1>3. CollectFrontier = r.found
  BY DEF CollectFrontier, Loop, VisitStep, VisitOf, SeenAll
<1> HIDE DEF s, m
<1>4. \A t, n : n \in 1 .. m /\ Searching(0, 0, 0, 0, 0, 0, t, n - 1) =>
        Searching(0, 0, 0, 0, 0, 0, VisitStep(0, 0, 0, 0, 0, 0, t, n), n)
  BY VisitRight DEF Searching, VisitStep
<1>5. Searching(0, 0, 0, 0, 0, 0, s, 0)
  BY <1>1 DEF Searching
<1>6. Searching(0, 0, 0, 0, 0, 0, r, m)
  BY <1>2, <1>4, <1>5, VisitTurns!TurnsKeep
<1> HIDE DEF r
<1> QED
  BY <1>3, <1>6 DEF Searching, IsSearch

-----------------------------------------------------------------------------
(* Levels of another history.                                              *)

\* merge_from, at a node of a state.
MergeOf(t, j, e) == On(t, j, LAMBDA d : F(Width(d))!Merged(d, e))

\* The body of the loop that merges a level, for Turns.
MergeStep(s, ids, h, level, u, v, t, n) ==
  IF Stopped(t) THEN t
  ELSE IF FromTop[n] \in ids THEN MergeOf(t, FromTop[n], GetPtr(h, level, FromTop[n])) ELSE t

\* A merge of a level touches its nodes alone, for Turns.
MergeReached(s, ids, h, level, u, v, t, n) == Touches(s, t, ids)

\* The loop that merges a level.
MergeTurns == INSTANCE Turns WITH P <- MergeReached, Step <- MergeStep

\* A level of a history, merged at the nodes in ids.
MergeAll(s, ids, h, level) ==
  InOrder(s, FromTop, LAMBDA t, j : IF j \in ids THEN MergeOf(t, j, GetPtr(h, level, j)) ELSE t)

\* merge_from at one of them.
LEMMA MergeTouches ==
  ASSUME NEW s, NEW t, NEW ids, Touches(s, t, ids), NEW j \in ids, NEW e
  PROVE  Touches(s, MergeOf(t, j, e), ids)
<1> DEFINE d == t.dom[j]
           r == F(Width(d))!Merged(d, e)
           u == [dom |-> [t.dom EXCEPT ![j] = r.dom], res |-> Or(t.res, r.res)]
<1>1. MergeOf(t, j, e) = IF Stopped(t) THEN t ELSE u
  BY DEF MergeOf, On
<1>2. IsDomain(d)
  BY DEF Touches, Moves, IsState, AreDomains
<1>3. Effect(Width(d), d, r)
  BY <1>2, MergedEffect
<1> HIDE DEF r
<1>4. Touches(s, u, ids)
  BY <1>3, OnTouches
<1> QED
  BY <1>1, <1>4

\* A merge of a level touches its nodes alone.
LEMMA MergeAllRight ==
  ASSUME NEW f, Doms(f), NEW ids, ids \subseteq Ids, NEW h, NEW level, formula \in Formulas
  PROVE  Touches(Going(f), MergeAll(Going(f), ids, h, level), ids)
<1> DEFINE s == Going(f)
           ks == FromTop
<1>1. Touches(s, s, ids)
  <2>1. IsState(s) /\ s.dom = f
    BY DomsRight
  <2> QED
    BY <2>1, TouchesSelf DEF Doms
<1> HIDE DEF s
<1>2. \A x, n : n \in 1 .. Len(ks) /\ MergeReached(s, ids, h, level, 0, 0, x, n - 1) =>
        MergeReached(s, ids, h, level, 0, 0, MergeStep(s, ids, h, level, 0, 0, x, n), n)
  BY MergeTouches DEF MergeReached, MergeStep
<1>3. Len(ks) \in Nat /\ MergeReached(s, ids, h, level, 0, 0, s, 0)
  BY <1>1, PassesRight DEF MergeReached
<1>4. MergeReached(s, ids, h, level, 0, 0,
        LET after[n \in 0 .. Len(ks)] ==
              IF n = 0 THEN s ELSE MergeStep(s, ids, h, level, 0, 0, after[n - 1], n)
        IN after[Len(ks)], Len(ks))
  <2> HIDE DEF ks
  <2> QED
    BY <1>2, <1>3, MergeTurns!TurnsKeep
<1>5. Touches(s, MergeAll(s, ids, h, level), ids)
  BY <1>4 DEF MergeReached, MergeAll, InOrder, InTurn, MergeStep
<1> QED
  BY <1>5 DEF s

\* Nodes of levels are nodes.
LEMMA ChangedNodesRight ==
  ASSUME NEW h, IsHistory(h), NEW level
  PROVE  ChangedNodes(h, level) \subseteq Ids
<1>1. \A k \in 2 .. Len(h) : k \in DOMAIN h
  BY DEF IsHistory
<1>2. \A k \in 2 .. Len(h) : DOMAIN h[k] \subseteq Ids
  BY <1>1 DEF IsHistory, IsLevel
<1> QED
  BY <1>2 DEF ChangedNodes

\* A node that no level after 0 has, has the base of level 0.
LEMMA BaseUntouched ==
  ASSUME NEW h, IsHistory(h), Len(h) >= 1, NEW g, IsHistory(g), Len(g) = 1, g[1] = h[1],
         NEW j, j \notin ChangedNodes(h, MaxLevel(h))
  PROVE  Base(h, j) = Base(g, j)
<1> DEFINE at == StoredAt(h, MaxLevel(h), j)
<1>1. Len(h) \in Nat /\ MaxLevel(h) + 1 = Len(h)
  BY DEF IsHistory, MaxLevel
<1>2. at = {k \in 1 .. Len(h) : j \in DOMAIN h[k]}
  BY <1>1 DEF StoredAt
<1>3. \A k \in 2 .. Len(h) : j \notin DOMAIN h[k]
  BY <1>1 DEF ChangedNodes
<1> HIDE DEF at
<1>4. at = IF j \in DOMAIN h[1] THEN {1} ELSE {}
  BY <1>1, <1>2, <1>3
<1>5. Base(g, j) = IF j \in DOMAIN h[1] THEN h[1][j] ELSE Fresh(Node(j).width)
  BY BaseFirst
<1>6. CASE j \in DOMAIN h[1]
  <2>1. at = {1}
    BY <1>4, <1>6
  <2>2. (CHOOSE k \in {1} : \A l \in {1} : l <= k) = 1
    OBVIOUS
  <2>3. GetPtr(h, MaxLevel(h), j) = h[1][j] /\ Has(h, MaxLevel(h), j)
    BY <2>1, <2>2 DEF GetPtr, Has, at
  <2> QED
    BY <1>5, <1>6, <2>3 DEF Base
<1>7. CASE j \notin DOMAIN h[1]
  BY <1>4, <1>5, <1>7 DEF Base, Has, at
<1> QED
  BY <1>6, <1>7

-----------------------------------------------------------------------------
(* The steps of run.                                                       *)

\* The formula stays, and what is said of the other variables with it.
LEMMA StillRight ==
  ASSUME formula' = formula
  PROVE  /\ Ids' = Ids
         /\ IsHistory(history)' <=> IsHistory(history')
         /\ IsHistory(prefix)' <=> IsHistory(prefix')
         /\ IsLevel(saved)' <=> IsLevel(saved')
         /\ DomainsRight' <=>
              /\ Doms(dom')
              /\ queue' \subseteq Ids
              /\ changed' \subseteq Ids
              /\ Remembered(Reference', dom', queue', changed')
<1>1. Ids' = Ids
  BY DEF Ids
<1>2. /\ IsHistory(history)' <=> IsHistory(history')
      /\ IsHistory(prefix)' <=> IsHistory(prefix')
      /\ IsLevel(saved)' <=> IsLevel(saved')
  BY DEF Ids, IsHistory, IsLevel, Fits, Node
<1>3. Doms(dom)' <=> Doms(dom')
  BY DEF Ids, Doms, Fits, Node
<1>4. Remembered(Reference, dom, queue, changed)' <=> Remembered(Reference', dom', queue', changed')
  BY DEF Ids, Remembered, Base, Node
<1> QED
  BY <1>1, <1>2, <1>3, <1>4 DEF DomainsRight

\* What is left of the first and of the last of some elements.
LEMMA EndsRight ==
  ASSUME NEW S, NEW q \in Seq(S), q # <<>>
  PROVE  /\ Head(q) \in S /\ Tail(q) \in Seq(S)
         /\ Last(q) \in S /\ Front(q) \in Seq(S)
<1>1. Len(q) \in Nat \ {0} /\ \A k \in 1 .. Len(q) : q[k] \in S
  OBVIOUS
<1>2. Front(q) = SubSeq(q, 1, Len(q) - 1) /\ Last(q) = q[Len(q)]
  BY DEF Front, Last
<1> QED
  BY <1>1, <1>2

\* The elements of a sequence.
LEMMA RangeRight ==
  ASSUME NEW S, NEW q \in Seq(S)
  PROVE  Range(q) \subseteq S
BY DEF Range

\* What is shown of the actions.
LEMMA NextRight ==
  ASSUME formula \in Formulas, formula' = formula, stage' # "start",
         Running' /\ ~conflict' => NodesRight' /\ Steps' /\ DomainsRight'
  PROVE  IInv'
BY DEF IInv

\* run_full_propagation.
LEMMA StartRight ==
  ASSUME IInv, Start
  PROVE  IInv'
<1>1. /\ formula \in Formulas /\ formula' = formula /\ FullPropagation
      /\ NodesRight /\ step' = "next" /\ stage = "start" /\ stage' = "full"
      /\ gain' = gain /\ kept' = kept /\ frontier' = frontier
  BY DEF IInv, Start, At
<1>2. NodesRight'
  BY <1>1, StillRight DEF NodesRight
<1>3. Steps'
  BY <1>1 DEF Steps, Trials
<1>4. ASSUME ~conflict' PROVE DomainsRight'
  <2>1. Doms(dom') /\ Remembered(<<>>, dom', queue', {}) /\ queue' \subseteq Ids /\ changed' = {}
    BY <1>1, <1>4, FullPropagationRight
  <2>2. Reference' = <<>>
    BY <1>1 DEF Reference
  <2> QED
    BY <1>1, <2>1, <2>2, StillRight
<1> QED
  BY <1>1, <1>2, <1>3, <1>4, NextRight

\* Nothing but the work list is touched.
LEMMA PropagateRight ==
  ASSUME IInv, NoShift, Propagate
  PROVE  IInv'
<1>1. /\ formula \in Formulas /\ formula' = formula /\ PropagateTop
      /\ NodesRight /\ Steps /\ DomainsRight
      /\ stage # "start" /\ UNCHANGED pipeVars /\ queue # {}
  BY DEF IInv, Propagate, PropagateTop, Running
<1>2. /\ stage' = stage /\ step' = step /\ todo' = todo /\ frontier' = frontier
      /\ saved' = saved /\ gain' = gain /\ kept' = kept /\ prefix' = prefix
      /\ history' = history /\ Reference' = Reference
  BY <1>1 DEF pipeVars, Reference
<1>3. NodesRight'
  BY <1>1, <1>2, StillRight DEF NodesRight
<1>4. Steps'
  BY <1>1, <1>2, StillRight DEF Steps, Trials
<1>5. ASSUME ~conflict' PROVE DomainsRight'
  <2>1. Doms(dom) /\ queue \subseteq Ids /\ changed \subseteq Ids
        /\ Remembered(Reference, dom, queue, changed)
    BY <1>1 DEF DomainsRight
  <2>2. Doms(dom') /\ queue' \subseteq Ids /\ changed' \subseteq Ids
        /\ Remembered(Reference, dom', queue', changed')
    BY <1>1, <1>5, <2>1, SettleRight
  <2> QED
    BY <1>1, <1>2, <2>2, StillRight
<1> QED
  BY <1>1, <1>2, <1>3, <1>4, <1>5, NextRight

\* The state of the domains where an action finds the work list empty.
LEMMA AtRest ==
  ASSUME IInv, NEW s, NEW t, At(s, t), Running
  PROVE  /\ formula \in Formulas /\ stage = s /\ step = t /\ stage # "start"
         /\ queue = {} /\ ~conflict
         /\ NodesRight /\ Steps
         /\ Doms(dom) /\ changed \subseteq Ids /\ Remembered(Reference, dom, {}, changed)
BY DEF IInv, At, Propagated, Running, DomainsRight

\* mark_encoding_domains, a node that is not a symbol.
LEMMA MarkInteriorRight ==
  ASSUME IInv, MarkInterior
  PROVE  IInv'
<1> DEFINE i    == Head(todo)
           mark == EncodingMarkDiff(dom[i], saved[i])
           u    == Encode(Going(dom), i, saved[i], mark)
<1>1. /\ formula \in Formulas /\ stage = "marking" /\ step = "next"
      /\ queue = {} /\ ~conflict /\ NodesRight /\ Steps
      /\ Doms(dom) /\ changed \subseteq Ids /\ Remembered(<<>>, dom, {}, changed)
  <2>1. At("marking", "next") /\ Running
    BY DEF MarkInterior, At, Running
  <2> QED
    BY <2>1, AtRest DEF Reference
<1>2. /\ formula' = formula /\ stage' = stage /\ step' = step /\ frontier' = frontier
      /\ saved' = saved /\ gain' = gain /\ kept' = kept
      /\ todo # <<>> /\ todo' = Tail(todo) /\ changed' = changed
      /\ \/ UNCHANGED <<dom, queue, conflict>>
         \/ mark # "implied" /\ Work(u, {i})
  BY DEF MarkInterior, workVars
<1>3. IsLevel(saved) /\ todo \in Seq(DOMAIN saved)
  BY <1>1 DEF Steps
<1>4. i \in DOMAIN saved /\ Tail(todo) \in Seq(DOMAIN saved) /\ i \in Ids /\ Fits(i, saved[i])
  BY <1>2, <1>3, EndsRight DEF IsLevel
<1>5. NodesRight'
  BY <1>1, <1>2, StillRight DEF NodesRight
<1>6. Steps'
  BY <1>1, <1>2, <1>3, <1>4, StillRight DEF Steps, Trials
<1>7. Reference' = <<>>
  BY <1>1, <1>2 DEF Reference
<1>8. ASSUME ~conflict' PROVE DomainsRight'
  <2>1. CASE UNCHANGED <<dom, queue, conflict>>
    BY <1>1, <1>2, <1>7, <2>1, StillRight
  <2>2. CASE mark # "implied" /\ Work(u, {i})
    <3>1. ~Stopped(u) /\ dom' = u.dom /\ queue' = {i}
      BY <1>8, <2>2 DEF Work
    <3>2. ~TotallyFixed(dom[i])
      BY <2>2 DEF EncodingMarkDiff
    <3>3. IsState(Going(dom)) /\ Going(dom).dom = dom /\ Going(dom).res = Unchanged
          /\ Going(dom).res \in Results /\ ~Stopped(Going(dom))
      <4>1. IsState(Going(dom)) /\ Going(dom).dom = dom /\ Going(dom).res = Unchanged
        BY <1>1, DomsRight
      <4> QED
        BY <4>1 DEF Results, Stopped, Unchanged, Conflict, Thrown
    <3>4. /\ DOMAIN u.dom = DOMAIN dom
          /\ \A j \in DOMAIN dom \ {i} : u.dom[j] = dom[j]
          /\ Fits(i, u.dom[i]) /\ u.dom[i].pending # Unchanged
      <4>1. i \in DOMAIN dom /\ Fits(i, dom[i])
        BY <1>1, <1>4 DEF Doms
      <4> HIDE DEF u, i, mark
      <4>2. u = Encode(Going(dom), i, saved[i], mark)
        BY DEF u
      <4> QED
        BY <1>4, <3>1, <3>2, <3>3, <4>1, <4>2, EncodeFits
    <3> HIDE DEF u
    <3>5. Doms(dom')
      BY <1>1, <3>1, <3>4 DEF Doms
    <3>6. Remembered(<<>>, dom', {i}, changed)
      BY <1>1, <3>1, <3>4 DEF Remembered, Doms
    <3> QED
      BY <1>1, <1>2, <1>4, <1>7, <3>1, <3>5, <3>6, StillRight
  <2> QED
    BY <1>2, <2>1, <2>2
<1> QED
  BY <1>1, <1>2, <1>5, <1>6, <1>8, NextRight

\* No levels.
LEMMA NoHistory == IsHistory(<<>>)
BY DEF IsHistory

\* The first level of the history, with all that changed.
LEMMA StageLevelZeroRight ==
  ASSUME IInv, StageLevelZero
  PROVE  IInv'
<1> DEFINE l == [i \in changed |-> dom[i]]
<1>1. /\ formula \in Formulas /\ stage = "marking" /\ step = "next"
      /\ queue = {} /\ ~conflict /\ NodesRight /\ Steps
      /\ Doms(dom) /\ changed \subseteq Ids /\ Remembered(<<>>, dom, {}, changed)
  <2>1. At("marking", "next") /\ Running
    BY DEF StageLevelZero, At, Running
  <2> QED
    BY <2>1, AtRest DEF Reference
<1>2. /\ formula' = formula /\ stage' \in {"rebuild", "trying"} /\ step' = step
      /\ history' = NewHistory(l) /\ changed' = {} /\ todo' = frontier
      /\ dom' = dom /\ queue' = queue /\ conflict' = conflict
      /\ frontier' = frontier /\ gain' = gain /\ kept' = kept
  BY DEF StageLevelZero
<1>3. IsLevel(l) /\ DOMAIN l = changed /\ \A i \in changed : l[i] = dom[i]
  BY <1>1 DEF IsLevel, Doms
<1> HIDE DEF l
<1>4. IsHistory(history') /\ Len(history') = 1 /\ history'[1] = l
  BY <1>2, <1>3, NewHistoryRight
<1>5. Remembered(history', dom, {}, {})
  <2>1. \A i : Base(history', i) = IF i \in changed THEN dom[i] ELSE Base(<<>>, i)
    BY <1>3, <1>4, BaseFirst, BaseNone
  <2> QED
    BY <1>1, <2>1 DEF Remembered, Agree
<1>6. NodesRight'
  BY <1>1, <1>2, StillRight DEF NodesRight
<1>7. ASSUME stage' = "trying" PROVE Steps' /\ DomainsRight'
  <2>1. Steps'
    BY <1>1, <1>2, <1>4, <1>7, StillRight DEF Steps, Trials, NodesRight
  <2>2. Reference' = history'
    BY <1>7 DEF Reference
  <2> QED
    BY <1>1, <1>2, <1>5, <2>1, <2>2, StillRight
<1> QED
  BY <1>1, <1>2, <1>6, <1>7, NextRight DEF Running

-----------------------------------------------------------------------------
(* The encodings and the trials, one action after the other.               *)

\* The domains of the symbols and values when they are encoded anew: of domains
\* f that are fresh but for those in some.
LEMMA BackRight ==
  ASSUME formula \in Formulas, NEW f, Doms(f), NEW some, some \subseteq Ids,
         Remembered(<<>>, f, {}, some),
         NEW back, back = RestoredFrom(<<>>, 0, f, some), NEW c, c = WithConstants(back)
  PROVE  /\ c.res \in Results /\ Doms(c.dom)
         /\ \A i \in Ids : Agree(back[i], Base(<<>>, i))
         /\ \A i \in Ids \ Constants : c.dom[i] = back[i] /\ ~TotallyFixed(c.dom[i])
         /\ \A i \in Ids : c.dom[i].pending = Unchanged => Agree(c.dom[i], back[i])
<1>1. /\ Doms(back)
      /\ \A i \in some : Agree(back[i], Base(<<>>, i))
      /\ \A i \in Ids \ some : back[i] = f[i]
  <2> DEFINE h == <<>>
             level == 0
             g == RestoredFrom(h, level, f, some)
  <2>0. back = g
    OBVIOUS
  <2>1. IsHistory(h)
    BY NoHistory
  <2>3. AtLast(h, level)
    BY DEF AtLast
  <2> HIDE DEF h, level
  <2>2. /\ Doms(g)
        /\ \A i \in some : Agree(g[i], Base(h, i))
        /\ \A i \in Ids \ some : g[i] = f[i]
    BY <2>1, <2>3, RestoredRight
  <2> QED
    BY <2>0, <2>2 DEF h
<1>2. \A i \in Ids : Agree(back[i], Base(<<>>, i))
  BY <1>1 DEF Remembered
<1>3. IsState(Going(back)) /\ Going(back).dom = back
  BY <1>1, DomsRight
<1>4. Touches(Going(back), c, Constants)
  BY <1>1, WithConstantsRight
<1>5. c.res \in Results /\ Moves(back, c.dom, Constants)
  BY <1>3, <1>4 DEF Touches, IsState
<1>6. /\ Doms(c.dom)
      /\ \A i \in Ids : c.dom[i].pending = Unchanged => Agree(c.dom[i], back[i])
  BY <1>1, <1>5, MovesDoms
<1>7. ASSUME NEW i \in Ids \ Constants PROVE c.dom[i] = back[i] /\ ~TotallyFixed(c.dom[i])
  <2> DEFINE w == Node(i).width
             r == Fresh(w)
  <2>1. c.dom[i] = back[i]
    BY <1>1, <1>5 DEF Moves, Doms
  <2>2. w \in Nat \ {0} /\ back[i].bits = r.bits
    BY <1>2, BaseNone, NodeRight DEF Agree
  <2> HIDE DEF w
  <2>3. InStep(w, r) /\ ~F(w)!TotallyFixed(r.bits)
    BY <2>2, FreshRight
  <2>4. DOMAIN r.bits = F(w)!Bits
    BY <2>3 DEF InStep, Wide, F!Bits
  <2> HIDE DEF r
  <2>5. ~TotallyFixed(back[i])
    BY <2>2, <2>3, <2>4 DEF F!TotallyFixed, F!Fixed, F!Free, TotallyFixed, Free
  <2> QED
    BY <2>1, <2>5
<1> QED
  BY <1>2, <1>5, <1>6, <1>7

\* The symbols are encoded anew, and the values with them.
LEMMA MarkSymbolsRight ==
  ASSUME IInv, MarkSymbols
  PROVE  IInv'
<1> DEFINE front   == CollectFrontier
           cand    == Candidates(Range(front))
           back    == RestoredFrom(<<>>, 0, dom, changed)
           consts  == WithConstants(back)
           Mark(i) == IF i \in cand \intersect Symbols THEN EncodingMark(dom[i], TRUE)
                      ELSE "none"
           new     == [i \in Ids |-> Mark(i)]
           marked  == {i \in Ids : new[i] # "none"}
           s       == EncodeAll(consts, marked, dom, new)
           line    == marked \union {i \in Constants : consts.dom[i] # back[i]}
<1>1. /\ formula \in Formulas /\ stage = "full" /\ step = "next"
      /\ queue = {} /\ ~conflict /\ NodesRight /\ Steps
      /\ Doms(dom) /\ changed \subseteq Ids /\ Remembered(<<>>, dom, {}, changed)
  <2>1. At("full", "next") /\ Running
    BY DEF MarkSymbols, At, Running
  <2> QED
    BY <2>1, AtRest DEF Reference
<1>2. /\ frontier' = front
      /\ saved' = [i \in cand |-> dom[i]]
      /\ Work(s, line)
      /\ todo' = Pick(cand \ Symbols)
  BY DEF MarkSymbols, EncodeAll, Pick
<1>3. /\ formula' = formula /\ stage' = "marking" /\ step' = step
      /\ gain' = gain /\ kept' = kept /\ changed' = {}
  BY DEF MarkSymbols
<1>4. front \in Seq(Ids) /\ cand \subseteq Ids
  <2>1. front \in Seq(Ids)
    BY <1>1, CollectFrontierRight
  <2> HIDE DEF front
  <2>2. Range(front) \subseteq Ids
    BY <2>1, RangeRight
  <2> QED
    BY <1>1, <2>1, <2>2, RelevantRight
<1>5. marked \subseteq Ids \ Constants /\ line \subseteq Ids
  <2>1. \A i \in marked : i \in Symbols /\ i \in Ids
    OBVIOUS
  <2>2. marked \subseteq Ids \ Constants
    BY <2>1 DEF Symbols, Constants
  <2> HIDE DEF marked, consts, back
  <2> QED
    BY <2>2 DEF Constants
<1> HIDE DEF new, marked, cand, front
<1>6. /\ consts.res \in Results /\ Doms(consts.dom)
      /\ \A i \in Ids : Agree(back[i], Base(<<>>, i))
      /\ \A i \in Ids \ Constants : consts.dom[i] = back[i] /\ ~TotallyFixed(consts.dom[i])
      /\ \A i \in Ids : consts.dom[i].pending = Unchanged => Agree(consts.dom[i], back[i])
  <2> HIDE DEF consts, back
  <2>1. back = RestoredFrom(<<>>, 0, dom, changed) /\ consts = WithConstants(back)
    BY DEF consts, back
  <2> QED
    BY <1>1, <2>1, BackRight
<1> HIDE DEF consts, back
<1>7. ~Stopped(s) =>
        /\ Doms(s.dom)
        /\ \A j \in Ids : s.dom[j] = consts.dom[j] \/ (j \in marked /\ s.dom[j].pending # Unchanged)
  <2>1. \A i \in marked : ~TotallyFixed(consts.dom[i])
    BY <1>5, <1>6
  <2>2. marked \subseteq Ids /\ consts.res \in Results /\ Doms(consts.dom)
    BY <1>5, <1>6
  <2> QED
    BY <1>1, <2>1, <2>2, EncodeAllRight
<1> HIDE DEF s
<1>8. IsLevel(saved') /\ todo' \in Seq(DOMAIN saved')
  <2>1. IsLevel(saved') /\ DOMAIN saved' = cand
    BY <1>1, <1>2, <1>4 DEF IsLevel, Doms
  <2> DEFINE S == cand \ Symbols
  <2>2. todo' \in Seq(S)
    BY <1>1, <1>2, PickRight
  <2>3. todo' \in Seq(cand)
    BY <2>2
  <2> QED
    BY <2>1, <2>2, <2>3
<1>9. NodesRight'
  BY <1>1, <1>2, <1>3, <1>4, StillRight DEF NodesRight
<1>10. Steps'
  BY <1>1, <1>3, <1>8, StillRight DEF Steps, Trials
<1>11. ASSUME ~conflict' PROVE DomainsRight'
  <2>1. ~Stopped(s) /\ dom' = s.dom /\ queue' = line
    BY <1>2, <1>11 DEF Work
  <2>2. ASSUME NEW i \in Ids, i \notin line \/ s.dom[i].pending = Unchanged
        PROVE  Agree(s.dom[i], Base(<<>>, i))
    <3>1. s.dom[i] = consts.dom[i]
      BY <1>7, <2>1, <2>2
    <3>2. Agree(consts.dom[i], back[i])
      BY <1>6, <2>2, <3>1 DEF Agree
    <3> QED
      BY <1>6, <3>1, <3>2 DEF Agree
  <2>3. Remembered(<<>>, s.dom, line, {})
    BY <2>2 DEF Remembered
  <2>4. Reference' = <<>>
    BY <1>3 DEF Reference
  <2> HIDE DEF line
  <2> QED
    BY <1>3, <1>5, <1>7, <2>1, <2>3, <2>4, StillRight
<1> QED
  BY <1>1, <1>3, <1>9, <1>10, <1>11, NextRight

\* What an assignment leaves to do.
LEMMA TriedRight ==
  ASSUME IInv, NEW st, At(st, step), Running, NEW i \in Ids,
         NEW s, s = Assigned(i), Work(s, IF s.res = Unchanged THEN {} ELSE {i}),
         changed' = changed, formula' = formula, Reference' = Reference
  PROVE  ~conflict' => DomainsRight'
<1> DEFINE line == IF s.res = Unchanged THEN {} ELSE {i}
<1>1. Doms(dom) /\ changed \subseteq Ids /\ Remembered(Reference, dom, {}, changed)
  BY AtRest
<1>2. s = SetConstant(Going(dom), i, value[i])
  BY DEF Assigned
<1>3. Doms(s.dom) /\ Remembered(Reference, s.dom, line, changed)
  BY <1>1, <1>2, AssignRight
<1>4. ASSUME ~conflict' PROVE dom' = s.dom /\ queue' = line /\ line \subseteq Ids
  BY <1>4 DEF Work
<1> HIDE DEF line
<1> QED
  BY <1>1, <1>3, <1>4, StillRight

\* A node of the frontier is tried.
LEMMA TryRight ==
  ASSUME IInv, Try
  PROVE  IInv'
<1> DEFINE i == Head(todo)
           s == Assigned(i)
<1>1. At("trying", "next") /\ Running
  BY DEF Try, At, Running
<1>2. /\ formula \in Formulas /\ stage = "trying" /\ step = "next" /\ queue = {}
      /\ NodesRight /\ Steps
  BY <1>1, AtRest
<1>3. /\ formula' = formula /\ stage' = stage /\ frontier' = frontier /\ gain' = gain
      /\ kept' = kept /\ history' = history /\ changed' = changed
      /\ todo # <<>>
      /\ Work(s, IF s.res = Unchanged THEN {} ELSE {i})
      /\ \/ s.res = Unchanged /\ todo' = Tail(todo) /\ step' = step
         \/ step' = "count" /\ todo' = todo
  BY DEF Try
<1>4. i \in Ids /\ Tail(todo) \in Seq(Ids) /\ changed = {}
  BY <1>2, <1>3, EndsRight DEF Steps, Trials
<1>5. NodesRight'
  BY <1>2, <1>3, StillRight DEF NodesRight
<1>6. s.res = Unchanged => queue' = {}
  BY <1>3 DEF Work
<1>7. Reference' = Reference
  BY <1>2, <1>3 DEF Reference
<1> HIDE DEF i, s
<1>8. ~conflict' => DomainsRight'
  <2>1. s = Assigned(i)
    BY DEF s
  <2> QED
    BY <1>1, <1>2, <1>3, <1>4, <1>7, <2>1, TriedRight
<1>9. Steps'
  BY <1>2, <1>3, <1>4, <1>6, StillRight DEF Steps, Trials
<1> QED
  BY <1>2, <1>3, <1>5, <1>8, <1>9, NextRight

\* A node of the frontier is added to the prefix.
LEMMA AddNextRight ==
  ASSUME IInv, AddNext
  PROVE  IInv'
<1> DEFINE i == Head(todo)
           s == Assigned(i)
<1>1. At("adding", "next") /\ Running
  BY DEF AddNext, At, Running
<1>2. /\ formula \in Formulas /\ stage = "adding" /\ step = "next" /\ queue = {}
      /\ NodesRight /\ Steps
  BY <1>1, AtRest
<1>3. /\ formula' = formula /\ stage' = stage /\ frontier' = frontier /\ gain' = gain
      /\ kept' = kept /\ history' = history /\ prefix' = prefix /\ changed' = changed
      /\ todo # <<>>
      /\ Work(s, IF s.res = Unchanged THEN {} ELSE {i})
      /\ \/ s.res = Unchanged /\ todo' = Tail(todo) /\ step' = step
         \/ step' = "level" /\ todo' = todo
  BY DEF AddNext
<1>4. i \in Ids /\ Tail(todo) \in Seq(Ids) /\ changed = {}
  BY <1>2, <1>3, EndsRight DEF Steps, Trials
<1>5. NodesRight'
  BY <1>2, <1>3, StillRight DEF NodesRight
<1>6. s.res = Unchanged => queue' = {}
  BY <1>3 DEF Work
<1>7. Reference' = Reference
  BY <1>2, <1>3 DEF Reference
<1> HIDE DEF i, s
<1>8. ~conflict' => DomainsRight'
  <2>1. s = Assigned(i)
    BY DEF s
  <2> QED
    BY <1>1, <1>2, <1>3, <1>4, <1>7, <2>1, TriedRight
<1>9. Steps'
  BY <1>2, <1>3, <1>4, <1>6, StillRight DEF Steps, Trials
<1> QED
  BY <1>2, <1>3, <1>5, <1>8, <1>9, NextRight

\* The roots without the last node, and the node after them.
LEMMA TestRight ==
  ASSUME IInv, Test
  PROVE  IInv'
<1> DEFINE i == Last(todo)
           s == Assigned(i)
<1>1. At("removing", "test") /\ Running
  BY DEF Test, At, Running
<1>2. /\ formula \in Formulas /\ stage = "removing" /\ step = "test" /\ queue = {}
      /\ NodesRight /\ Steps
  BY <1>1, AtRest
<1>3. /\ formula' = formula /\ stage' = stage /\ frontier' = frontier /\ gain' = gain
      /\ kept' = kept /\ history' = history /\ changed' = changed
      /\ todo' = todo /\ prefix' = prefix
      /\ Work(s, IF s.res = Unchanged THEN {} ELSE {i})
      /\ step' \in {"restore", "assigned"}
  BY DEF Test
<1>4. i \in Ids /\ todo # <<>>
  BY <1>2, EndsRight DEF Steps, Trials
<1>5. NodesRight'
  BY <1>2, <1>3, StillRight DEF NodesRight
<1>7. Reference' = Reference
  BY <1>2, <1>3 DEF Reference
<1> HIDE DEF i, s
<1>8. ~conflict' => DomainsRight'
  <2>1. s = Assigned(i)
    BY DEF s
  <2> QED
    BY <1>1, <1>2, <1>3, <1>4, <1>7, <2>1, TriedRight
<1>9. Steps'
  BY <1>2, <1>3, <1>4, StillRight DEF Steps, Trials
<1> QED
  BY <1>2, <1>3, <1>5, <1>8, <1>9, NextRight

\* The last node is kept.
LEMMA KeepRight ==
  ASSUME IInv, Keep
  PROVE  IInv'
<1> DEFINE i == Last(todo)
           s == Assigned(i)
<1>1. At("removing", "keep") /\ Running
  BY DEF Keep, At, Running
<1>2. /\ formula \in Formulas /\ stage = "removing" /\ step = "keep" /\ queue = {}
      /\ NodesRight /\ Steps
  BY <1>1, AtRest
<1>3. /\ formula' = formula /\ stage' = stage /\ frontier' = frontier /\ gain' = gain
      /\ kept' = kept /\ history' = history /\ changed' = changed
      /\ todo' = todo /\ prefix' = prefix
      /\ Work(s, IF s.res = Unchanged THEN {} ELSE {i})
      /\ step' = "store"
  BY DEF Keep
<1>4. i \in Ids /\ todo # <<>>
  BY <1>2, EndsRight DEF Steps, Trials
<1>5. NodesRight'
  BY <1>2, <1>3, StillRight DEF NodesRight
<1>7. Reference' = Reference
  BY <1>2, <1>3 DEF Reference
<1> HIDE DEF i, s
<1>8. ~conflict' => DomainsRight'
  <2>1. s = Assigned(i)
    BY DEF s
  <2> QED
    BY <1>1, <1>2, <1>3, <1>4, <1>7, <2>1, TriedRight
<1>9. Steps'
  BY <1>2, <1>3, <1>4, StillRight DEF Steps, Trials
<1> QED
  BY <1>2, <1>3, <1>5, <1>8, <1>9, NextRight

\* The gain of a node is counted, and what it changed rolled back.
LEMMA CountRight ==
  ASSUME IInv, Count
  PROVE  IInv'
<1>1. At("trying", "count") /\ Running
  BY DEF Count, At, Running
<1>2. /\ formula \in Formulas /\ stage = "trying" /\ queue = {} /\ ~conflict
      /\ NodesRight /\ Steps /\ step = "count"
      /\ Doms(dom) /\ changed \subseteq Ids /\ Remembered(history, dom, {}, changed)
  BY <1>1, AtRest DEF Reference
<1>3. /\ formula' = formula /\ stage' = stage /\ step' = "next" /\ frontier' = frontier
      /\ kept' = kept /\ history' = history /\ changed' = {} /\ queue' = queue
      /\ todo' = Tail(todo) /\ DOMAIN gain' = DOMAIN gain \union {Head(todo)}
      /\ dom' = RestoredFrom(history, 0, dom, changed)
  BY DEF Count
<1>4. /\ IsHistory(history) /\ Len(history) = 1 /\ MaxLevel(history) = 0
      /\ Head(todo) \in Ids /\ Tail(todo) \in Seq(Ids)
  <2>1. IsHistory(history) /\ Len(history) = 1 /\ todo \in Seq(Ids) /\ todo # <<>>
    BY <1>2 DEF Steps, Trials
  <2> QED
    BY <2>1, EndsRight DEF MaxLevel
<1>5. Doms(dom') /\ Remembered(history, dom', {}, {})
  BY <1>2, <1>3, <1>4, RollbackRight
<1>6. NodesRight'
  BY <1>2, <1>3, <1>4, StillRight DEF NodesRight
<1>7. Steps'
  BY <1>2, <1>3, <1>4, StillRight DEF Steps, Trials
<1>8. DomainsRight'
  <2>1. Reference' = history
    BY <1>2, <1>3 DEF Reference
  <2> QED
    BY <1>2, <1>3, <1>5, <2>1, StillRight
<1> QED
  BY <1>2, <1>3, <1>6, <1>7, <1>8, NextRight

\* The nodes are put in the order of their gain.
LEMMA SortRight ==
  ASSUME IInv, Sort
  PROVE  IInv'
<1>1. At("trying", "next") /\ Running
  BY DEF Sort, At, Running
<1>2. /\ formula \in Formulas /\ stage = "trying" /\ queue = {} /\ ~conflict
      /\ NodesRight /\ Steps /\ step = "next"
      /\ Doms(dom) /\ changed \subseteq Ids /\ Remembered(history, dom, {}, changed)
  BY <1>1, AtRest DEF Reference
<1>3. /\ formula' = formula /\ stage' = "adding" /\ step' = step /\ frontier' = frontier
      /\ kept' = kept /\ history' = history /\ gain' = gain
      /\ changed' = changed /\ queue' = queue /\ dom' = dom /\ conflict' = conflict
      /\ prefix' = NewHistory(history[1])
      /\ todo' \in [1 .. Cardinality(DOMAIN gain) -> DOMAIN gain]
  BY DEF Sort, workVars
<1>4. todo' \in Seq(Ids)
  <2> DEFINE n == Cardinality(DOMAIN gain)
  <2>1. n \in Nat
    <3>1. DOMAIN gain \subseteq Ids /\ IsFiniteSet(Ids)
      BY <1>2, IdsRight DEF NodesRight
    <3>2. IsFiniteSet(DOMAIN gain)
      BY <3>1, FS_Subset
    <3> QED
      BY <3>2, FS_CardinalityType
  <2> HIDE DEF n
  <2>2. todo' \in [1 .. n -> Ids]
    BY <1>2, <1>3 DEF NodesRight, n
  <2> QED
    BY <2>1, <2>2
<1>5. IsHistory(history) /\ Len(history) = 1 /\ IsLevel(history[1]) /\ changed = {}
  <2>1. IsHistory(history) /\ Len(history) = 1 /\ changed = {}
    BY <1>2 DEF Steps, Trials
  <2> QED
    BY <2>1 DEF IsHistory
<1>6. IsHistory(prefix') /\ Len(prefix') = 1 /\ prefix'[1] = history[1]
  BY <1>3, <1>5, NewHistoryRight
<1>7. Remembered(prefix', dom, {}, {})
  <2>1. \A i : Base(prefix', i) = Base(history, i)
    BY <1>5, <1>6, BaseFirst
  <2> QED
    BY <1>2, <1>5, <2>1 DEF Remembered
<1>8. NodesRight' /\ kept = <<>>
  BY <1>2, <1>3, StillRight DEF NodesRight
<1>9. Steps'
  BY <1>2, <1>3, <1>4, <1>5, <1>6, <1>8, StillRight DEF Steps, Trials
<1>10. DomainsRight'
  <2>1. Reference' = prefix'
    BY <1>3 DEF Reference
  <2> QED
    BY <1>2, <1>3, <1>5, <1>7, <2>1, StillRight
<1> QED
  BY <1>2, <1>3, <1>8, <1>9, <1>10, NextRight

\* A level of the prefix, with all that changed.
LEMMA AddLevelOfRight ==
  ASSUME IInv, AddLevelOf
  PROVE  IInv'
<1> DEFINE l == [i \in changed |-> dom[i]]
<1>1. At("adding", "level") /\ Running
  BY DEF AddLevelOf, At, Running
<1>2. /\ formula \in Formulas /\ stage = "adding" /\ queue = {} /\ ~conflict
      /\ NodesRight /\ Steps /\ step = "level"
      /\ Doms(dom) /\ changed \subseteq Ids /\ Remembered(prefix, dom, {}, changed)
  BY <1>1, AtRest DEF Reference
<1>3. /\ formula' = formula /\ stage' = stage /\ step' = "next" /\ frontier' = frontier
      /\ history' = history /\ gain' = gain
      /\ changed' = {} /\ queue' = queue /\ dom' = dom
      /\ prefix' = AddLevel(prefix, l)
      /\ kept' = Append(kept, Head(todo))
      /\ todo' = Tail(todo)
  BY DEF AddLevelOf
<1>4. /\ IsHistory(history) /\ Len(history) = 1
      /\ IsHistory(prefix) /\ Len(prefix) = Len(kept) + 1 /\ prefix[1] = history[1]
      /\ todo \in Seq(Ids) /\ todo # <<>>
  BY <1>2 DEF Steps, Trials
<1>5. Head(todo) \in Ids /\ Tail(todo) \in Seq(Ids) /\ kept \in Seq(Ids)
      /\ kept' \in Seq(Ids) /\ Len(kept') = Len(kept) + 1 /\ Len(kept) \in Nat
  <2>1. Head(todo) \in Ids /\ Tail(todo) \in Seq(Ids) /\ kept \in Seq(Ids)
    BY <1>2, <1>4, EndsRight DEF NodesRight
  <2> QED
    BY <1>3, <2>1
<1>6. IsLevel(l) /\ IsHistory(prefix') /\ Remembered(prefix', dom, {}, {})
  BY <1>2, <1>3, <1>4, StoreRight
<1> HIDE DEF l
<1>7. Len(prefix') = Len(kept') + 1 /\ prefix'[1] = history[1]
  <2>1. Len(prefix') = Len(prefix) + 1 /\ \A k \in 1 .. Len(prefix) : prefix'[k] = prefix[k]
    BY <1>3, <1>4, <1>6, AddLevelRight
  <2> QED
    BY <1>4, <1>5, <2>1
<1>8. NodesRight'
  BY <1>2, <1>3, <1>5, StillRight DEF NodesRight
<1>9. Steps'
  BY <1>2, <1>3, <1>4, <1>5, <1>6, <1>7, StillRight DEF Steps, Trials
<1>10. DomainsRight'
  <2>1. Reference' = prefix'
    BY <1>2, <1>3 DEF Reference
  <2> QED
    BY <1>2, <1>3, <1>6, <2>1, StillRight
<1> QED
  BY <1>2, <1>3, <1>8, <1>9, <1>10, NextRight

\* From adding to removing.
LEMMA TurnRight ==
  ASSUME IInv, Turn
  PROVE  IInv'
<1> DEFINE ids == ChangedNodes(prefix, Len(kept))
<1>1. At("adding", "next") /\ Running
  BY DEF Turn, At, Running
<1>2. /\ formula \in Formulas /\ stage = "adding" /\ queue = {} /\ ~conflict
      /\ NodesRight /\ Steps /\ step = "next"
      /\ Doms(dom) /\ changed \subseteq Ids /\ Remembered(prefix, dom, {}, changed)
  BY <1>1, AtRest DEF Reference
<1>3. /\ formula' = formula /\ step' = step /\ frontier' = frontier
      /\ history' = history /\ prefix' = prefix /\ gain' = gain /\ kept' = kept
      /\ changed' = changed /\ queue' = queue
      /\ \/ /\ dom' = RestoredFrom(history, 0, dom, ids)
            /\ todo' = kept
            /\ stage' = "removing"
         \/ stage' = "rebuild"
  BY DEF Turn
<1>4. /\ IsHistory(history) /\ Len(history) = 1 /\ MaxLevel(history) = 0 /\ changed = {}
      /\ IsHistory(prefix) /\ Len(prefix) = Len(kept) + 1 /\ prefix[1] = history[1]
      /\ kept \in Seq(Ids)
  BY <1>2 DEF Steps, Trials, NodesRight, MaxLevel
<1>5. ids \subseteq Ids /\ MaxLevel(prefix) = Len(kept) /\ Len(prefix) >= 1
  <2>1. ids \subseteq Ids
    BY <1>4, ChangedNodesRight
  <2>2. Len(kept) \in Nat
    BY <1>4
  <2> HIDE DEF ids
  <2> QED
    BY <1>4, <2>1, <2>2 DEF MaxLevel
<1>6. NodesRight'
  BY <1>2, <1>3, StillRight DEF NodesRight
<1>7. ASSUME stage' = "removing" PROVE Steps' /\ DomainsRight'
  <2>1. dom' = RestoredFrom(history, 0, dom, ids) /\ todo' = kept
    BY <1>3, <1>7
  <2>2. \A j \in Ids \ ids : Base(prefix, j) = Base(history, j)
    BY <1>4, <1>5, BaseUntouched
  <2> HIDE DEF ids
  <2>3. /\ Doms(dom')
        /\ \A j \in ids : Agree(dom'[j], Base(history, j))
        /\ \A j \in Ids \ ids : dom'[j] = dom[j]
    <3>1. AtLast(history, MaxLevel(history))
      BY DEF AtLast
    <3> DEFINE h == history
               g == RestoredFrom(h, MaxLevel(h), dom, ids)
    <3>2. dom' = g
      BY <1>4, <2>1
    <3>3. /\ Doms(g)
          /\ \A j \in ids : Agree(g[j], Base(h, j))
          /\ \A j \in Ids \ ids : g[j] = dom[j]
      BY <1>2, <1>4, <1>5, <3>1, RestoredRight
    <3> HIDE DEF g
    <3> QED
      BY <3>2, <3>3
  <2>4. Remembered(history, dom', {}, {})
    BY <1>2, <1>4, <2>2, <2>3 DEF Remembered
  <2>5. Reference' = history
    BY <1>3, <1>7 DEF Reference
  <2>6. Steps'
    BY <1>2, <1>3, <1>4, <1>7, <2>1, StillRight DEF Steps, Trials
  <2> QED
    BY <1>2, <1>3, <1>4, <2>3, <2>4, <2>5, <2>6, StillRight
<1> QED
  BY <1>2, <1>3, <1>6, <1>7, NextRight DEF Running

\* The level before that of the last node, merged.
LEMMA CheckRight ==
  ASSUME IInv, Check
  PROVE  IInv'
<1> DEFINE i     == Last(todo)
           level == Len(todo) - 1
           ids   == ChangedNodes(prefix, level)
           s     == MergeAll(Going(dom), ids, prefix, level)
           line  == {j \in ids : s.dom[j] # dom[j]}
<1>1. At("removing", "next") /\ Running
  BY DEF Check, At, Running
<1>2. /\ formula \in Formulas /\ stage = "removing" /\ queue = {} /\ ~conflict
      /\ NodesRight /\ Steps /\ step = "next"
      /\ Doms(dom) /\ changed \subseteq Ids /\ Remembered(history, dom, {}, changed)
  BY <1>1, AtRest DEF Reference
<1>3. /\ formula' = formula /\ stage' = stage /\ frontier' = frontier
      /\ history' = history /\ gain' = gain /\ kept' = kept /\ changed' = changed
      /\ todo # <<>> /\ prefix' = prefix
      /\ \/ todo' = Front(todo) /\ UNCHANGED <<dom, queue, step>>
         \/ step' = "keep" /\ UNCHANGED <<dom, queue, todo>>
         \/ Work(s, line) /\ step' = "test" /\ UNCHANGED todo
  BY DEF Check, MergeAll, MergeOf
<1>4. /\ IsHistory(history) /\ Len(history) >= 1 /\ todo \in Seq(Ids) /\ changed = {}
      /\ IsHistory(prefix)
  BY <1>2 DEF Steps, Trials
<1>5. Front(todo) \in Seq(Ids)
  BY <1>3, <1>4, EndsRight
<1>6. NodesRight'
  BY <1>2, <1>3, StillRight DEF NodesRight
<1>7. Reference' = history
  BY <1>2, <1>3 DEF Reference
<1> HIDE DEF line, s, ids
<1>8. ASSUME todo' = Front(todo) /\ UNCHANGED <<dom, queue, step>>
      PROVE  Steps' /\ DomainsRight'
  <2>1. Steps'
    BY <1>2, <1>3, <1>4, <1>5, <1>8, StillRight DEF Steps, Trials
  <2> QED
    BY <1>2, <1>3, <1>7, <1>8, <2>1, StillRight
<1>9. ASSUME step' = "keep" /\ UNCHANGED <<dom, queue, todo>>
      PROVE  Steps' /\ DomainsRight'
  <2>1. Steps'
    BY <1>2, <1>3, <1>4, <1>9, StillRight DEF Steps, Trials
  <2> QED
    BY <1>2, <1>3, <1>7, <1>9, <2>1, StillRight
<1>10. ASSUME Work(s, line) /\ step' = "test" /\ UNCHANGED todo, ~conflict'
       PROVE  Steps' /\ DomainsRight'
  <2>1. Steps'
    BY <1>2, <1>3, <1>4, <1>10, StillRight DEF Steps, Trials
  <2>2. dom' = s.dom /\ queue' = line
    BY <1>10 DEF Work
  <2>3. ids \subseteq Ids
    BY <1>4, ChangedNodesRight DEF ids
  <2>4. Moves(dom, s.dom, ids)
    <3>1. Touches(Going(dom), s, ids)
      BY <1>2, <2>3, MergeAllRight DEF s
    <3>2. Going(dom).dom = dom
      BY <1>2, DomsRight
    <3> QED
      BY <3>1, <3>2 DEF Touches
  <2>5. \A j \in ids \ line : j \in DOMAIN dom => Agree(s.dom[j], dom[j])
    BY DEF line, Agree
  <2>6. Doms(s.dom) /\ Remembered(history, s.dom, line, changed)
    BY <1>2, <2>4, <2>5, WorkRight
  <2>7. line \subseteq Ids
    BY <2>3 DEF line
  <2> QED
    BY <1>2, <1>3, <1>7, <2>1, <2>2, <2>6, <2>7, StillRight
<1> QED
  BY <1>2, <1>3, <1>6, <1>8, <1>9, <1>10, NextRight

\* What was tried is rolled back.
LEMMA RestoreRight ==
  ASSUME IInv, Restore
  PROVE  IInv'
<1>1. At("removing", step) /\ Running
  BY DEF Restore, At, Running
<1>2. /\ formula \in Formulas /\ stage = "removing" /\ queue = {} /\ ~conflict
      /\ NodesRight /\ Steps
      /\ Doms(dom) /\ changed \subseteq Ids /\ Remembered(history, dom, {}, changed)
  BY <1>1, AtRest DEF Reference
<1>3. /\ formula' = formula /\ stage' = stage /\ frontier' = frontier
      /\ gain' = gain /\ kept' = kept /\ prefix' = prefix
      /\ history' = history /\ changed' = {} /\ queue' = queue
      /\ step \in {"restore", "assigned"}
      /\ dom' = RestoredFrom(history, MaxLevel(history), dom, changed)
      /\ \/ todo' = Front(todo) /\ step' = "next"
         \/ todo' = todo /\ step' = "keep"
  BY DEF Restore
<1>4. /\ IsHistory(history) /\ Len(history) >= 1 /\ IsHistory(prefix)
      /\ todo \in Seq(Ids) /\ todo # <<>> /\ Front(todo) \in Seq(Ids)
  <2>1. /\ IsHistory(history) /\ Len(history) >= 1 /\ IsHistory(prefix)
        /\ todo \in Seq(Ids) /\ todo # <<>>
    BY <1>2, <1>3 DEF Steps, Trials
  <2> QED
    BY <2>1, EndsRight
<1>5. Doms(dom') /\ Remembered(history, dom', {}, {})
  BY <1>2, <1>3, <1>4, RollbackRight
<1>6. NodesRight'
  BY <1>2, <1>3, StillRight DEF NodesRight
<1>7. Steps'
  BY <1>2, <1>3, <1>4, StillRight DEF Steps, Trials
<1>8. DomainsRight'
  <2>1. Reference' = history
    BY <1>2, <1>3 DEF Reference
  <2> QED
    BY <1>2, <1>3, <1>5, <2>1, StillRight
<1> QED
  BY <1>2, <1>3, <1>6, <1>7, <1>8, NextRight

\* A level of the history, with all that changed.
LEMMA StoreStepRight ==
  ASSUME IInv, Store
  PROVE  IInv'
<1> DEFINE l == [i \in changed |-> dom[i]]
<1>1. At("removing", "store") /\ Running
  BY DEF Store, At, Running
<1>2. /\ formula \in Formulas /\ stage = "removing" /\ queue = {} /\ ~conflict
      /\ NodesRight /\ Steps /\ step = "store"
      /\ Doms(dom) /\ changed \subseteq Ids /\ Remembered(history, dom, {}, changed)
  BY <1>1, AtRest DEF Reference
<1>3. /\ formula' = formula /\ stage' = stage /\ frontier' = frontier
      /\ gain' = gain /\ kept' = kept /\ prefix' = prefix
      /\ changed' = {} /\ queue' = queue /\ dom' = dom
      /\ history' = AddLevel(history, l)
      /\ todo' = Front(todo) /\ step' = "next"
  BY DEF Store
<1>4. /\ IsHistory(history) /\ Len(history) >= 1 /\ IsHistory(prefix)
      /\ Front(todo) \in Seq(Ids)
  <2>1. /\ IsHistory(history) /\ Len(history) >= 1 /\ IsHistory(prefix)
        /\ todo \in Seq(Ids) /\ todo # <<>>
    BY <1>2, <1>3 DEF Steps, Trials
  <2> QED
    BY <2>1, EndsRight
<1>5. IsLevel(l) /\ IsHistory(history') /\ Remembered(history', dom, {}, {})
  BY <1>2, <1>3, <1>4, StoreRight
<1> HIDE DEF l
<1>6. Len(history') >= 1
  BY <1>3, <1>4, <1>5, AddLevelRight
<1>7. NodesRight'
  BY <1>2, <1>3, StillRight DEF NodesRight
<1>8. Steps'
  BY <1>2, <1>3, <1>4, <1>5, <1>6, StillRight DEF Steps, Trials
<1>9. DomainsRight'
  <2>1. Reference' = history'
    BY <1>2, <1>3 DEF Reference
  <2> QED
    BY <1>2, <1>3, <1>5, <2>1, StillRight
<1> QED
  BY <1>2, <1>3, <1>7, <1>8, <1>9, NextRight

\* Actions that leave run.
LEMMA LeaveRight ==
  ASSUME IInv, EndRemoving \/ Rebuild \/ SetUnsatFinal
  PROVE  IInv'
<1>1. formula \in Formulas /\ formula' = formula /\ stage' \in {"rebuild", "done"}
  BY DEF IInv, EndRemoving, Rebuild, SetUnsatFinal
<1> QED
  BY <1>1, NextRight DEF Running

\* Nothing is done.
LEMMA StutterRight ==
  ASSUME IInv, UNCHANGED vars
  PROVE  IInv'
BY DEF IInv, vars, workVars, pipeVars, Running, NodesRight, Steps, Trials, DomainsRight, Reference,
       Ids, Node, Doms, Fits, IsLevel, IsHistory, Remembered, Base

\* A step of run.
LEMMA RunRight ==
  ASSUME IInv, NoShift, Next
  PROVE  IInv'
<1>1. CASE Start
  BY <1>1, StartRight
<1>2. CASE Propagate
  BY <1>2, PropagateRight
<1>3. CASE MarkSymbols
  BY <1>3, MarkSymbolsRight
<1>4. CASE MarkInterior
  BY <1>4, MarkInteriorRight
<1>5. CASE StageLevelZero
  BY <1>5, StageLevelZeroRight
<1>6. CASE Try
  BY <1>6, TryRight
<1>7. CASE Count
  BY <1>7, CountRight
<1>8. CASE Sort
  BY <1>8, SortRight
<1>9. CASE AddNext
  BY <1>9, AddNextRight
<1>10. CASE AddLevelOf
  BY <1>10, AddLevelOfRight
<1>11. CASE Turn
  BY <1>11, TurnRight
<1>12. CASE Check
  BY <1>12, CheckRight
<1>13. CASE Test
  BY <1>13, TestRight
<1>14. CASE Restore
  BY <1>14, RestoreRight
<1>15. CASE Keep
  BY <1>15, KeepRight
<1>16. CASE Store
  BY <1>16, StoreStepRight
<1>17. CASE EndRemoving \/ Rebuild \/ SetUnsatFinal
  BY <1>17, LeaveRight
<1>18. CASE Finished
  BY <1>18, StutterRight DEF Finished
<1> QED
  BY <1>1, <1>2, <1>3, <1>4, <1>5, <1>6, <1>7, <1>8, <1>9, <1>10, <1>11, <1>12, <1>13, <1>14,
     <1>15, <1>16, <1>17, <1>18 DEF Next

\* After run the builder works on the domains, and run is over.
LEMMA AfterRunRight ==
  ASSUME IInv,
         PropagateOnly \/ PropagateOn \/ StageBaseline \/ Collect \/ Choose \/ Probe \/ EndProbe
           \/ Judge \/ Emit
  PROVE  IInv'
<1>1. formula \in Formulas
  BY DEF IInv
<1>2. CASE PropagateOnly \/ StageBaseline \/ Collect \/ Choose
  <2>1. formula' = formula /\ stage' \in {"baseline", "collecting", "choosing", "probing"}
    BY <1>2 DEF PropagateOnly, StageBaseline, Collect, Choose
  <2> QED
    BY <1>1, <2>1, NextRight DEF Running
<1>3. CASE PropagateOn
  <2>1. formula' = formula /\ stage' = stage /\ stage \in {"baseline", "probing"}
    BY <1>3 DEF PropagateOn, PropagateTop, pipeVars
  <2> QED
    BY <1>1, <2>1, NextRight DEF Running
<1>4. CASE Probe \/ EndProbe
  <2>1. formula' = formula /\ stage' = stage /\ stage = "probing"
    BY <1>4 DEF Probe, EndProbe, At
  <2> QED
    BY <1>1, <2>1, NextRight DEF Running
<1>5. CASE Judge \/ Emit
  <2>1. formula' = formula /\ stage' \in {"unsat", "choosing", "nosplit", "built"}
    BY <1>5 DEF Judge, Emit
  <2> QED
    BY <1>1, <2>1, NextRight DEF Running
<1> QED
  BY <1>2, <1>3, <1>4, <1>5

-----------------------------------------------------------------------------
(* The theorems.                                                           *)

\* The formula, and what holds of the domains in run.
THEOREM DomainsRemembered ==
  ASSUME NoShift
  PROVE  PassSpec => []IInv
<1>1. PassInit => IInv
  BY DEF PassInit, Init, IInv, NodesRight, Running
<1>2. IInv /\ [PassNext]_passVars => IInv'
  <2> SUFFICES ASSUME IInv, [PassNext]_passVars PROVE IInv'
    OBVIOUS
  <2>1. CASE Simplify
    BY <2>1, RunRight DEF Simplify
  <2>2. CASE PropagateOnly \/ PropagateOn \/ StageBaseline \/ Collect \/ Choose \/ Probe
             \/ EndProbe \/ Judge \/ Emit
    BY <2>2, AfterRunRight
  <2>3. CASE Exit \/ UNCHANGED passVars
    BY <2>3, StutterRight DEF Exit, passVars
  <2> QED
    BY <2>1, <2>2, <2>3 DEF PassNext
<1> QED
  BY <1>1, <1>2, PTL DEF PassSpec

\* RollbackComplete: whenever a trial of the frontier is over, every domain is
\* what the last level of the history has, and nothing is pending.
THEOREM RollbacksComplete ==
  ASSUME NoShift
  PROVE  PassSpec => []RollbackComplete
<1>1. IInv => RollbackComplete
  <2> SUFFICES ASSUME IInv, stage \in {"trying", "removing"}, step \in {"next", "keep"}, Propagated
               PROVE  NothingForgotten(history, MaxLevel(history)) /\ changed = {}
    BY DEF RollbackComplete
  <2>1. Steps /\ DomainsRight /\ queue = {}
    BY DEF IInv, Running, Propagated
  <2>2. changed = {} /\ Reference = history
    BY <2>1 DEF Steps, Trials, Reference
  <2>3. Doms(dom) /\ Remembered(history, dom, {}, {})
    BY <2>1, <2>2 DEF DomainsRight
  <2>4. ASSUME NEW i \in Ids
        PROVE  LET d == IF Has(history, MaxLevel(history), i)
                        THEN GetPtr(history, MaxLevel(history), i)
                        ELSE Fresh(Width(dom[i]))
               IN <<dom[i].bits, dom[i].iv>> = <<d.bits, d.iv>>
    <3>1. Width(dom[i]) = Node(i).width
      BY <2>3, FitsWidth DEF Doms
    <3>2. Agree(dom[i], Base(history, i))
      BY <2>3 DEF Remembered
    <3> QED
      BY <3>1, <3>2 DEF Base, Agree
  <2> QED
    BY <2>2, <2>4 DEF NothingForgotten
<1> QED
  BY <1>1, DomainsRemembered, PTL
=============================================================================
