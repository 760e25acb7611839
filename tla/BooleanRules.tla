---------------------------- MODULE BooleanRules ----------------------------
(***************************************************************************)
(* The rules of fdp_boolean.cpp, fdp_composition.cpp and fdp_ite.cpp, for  *)
(* Boolean nodes and bit-vectors alike: o is the node, a, b and c are its  *)
(* children.                                                               *)
(***************************************************************************)
EXTENDS RuleState, ComparisonRules

\* A bit of node i and a bit of node j are the same, or each the other's
\* complement.
Tie(s, i, k, j, l, Map(_)) ==
  LET x == s.dom[i].bits[k]
      y == s.dom[j].bits[l]
  IN IF x # Free THEN SetBit(s, j, l, Map(x))
     ELSE IF y # Free THEN SetBit(s, i, k, Map(y))
     ELSE s

-----------------------------------------------------------------------------
\* [min, max] of the complements.
Mirror(d) == [d.iv EXCEPT !.min = Ones(d) - d.iv.max, !.max = Ones(d) - d.iv.min]

ClipMirror(s, i, j) == Clip(s, i, Mirror(s.dom[j]))

Opposite(s, o, a) ==
  InOrder(s, Upward(Width(s.dom[o])),
          LAMBDA t, k : Tie(t, o, k, a, k, LAMBDA x : 1 - x))

Not(s, o, a) == ClipMirror(ClipMirror(Opposite(s, o, a), o, a), a, o)

\* One unknown bit among the three has to make the parity even; three known
\* ones are not looked at.
Xor(s, o, a, b) ==
  InOrder(s, Upward(Width(s.dom[o])), LAMBDA t, k :
    LET id      == <<o, a, b>>
        unknown == {p \in 1 .. 3 : ~IsFixed(t.dom[id[p]], k)}
        ones    == {p \in 1 .. 3 : t.dom[id[p]].bits[k] = 1}
    IN IF Cardinality(unknown) # 1 THEN t
       ELSE SetBit(t, id[CHOOSE p \in unknown : TRUE], k, Cardinality(ones) % 2))

\* Mutant of AndBit: two ones do not make a one.
AndBitDown(t, k, o, a, b) ==
  LET out     == t.dom[o].bits[k]
      kids    == <<t.dom[a].bits[k], t.dom[b].bits[k]>>
      unknown == {p \in 1 .. 2 : kids[p] = Free}
      zero    == 0 \in Range(kids)
  IN CASE out = 1 -> SetBit(SetBit(t, a, k, 1), b, k, 1)
       [] out = 0 /\ (zero \/ Cardinality(unknown) = 2) -> t
       [] out = 0 /\ ~zero /\ unknown = {} -> Failed(t)
       [] out = 0 /\ ~zero /\ Cardinality(unknown) = 1 ->
            SetBit(t, IF 1 \in unknown THEN a ELSE b, k, 0)
       [] out = Free /\ zero -> SetBit(t, o, k, 0)
       [] OTHER -> t

AndBit(t, k, o, a, b) ==
  LET out     == t.dom[o].bits[k]
      kids    == <<t.dom[a].bits[k], t.dom[b].bits[k]>>
      unknown == {p \in 1 .. 2 : kids[p] = Free}
      zero    == 0 \in Range(kids)
  IN CASE out = 1 -> SetBit(SetBit(t, a, k, 1), b, k, 1)
       [] out = 0 /\ (zero \/ Cardinality(unknown) = 2) -> t
       [] out = 0 /\ ~zero /\ unknown = {} -> Failed(t)
       [] out = 0 /\ ~zero /\ Cardinality(unknown) = 1 ->
            SetBit(t, IF 1 \in unknown THEN a ELSE b, k, 0)
       [] out = Free /\ zero -> SetBit(t, o, k, 0)
       [] out = Free /\ ~zero /\ unknown = {} -> SetBit(t, o, k, 1)
       [] OTHER -> t

AndBits(s, o, a, b) ==
  InOrder(s, Upward(Width(s.dom[o])), LAMBDA t, k : AndBit(t, k, o, a, b))

NotAbove(s, o, i) ==
  IF Stopped(s) \/ s.dom[i].iv.compl THEN s
  ELSE IF s.dom[o].iv.min > s.dom[i].iv.max THEN Failed(s)
  ELSE Clip(s, o, Normal(s.dom[o].iv.min, s.dom[i].iv.max))

\* A conjunction is at most as large as either child, when neither interval
\* is a complementary one; whether that of the node is is asked once.
AndIntervals(s, o, a, b) ==
  IF s.dom[o].iv.compl THEN s ELSE NotAbove(NotAbove(s, o, a), o, b)

And(s, o, a, b) == AndIntervals(AndBits(s, o, a, b), o, a, b)

-----------------------------------------------------------------------------
\* Bits alone, both ways.
Extract(s, o, a, low) ==
  InOrder(s, Upward(Width(s.dom[o])),
          LAMBDA t, k : Tie(t, o, k, a, low + k, LAMBDA x : x))

\* The last child has the lowest bits.
Concat(s, o, a, b) ==
  LET low == InOrder(s, Upward(Width(s.dom[b])),
                     LAMBDA t, k : Tie(t, o, k, b, k, LAMBDA x : x))
  IN InOrder(low, Upward(Width(s.dom[a])), LAMBDA t, k :
       Tie(t, o, Width(s.dom[b]) + k, a, k, LAMBDA x : x))

-----------------------------------------------------------------------------
\* FdpEqOperator on two nodes for a Boolean of its own, which is what a rule
\* uses when it has no node for the comparison.
OwnNode == -1

Equated(s, value, i, j) ==
  Equal([s EXCEPT !.dom = [n \in DOMAIN s.dom \union {OwnNode} |->
           IF n = OwnNode THEN value ELSE s.dom[n]]], OwnNode, i, j)

Without(s, nodes) == [s EXCEPT !.dom = [n \in DOMAIN s.dom \ nodes |-> s.dom[n]]]

MakeEqual(s, i, j) == Without(Equated(s, ConstantDomain(1, 1), i, j), {OwnNode})

\* Compared for what it says of the Boolean; its Result is not used.
SeemEqual(s, i, j) == ~IsZero(Equated(s, Fresh(1), i, j).dom[OwnNode])

\* Bits the children share are those of the node.
SharedBits(s, o, a, b) ==
  InOrder(s, Upward(Width(s.dom[o])), LAMBDA t, k :
    LET x == t.dom[a].bits[k]
    IN IF x # Free /\ x = t.dom[b].bits[k] THEN SetBit(t, o, k, x) ELSE t)

\* A child that cannot be the node decides the guard.
DecideGuard(s, o, g, a, b) ==
  IF TotallyFixed(s.dom[o]) /\ ~Holds(s.dom[o], ValueOf(s.dom[o].bits)) THEN Failed(s)
  ELSE InOrder(s, <<<<a, 0>>, <<b, 1>>>>, LAMBDA t, p :
         IF SeemEqual(t, p[1], o) THEN t ELSE SetBit(t, g, 0, p[2]))

\* With the guard known, the node is one child.
Ite(s, o, g, a, b) ==
  IF IsFixed(s.dom[g], 0) THEN MakeEqual(s, IF IsOne(s.dom[g]) THEN a ELSE b, o)
  ELSE DecideGuard(SharedBits(s, o, a, b), o, g, a, b)
=============================================================================
