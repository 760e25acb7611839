------------------------ MODULE NodePropagationProofs ------------------------
(***************************************************************************)
(* What propagate_node does to one node and its children, for every width  *)
(* and every choice of kinds: ChangesKept.  It follows from what the rules *)
(* do to any domains (RuleProofs), once the domains a node starts with are *)
(* known to be some of those the rules are about.                          *)
(***************************************************************************)
EXTENDS NodePropagation, RuleProofs

\* A node on the list has the children its kind takes, each with a domain.
NodeInv ==
  result # Void /\ node.kind # "ashr" =>
    /\ AreDomains(dom)
    /\ DOMAIN dom = {0} \union Range(node.kids)
    /\ Range(node.kids) \subseteq {1, 2, 3}
    /\ IsInner(node, DOMAIN dom)

-----------------------------------------------------------------------------
(* Before a node is taken.                                                 *)

\* What fixed bits and an interval leave of a domain is one.
LEMMA TightRight ==
  ASSUME NEW w \in Nat, NEW b, NEW c, NEW t,
         t = LET s == SetBits(Going([i \in {"x"} |-> Fresh(w)]), "x",
                              Restrict(b, {k \in DOMAIN b : b[k] # Free}))
                 u == Clip(s, "x", c)
             IN TightenEach(TightenEach(u, <<"x">>), <<"x">>)
  PROVE  IsDomain(t.dom["x"]) /\ \E v : Wide(v, t.dom["x"])
<1> DEFINE f    == [i \in {"x"} |-> Fresh(w)]
           g    == Going(f)
           bits == Restrict(b, {k \in DOMAIN b : b[k] # Free})
           s    == SetBits(g, "x", bits)
           u    == Clip(s, "x", c)
           x    == TightenEach(u, <<"x">>)
           ids  == {"x"}
<1>1. Touches(g, g, ids)
  <2>1. AreDomains(f)
    BY FreshRight DEF AreDomains
  <2>2. DOMAIN f = ids
    OBVIOUS
  <2> HIDE DEF f, ids
  <2> QED
    BY <2>1, <2>2, GoingRight, TouchesSelf
<1>2. "x" \in ids /\ <<"x">> \in Seq(ids)
  OBVIOUS
<1> HIDE DEF g, bits, ids
<1>3. Touches(g, u, ids)
  <2>1. Touches(g, s, ids)
    BY <1>1, <1>2, SetBitsTouches
  <2> HIDE DEF s
  <2> QED
    BY <1>2, <2>1, ClipTouches
<1> HIDE DEF u
<1>4. Touches(g, x, ids)
  BY <1>2, <1>3, TightenEachTouches
<1> HIDE DEF x
<1>5. Touches(g, t, ids)
  <2>1. t = TightenEach(x, <<"x">>)
    BY DEF x, u, s, g, f, bits
  <2>2. Touches(g, TightenEach(x, <<"x">>), ids)
    BY <1>2, <1>4, TightenEachTouches
  <2> QED
    BY <2>1, <2>2
<1> QED
  BY <1>2, <1>5 DEF Touches, IsState, Moves, AreDomains

\* Whatever a domain starts as.
LEMMA StartsRight ==
  ASSUME NEW w \in Nat, NEW d \in Starts(w)
  PROVE  IsDomain(d) /\ \E v : Wide(v, d)
<1> DEFINE Tight(b, c) ==
             LET s == SetBits(Going([i \in {"x"} |-> Fresh(w)]), "x",
                              Restrict(b, {k \in DOMAIN b : b[k] # Free}))
                 u == Clip(s, "x", c)
             IN TightenEach(TightenEach(u, <<"x">>), <<"x">>)
           Cut == {c \in F(w)!Constraint : ~(c.compl /\ c.min + 1 = c.max)}
           Bits == [0 .. w - 1 -> {0, 1, Free}]
           Good == {t \in {Tight(b, c) : b \in Bits, c \in Cut} : ~Stopped(t)}
<1>0. Starts(w) = {[t.dom["x"] EXCEPT !.pending = Unchanged] : t \in Good}
  BY DEF Starts
<1> HIDE DEF Bits, Cut, Tight
<1>1. PICK b, c, t :
        t = Tight(b, c) /\ d = [t.dom["x"] EXCEPT !.pending = Unchanged]
  BY <1>0
<1> DEFINE e == t.dom["x"]
<1>2. IsDomain(e) /\ \E v : Wide(v, e)
  BY <1>1, TightRight DEF Tight
<1>3. d = [e EXCEPT !.pending = Unchanged]
  BY <1>1
<1> HIDE DEF e
<1>4. d = [bits |-> e.bits, iv |-> e.iv, last |-> e.last, pending |-> Unchanged]
  BY <1>2, <1>3 DEF IsDomain
<1>5. IsDomain(d) /\ d.bits = e.bits
  BY <1>4 DEF IsDomain
<1> QED
  BY <1>2, <1>5 DEF Wide

\* The widths around a node are in bounds.
LEMMA WidthAtRight ==
  ASSUME NEW n \in Nodes, NEW w \in 1 .. MaxWidth, n.arg < w,
         n.kind = "concat" => 2 * w <= MaxWidth, NEW i
  PROVE  WidthAt(n, i, w) \in 1 .. MaxWidth
<1>1. MaxWidth \in Nat \ {0} /\ n.arg \in {0, MaxWidth - 1}
  BY BoundsAssumption DEF Nodes
<1> QED
  BY <1>1 DEF WidthAt

\* A node of a kind, with children for it.
LEMMA NodesRight ==
  ASSUME NEW n \in Nodes, n.kids \in Children(n.kind)
  PROVE  /\ n.kind \in Kinds
         /\ n.kids \in Seq({1, 2, 3}) /\ Len(n.kids) = Arity(n.kind)
         /\ Range(n.kids) \subseteq {1, 2, 3}
<1>1. n.kind \in Kinds
  BY BoundsAssumption DEF Nodes
<1>2. n.kids \in Seq({1, 2, 3}) /\ Len(n.kids) = Arity(n.kind)
  <2> DEFINE ks == n.kids
             kind == n.kind
  <2>0. ks \in Children(kind)
    OBVIOUS
  <2> HIDE DEF ks, kind
  <2>1. CASE kind \in {"not", "extract"}
    <3>1. ks = <<1>> /\ Arity(kind) = 1
      BY <2>0, <2>1 DEF Children, Arity
    <3> QED
      BY <3>1 DEF ks, kind
  <2>2. CASE kind = "ite"
    <3>1. ks = <<1, 2, 3>> /\ Arity(kind) = 3
      BY <2>0, <2>2 DEF Children, Arity
    <3> QED
      BY <3>1 DEF ks, kind
  <2>3. CASE kind \notin {"not", "extract", "ite"}
    <3>1. ks \in {<<1, 2>>, <<1, 1>>} /\ Arity(kind) = 2
      BY <2>0, <2>3 DEF Children, Arity
    <3>2. CASE ks = <<1, 2>>
      BY <3>1, <3>2 DEF ks, kind
    <3>3. CASE ks = <<1, 1>>
      BY <3>1, <3>3 DEF ks, kind
    <3> QED
      BY <3>1, <3>2, <3>3
  <2> QED
    BY <2>1, <2>2, <2>3
<1>3. Range(n.kids) \subseteq {1, 2, 3}
  BY <1>2 DEF Range
<1> QED
  BY <1>1, <1>2, <1>3

\* Taking a node.
LEMMA TakeRight ==
  ASSUME Take
  PROVE  NodeInv'
<1> DEFINE Domains == [w \in 1 .. MaxWidth |-> Starts(w)]
<1>0. PICK n \in {m \in Nodes : m.kids \in Children(m.kind)}, w \in 1 .. MaxWidth :
        /\ n.arg < w
        /\ n.kind = "concat" => 2 * w <= MaxWidth
        /\ LET Ids   == {0} \union Range(n.kids)
               Of(i) == IF i \in Ids THEN Domains[WidthAt(n, i, w)] ELSE {Fresh(1)}
           IN \E o \in Of(0), a \in Of(1), b \in Of(2), c \in Of(3) :
                LET d == [i \in Ids |-> <<o, a, b, c>>[i + 1]]
                IN /\ Cardinality({i \in Ids : d[i] # Fresh(Width(d[i]))}) <= 2
                   /\ dom' = d
                   /\ models' = Models(n, d)
        /\ node' = n
  <2>1. TakeFrom(Domains)
    BY DEF Take
  <2> HIDE DEF Domains
  <2> QED
    BY <2>1, Zenon DEF TakeFrom
<1>1. /\ n \in Nodes /\ n.kids \in Children(n.kind)
      /\ n.arg < w /\ (n.kind = "concat" => 2 * w <= MaxWidth)
      /\ node' = n
  BY <1>0
<1> DEFINE Ids   == {0} \union Range(n.kids)
           Of(i) == IF i \in Ids THEN Domains[WidthAt(n, i, w)] ELSE {Fresh(1)}
<1>2. \A i : WidthAt(n, i, w) \in 1 .. MaxWidth
  BY <1>1, WidthAtRight
<1>3. /\ n.kind \in Kinds
      /\ n.kids \in Seq({1, 2, 3}) /\ Len(n.kids) = Arity(n.kind)
      /\ Range(n.kids) \subseteq {1, 2, 3}
  BY <1>1, NodesRight
<1>4. PICK o \in Of(0), a \in Of(1), b \in Of(2), c \in Of(3) :
        dom' = [i \in Ids |-> <<o, a, b, c>>[i + 1]]
  <2> HIDE DEF Domains
  <2>1. \E o \in Of(0), a \in Of(1), b \in Of(2), c \in Of(3) :
          LET d == [i \in Ids |-> <<o, a, b, c>>[i + 1]]
          IN /\ Cardinality({i \in Ids : d[i] # Fresh(Width(d[i]))}) <= 2
             /\ dom' = d
             /\ models' = Models(n, d)
    BY <1>0
  <2> HIDE DEF Ids, Of
  <2> QED
    BY <2>1
<1>5. ASSUME NEW i, NEW d \in Of(i) PROVE IsDomain(d) /\ \E v : Wide(v, d)
  <2>1. CASE i \in Ids
    <3> DEFINE v == WidthAt(n, i, w)
    <3>1. v \in Nat /\ d \in Starts(v)
      BY <1>2, <1>5, <2>1
    <3> HIDE DEF v
    <3> QED
      BY <3>1, StartsRight
  <2>2. CASE i \notin Ids
    <3>1. d = Fresh(1)
      BY <1>5, <2>2
    <3> QED
      BY <3>1, FreshRight
  <2> QED
    BY <2>1, <2>2
<1>6. /\ IsDomain(o) /\ \E v : Wide(v, o)
      /\ IsDomain(a) /\ \E v : Wide(v, a)
      /\ IsDomain(b) /\ \E v : Wide(v, b)
      /\ IsDomain(c) /\ \E v : Wide(v, c)
  BY <1>5
<1> HIDE DEF Of
<1>7. AreDomains(dom') /\ DOMAIN dom' = Ids
  <2>1. DOMAIN dom' = Ids /\ Ids \subseteq {0, 1, 2, 3}
    BY <1>3, <1>4
  <2>2. \A i \in Ids : dom'[i] \in {o, a, b, c}
    BY <1>4, <2>1
  <2> QED
    BY <1>6, <2>1, <2>2 DEF AreDomains
<1>8. n.kids \in Seq(Ids)
  <2>1. \A k \in 1 .. Len(n.kids) : n.kids[k] \in Range(n.kids)
    BY <1>3 DEF Range
  <2>2. n.kids = [k \in 1 .. Len(n.kids) |-> n.kids[k]] /\ Len(n.kids) \in Nat
    BY <1>3
  <2> QED
    BY <2>1, <2>2
<1> HIDE DEF Ids
<1>9. IsInner(n, Ids)
  BY <1>3, <1>8 DEF IsInner
<1> QED
  BY <1>1, <1>3, <1>7, <1>9 DEF NodeInv, Ids

-----------------------------------------------------------------------------
(* propagate_node.                                                         *)

\* What became of the domains of a node.
LEMMA PropagateMoves ==
  ASSUME NodeInv, Propagate, node.kind # "ashr"
  PROVE  Moves(dom, dom', DOMAIN dom)
<1> DEFINE t == PropagateNode(dom, 0, node)
           ids == DOMAIN dom
<1>1. /\ AreDomains(dom) /\ ids = {0} \union Range(node.kids)
      /\ Range(node.kids) \subseteq {1, 2, 3} /\ IsInner(node, ids)
  BY DEF NodeInv, Propagate, Updated, Void
<1>2. OwnIds \cap ids = {} /\ 0 \in ids
  BY <1>1 DEF OwnIds, OwnNode, TurnedOp, TurnedOut
<1> HIDE DEF ids
<1>3. IsState(t) /\ Moves(dom, t.dom, ids)
  <2>1. ids \subseteq DOMAIN dom /\ OwnIds \cap DOMAIN dom = {}
    BY <1>2 DEF ids
  <2> QED
    BY <1>1, <1>2, <2>1, PropagateNodeMoves
<1> HIDE DEF t
<1>4. dom' = t.dom
  BY DEF Propagate, Leave, t
<1> QED
  BY <1>3, <1>4 DEF ids

\* What a node on the list has is kept by propagate_node.
THEOREM NodesKept == Spec => []NodeInv
<1>1. Init => NodeInv
  BY DEF Init, NodeInv
<1>2. NodeInv /\ [Next]_vars => NodeInv'
  <2> SUFFICES ASSUME NodeInv, [Next]_vars PROVE NodeInv'
    OBVIOUS
  <2>1. CASE Take
    BY <2>1, TakeRight
  <2>2. CASE Propagate
    <3>1. result # Void /\ node' = node
      BY <2>2 DEF Propagate, Updated, Void
    <3>2. CASE node.kind # "ashr"
      <4>1. Moves(dom, dom', DOMAIN dom)
        BY <2>2, <3>2, PropagateMoves
      <4>2. DOMAIN dom' = DOMAIN dom /\ AreDomains(dom')
        BY <4>1 DEF Moves
      <4> QED
        BY <3>1, <3>2, <4>2 DEF NodeInv
    <3>3. CASE node.kind = "ashr"
      BY <3>1, <3>3 DEF NodeInv
    <3> QED
      BY <3>2, <3>3
  <2>3. CASE UNCHANGED vars
    BY <2>3 DEF NodeInv, vars
  <2> QED
    BY <2>1, <2>2, <2>3 DEF Next
<1> QED
  BY <1>1, <1>2, PTL DEF Spec

\* ChangesKept: a domain with other bits or another interval after
\* propagate_node has a pending state, whatever the kind of its node, but for
\* an arithmetic shift, the rule of which replaces domains by copies.
THEOREM ChangesKeptRight == Spec => ChangesKept
<1> DEFINE Kept == Propagated => \A i \in DOMAIN dom :
             <<dom'[i].bits, dom'[i].iv>> # <<dom[i].bits, dom[i].iv>> /\ node.kind # "ashr"
               => dom'[i].pending # Unchanged
<1>1. NodeInv /\ [Next]_vars => [Kept]_vars
  <2> SUFFICES ASSUME NodeInv, Next, Propagated, NEW i \in DOMAIN dom,
                      <<dom'[i].bits, dom'[i].iv>> # <<dom[i].bits, dom[i].iv>>,
                      node.kind # "ashr"
               PROVE  dom'[i].pending # Unchanged
    OBVIOUS
  <2>1. Propagate
    BY DEF Next, Take, Propagated
  <2>2. Follows(dom[i], dom'[i])
    BY <2>1, PropagateMoves DEF Moves
  <2>3. Reported(0, dom[i], dom'[i])
    BY <2>2 DEF Follows
  <2>4. ~Same(dom[i], dom'[i])
    BY DEF Same
  <2> QED
    BY <2>3, <2>4 DEF Reported, Changed, Updated, Unchanged
<1> QED
  BY <1>1, NodesKept, PTL DEF Spec, ChangesKept
=============================================================================
