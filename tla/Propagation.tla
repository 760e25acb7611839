----------------------------- MODULE Propagation -----------------------------
(***************************************************************************)
(* The work list of the domain propagator (propagator.cpp): the nodes of a *)
(* formula with their domains, the queue of nodes to propagate and the set *)
(* of those whose domains have changed.  Everything the propagator and the *)
(* builder of partition tasks find out goes through PropagateTop.          *)
(*                                                                         *)
(* A formula has its nodes in topological order, parents before children,  *)
(* and the sequence of its roots.                                          *)
(***************************************************************************)
EXTENDS PropagationRules, PrefixArray

CONSTANT Formulas

\* What is assumed of the nodes: as many children as the kind takes, and a
\* bit-vector among those of a kind that is not one of Booleans.
IsFormula(f) ==
  /\ IsFiniteSet(DOMAIN f.nodes)
  /\ DOMAIN f.nodes = 0 .. Cardinality(DOMAIN f.nodes) - 1
  /\ f.roots \in Seq(DOMAIN f.nodes)
  /\ \A i \in DOMAIN f.nodes :
       LET n == f.nodes[i]
       IN /\ n.width \in Nat \ {0}
          /\ n.kids \in Seq(DOMAIN f.nodes)
          /\ \/ n.kind \in {"symbol", "value"}
             \/ n.kind \in Kinds /\ Len(n.kids) = Arity(n.kind)
          /\ n.kind \in Kinds \ BooleanKinds => \E k \in Range(n.kids) : ~f.nodes[k].bool

ASSUME FormulaAssumption == \A f \in Formulas : IsFormula(f)

VARIABLES
  formula,   \* d_nodes, d_children, d_roots
  worlds,    \* values of all nodes, for all values of the symbols
  dom,       \* d_domains
  queue,     \* d_queue, d_enqueued
  changed,   \* d_changed_nodes, d_changed
  conflict   \* d_conflict

workVars == <<dom, queue, changed, conflict>>

-----------------------------------------------------------------------------
(* The formula.                                                            *)

Ids        == DOMAIN formula.nodes
Node(i)    == formula.nodes[i]
Kids(i)    == Range(Node(i).kids)
Parents(i) == {p \in Ids : i \in Kids(p)}
Symbols    == {i \in Ids : Node(i).kind = "symbol"}
Constants  == {i \in Ids : Node(i).kind = "value"}
Roots      == Range(formula.roots)

FromTop    == Upward(Cardinality(Ids))
FromBottom == Downward(Cardinality(Ids))

\* The values of the nodes of f, from those of its symbols; a node in known
\* has the value known says instead.
Evaluated(f, symbols, known) ==
  LET wide == [i \in DOMAIN f.nodes |-> f.nodes[i].width]
      Value(val, i) ==
        LET n == f.nodes[i]
        IN CASE i \in DOMAIN known -> known[i]
             [] n.kind = "symbol"  -> symbols[i]
             [] n.kind = "value"   -> n.arg
             [] OTHER              -> Meaning(n, n.width, val, wide)
  IN InTurn([i \in DOMAIN f.nodes |-> 0], Downward(Cardinality(DOMAIN f.nodes)),
            LAMBDA val, i : [val EXCEPT ![i] = Value(val, i)])

WorldsOf(f) ==
  LET symbols == {i \in DOMAIN f.nodes : f.nodes[i].kind = "symbol"}
      any == [symbols -> 0 .. 7]  \* bound: symbols of at most three bits
  IN {Evaluated(f, v, <<>>) :
        v \in {u \in any : \A i \in symbols : u[i] < 2 ^ f.nodes[i].width}}

Models == {w \in worlds : \A r \in Roots : w[r] = 1}

Inside(w, doms) == \A i \in DOMAIN doms : Holds(doms[i], w[i])

-----------------------------------------------------------------------------
(* The work list.                                                          *)

FreshDomains == [i \in Ids |-> Fresh(Node(i).width)]

Pending(doms) == {i \in DOMAIN doms : doms[i].pending # Unchanged}

\* set_constant_domains on domains doms.
WithConstants(doms) ==
  InOrder(Going(doms), FromTop, LAMBDA s, i :
    IF i \in Constants THEN SetConstant(s, i, Node(i).arg) ELSE s)

\* consume_domain_state
Consumed(d) ==
  [d EXCEPT !.pending = Unchanged,
            !.last = IF d.pending = Updated THEN F(Width(d))!IntervalSize(d.iv) ELSE @]

\* Kids that are not propagated further, but collected.
TouchedKids(doms, i) == {k \in Kids(i) : doms[k].pending = Changed}

Top == CHOOSE i \in queue : \A j \in queue : j <= i

\* What is known of node i after its rule, t, and who is to be told.
Settle(i, t) ==
  IF Stopped(t)
    THEN /\ conflict' = TRUE
         /\ dom' = t.dom
         /\ queue' = queue \ {i}
         /\ changed' = changed \union {i} \union Kids(i) \union Pending(t.dom) \union queue
    ELSE /\ dom' = [t.dom EXCEPT ![i] = Consumed(@)]
         /\ queue' = (queue \ {i})
              \union (IF t.dom[i].pending = Updated THEN Parents(i) ELSE {})
              \union {k \in Kids(i) : t.dom[k].pending = Updated}
         /\ changed' = changed \union TouchedKids(t.dom, i)
              \union (IF t.dom[i].pending = Unchanged THEN {} ELSE {i})
         /\ UNCHANGED conflict

RunNode(i) ==
  IF i \in Symbols \union Constants THEN Going(dom) ELSE PropagateNode(dom, i, Node(i))

\* One round of feasible_domain_propagate.  A conflict leaves the domains as
\* the rule has changed them so far.
PropagateTop ==
  /\ ~conflict
  /\ queue # {}
  /\ Settle(Top, RunNode(Top))
  /\ UNCHANGED <<formula, worlds>>

Propagated == queue = {} /\ ~conflict

\* Mutant of RestoredFrom: the levels after 0 are forgotten.
RestoredFromZero(h, level, doms, ids) ==
  [i \in DOMAIN doms |->
     IF i \notin ids THEN doms[i]
     ELSE IF Has(h, 0, i) THEN CopyFrom(GetPtr(h, 0, i))
     ELSE Fresh(Width(doms[i]))]

\* Domains as stored at a level: those of the other nodes are fresh.
RestoredFrom(h, level, doms, ids) ==
  [i \in DOMAIN doms |->
     IF i \notin ids THEN doms[i]
     ELSE IF Has(h, level, i) THEN CopyFrom(GetPtr(h, level, i))
     ELSE Fresh(Width(doms[i]))]

\* Begins again with domains of a symbolic step: what changed is on the list.
Work(s, ids) ==
  /\ conflict' = Stopped(s)
  /\ dom' = s.dom
  /\ queue' = IF Stopped(s) THEN {} ELSE ids

\* run_full_propagation up to its feasible_domain_propagate.
FullPropagation ==
  LET c == WithConstants(FreshDomains)
      r == InOrder(c, formula.roots, LAMBDA s, i : SetConstant(s, i, 1))
  IN /\ Work(r, Pending(r.dom))
     /\ changed' = {}
     /\ worlds' = WorldsOf(formula)

\* A step of the domains is remembered until somebody has looked at it.
NothingForgotten(stored, level) ==
  \A i \in Ids \ (changed \union Pending(dom)) :
    LET d == IF Has(stored, level, i) THEN GetPtr(stored, level, i)
             ELSE Fresh(Width(dom[i]))
    IN <<dom[i].bits, dom[i].iv>> = <<d.bits, d.iv>>

AllRootsTrue == \A r \in Roots : IsOne(dom[r])
=============================================================================
