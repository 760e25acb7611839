--------------------------- MODULE NodePropagation ---------------------------
(***************************************************************************)
(* One node and its children while propagate_node is called for it, from   *)
(* any domains the propagator can have.                                    *)
(***************************************************************************)
EXTENDS PropagationRules

CONSTANTS
  Checked,   \* bound: the kinds of nodes
  MaxWidth   \* bound: the largest width of a child

ASSUME BoundsAssumption == Checked \subseteq Kinds /\ MaxWidth \in Nat \ {0}

VARIABLES
  node,     \* d_nodes[o] and d_children[o]
  dom,      \* d_domains of the node and of its children
  result,   \* Result of the last call
  models    \* values of the nodes that all domains allowed at the start

vars == <<node, dom, result, models>>

Logical == {"equal", "ult", "slt"}

\* Bound: two different children, or the same one twice; an extract of the
\* upper bits.
Children(k) ==
  CASE k \in {"not", "extract"} -> {<<1>>}
    [] k = "ite" -> {<<1, 2, 3>>}
    [] OTHER -> {<<1, 2>>, <<1, 1>>}

Nodes ==
  {[kind |-> k, kids |-> kids, arg |-> IF k = "extract" THEN MaxWidth - 1 ELSE 0] :
     k \in Checked, kids \in UNION {Children(j) : j \in Checked}}

\* The width of node i around n when bit-vectors have w bits.
WidthAt(n, i, w) ==
  CASE i = 0 /\ n.kind \in Logical  -> 1
    [] i = 0 /\ n.kind = "concat"   -> 2 * w
    [] i = 0 /\ n.kind = "extract"  -> w - n.arg
    [] i = 1 /\ n.kind = "ite"      -> 1
    [] OTHER -> w

\* Bound: a domain starts as any of those that fixed bits and an interval
\* leave after tightening.
Starts(w) ==
  LET Cut == {c \in F(w)!Constraint : ~(c.compl /\ c.min + 1 = c.max)}
      Bits == [0 .. w - 1 -> {0, 1, Free}]
      Tight(b, c) ==
        LET s == SetBits(Going([i \in {"x"} |-> Fresh(w)]), "x", Restrict(b, {k \in DOMAIN b : b[k] # Free}))
            t == Clip(s, "x", c)
        IN TightenEach(TightenEach(t, <<"x">>), <<"x">>)
      Good == {t \in {Tight(b, c) : b \in Bits, c \in Cut} : ~Stopped(t)}
  IN {[t.dom["x"] EXCEPT !.pending = Unchanged] : t \in Good}

\* The values of the nodes that satisfy the node and its domains.
Models(n, d) ==
  LET wide == [i \in DOMAIN d |-> Width(d[i])]
      kids == DOMAIN d \ {0}
      vals == {v \in [kids -> 0 .. 2 ^ MaxWidth - 1] :
                 \A i \in kids : v[i] < 2 ^ wide[i] /\ Holds(d[i], v[i])}
  IN {[i \in DOMAIN d |-> IF i = 0 THEN Meaning(n, wide[0], v, wide) ELSE v[i]] :
        v \in {u \in vals : Holds(d[0], Meaning(n, wide[0], u, wide))}}

Value == [kind |-> "value", kids |-> <<>>, arg |-> 0]

\* Before a node is taken from the list.
Init ==
  /\ node = Value
  /\ dom = [i \in {0} |-> Fresh(1)]
  /\ result = Void
  /\ models = {}

\* A node on the list, after what other rules and the assignment of roots have
\* done to the domains.  Bound: something is known of at most two of them.
TakeFrom(Domains) ==
  \E n \in {m \in Nodes : m.kids \in Children(m.kind)}, w \in 1 .. MaxWidth :
    /\ n.arg < w
    /\ n.kind = "concat" => 2 * w <= MaxWidth
    /\ LET Ids   == {0} \union Range(n.kids)
           Of(i) == IF i \in Ids THEN Domains[WidthAt(n, i, w)] ELSE {Fresh(1)}
       IN \E o \in Of(0), a \in Of(1), b \in Of(2), c \in Of(3) :
            LET d == [i \in Ids |-> <<o, a, b, c>>[i + 1]]
            IN /\ Cardinality({i \in Ids : d[i] # Fresh(Width(d[i]))}) <= 2
               /\ dom' = d
               /\ models' = Models(n, d)
    /\ node' = n

Take ==
  /\ result = Void
  /\ TakeFrom([w \in 1 .. MaxWidth |-> Starts(w)])
  /\ result' = Updated

\* A conflict leaves the domains as they are half-way.
Leave(t) ==
  /\ result' = t.res
  /\ dom' = t.dom

Propagate ==
  /\ result = Updated
  /\ Leave(PropagateNode(dom, 0, node))
  /\ UNCHANGED <<node, models>>

Next == Take \/ Propagate

Spec == Init /\ [][Next]_vars

-----------------------------------------------------------------------------
\* No rule loses a solution, or reports a conflict while there is one.
RuleSound ==
  /\ models # {} => result # Conflict
  /\ result # Thrown
  /\ \A m \in models : \A i \in DOMAIN dom : Holds(dom[i], m[i])

Values == [i \in DOMAIN dom |-> {v \in 0 .. Ones(dom[i]) : Holds(dom[i], v)}]

Propagated == result # Void /\ dom' # dom

\* Domains never grow while there is a solution.
OnlyNarrower ==
  [][Propagated /\ models # {} => \A i \in DOMAIN dom : Values'[i] \subseteq Values[i]]_vars

\* A domain that is not what it was has a pending state that says so.
ChangesKept ==
  [][Propagated => \A i \in DOMAIN dom :
        <<dom'[i].bits, dom'[i].iv>> # <<dom[i].bits, dom[i].iv>> /\ node.kind # "ashr"
          => dom'[i].pending # Unchanged]_vars

\* Values of the children decide that of the node.
ChildrenDecide ==
  [][LET Decided == \A i \in Range(node.kids) : TotallyFixed(dom[i])
     IN result # Void /\ result' # Conflict /\ node.kind # "urem" /\ Decided
          => TotallyFixed(dom'[0])]_vars
=============================================================================
