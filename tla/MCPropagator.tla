----------------------------- MODULE MCPropagator -----------------------------
(***************************************************************************)
(* Small formulas for the runs of PartitionTasks, as the rewriter leaves   *)
(* them: no exclusive or of Booleans, no operation on values alone and no  *)
(* operator with the same operand twice.                                   *)
(***************************************************************************)
EXTENDS PartitionTasks

S(w)          == [kind |-> "symbol", kids |-> <<>>, arg |-> 0, width |-> w, bool |-> FALSE]
P             == [kind |-> "symbol", kids |-> <<>>, arg |-> 0, width |-> 1, bool |-> TRUE]
V(w, a)       == [kind |-> "value", kids |-> <<>>, arg |-> a, width |-> w, bool |-> FALSE]
B(k, kids)    == [kind |-> k, kids |-> kids, arg |-> 0, width |-> 1, bool |-> TRUE]
N(k, w, kids) == [kind |-> k, kids |-> kids, arg |-> 0, width |-> w, bool |-> FALSE]
X(low, kids)  == [kind |-> "extract", kids |-> kids, arg |-> low, width |-> 1, bool |-> FALSE]

Of(nodes, roots) == [nodes |-> [i \in 0 .. Len(nodes) - 1 |-> nodes[i + 1]], roots |-> roots]

\* An operation compared with c, and its first operand below d.
Bounded(op, compare, c, d) ==
  Of(<<B(compare, <<2, 5>>), B("ult", <<3, 6>>), N(op, 2, <<3, 4>>), S(2), S(2),
       V(2, c), V(2, d)>>, <<0, 1>>)

\* A sum that is not c, of a symbol and a symbol or the value d; a bound.
NotSum(second, c, d) ==
  Of(<<B("not", <<2>>), B("ult", <<4, 7>>), B("equal", <<3, 6>>), N("add", 2, <<4, 5>>),
       S(2), second, V(2, c), V(2, d)>>, <<0, 1>>)

\* Of x < c, x < y and y >= c, the second follows from the others.
Between(c) ==
  Of(<<B("ult", <<4, 6>>), B("ult", <<4, 5>>), B("not", <<3>>), B("ult", <<5, 6>>),
       S(3), S(3), V(3, c)>>, <<0, 1, 2>>)

\* A sum t with t < 4, t < z and z < 5: the last two imply the first, which
\* fixes more bits.
Chained ==
  Of(<<B("ult", <<3, 6>>), B("ult", <<3, 5>>), B("ult", <<5, 7>>), N("add", 3, <<4, 8>>),
       S(3), S(3), V(3, 4), V(3, 5), V(3, 1)>>, <<0, 1, 2>>)

\* Booleans that share children with each other and with atoms.
Skeleton(k0, k1, k2, k3, d) ==
  Of(<<B(k0, <<2, 3>>), B(k1, <<3, 4>>), B("not", <<4>>), B(k2, <<4, 5>>), P,
       B(k3, <<6, 7>>), S(2), V(2, d)>>, <<0, 1>>)

\* Not both of two comparisons, a bound, and perhaps another comparison.
NotBoth(k1, k2, c, d, roots) ==
  Of(<<B("not", <<2>>), B("ult", <<6, 8>>), B("and", <<3, 4>>), B(k1, <<6, 9>>),
       B(k2, <<6, 7>>), B("slt", <<7, 8>>), S(2), S(2), V(2, c), V(2, d)>>, roots)

\* Choices between atoms and between bit-vectors.
Choice(k, c, d) ==
  Of(<<B("ite", <<3, 4, 5>>), B(k, <<2, 6>>), N("ite", 2, <<3, 7, 8>>), P,
       B("ult", <<7, 8>>), B("equal", <<7, 9>>), V(2, c), S(2), S(2), V(2, d)>>, <<0, 1>>)

\* Bits of symbols put together, and a bit-vector that is negated.
Pieces(k, c) ==
  Of(<<B(k, <<2, 8>>), B("ult", <<5, 6>>), N("concat", 2, <<3, 4>>), X(1, <<7>>),
       X(0, <<6>>), N("not", 2, <<6>>), S(2), S(2), V(2, c)>>, <<0, 1>>)

\* A symbol that is -1 or 0, in an atom with another one.
NearZero(k) ==
  Of(<<B("ult", <<2, 5>>), B(k, <<3, 6>>), N("add", 3, <<3, 4>>), S(3), V(3, 1), V(3, 2),
       S(3)>>, <<0, 1>>)

\* A choice that a bound decides: its second child is false.
Decided(k) ==
  Of(<<B("ite", <<2, 3, 4>>), B("ult", <<6, 7>>), P, B(k, <<5, 6>>), B("equal", <<6, 7>>),
       S(2), S(2), V(2, 3)>>, <<0, 1>>)

\* A conjunction that a bound makes true, and an atom with it.
Both(k) ==
  Of(<<B("equal", <<2, 3>>), B("ult", <<7, 9>>), B("and", <<4, 5>>), B("ult", <<7, 8>>), P,
       B(k, <<6, 7>>), S(2), S(2), V(2, 3), V(2, 2)>>, <<0, 1>>)

Orders == {"ult", "slt"}

PassFormulas ==
  {Bounded(op, k, c, d) : op \in {"and", "xor", "add", "mul", "udiv", "urem", "shl", "shr"},
                          k \in {"equal", "ult", "slt"}, c \in 1 .. 3, d \in 2 .. 3}
  \union {NotSum(s, c, d) : s \in {S(2), V(2, 1), V(2, 3)}, c \in 0 .. 2, d \in 2 .. 3}
  \union {Between(c) : c \in {3, 5}} \union {Chained}
  \union {Skeleton(a, b, c, k, 2) : a, b, c \in {"and", "equal"}, k \in {"ult", "equal"}}
  \union {NotBoth("equal", k, c, 1, <<0, 1>>) : k \in Orders \union {"equal"}, c \in 1 .. 3}
  \union {NotBoth(k, "slt", 2, 2, <<0, 1, 5>>) : k \in Orders}
  \union {Choice(k, 1, d) : k \in {"ult", "equal"}, d \in {0, 3}}
  \union {Pieces(k, c) : k \in {"equal", "slt"}, c \in {0, 3}}
  \union {NearZero(k) : k \in Orders}
  \union UNION {{Decided(k), Both(k)} : k \in {"ult", "slt", "equal"}}

\* Signed right shifts.
SignedShifts == {Bounded("ashr", "equal", 3, 3)}
=============================================================================
