--------------------------- MODULE PropagationRules ---------------------------
(***************************************************************************)
(* propagate_node: the rule of a node and the tightening of the domains    *)
(* around it, repeated while something is UPDATED.  A node is a record of  *)
(* its kind, its children, in order, and what its kind needs besides: the  *)
(* lowest bit of an extract, or the value of a value.                      *)
(***************************************************************************)
EXTENDS BooleanRules, ArithmeticRules, DivisionRules, ShiftRules, BitVectors

Kinds == {"not", "xor", "and", "equal", "ult", "slt", "ite", "extract", "concat",
          "add", "mul", "udiv", "urem", "shl", "shr", "ashr"}

\* Those of Booleans, which collect_propagated_frontier has a rule for.
BooleanKinds == {"not", "xor", "and", "equal", "ite"}

\* How many children a node of the kind has.
Arity(kind) ==
  CASE kind \in {"not", "extract"} -> 1 [] kind = "ite" -> 3 [] OTHER -> 2

\* The switch of propagate_node: rule of node o.
Rule(s, o, n) ==
  LET a == n.kids[1]
      b == n.kids[2]
  IN CASE n.kind = "not"     -> Not(s, o, a)
       [] n.kind = "xor"     -> Xor(s, o, a, b)
       [] n.kind = "and"     -> And(s, o, a, b)
       [] n.kind = "equal"   -> Equal(s, o, a, b)
       [] n.kind = "ult"     -> Ult(s, o, a, b)
       [] n.kind = "slt"     -> Slt(s, o, a, b)
       [] n.kind = "ite"     -> Ite(s, o, a, b, n.kids[3])
       [] n.kind = "extract" -> Extract(s, o, a, n.arg)
       [] n.kind = "concat"  -> Concat(s, o, a, b)
       [] n.kind = "add"     -> Add(s, o, a, b)
       [] n.kind = "mul"     -> Mul(s, o, a, b)
       [] n.kind = "udiv"    -> Udiv(s, o, a, b)
       [] n.kind = "urem"    -> Urem(s, o, a, b)
       [] n.kind = "shl"     -> Shl(s, o, a, b)
       [] n.kind = "shr"     -> Shr(s, o, a, b)
       [] n.kind = "ashr"    -> Ashr(s, o, a, b)

\* What the kind means: the value of the node, w bits wide, from those of its
\* children, wide as v says.
Meaning(n, w, val, wide) ==
  LET a == val[n.kids[1]]
      b == val[n.kids[2]]
      v == wide[n.kids[1]]
  IN CASE n.kind = "not"     -> BvNot(a, w)
       [] n.kind = "xor"     -> BvXor(a, b, w)
       [] n.kind = "and"     -> BvAnd(a, b, w)
       [] n.kind = "equal"   -> BvEq(a, b)
       [] n.kind = "ult"     -> BvUlt(a, b)
       [] n.kind = "slt"     -> BvSlt(a, b, v)
       [] n.kind = "ite"     -> BvIte(a, b, val[n.kids[3]])
       [] n.kind = "extract" -> BvExtract(a, n.arg, w)
       [] n.kind = "concat"  -> BvConcat(a, b, wide[n.kids[2]])
       [] n.kind = "add"     -> BvAdd(a, b, w)
       [] n.kind = "mul"     -> BvMul(a, b, w)
       [] n.kind = "udiv"    -> BvUdiv(a, b, w)
       [] n.kind = "urem"    -> BvUrem(a, b)
       [] n.kind = "shl"     -> BvShl(a, b, w)
       [] n.kind = "shr"     -> BvShr(a, b, w)
       [] n.kind = "ashr"    -> BvAshr(a, b, w)

\* propagate_node on the domains dom.  Each round but the last fixes a bit or
\* takes a quarter of an interval away.
PropagateNode(dom, o, n) ==
  Loop([dom |-> dom, res |-> Updated], 32, LAMBDA t : t.res = Updated,
       LAMBDA t : TightenEach(Rule(Going(t.dom), o, n), n.kids \o <<o>>))
=============================================================================
