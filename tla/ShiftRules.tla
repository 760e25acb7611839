------------------------------ MODULE ShiftRules ------------------------------
(***************************************************************************)
(* The rules of fdp_shifting.cpp.  dir is 1 for a shift to the left and -1 *)
(* for one to the right: bit i of the operand a moves to column i + dir*k  *)
(* when b is k, and what is shifted in has the value fill.  A shift by the *)
(* width stands for all that leave nothing of the operand.                 *)
(***************************************************************************)
EXTENDS BooleanRules

Known(bits) == {k \in DOMAIN bits : bits[k] # Free}
OnlyBits(w, bits) == F(w)!SetBits(Fresh(w), Restrict(bits, Known(bits))).dom

\* copy_from: the pending state of the target is gone.
CopyFrom(d) == F(Width(d))!Stored(F(Width(d))!Sync(d))

Clash(x, y) == x # Free /\ y # Free /\ x # y

\* Shifts from lo to hi, none of which contradicts the bits; lo and hi are
\* get_uint32_shift_range, for nodes of up to 2^32 - 1 bits.
PossibleShifts(s, o, a, b, dir, lo, hi) ==
  LET w    == Width(s.dom[o])
      out  == s.dom[o].bits
      held == {k \in lo .. Least(w, hi) : Holds(s.dom[b], k)}
      Fits(k) == \A c \in 0 .. w - 1 :
        IF c - dir * k \in 0 .. w - 1
          THEN ~Clash(out[c], s.dom[a].bits[c - dir * k])
          ELSE dir = 1 => out[c] # 1
  IN {k \in held \union (IF hi >= w THEN {w} ELSE {}) : Fits(k)}

\* The bits of b when it is not less than its width.
BitsFromWidth(d) ==
  LET w == Width(d)
  IN Ult(Going([w |-> ConstantDomain(w, w), b |-> d, less |-> ConstantDomain(1, 0)]),
         "less", "b", "w").dom["b"].bits

KnownOf(bits) == Restrict(bits, Known(bits))

\* Bits of which agreed are the same.
SameAs(bits, agreed) ==
  Restrict(agreed, {i \in DOMAIN agreed : bits[i] = agreed[i]})

AgreedBits(w, S) ==
  LET agreed == {i \in 0 .. w - 1 : \A j, k \in S : Bit(j, i) = Bit(k, i)}
  IN [i \in agreed |-> Bit(CHOOSE k \in S : TRUE, i)]

\* The bits that are the same in all shifts of S, and in all values of b that
\* are not less than the width when the width is a possible shift.
ShiftBits(d, S, possible) ==
  IF Width(d) \notin possible THEN AgreedBits(Width(d), S)
  ELSE IF S = {} THEN KnownOf(BitsFromWidth(d))
  ELSE SameAs(BitsFromWidth(d), AgreedBits(Width(d), S))

\* Bits of the operand that every shift keeps, in columns that agree.
OperandBits(w, d, out, dir, possible) ==
  LET Col(i, k) == i + dir * k
      given == {i \in 0 .. w - 1 :
                 /\ ~IsFixed(d, i)
                 /\ \A k \in possible : Col(i, k) \in 0 .. w - 1
                 /\ \A j, k \in possible :
                      out[Col(i, j)] # Free /\ out[Col(i, j)] = out[Col(i, k)]}
  IN [i \in given |-> out[Col(i, CHOOSE k \in possible : TRUE)]]

\* Columns into which every shift moves the same.
NodeBits(w, op, dir, possible, fill) ==
  LET Kid(c, k) == c - dir * k
      Sources(c) == {IF Kid(c, k) \in 0 .. w - 1 THEN op[Kid(c, k)] ELSE fill : k \in possible}
      same == {c \in 0 .. w - 1 : Sources(c) \in {{0}, {1}}}
  IN [c \in same |-> CHOOSE v \in Sources(c) : TRUE]

SetShift(s, b, S, possible) == SetBits(s, b, ShiftBits(s.dom[b], S, possible))

SetOperand(s, o, a, dir, possible) ==
  SetBits(s, a, OperandBits(Width(s.dom[o]), s.dom[a], s.dom[o].bits, dir, possible))

SetNode(s, o, a, dir, possible, fill) ==
  SetBits(s, o, NodeBits(Width(s.dom[o]), s.dom[a].bits, dir, possible, fill))

\* Shift, operand and node, in this order.
Shifted(s, o, a, b, dir, possible, S, fill) ==
  IF possible = {} THEN Failed(s)
  ELSE SetNode(SetOperand(SetShift(s, b, S, possible), o, a, dir, possible),
               o, a, dir, possible, fill)

-----------------------------------------------------------------------------
(* BV_SHL and BV_SHR                                                       *)

\* The lowest 1 of the node was not shifted in.
ShiftLeft(s, o, a, b, lo, hi) ==
  LET possible == PossibleShifts(s, o, a, b, 1, lo, hi)
  IN Shifted(s, o, a, b, 1, possible, possible, 0)

Shl(s, o, a, b) ==
  LET ones == {c \in DOMAIN s.dom[o].bits : s.dom[o].bits[c] = 1}
      low  == IF ones = {} THEN Ones(s.dom[b])
              ELSE CHOOSE c \in ones : \A n \in ones : c <= n
  IN ShiftLeft(s, o, a, b, UnsignedLo(s.dom[b]), Least(UnsignedHi(s.dom[b]), low))

Reversed(bits) ==
  [k \in DOMAIN bits |-> bits[Cardinality(DOMAIN bits) - 1 - k]]

\* Domains of the operand and the node with their bits in reverse order.
TurnedOp  == -1
TurnedOut == -2

Turned(s, o, a) ==
  LET Turn(i) == OnlyBits(Width(s.dom[i]), Reversed(s.dom[i].bits))
  IN [s EXCEPT !.dom = [n \in DOMAIN s.dom \union {TurnedOp, TurnedOut} |->
        CASE n = TurnedOp -> Turn(a) [] n = TurnedOut -> Turn(o) [] OTHER -> s.dom[n]]]

TurnBack(s, o, a) ==
  Without(InOrder(s, <<<<a, TurnedOp>>, <<o, TurnedOut>>>>, LAMBDA t, p :
            SetBits(t, p[1], KnownOf(Reversed(s.dom[p[2]].bits)))),
          {TurnedOp, TurnedOut})

\* A left shift of the bits in reverse order.
Shr(s, o, a, b) == TurnBack(Shl(Turned(s, o, a), TurnedOut, TurnedOp, b), o, a)

-----------------------------------------------------------------------------
(* BV_ASHR                                                                 *)

\* All bits of the node above one that is not the sign are not shifted in.
LongestShift(d, sign) ==
  LET w   == Width(d)
      alt == {c \in 0 .. w - 1 : d.bits[c] = 1 - sign}
  IN IF alt = {} THEN Ones(d)
     ELSE w - 2 - (CHOOSE c \in alt : \A n \in alt : n <= c)

ShiftBySign(s, o, a, b, sign, possible) ==
  Shifted(s, o, a, b, -1, possible, possible \ {Width(s.dom[o])}, sign)

SignSet(s, o, a, b, sign) ==
  IF Stopped(s) THEN s
  ELSE ShiftBySign(s, o, a, b, sign,
         PossibleShifts(s, o, a, b, -1, UnsignedLo(s.dom[b]),
                        Least(UnsignedHi(s.dom[b]), LongestShift(s.dom[o], sign))))

\* The sign of the operand is known.
SignedShift(s, o, a, b) ==
  LET top  == Width(s.dom[o]) - 1
      sign == s.dom[a].bits[top]
  IN SignSet(SetBit(s, o, top, sign), o, a, b, sign)

\* deep_union_feasible_domain: the bits both branches agree about.
Union(s, i, d, e) ==
  LET same == {k \in Known(d.bits) : d.bits[k] = e.bits[k]}
  IN IF Stopped(s) THEN s
     ELSE IF Known(s.dom[i].bits) \subseteq same
       THEN SetBits(s, i, [k \in same |-> d.bits[k]])
     ELSE Failed(s)

\* What one branch alone leaves takes the place of the domains.
TakeBranch(s, o, a, b, t) ==
  LET d == [s.dom EXCEPT ![a] = CopyFrom(t.dom["op"])]
      e == [d EXCEPT ![b] = CopyFrom(t.dom["shift"])]
  IN [dom |-> [e EXCEPT ![o] = CopyFrom(t.dom["out"])], res |-> Or(s.res, t.res)]

Joined(s, o, a, b, zero, one) ==
  IF Stopped(zero) /\ Stopped(one) THEN Failed(s)
  ELSE IF Stopped(zero) \/ Stopped(one)
    THEN TakeBranch(s, o, a, b, IF Stopped(zero) THEN one ELSE zero)
  ELSE InOrder(s, <<<<a, "op">>, <<b, "shift">>, <<o, "out">>>>, LAMBDA t, p :
         Union(t, p[1], zero.dom[p[2]], one.dom[p[2]]))

SignedBranch(copy, v) ==
  SignedShift(Going(SetBit(Going(copy), "op", Width(copy["op"]) - 1, v).dom),
              "out", "op", "shift")

\* With the sign not known, both are tried on copies.
UnknownSign(s, o, a, b, copy) ==
  Joined(s, o, a, b, SignedBranch(copy, 0), SignedBranch(copy, 1))

Ashr(s, o, a, b) ==
  IF IsFixed(s.dom[a], Width(s.dom[o]) - 1) THEN SignedShift(s, o, a, b)
  ELSE UnknownSign(s, o, a, b, [op |-> CopyFrom(s.dom[a]), shift |-> CopyFrom(s.dom[b]),
                                out |-> CopyFrom(s.dom[o])])
=============================================================================
