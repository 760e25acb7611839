---------------------------- MODULE PartitionTasks ----------------------------
(***************************************************************************)
(* PassFeasibleDomainPropagator::apply for a node of the partition tree    *)
(* that is to be split: after run the propagator is run again, on the      *)
(* roots alone, and PartitionTaskBuilder looks for a guard that splits     *)
(* them.  Each action, a node and a kind of guard, is probed on both       *)
(* sides; what one side rules out is said in both children.                *)
(*                                                                         *)
(* A guard is the set of worlds in which it holds, and whether it is known *)
(* to be a constant.                                                       *)
(***************************************************************************)
EXTENDS Propagator

VARIABLES
  actions,     \* actions that are still to be evaluated
  action,      \* the one that is
  evals,       \* BranchEval of its left and its right side, as far as probed
  candidates,  \* the pairs of guards to choose from
  common,      \* worlds that d_forced_common_guards allow
  left, right  \* the worlds that the two tasks allow

partVars == <<actions, action, evals, candidates, common, left, right>>

passVars == <<vars, partVars>>

-----------------------------------------------------------------------------
(* The actions.                                                            *)

\* baseline_domain
BaselineDomain(i) == IF Has(history, 0, i) THEN GetPtr(history, 0, i) ELSE dom[i]

\* Mutant of Baseline: the domains of the probe before.
NotRestored == dom

\* restore_baseline_nodes, of every node.
Baseline == RestoredFrom(history, 0, dom, Ids)

\* Boolean symbols and atoms above bit-vectors.
BoolActions ==
  {[kind |-> "bool", node |-> i, child |-> i] :
     i \in {j \in Ids : Node(j).bool /\ (j \in Symbols \/ IsAtom(j))}}

BitActions ==
  {[kind |-> "bit", node |-> i, child |-> i] : i \in {j \in Symbols : ~Node(j).bool}}

Wrapping(i) == ~Node(i).bool /\ BaselineDomain(i).iv.compl

IntervalActions ==
  {[kind |-> "interval", node |-> i, child |-> i] : i \in {j \in Symbols : Wrapping(j)}}

\* Sums that may have wrapped around, not of two values.  Each is compared with
\* an operand, and split between the two ranges of its domain.
Sums == {i \in Ids : Node(i).kind = "add" /\ Wrapping(i) /\ ~(Kids(i) \subseteq Constants)}

SumActions(operand) ==
  UNION {{[kind |-> "compare", node |-> i, child |-> operand[i]],
          [kind |-> "boundary", node |-> i, child |-> i]} : i \in Sums}

\* The operand is not a value.  Of two the score decides, which is left open.
Operands == {o \in [Sums -> Ids] : \A i \in Sums : o[i] \in Kids(i) \ Constants}

\* collect_partition_actions.  Bound: no formula has so many that some are
\* left out.
PartitionActions(operand) ==
  {a \in BoolActions \union BitActions \union IntervalActions \union SumActions(operand) :
     ~TotallyFixed(BaselineDomain(a.node))}

-----------------------------------------------------------------------------
(* A side of an action.                                                    *)

TestThat(ws) == [const |-> FALSE, holds |-> ws]
True         == [const |-> TRUE, holds |-> worlds]
False        == [const |-> TRUE, holds |-> {}]

\* apply_wrapping_interval_constraint
ClipWrapping(s, i, l, u) ==
  Clip(s, i, IF l <= u THEN Normal(l, u) ELSE Compl(u, l))

\* A branch: its guard, and the domains after it is assumed at its target.
Branch(guard, target, s) == [guard |-> guard, target |-> target, s |-> s]

\* Without a look at the domains.
Surely(guard, result) ==
  Branch(guard, 0, [Going(Baseline) EXCEPT !.res = result])

\* Mutant of BoolBranch: the guards are swapped.
BoolBranchSwapped(i, isLeft) ==
  LET v == IF isLeft THEN 0 ELSE 1
  IN Branch(TestThat({w \in worlds : w[i] # v}), i, SetConstant(Going(Baseline), i, v))

BoolBranch(i, isLeft) ==
  LET v == IF isLeft THEN 0 ELSE 1
  IN Branch(TestThat({w \in worlds : w[i] = v}), i, SetConstant(Going(Baseline), i, v))

\* choose_partition_bit: the highest one that is not fixed.
BitBranch(i, isLeft) ==
  LET d == BaselineDomain(i)
      k == Max({j \in DOMAIN d.bits : ~IsFixed(d, j)})
      v == IF isLeft THEN 0 ELSE 1
  IN Branch(TestThat({w \in worlds : Bit(w[i], k) = v}), i, SetBit(Going(Baseline), i, k, v))

\* At or below the first border of the complementary interval, or at or above
\* the second one.
RangeBranch(i, isLeft) ==
  LET d == BaselineDomain(i)
      l == IF isLeft THEN 0 ELSE d.iv.max
      u == IF isLeft THEN d.iv.min ELSE Ones(d)
      test == IF l = 0 /\ u = Ones(d) THEN True
              ELSE TestThat({w \in worlds : l <= w[i] /\ w[i] <= u})
  IN Branch(test, i, ClipWrapping(Going(Baseline), i, l, u))

\* overflow_const_child_info: from here on the sum with c overflows.
LimitOf(i, c) == (-Node(c).arg) % 2 ^ Node(i).width

LimitBranch(i, k, c, isLeft) ==
  LET limit == LimitOf(i, c)
      test  == TestThat({w \in worlds : w[k] < limit <=> isLeft})
      ones  == 2 ^ Node(i).width - 1
  IN IF limit = 0
       THEN IF isLeft THEN Surely(False, Conflict) ELSE Surely(True, Unchanged)
     ELSE Branch(test, k, IF isLeft THEN ClipWrapping(Going(Baseline), k, 0, limit - 1)
                          ELSE ClipWrapping(Going(Baseline), k, limit, ones))

\* The sum is below its operand, or not.
CarryBranch(i, k, isLeft) ==
  LET d    == BaselineDomain(k)
      low  == IF d.iv.compl THEN 0 ELSE d.iv.min
      high == IF d.iv.compl THEN Ones(d) ELSE d.iv.max
      test == TestThat({w \in worlds : w[i] < w[k] <=> isLeft})
  IN IF ~isLeft THEN Branch(test, i, ClipWrapping(Going(Baseline), i, low, Ones(d)))
     ELSE IF high = 0 THEN Surely(test, Conflict)
     ELSE Branch(test, i, ClipWrapping(Going(Baseline), i, 0, high - 1))

BranchOf(a, isLeft) ==
  LET values == Kids(a.node) \intersect Constants
  IN CASE a.kind = "bool"    -> BoolBranch(a.node, isLeft)
       [] a.kind = "bit"     -> BitBranch(a.node, isLeft)
       [] a.kind \in {"interval", "boundary"} -> RangeBranch(a.node, isLeft)
       [] a.kind = "compare" ->
            IF values = {} THEN CarryBranch(a.node, a.child, isLeft)
            ELSE LimitBranch(a.node, a.child, CHOOSE c \in values : TRUE, isLeft)

-----------------------------------------------------------------------------
(* apply.                                                                  *)

PassInit ==
  /\ Init
  /\ actions = {}
  /\ action = <<>>
  /\ evals = <<>>
  /\ candidates = {}
  /\ common = {}
  /\ left = {}
  /\ right = {}

\* run.  If the solver was not asked to split it is Finished then.
Simplify == Next /\ UNCHANGED partVars

\* run_propagation_only.  The final roots are another formula, so it is run on
\* these roots, as it is when the pass takes its changes back.
PropagateOnly ==
  /\ At("done", "next")
  /\ FullPropagation
  /\ stage' = "baseline"
  /\ UNCHANGED <<formula, step, todo, frontier, value, saved, marks, gain, kept, prefix,
                 history, removable, failed, reduced, final, partVars>>

PropagateOn ==
  /\ stage \in {"baseline", "probing"}
  /\ PropagateTop
  /\ UNCHANGED <<pipeVars, partVars>>

\* stage_prefix_level_zero, and build as far as collect_partition_actions.
\* There is no conflict, as there was none in run.
StageBaseline ==
  /\ At("baseline", "next")
  /\ history' = NewHistory([i \in changed |-> dom[i]])
  /\ changed' = {}
  /\ stage' = "collecting"
  /\ UNCHANGED <<formula, worlds, dom, queue, conflict, step, todo, frontier, value,
                 saved, marks, gain, kept, prefix, removable, failed, reduced, final,
                 partVars>>

Collect ==
  /\ At("collecting", "next")
  /\ \E operand \in Operands : actions' = PartitionActions(operand)
  /\ common' = worlds
  /\ stage' = "choosing"
  /\ UNCHANGED <<formula, worlds, workVars, step, todo, frontier, value, saved, marks,
                 gain, kept, prefix, history, removable, failed, reduced, final,
                 action, evals, candidates, left, right>>

\* select_best_action evaluates them all.  The order is of no consequence, as
\* every probe starts from the baseline.
Choose ==
  /\ At("choosing", "next")
  /\ actions # {}
  /\ action' = CHOOSE a \in actions : TRUE
  /\ actions' = actions \ {action'}
  /\ evals' = <<>>
  /\ stage' = "probing"
  /\ UNCHANGED <<formula, worlds, workVars, step, todo, frontier, value, saved, marks,
                 gain, kept, prefix, history, removable, failed, reduced, final,
                 candidates, common, left, right>>

\* probe_branch, first left, up to its feasible_domain_propagate.
Probe ==
  /\ At("probing", "next")
  /\ Len(evals) < 2
  /\ LET b == BranchOf(action, evals = <<>>)
     IN /\ evals' = Append(evals, [guard |-> b.guard, conflict |-> FALSE])
        /\ Work(b.s, IF b.s.res = Unchanged THEN {} ELSE {b.target})
  /\ step' = "probed"
  /\ UNCHANGED <<formula, worlds, changed, stage, todo, frontier, value, saved, marks,
                 gain, kept, prefix, history, removable, failed, reduced, final,
                 actions, action, candidates, common, left, right>>

EndProbe ==
  /\ stage = "probing" /\ step = "probed"
  /\ conflict \/ queue = {}
  /\ evals' = [evals EXCEPT ![Len(evals)].conflict = conflict]
  /\ dom' = Baseline
  /\ queue' = {}
  /\ changed' = {}
  /\ conflict' = FALSE
  /\ step' = "next"
  /\ UNCHANGED <<formula, worlds, stage, todo, frontier, value, saved, marks, gain,
                 kept, prefix, history, removable, failed, reduced, final, actions,
                 action, candidates, common, left, right>>

\* evaluate_candidate: a guard that one side needs is common to both.
Judge ==
  /\ At("probing", "next")
  /\ Len(evals) = 2
  /\ LET ok    == SelectSeq(evals, LAMBDA e : ~e.conflict)
         guard == ok[1].guard
     IN \/ /\ ok = <<>> \/ (Len(ok) = 1 /\ guard = False)
           /\ stage' = "unsat"
           /\ UNCHANGED <<candidates, common>>
        \/ /\ Len(ok) = 1 /\ guard # False
           /\ stage' = "choosing"
           /\ common' = common \intersect guard.holds
           /\ UNCHANGED candidates
        \/ /\ Len(ok) = 2
           /\ stage' = "choosing"
           /\ candidates' = candidates \union {<<guard.holds, ok[2].guard.holds>>}
           /\ UNCHANGED common
  /\ UNCHANGED <<formula, worlds, workVars, step, todo, frontier, value, saved, marks,
                 gain, kept, prefix, history, removable, failed, reduced, final,
                 actions, action, evals, left, right>>

\* emit_partition of a candidate; the better its score the more likely it is.
\* Without candidates the solver exits with 233.
Emit ==
  /\ At("choosing", "next")
  /\ actions = {}
  /\ \/ /\ candidates = {}
        /\ stage' = "nosplit"
        /\ UNCHANGED <<left, right>>
     \/ \E c \in candidates :
          /\ left' = Models \intersect common \intersect c[1]
          /\ right' = Models \intersect common \intersect c[2]
          /\ stage' = "built"
  /\ UNCHANGED <<formula, worlds, workVars, step, todo, frontier, value, saved, marks,
                 gain, kept, prefix, history, removable, failed, reduced, final,
                 actions, action, evals, candidates, common>>

Exit ==
  /\ stage \in {"unsat", "nosplit", "built"}
  /\ UNCHANGED passVars

PassNext ==
  \/ Simplify \/ PropagateOnly \/ PropagateOn \/ StageBaseline \/ Collect \/ Choose
  \/ Probe \/ EndProbe \/ Judge \/ Emit \/ Exit

PassSpec == PassInit /\ [][PassNext]_passVars

-----------------------------------------------------------------------------
\* The two tasks are the formula: no model is lost between them.  Without
\* tasks, as the pass answers unsat, there is none.
ChildrenCover == stage \in {"built", "unsat"} => left \union right = Models

\* A probe loses no model in which its guard holds.
ProbeKeepsModels ==
  stage = "probing" /\ step = "probed" /\ ~conflict =>
    \A w \in Models \intersect evals[Len(evals)].guard.holds : Inside(w, dom)
=============================================================================
