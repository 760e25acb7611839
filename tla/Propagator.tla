------------------------------ MODULE Propagator ------------------------------
(***************************************************************************)
(* Propagator::run: what all roots together say is propagated, and then    *)
(* said again in fewer and simpler assertions: encodings, the bits and     *)
(* intervals of nodes found on the way, and frontier nodes, Booleans whose *)
(* values make the roots true.  Everything is found out on one vector of   *)
(* domains, by assigning, propagating and rolling back.                    *)
(*                                                                         *)
(* A step of a loop is an action, or two where it propagates in between;   *)
(* the latter wait until the work list is empty.                           *)
(***************************************************************************)
EXTENDS Propagation, FiniteSetsExt

VARIABLES
  stage,      \* part of run
  step,       \* part of the loop's body that is next
  todo,       \* iterations to come
  frontier,   \* d_propagated_frontier: the nodes, in order
  value,      \* their values
  saved,      \* marked_infos: domains of candidates for an encoding
  marks,      \* d_marks
  gain,       \* d_fixed_cnt of the frontier nodes that were tried
  kept,       \* frontier_ids
  prefix,     \* prefix_history
  history,    \* d_fd_prefix
  removable,  \* can_remove
  failed,     \* top_true_failed
  reduced,    \* d_reduced_frontier, last one first
  final       \* the worlds that d_final_roots allow

pipeVars == <<stage, step, todo, frontier, value, saved, marks, gain, kept, prefix,
              history, removable, failed, reduced, final>>

vars == <<formula, worlds, workVars, pipeVars>>

-----------------------------------------------------------------------------
(* The frontier: collect_propagated_frontier.                              *)

\* Whether a node is left out, or replaced by some of its children.
NotImplied    == [drop |-> FALSE, kids |-> <<>>]
LeftOut       == [drop |-> TRUE, kids |-> <<>>]
ReplacedBy(k) == [drop |-> FALSE, kids |-> k]

AndImpliedBy(kids, self, a, b) ==
  CASE IsOne(self)            -> ReplacedBy(kids)
    [] IsZero(a) /\ IsOne(b)  -> ReplacedBy(<<kids[1]>>)
    [] IsOne(a) /\ IsZero(b)  -> ReplacedBy(<<kids[2]>>)
    [] IsZero(self) /\ (IsZero(a) \/ IsZero(b)) /\ ~IsOne(a) /\ ~IsOne(b) -> LeftOut
    [] OTHER -> NotImplied

\* Mutant of IteImpliedBy: the guard is never needed.
IteImpliedByChild(kids, self, d) ==
  LET g == d[kids[1]]
  IN IF TotallyFixed(g) THEN ReplacedBy(<<kids[IF IsOne(g) THEN 2 ELSE 3]>>)
     ELSE NotImplied

\* The guard is needed when the other child has another value.
IteImpliedBy(kids, self, d) ==
  LET g     == d[kids[1]]
      taken == IF IsOne(g) THEN 2 ELSE 3
      other == d[kids[5 - taken]]
      same  == TotallyFixed(d[kids[2]]) /\ d[kids[2]].bits = d[kids[3]].bits
  IN CASE TotallyFixed(g) /\ TotallyFixed(other) /\ other.bits # self.bits ->
            ReplacedBy(<<kids[1], kids[taken]>>)
       [] TotallyFixed(g) /\ ~(TotallyFixed(other) /\ other.bits # self.bits) ->
            ReplacedBy(<<kids[taken]>>)
       [] ~TotallyFixed(g) /\ same -> LeftOut
       [] OTHER -> NotImplied

\* implied_by of the kinds on Booleans.  EQUAL is treated like XOR.
ImpliedBy(n, self, d) ==
  LET a == d[n.kids[1]]
      b == d[n.kids[2]]
  IN CASE n.kind = "not" -> ReplacedBy(n.kids)
       [] n.kind \in {"xor", "equal"} ->
            IF TotallyFixed(a) /\ TotallyFixed(b) THEN ReplacedBy(n.kids) ELSE NotImplied
       [] n.kind = "and" -> AndImpliedBy(n.kids, self, a, b)
       [] n.kind = "ite" -> IteImpliedBy(n.kids, self, d)

IsAtom(i) == Node(i).kind = "symbol" \/ \E k \in Kids(i) : ~Node(k).bool

\* Breadth first from the roots, every node once.
CollectFrontier ==
  LET Unseen(s, ids) == InTurn(s, ids, LAMBDA t, i :
        IF i \in t.seen THEN t ELSE [t EXCEPT !.seen = @ \union {i}, !.line = Append(@, i)])
      Visit(s) ==
        LET i  == Head(s.line)
            t  == [s EXCEPT !.line = Tail(@)]
            by == ImpliedBy(Node(i), dom[i], dom)
        IN IF i \in Constants THEN t
           ELSE IF IsAtom(i) THEN [t EXCEPT !.found = Append(@, i)]
           ELSE IF by.drop THEN t
           ELSE IF by.kids = <<>> THEN [t EXCEPT !.found = Append(@, i)]
           ELSE Unseen(t, by.kids)
  IN Loop(Unseen([line |-> <<>>, seen |-> {}, found |-> <<>>], formula.roots),
          Cardinality(Ids), LAMBDA s : s.line # <<>>, Visit).found

-----------------------------------------------------------------------------
(* Encodings: mark_encoding_domains.                                       *)

\* calc_domain_size: with bits fixed the number of values, else one less.
DomainSize(d) ==
  LET free == {k \in DOMAIN d.bits : ~IsFixed(d, k)}
  IN IF free = {} THEN 0
     ELSE IF free = DOMAIN d.bits THEN F(Width(d))!IntervalSize(d.iv)
     ELSE Cardinality({v \in 0 .. Ones(d) : Holds(d, v)})

IntervalSize(d) == F(Width(d))!IntervalSize(d.iv)
FixedCount(d)   == Cardinality(Known(d.bits))

\* bvudiv, and at least a threshold that has to fit the width.
Ratio(x, y, d, least) ==
  (IF y = 0 THEN Ones(d) ELSE x \div y) >= Least(least, Ones(d))

BitsSize(d) == 2 ^ (Width(d) - FixedCount(d))

\* calc_encoding_mark, of a symbol or of another node.
EncodingMark(d, symbol) ==
  LET least == IF symbol THEN 3 ELSE 6
  IN IF TotallyFixed(d) THEN "bits"
     ELSE IF FixedCount(d) >= (IF symbol THEN 1 ELSE 2)
       THEN IF Ratio(BitsSize(d), DomainSize(d), d, least) THEN "both" ELSE "bits"
     ELSE IF Ratio(Ones(d), IntervalSize(d), d, least) THEN "interval" ELSE "none"

\* calc_encoding_mark_diff, of a node that was prev and is now curr.
EncodingMarkDiff(curr, prev) ==
  IF TotallyFixed(curr) THEN "implied"
  ELSE IF TotallyFixed(prev) THEN "bits"
  ELSE IF FixedCount(prev) > FixedCount(curr) + 2
    THEN IF DomainSize(curr) > DomainSize(prev)
              /\ Ratio(BitsSize(prev), DomainSize(curr) - DomainSize(prev), curr, 6)
           THEN "both" ELSE "bits"
  ELSE IF IntervalSize(curr) > IntervalSize(prev)
            /\ Ratio(DomainSize(curr), IntervalSize(curr) - IntervalSize(prev), curr, 6)
    THEN "interval" ELSE "none"

IsFull(d) == d.bits = Fresh(Width(d)).bits /\ F(Width(d))!IsFull(d.iv)

\* Nodes under the frontier, and all symbols and values.
Relevant(top) ==
  InTurn(top, FromTop, LAMBDA r, i : IF i \in r THEN r \union Kids(i) ELSE r)
    \union Symbols \union Constants

Candidates(top) ==
  {i \in Relevant(top) \ Constants :
     /\ ~IsFull(dom[i])
     /\ i \in Symbols \/ (~Node(i).bool /\ EncodingMark(dom[i], FALSE) # "none")}

\* overwrite, on the state of the rules.
Encode(s, i, d, mark) == On(s, i, LAMBDA e : F(Width(e))!Overwritten(e, d, mark))

-----------------------------------------------------------------------------
(* run.                                                                    *)

Init ==
  /\ formula \in Formulas
  /\ worlds = {}
  /\ dom = <<>>
  /\ queue = {}
  /\ changed = {}
  /\ conflict = FALSE
  /\ stage = "start"
  /\ step = "next"
  /\ todo = <<>>
  /\ frontier = <<>>
  /\ value = <<>>
  /\ saved = <<>>
  /\ marks = <<>>
  /\ gain = <<>>
  /\ kept = <<>>
  /\ prefix = <<>>
  /\ history = <<>>
  /\ removable = FALSE
  /\ failed = FALSE
  /\ reduced = <<>>
  /\ final = {}

Running == stage \in {"full", "marking", "trying", "adding", "removing"}

At(s, t) == stage = s /\ step = t /\ Propagated

Start ==
  /\ At("start", "next")
  /\ FullPropagation
  /\ marks' = [i \in Ids |-> "none"]
  /\ stage' = "full"
  /\ UNCHANGED <<formula, step, todo, frontier, value, saved, gain, kept, prefix,
                 history, removable, failed, reduced, final>>

Propagate ==
  /\ Running
  /\ PropagateTop
  /\ UNCHANGED pipeVars

\* collect_propagated_frontier, and mark_encoding_domains as far as symbols:
\* the domains are taken back, and what is encoded of symbols is put on the
\* domains that are left.
MarkSymbols ==
  /\ At("full", "next")
  /\ LET front   == CollectFrontier
         cand    == Candidates(Range(front))
         back    == RestoredFrom(<<>>, 0, dom, changed)
         consts  == WithConstants(back)
         Mark(i) == IF i \in cand \intersect Symbols THEN EncodingMark(dom[i], TRUE)
                    ELSE "none"
         new     == [i \in Ids |-> Mark(i)]
         marked  == {i \in Ids : new[i] # "none"}
         s       == InOrder(consts, FromBottom, LAMBDA t, i :
                      IF i \in marked THEN Encode(t, i, dom[i], new[i]) ELSE t)
     IN /\ frontier' = front
        /\ value' = [i \in Range(front) |-> dom[i].bits[0]]
        /\ saved' = [i \in cand |-> dom[i]]
        /\ marks' = new
        /\ Work(s, marked \union {i \in Constants : consts.dom[i] # back[i]})
        /\ todo' = InTurn(<<>>, FromBottom, LAMBDA ids, i :
                      IF i \in cand \ Symbols THEN Append(ids, i) ELSE ids)
  /\ changed' = {}
  /\ stage' = "marking"
  /\ UNCHANGED <<formula, worlds, step, gain, kept, prefix, history, removable,
                 failed, reduced, final>>

\* What is left of the gain once the others are encoded is encoded.
MarkInterior ==
  /\ At("marking", "next")
  /\ todo # <<>>
  /\ LET i    == Head(todo)
         mark == EncodingMarkDiff(dom[i], saved[i])
     IN /\ marks' = [marks EXCEPT ![i] = mark]
        /\ IF mark \in {"none", "implied"}
             THEN UNCHANGED workVars
             ELSE Work(Encode(Going(dom), i, saved[i], mark), {i}) /\ UNCHANGED changed
  /\ todo' = Tail(todo)
  /\ UNCHANGED <<formula, worlds, stage, step, frontier, value, saved, gain, kept,
                 prefix, history, removable, failed, reduced, final>>

\* stage_prefix_level_zero; without a frontier nothing is redundant.
StageLevelZero ==
  /\ At("marking", "next")
  /\ todo = <<>>
  /\ history' = NewHistory([i \in changed |-> dom[i]])
  /\ changed' = {}
  /\ todo' = frontier
  /\ stage' = IF frontier = <<>> THEN "rebuild" ELSE "trying"
  /\ UNCHANGED <<formula, worlds, dom, queue, conflict, step, frontier, value, saved,
                 marks, gain, kept, prefix, removable, failed, reduced, final>>

Assigned(i) == SetConstant(Going(dom), i, value[i])

\* Each frontier node alone: how many bits it fixes.  One the encodings imply
\* is left out.
Try ==
  /\ At("trying", "next")
  /\ todo # <<>>
  /\ LET i == Head(todo)
         s == Assigned(i)
     IN /\ Work(s, IF s.res = Unchanged THEN {} ELSE {i})
        /\ IF s.res = Unchanged THEN todo' = Tail(todo) /\ UNCHANGED step
           ELSE step' = "count" /\ UNCHANGED todo
  /\ UNCHANGED <<formula, worlds, changed, stage, frontier, value, saved, marks, gain,
                 kept, prefix, history, removable, failed, reduced, final>>

FixedIn(doms, ids) ==
  MapThenSumSet(LAMBDA i : IF i \in DOMAIN doms THEN FixedCount(doms[i]) ELSE 0, ids)

Count ==
  /\ At("trying", "count")
  /\ LET i == Head(todo)
     IN gain' = [j \in DOMAIN gain \union {i} |->
          IF j = i THEN FixedIn(dom, changed) - FixedIn(history[1], changed) ELSE gain[j]]
  /\ dom' = RestoredFrom(history, 0, dom, changed)
  /\ changed' = {}
  /\ todo' = Tail(todo)
  /\ step' = "next"
  /\ UNCHANGED <<formula, worlds, queue, conflict, stage, frontier, value, saved, marks,
                 kept, prefix, history, removable, failed, reduced, final>>

\* More bits first, then the lower nodes.
Before(i, j) == gain[i] > gain[j] \/ (gain[i] = gain[j] /\ i > j)

Sort ==
  /\ At("trying", "next")
  /\ todo = <<>>
  /\ \E order \in [1 .. Cardinality(DOMAIN gain) -> DOMAIN gain] :
       /\ \A k, l \in DOMAIN order : k < l => Before(order[k], order[l])
       /\ todo' = order
  /\ prefix' = NewHistory(history[1])
  /\ stage' = "adding"
  /\ UNCHANGED <<formula, worlds, workVars, step, frontier, value, saved, marks, gain,
                 kept, history, removable, failed, reduced, final>>

\* One after the other: those that the ones before imply are left out.
AddNext ==
  /\ At("adding", "next")
  /\ todo # <<>>
  /\ LET i == Head(todo)
         s == Assigned(i)
     IN /\ Work(s, IF s.res = Unchanged THEN {} ELSE {i})
        /\ IF s.res = Unchanged THEN todo' = Tail(todo) /\ UNCHANGED step
           ELSE step' = "level" /\ UNCHANGED todo
  /\ UNCHANGED <<formula, worlds, changed, stage, frontier, value, saved, marks, gain,
                 kept, prefix, history, removable, failed, reduced, final>>

AddLevelOf ==
  /\ At("adding", "level")
  /\ prefix' = AddLevel(prefix, [i \in changed |-> dom[i]])
  /\ kept' = Append(kept, Head(todo))
  /\ changed' = {}
  /\ todo' = Tail(todo)
  /\ step' = "next"
  /\ UNCHANGED <<formula, worlds, dom, queue, conflict, stage, frontier, value, saved,
                 marks, gain, history, removable, failed, reduced, final>>

\* Back to level 0, unless the estimated cost of what follows is too high.
\* Both are possible, as the cost of the formulas here is always low.
Turn ==
  /\ At("adding", "next")
  /\ todo = <<>>
  /\ \/ /\ kept # <<>>
        /\ dom' = RestoredFrom(history, 0, dom, ChangedNodes(prefix, Len(kept)))
        /\ todo' = kept
        /\ stage' = "removing"
        /\ UNCHANGED reduced
     \/ /\ reduced' = Reverse(kept)
        /\ stage' = "rebuild"
        /\ UNCHANGED <<dom, todo>>
  /\ UNCHANGED <<formula, worlds, queue, changed, conflict, step, frontier, value, saved,
                 marks, gain, kept, prefix, history, removable, failed, final>>

\* From the last one on: one that the later ones imply is removed.  Otherwise
\* the ones before are merged in.
Check ==
  /\ At("removing", "next")
  /\ todo # <<>>
  /\ LET i     == Last(todo)
         level == Len(todo) - 1
         ids   == ChangedNodes(prefix, level)
         Merge(t, j) == On(t, j, LAMBDA d : F(Width(d))!Merged(d, GetPtr(prefix, level, j)))
         s     == InOrder(Going(dom), FromTop, LAMBDA t, j :
                    IF j \in ids THEN Merge(t, j) ELSE t)
     IN IF TotallyFixed(dom[i])
          THEN /\ conflict' = (dom[i].bits[0] # value[i])
               /\ todo' = Front(todo)
               /\ UNCHANGED <<dom, queue, step>>
        ELSE IF failed
          THEN step' = "keep" /\ UNCHANGED <<dom, queue, conflict, todo>>
          ELSE /\ Work(s, {j \in ids : s.dom[j] # dom[j]})
               /\ step' = "test"
               /\ UNCHANGED todo
  /\ UNCHANGED <<formula, worlds, changed, stage, frontier, value, saved, marks, gain,
                 kept, prefix, history, removable, failed, reduced, final>>

\* If the others make the roots true, it is removed.  With it they should.
Test ==
  /\ At("removing", "test")
  /\ LET i == Last(todo)
         s == Assigned(i)
     IN /\ removable' = AllRootsTrue
        /\ Work(s, IF s.res = Unchanged THEN {} ELSE {i})
        /\ step' = IF s.res = Unchanged THEN "restore" ELSE "assigned"
  /\ UNCHANGED <<formula, worlds, changed, stage, todo, frontier, value, saved, marks,
                 gain, kept, prefix, history, failed, reduced, final>>

Restore ==
  /\ step \in {"restore", "assigned"}
  /\ At("removing", step)
  /\ failed' = (failed \/ (step = "assigned" /\ ~AllRootsTrue))
  /\ dom' = RestoredFrom(history, MaxLevel(history), dom, changed)
  /\ changed' = {}
  /\ IF removable THEN todo' = Front(todo) /\ step' = "next"
     ELSE step' = "keep" /\ UNCHANGED todo
  /\ UNCHANGED <<formula, worlds, queue, conflict, stage, frontier, value, saved, marks,
                 gain, kept, prefix, history, removable, reduced, final>>

Keep ==
  /\ At("removing", "keep")
  /\ LET i == Last(todo)
         s == Assigned(i)
     IN Work(s, IF s.res = Unchanged THEN {} ELSE {i})
  /\ step' = "store"
  /\ UNCHANGED <<formula, worlds, changed, stage, todo, frontier, value, saved, marks,
                 gain, kept, prefix, history, removable, failed, reduced, final>>

Store ==
  /\ At("removing", "store")
  /\ history' = AddLevel(history, [i \in changed |-> dom[i]])
  /\ reduced' = Append(reduced, Last(todo))
  /\ changed' = {}
  /\ todo' = Front(todo)
  /\ step' = "next"
  /\ UNCHANGED <<formula, worlds, dom, queue, conflict, stage, frontier, value, saved,
                 marks, gain, kept, prefix, removable, failed, final>>

EndRemoving ==
  /\ At("removing", "next")
  /\ todo = <<>>
  /\ stage' = "rebuild"
  /\ UNCHANGED <<formula, worlds, workVars, step, todo, frontier, value, saved, marks,
                 gain, kept, prefix, history, removable, failed, reduced, final>>

-----------------------------------------------------------------------------
(* rebuild_dag_after_encoding.                                             *)

Encoded(i) == Has(history, 0, i)
Level0(i)  == GetPtr(history, 0, i)

\* Nodes that are replaced by the value of their domain.
Replaced ==
  LET ids == {i \in Relevant(Range(frontier)) \ Constants :
                /\ Encoded(i) /\ TotallyFixed(Level0(i))
                /\ ~Node(i).bool \/ i \in Symbols}
  IN [i \in ids |-> ValueOf(Level0(i).bits)]

\* encode_marked_node: bits, and an interval by subtraction if it is a
\* complementary one.
BitsAssertion(d, v) == \A k \in Known(d.bits) : Bit(v, k) = d.bits[k]

\* Mutant of IntervalAssertion: a complementary interval is taken for a
\* normal one.
IntervalAssertionNormal(d, v) == d.iv.min <= v /\ v <= d.iv.max

IntervalAssertion(d, v) ==
  IF d.iv.compl
    THEN (v - d.iv.max) % 2 ^ Width(d) <= (d.iv.min - d.iv.max) % 2 ^ Width(d)
  ELSE d.iv.min <= v /\ v <= d.iv.max

Assertion(d, v, mark) ==
  /\ mark \in {"bits", "both"} => BitsAssertion(d, v)
  /\ mark \in {"interval", "both"} => IntervalAssertion(d, v)

\* Whether the final roots are true, of a node the value it has before it is
\* replaced.
FinalRoots(w) ==
  LET new == Evaluated(formula, w, Replaced)
      wide == [i \in Ids |-> Node(i).width]
      Own(i) == IF Node(i).kind = "symbol" THEN w[i]
                ELSE IF i \in Constants THEN Node(i).arg
                ELSE Meaning(Node(i), Node(i).width, new, wide)
  IN /\ \A i \in Range(reduced) : new[i] = value[i]
     /\ \A i \in Relevant(Range(frontier)) \ Constants :
          Encoded(i) =>
            IF i \in DOMAIN Replaced
              THEN marks[i] # "implied" => Own(i) = Replaced[i]
            ELSE ~TotallyFixed(Level0(i)) => Assertion(Level0(i), Own(i), marks[i])

Rebuild ==
  /\ At("rebuild", "next")
  /\ final' = {w \in worlds : FinalRoots(w)}
  /\ stage' = "done"
  /\ UNCHANGED <<formula, worlds, workVars, step, todo, frontier, value, saved, marks,
                 gain, kept, prefix, history, removable, failed, reduced>>

\* set_unsat_final
SetUnsatFinal ==
  /\ Running
  /\ conflict
  /\ final' = {}
  /\ stage' = "done"
  /\ UNCHANGED <<formula, worlds, workVars, step, todo, frontier, value, saved, marks,
                 gain, kept, prefix, history, removable, failed, reduced>>

\* The formula goes to the solver.
Finished == stage = "done" /\ UNCHANGED vars

Next ==
  \/ Start \/ Propagate \/ MarkSymbols \/ MarkInterior \/ StageLevelZero
  \/ Try \/ Count \/ Sort \/ AddNext \/ AddLevelOf \/ Turn
  \/ Check \/ Test \/ Restore \/ Keep \/ Store \/ EndRemoving
  \/ Rebuild \/ SetUnsatFinal \/ Finished

Spec == Init /\ [][Next]_vars

-----------------------------------------------------------------------------
\* The final roots say what the roots said.
FormulaPreserved == stage = "done" => final = Models

\* debug_check_frontier: the frontier alone makes the roots true.
FrontierSuffices ==
  stage \in {"marking", "trying", "adding", "removing", "rebuild"} =>
    \A w \in worlds \ Models : \E i \in Range(frontier) : w[i] # value[i]

\* CHECK_ROOTS_FIXED_TRUE: with all of the frontier, and with those of it that
\* are not implied, propagation makes every root true.
RootsFixedTrue ==
  At("full", "next") \/ (At("adding", "next") /\ todo = <<>>) => AllRootsTrue

\* After every rollback the domains are those of the level.
RollbackComplete ==
  stage \in {"trying", "removing"} /\ step \in {"next", "keep"} /\ Propagated
    => NothingForgotten(history, MaxLevel(history)) /\ changed = {}
=============================================================================
