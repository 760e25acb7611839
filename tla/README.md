# A verification project for BV-Parti

BV-Parti solves quantifier-free bit-vector formulas in parallel.  A *leader*
(`src/src/leader.py`) and several *coordinators* (`src/src/coordinator.py`) are
MPI processes.  Each coordinator builds a tree of sub-problems
(`src/src/partition_tree.py`): a *partitioner*, a modified Bitwuzla, simplifies a
formula and writes two smaller ones that cover it; a *base solver* solves the
simplified formula; answers are propagated in the tree.  Coordinators that run
out of work are given a part of another one's tree.  The partitioner picks its
split with a domain propagator of its own, in C++
(`src/src/partitioner/src/preprocess/pass/feasible_domain_propagator`, called FDP
below).

The answer of the program is right only if three things hold together: each tree
treats `unsat` soundly, whatever order solvers, partitioners and splits come in;
no sub-problem is lost on its way from one coordinator to another; and the leader
draws the right conclusion from partial answers.  These three are what the
modules are about.  `src/solver` holds copies of the same Python files; the
modules refer to those under `src/src`.  All of this rests on the partitioner: the
formula it simplifies must stay the same formula, and its two tasks must cover it.

## 1. Inventory

| Component | State | Operations | Hard behaviour |
|---|---|---|---|
| parallel tree, `ParallelTree` in `partition_tree.py` | nodes with status, process and children; queues `unsolveds`, `simplifieds`; lists `simplifyings`, `solvings`; task files; `result` | `make_node`, `node_simplified`, `node_solved` with push-up and push-down, `terminate_node`, `select_split_node`, `set_node_split` | queues and lists keep nodes that were decided meanwhile; push-up, push-down and splits in any order; files removed while somebody may read them |
| coordinator, `coordinator.py` | `status`, tree, round number, model, subprocess handles | the loop of `interactive_solve`: messages of the leader, polls, new partitioners, new solvers, result, clean-up, exit | subprocesses that end, fail or run out of memory between two polls; the lists are rebuilt while a result is found |
| isolated coordinator, `isolated_solve`, `pre_partition` | the list of subnodes; a base solver on the original formula | make the first tasks, hand them out, then solve the original | partitioners that end between two scans of the list; a list that is too long or too short |
| distributed tree, `DistributedTree` | a node for each task, `partial_status` and `status` | `assign_root_node`, `split_node`, `node_partial_solved`, `original_solved` | partial answers arrive in any order |
| leader, `leader.py` | `coordinators[c]`, `idle_coordinators`, `next_split_rank`, the distributed tree | `pre_partition`, `check_coordinators`, `assign_node_to_idle_coordinator`, `terminate_coordinators` | messages that cross each other, late refusals, failures and the time limit in the middle of a transfer |
| control messages and MPI | channels between each two processes | send, receive, probe | a large send waits for the receiver; a blocking receive waits for a sender that may have failed |
| termination of subprocesses | process groups | `terminate_subprocess` | waits of up to five seconds inside the loop |
| launcher, dispatcher | none | read the configuration, start MPI, choose the role | sequential |
| feasible domains (FDP) | fixed bits and an interval for each node, a pending state | `set_fixed`, `apply_interval_constraint`, tightening in both directions, `merge`, `overwrite`, `copy_from` | wrap-around, empty, full and complementary intervals; a change that is not marked |
| propagation rules (FDP, `operator_dispatch`) | none | one rule for each kind of node | division by zero, shifts past the width, overflow, a node that is its own sibling |
| domain propagator (FDP, `propagator.cpp`) | `d_domains`, `d_queue`, `d_changed_nodes`, the frontier, marks | full propagation, frontier, encodings, trial, addition and removal of frontier nodes, rebuilding | one vector of domains that is assigned, propagated and rolled back again and again |
| prefix array (FDP) | snapshots of domains by level | `update`, `get_ptr`, `changed_nodes` | a level that sees later ones |
| partition task builder (FDP) | the baseline, actions, probes, common guards | probe, judge, emit | a probe that leaves something behind; guards that do not cover the parent |
| bit-vector semantics (`lib/bv`, `rewrite/evaluator.cpp`) | none | what each operator means | division by zero, signed shifts |
| Bitwuzla | | | third-party |

How they interact: a coordinator talks to its subprocesses through exit codes,
the last line of their output and files; leader and coordinators through MPI
messages with tag 1 (the kind) and tag 2 (its argument, or a task file); a task
file goes directly from one coordinator to another.  Each Python process has one
thread, so everything another process can see of it happens at a poll, a probe, a
send or a receive.

The behaviours that are hard to test, each with its line and the properties that
watch it, are the hazards of `PROJECT.json`.

## 2. Modules

A formula is the set of its models, a subset of the constant `Models`.  It is
satisfiable iff the set is not empty; a partition of `A` is two sets whose union
is `A`; an external process may say `unsat` only of the empty set and `sat` only
of another one.  No guard of the program reads a set of models, only the guards
that say which answers an external process can give; so what a property says
about models is decided by what the program does with statuses, files and
messages.

**`ParallelTree`** holds the variables and methods of class `ParallelTree`.  Ids
are creation order as in the code; `left[n]` is the first child (the second is
the next id) and `anc[n]` the chain of parent pointers.  `PushedUp`,
`PushedDown` and `NowUnsat` are the nodes that the recursive `unsat_push_up` and
`unsat_push_down` reach, written without recursion: a node is reached iff the
walk stops at none of the nodes before it.  `SplitPoint` and `SplitNodes` are
`select_split_node`; the time a node has been solving for is not modelled, so a
node that has started solving may or may not qualify.  The ghost variable `given`
holds the models of sub-problems that were split away.

**`Coordinator`** is `interactive_solve`.  `pc` follows the loop: `recv` (one
message of the leader at most), `simplifyings` and `solvings` (the two calls of
`check_runnings_status`, one action for each polled node, `todo` being what is
left of the list and `kept` the local `still_runnings`), `partition`, `solve`, and
`done` (`solving_round_done`).  `memout` and `failed` are the two ways out of
the loop by an exception; the process then waits for the leader's terminate.
`PartitionerFaults` and `SolverFaults` say how the external processes may fail.

**`SolvingRound`** is what a coordinator promises about one round, without any
tree: it owes an answer for the models of its formula except those it gave away,
and says `unsat` only when it owes nothing.  `Coordinator` implements it
(`ImplementsSolvingRound`, with `owed` refined by `mods[Root] \ given`).

**`DistributedTree`** holds the leader's tree, including the assertion of
`unsat_push_up` (`PushUpAsserts`).

**`Distributed`** is the whole program: the leader's loop, the distributed
coordinators, the isolated one, and the channels.  What a coordinator does inside
a round is that of `SolvingRound`, seen through `task`, `owed` and `answer`: it gives
away parts of its task, and its guard `Justified` says of an answer what
`Coordinator` is proved to keep to.  A control message
and its argument are one record, because the receiver takes the second right
after the first and messages of one pair of processes stay in order.  The
variable `buffered`, chosen at the start among `Buffering`, says whether MPI
buffers task files or a send waits for its receiver.  The ghost variable `given` holds
the models of those first tasks that the leader assigns: `pre_partition` of the
isolated coordinator may find one task more than there are distributed
coordinators, the leader hears of the number and assigns the first `N`
(`KnownTasks`), and the isolated coordinator sends the last one to its own rank, which
without a buffer never returns (phase `stuck`).  `Crash` is an exception anywhere in
the loop of a coordinator, idle, receiving or solving, or in `pre_partition`, before and
while the tasks are handed out; a memory-out only where processes are polled.
`AcceptNode` evaluates the assertion that a coordinator that is given a task is idle, and
takes the exception if it is not.

**`Verdict`** is what the user is promised: one verdict, and `sat` or `unsat`
only when it is true.  `Distributed` with one or two coordinators implements it
(`ImplementsVerdict`); with more, what is printed is about the first tasks
(`VerdictOfTasks`), which need not cover the formula.

**`PrePartition`** extends `Coordinator` with `pre_partition` of the isolated
coordinator: the polls are those of `Coordinator`; `Rescan` is the pass over
`subnodes`, with its early `break`.  `num_dist_coords` and the number of cores
are variables that keep their initial values, so that one run looks at all
sizes.

**`FeasibleDomain`** is the class of that name in FDP, for one node: `bits` are
`d_fixed` and `d_value`, `iv` the interval, `last` is `d_last_interval_size` and
`pending` is `d_pending_state`.  The operators (`SetBits`, `Apply`, `TightenBits`,
`TightenInterval`, `Merged`, `Overwritten`) take a domain and return the new one
with a `Result`; the actions are the calls that the propagator, its rules and
its history make.  A rule may impose any constraint.  The ghost variable
`witness` is a value that all constraints so far allow, or `None` once one
excluded it.

**`RuleState`** is what the propagation rules work on: the domains of a node and
its children, and the `Result` so far.  The domains are those of `FeasibleDomain`,
whose operators it instantiates for the width of each (`F(w)`).  The rules follow
the files of `operator_dispatch`: **`BooleanRules`** (Boolean and bitwise
operators, extract and concat, ITE), **`ComparisonRules`** (unsigned and signed
less-than, equality), **`ArithmeticRules`** (addition, multiplication),
**`DivisionRules`** and **`ShiftRules`**.  A rule is an operator from a state to the
state it leaves; a conflict leaves the domains as they are half-way.  Some rules of the
code, such as that of a sum, go on for a few operations after a conflict and report it
then; what these would narrow is left out, as nothing reads the domains after a
conflict but the rollbacks, which replace them by copies.  **`BitVectors`** says what the operators mean, and
**`PropagationRules`** holds the switch of `propagate_node`, its loop, and the
meaning of each kind.

**`NodePropagation`** is one node and its children, with any domains the
propagator can have, while `propagate_node` is called once.

**`PrefixArray`** is `FdPrefixArray`: a history is a sequence of levels, and a level
a function from the nodes stored in it to their domains.

**`Propagation`** is the work list: a formula in topological order, the domains of
its nodes, `queue`, `changed` and `conflict`.  One step, `PropagateTop`, is one round
of `feasible_domain_propagate`: the rule of the top node, then `consume_domain_state`
of it and its children, which says who is queued and who is remembered in
`d_changed_nodes` (`Settle`).  After a conflict the node and its children stay as the
rule has left them half-way, and `collect_changed_on_conflict` marks all that may have
moved.  `RestoredFrom` is every rollback.

**`Propagator`** is `Propagator::run`, stage by stage, each iteration of a loop an
action (two, where it propagates in between).  Its end, `final`, is the set of worlds
(values of all nodes) that the final roots allow; `worlds` and `Models` are those of
the input.  So `FormulaPreserved` compares two sets, and no formula is ever
built.  The estimated cost that decides whether redundant frontier nodes are
looked for is left open: both ways are taken (`Turn`).

**`PartitionTasks`** extends it with `run_propagation_only` and
`PartitionTaskBuilder`: the actions, the probe of both their sides, the guards
that one side rules out and that are common to both tasks, and the two tasks.  A
guard is the set of worlds in which it holds.  The scores that choose among
candidates are left out; every candidate may be chosen.

**`MCCoordinator`**, **`MCDistributed`**, **`MCPrePartition`** and **`MCPropagator`**
give constants their values; the last one is a catalogue of small formulas.

**`CoordinatorProofs`**, **`PrePartitionProofs`**, **`DistributedProofs`**,
**`FeasibleDomainProofs`**, **`RuleProofs`**, **`NodePropagationProofs`** and
**`PropagatorProofs`** hold the proofs; what they need beyond the checked properties is
defined at the end of `Coordinator`, at the end of `Distributed`, and in the proof
modules themselves.  **`Turns`** is about loops: the rules and the pass are written with
folds over sequences (`InOrder`, `InTurn`), and an `INSTANCE` of `Turns` for each loop
body gives it the theorem that what every turn keeps, the loop keeps.

How the modules rely on one another:

* `Distributed` relies on a coordinator's round being a `SolvingRound`: checked
  in the Coordinator runs, and proved (`Refinement`).
* `PrePartitionTasks` of `Distributed` lets the isolated coordinator find up to `N + 1`
  tasks with any models of the formula.  With one or two distributed coordinators they
  are at most `N` and cover it, as module `PrePartition` shows
  (`SmallPrePartitionCovers`, proved).  With three or more they need not (finding
  `PrePartition_three`).
* `SimplifyPartitionTask` of `ParallelTree` assumes that the two child tasks of a
  partitioner cover their parent, and that the simplified formula is the same
  formula.  `PartitionTasks` looks at this (`ChildrenCover`, `FormulaPreserved`): it
  holds for the catalogue of formulas, and not for signed right shifts (finding
  `Pass_ashr`).
* `Propagator` relies on the rules: `RuleSound` of `NodePropagation` checks each by
  itself, and `RuleProofs` proves what the work list and the rollbacks need of them.  `FeasibleDomain` in turn checks the operations the rules are made of.

## 3. Runs

### Coordinator

* **`Coordinator_safety`** (11 nodes, 4 cores, 2 models, no fault, about 890,000
  states).  Eleven nodes make a tree of which, after a first split, a second one
  is possible inside what is left, with the push-up of the first still
  visible; with seven, only one split fits.  Four cores let two partitioners
  and two solvers overlap.  Two models let the halves of a partition differ,
  overlap or be empty.  It shows that `unsat` is sound at every node
  (`UnsatSound`), that `unsat` is closed in both directions, which the assertion
  in `select_split_node` needs (`UnsatClosed`), that a decided round is noticed
  although `is_done` is evaluated at one place only (`DecisionReported`), that no
  process is in neither list (`ProcessesListed`), that never more processes run
  than there are cores although the count comes from lists (`CoresRespected`),
  that files exist as long as they are needed (`FilesPresent`), that no open node
  is forgotten (`NoNodeLost`), that no exception leaves the loop (`NoCrash`), that
  an ended node stays so and gets no process again (`EndedForGood`), and that the
  module implements `SolvingRound`.
* **`Coordinator_faults`** (7 nodes, 3 cores, every fault, models requested,
  about 265,000 states).  A decided round is noticed whatever fails
  (`DecisionReported`).  The other safety properties that hold under faults are
  proved for every fault (section 4), from invariants which this configuration was used
  to find.
* **`Coordinator_live`** (7 nodes, 3 cores, no fault): each round is answered
  (`RoundAnswered`).  Symmetry is not used, as the property is a liveness
  property.
* **`Coordinator_nosplit`** (expected violation), see section 5.

*Fairness.*  `WF_vars(Step)`: the loop never blocks.  `SF_vars(SomeExit)`: if
processes are polled again and again, some poll finds one that has stopped.
Partitioner and solver always terminate given enough time, and a round starts
finitely many; weak fairness would not do, as a poll is enabled only while `pc`
is at that node.  No fairness is assumed of the leader's messages.

*Bounds.*  `MaxNodes` also ends `MayTake` when the tree is full, where the
program would go on.  The program reaches the same situation when all cores are
taken, so no behaviour is added.

### Distributed

* **`Distributed_safety`** (3 distributed coordinators and the isolated one, 5
  tasks, 1 model, buffered sends, no fault, about 1,590,000 states).  The five tasks are
  the root, one to four first tasks, and splits of them.  After one first task
  and a split of it, a coordinator that has just finished becomes the target of a
  second request while the first one, for the third coordinator, is still on its
  way to it.  With four first tasks the leader assigns three.  `NoModelLost`: each
  model of the tasks it assigns is always with somebody who must still answer for it.
  `RankAccounted`: each idle rank is waiting in `idle_coordinators` once or is the target
  of one request.  `OpenTasks`: the leader's tree and its table of coordinators agree.
  `NoLeaderError`: the leader's own assertions hold, provided no message takes longer
  than `split_tabu` (`TabuCovers`).  `VerdictOfTasks`: `unsat` is printed only when none
  of the assigned tasks has a model, and `sat` only when the formula has one.
* **`Distributed_faults`** (2 distributed coordinators, 4 tasks, every failure and the
  time limit, with buffers for task files and without, about 574,000 states).  What is
  printed is right, of the whole formula, and is printed once (`ImplementsVerdict`).  No
  task is on its way to a coordinator that has one (`AssignedWhenIdle`), so the assertion
  of `receive_message_from_leader` does not fail, not even while the last messages
  overtake the verdict.  Something is printed, and then every process ends, unless a
  coordinator has failed (`Concludes`).  The time limit leaves task files in the middle of
  their transfer, so this is about every order in which the last messages can meet, also
  when a send waits for its receiver.

*Fairness.*  Weak fairness for each reaction of the leader and of each
coordinator: both poll for ever.  `Solves(c)` for the distributed coordinators is
`RoundAnswered`, which run `Coordinator_live` checks; with a partitioner that
fails in the way of `Coordinator_nosplit` it is not justified, and then only the
leader's time limit ends the run.  Nothing is assumed about the isolated
coordinator's own answer, about requests to split, failures or the time limit.

*Bounds.*  `MaxTasks` bounds the leader's tree; `MayRequest` makes no request
that could not be granted within it.  Time is not modelled: `split_tabu` is
either long enough for every message (`TabuCovers`) or may be over at any time.

*Deadlock.*  `Distributed_faults` turns the deadlock check off because a
coordinator whose source has failed waits for ever (section 5), and because all
processes end; `Concludes` says when the system may stop.

### PrePartition

* **`PrePartition_sizes`** (one to four distributed coordinators, one to three
  partitioners at a time, 9 nodes, failing partitioners).  The files of the
  subnodes are written when they are handed out (`SubnodesHaveFiles`; so the branch
  that hands out the root because there is no subnode is never taken), and with
  two coordinators or one core they cover the formula
  (`SmallPrePartitionCovers`).  Nine nodes are enough for the list to outgrow four
  coordinators.  The deadlock check is off because `pre_partition` returns.
* **`PrePartition_three`** (expected violation), see section 5.

### Feasible domains

* **`FeasibleDomain_width`** (nodes of one to three bits, every interval, about
  15,000 states and 1.4 million steps).  No order of operations loses a value or
  reports a conflict while there is one (`WitnessKept`); all bits fixed means that the interval is
  that value (`FixedAgrees`, from `check_invariants`); in every state that can be
  reached, tightening notices that a domain is empty and otherwise makes both
  bounds values (`EmptyNoticed`); parents are told before a quarter of the
  interval is gone (`DriftBounded`); no change goes unreported
  (`ChangesReported`, what the rollback relies on).

*Bounds.*  One bit is a case of its own in the code.  With three bits there are
complementary intervals whose gap lies between fixed bits, counters that
overflow and counters that do not, and a quarter of the interval is a whole
number.  `Snapshot` bounds the domains that `merge`, `overwrite` and `copy_from`
are given to what one fixed bit or one interval leaves.  The run's `VIEW` leaves
out the last result unless it ends the work, as nothing else depends on it; every
step is still checked against `ChangesReported`.

### Rules and pass

* **`Rules_width`** (all sixteen kinds, children of one and two bits, also the same
  child twice; about 24,000 states).  Something is known of at most two of the
  nodes: any domain that fixed bits and one interval leave after tightening.  A
  rule keeps every solution and reports a conflict only if there is none
  (`RuleSound`), never widens a domain (`OnlyNarrower`), leaves no change without
  its pending state (`ChangesKept`, what rollback relies on, also half-way to a conflict), and computes the node
  when its children are constants (`ChildrenDecide`, what the frontier relies
  on when it takes children for their parent).
* **`Pass_small`** (about 200 formulas of up to ten nodes, symbols of one to three
  bits).  The catalogue has each operator in a bounded comparison, sums that may
  wrap around, atoms that follow from others, Boolean skeletons with shared
  children, choices, pieces of symbols put together, and a symbol whose
  domain is complementary.  The formulas have the form the rewriter leaves.  The
  final formula is the input (`FormulaPreserved`); the frontier alone makes the
  roots true, in every world (`FrontierSuffices`, from `debug_check_frontier`) and
  for the propagator (`RootsFixedTrue`, from `CHECK_ROOTS_FIXED_TRUE`); after each
  rollback the domains are those of the level (`RollbackComplete`); a probe keeps
  the models of its guard (`ProbeKeepsModels`); the two tasks have the models of
  the formula, and the pass answers unsat only if there are none
  (`ChildrenCover`).
* **`Pass_ashr`** (expected violation), see section 5.

*Bounds.*  At two bits a number can wrap around, be the largest, be one below it,
or have its sign bit alone; three bits are there where an interval must shrink
without fixing a bit, or wrap around with more than one value.

Each property of a passing run has a mutant: an operator of the model, changed
the way a slip in the code would change it, under which TLC finds the property
violated.

## 4. Proofs

Every safety property of a coordinator that a run checks is proved, for every number
of nodes, cores and models and, where nothing else is said, every set of faults:

* the tree, in `CoordinatorProofs`: `TypeCorrect` (`Spec => []TypeOK`), `UnsatIsSound`
  (`Spec => []UnsatSound`), `Refinement` (`Spec => ImplementsSolvingRound`),
  `UnsatIsClosed` (`Spec => []UnsatClosed`) and `DecisionIsReported`
  (`Spec => []DecisionReported`);
* the processes: `NoProcessForgotten` (`Spec => []ProcessesListed`),
  `EndedNodesRest` (`Spec => EndedForGood`),
  `CoresAreRespected` (`Spec => []CoresRespected`) and
  `FilesArePresent` (`Spec => []FilesPresent`);
* progress: `CrashFree` (`Spec => []NoCrash`) if no model is asked for
  and base solvers make no error, and `NoNodeForgotten` (`Spec => []NoNodeLost`) if
  partitioners fail only by running out of memory.

The conditions are needed: section 5 says what happens when a partitioner cannot
partition, a base solver makes an error, or a model is asked for.  Nothing else is
needed; in particular no failure of a partitioner makes a split copy a missing file, and
no failure of a base solver loses a node.

The assumptions are those the modules name: `MaxNodesAssumption`,
`CoresAssumption`, `FaultsAssumption`.

*The argument.*  `UnsatSound` is not inductive: whether push-up may mark a parent
depends on its children covering it, and whether push-down may mark a child on
the child adding nothing.  `IInv` adds the shape of the tree (`TreeShape`: `anc`
is the strict ancestor relation of the tree that `left` describes), the covering
(`ModelsCovered`), which nodes can have children (`StatusShape`), what the result
says of the root (`ResultSound`), and where in the loop the round is
(`LoopShape`).  The heart is the lemma on `NowUnsat`: going up, a marked
ancestor has an unsat child beside the one the walk came from, so its models
are covered by two sets that are in `given`; going down, a node's models are among
those of its ancestor.  The refinement follows from `IInv`: `RoundDone` answers
`unsat` only with the root unsat, and then the root's models are in `given`.

`ProcessesListed` and `EndedForGood` need `LInv`: a process belongs to a running
node, and while a list is polled, each node of it that has a process is either in
`kept` or still in `todo`.  This is the fact that makes `round_clean_up` complete
in the middle of a poll, when the lists have not been rebuilt.

`CoresRespected` is about processes, and the code counts lists.  `ListsBounded` says
that the lists hold at most as many nodes as there are cores and that `kept` and `todo`
are together no longer than the list that is being polled; by `LInv` a process belongs to
a node of a list.  `FilesPresent` is inductive given `IInv`: files are removed only with
nodes that end, and queues get nodes whose file is written in the same step.

`UnsatClosed` needs `CInv`.  `unsat_push_down` stops where it meets an unsat node, and
`unsat_push_up` where a sibling is open, so what has to be known is that unsat is closed
along whole paths (`UnsatDown`) and not only from parent to child, and that a path goes
through one child of each of its nodes (`OnePath`).  The heart is the lemma
`BesideIsUnsat`: below a pushed up node, whatever is on no path with the walk has
branched off at an unsat sibling.  `DecisionReported` follows: beside a node that is
split there is an open one, so the walk up ends at its parent and never at the root.

For `NoCrash`, a node that `select_split_node` offers is in `started`, so by
`StartedShape` it is solving unless it has ended; the node is not unsat, a sat one
would have decided the round, and by `BesideTerminated` a terminated one has an unsat
sibling, which the choice of the split point excludes.  So its file is there.
For `NoNodeLost`, `NodesKept` says where a node of each status waits.  The case that
needs `ChildrenWait` and `OnePath` is a node whose process is stopped because another
one became unsat: its children are still untouched then, so the walk cannot have come
from below it, and it ends itself.

`PrePartitionProofs` is about the isolated coordinator: `TasksHaveFiles`
(`IsoSpec => []SubnodesHaveFiles`) and `SmallRoundsCover`
(`IsoSpec => []SmallPrePartitionCovers`), for every number of coordinators, cores, nodes
and models and every set of faults, under the assumptions above and `DistsAssumption`.

*The argument.*  `IsoInv` holds while the tasks are looked for.  The tree keeps its
invariants (`IInv`, `CInv`, `ChildrenWait`), because the polls and the new partitioners
are those of `Coordinator`.  Of the list, `Scanned` says four things.  `Ready`: whatever
the next scan puts in the place of a subnode has its file; a child of a simplified
subnode is unsolved until the poll is over, so at the scan it can have a partitioner but
no children that matter.  `Apart`: no subnode is another one or below it.  `AllReached`:
each open node has an open subnode above or below it; so the list never becomes empty
while the root is open.  When `node_solved_unsat` closes the last open subnode below a node,
`unsat_push_up` closes the node, and this is where `CInv` is needed.  `Whole`: the subnodes
cover the formula; those dropped are unsat, and nothing is given away yet.  `Whole`
survives a scan only if the scan reaches the end of the list.  For that, `Short` says that
the list is shorter than `num_dist_coords` when a scan begins (or there is one
coordinator, and the list is the root), and `OneByOne` that with one core at most one
subnode was simplified since the last scan; then the list grows by one at most
(`UpToLength`) and is long enough only at its end (`SmallScan`).  `FlattenSeq` of the
community modules, which the scan is written with, is a recursive function; its recursion
is solved by `FlattenSteps`.

Of the protocol between the leader and the coordinators, the following is proved for
every number of coordinators, tasks and models and every set of faults, all of it under
`TabuCovers`: a message is never later than `split_tabu`.  Section 5 says what happens
when one is.

* in `DistributedProofs`, of the leader: `WellTyped` (`Spec => []TypeOK`), `TasksAgree`
  (`Spec => []OpenTasks`) and `AssertionsHold` (`Spec => []NoLeaderError`).
* of the search: `NothingForgotten` (`Spec => []NoModelLost`), `VerdictAboutTasks`
  (`Spec => []VerdictOfTasks`), `RanksAreListed` (`Spec => []RankAccounted`) and
  `AssignedToIdle` (`Spec => []AssignedWhenIdle`);
* of the whole formula: `VerdictIsRight`, which says that with one or two distributed
  coordinators the protocol implements `Verdict` (`N <= 2 /\ Spec => ImplementsVerdict`).
  With three or more this is not so: the first tasks need not cover the formula
  (finding `PrePartition_three`), and the theorems above speak of the tasks that the
  leader assigns.

The bound `MaxTasks` on the tree must leave room for the first tasks
(`NAssumption`: `N < MaxTasks`).

*The argument.*  What the leader has noted of a coordinator and what the coordinator is
doing differ by the messages under way, so `DInv` is about the queues.  `OneSplit`: of
request, order to transfer and answer at most one is under way, in both queues taken
together; here `TabuCovers` is used, as a second request is sent only when the first is
settled.  `InOrder`: a task is the last thing a coordinator is sent, and after its result
it can only refuse.  `InStep` then ties the table to the phases: a split is answered
for only by a coordinator that is noted as splitting, and a result comes only from one
that has a task.  `TargetsApart` and `IdleApart` say that the target of a request is idle,
is the target of no other and is not in `idle_coordinators`; so the target of a split that
is reported late is still idle, although results were read in between.  `RequestsBounded`
counts targets, because each split that is asked for will need a task.  For `unsat_push_up`,
`Chains` and `ChainsMeet` say that `above` is the ancestor relation of a tree, and
`UnsatBelow` that below an unsat task nothing is open: the walk starts at an open task, so it
meets none that is unsat.

`MInv` is inductive on top of `DInv` and is about the models.  `Covered` says where each
model of `given` is, as long as no distributed coordinator has reported `sat` and the
leader may still hear of every task: among the tasks that a distributed coordinator owes
an answer for or has promised to transfer, in a task file on its way, or in a first task
that the isolated coordinator has not handed out yet.  A failure anywhere may leave a
task unanswered, and `Unanswering` says when: its coordinator has failed before its
result (`Silent`), or waits for a task from one that has failed before sending it.  The
isolated coordinator's own `unsat` is right because it owes every model by itself
(`IsoOwesAll`).  `Covered` is not enough to be
kept, because a file could be received by a coordinator that is solving, or twice.
`ComesOnce` excludes that: each task comes to a coordinator that waits for it or has
failed, along one channel and once, as a request, an order to transfer or a file.  With
it, `VerdictAboutTasks` needs one more observation (`LastAnswer`): when the walk of
`unsat_push_up` reaches the root, no task is open but that of the sender, so by
`OpenTasks` the others are idle, by `ComesOnce` nothing is on its way to them, and by
`OwesNothing` they owe nothing.  The sender's own answer is justified, so by `Covered`
no assigned task has a model (`NothingLeft`).  `sat` comes with a model of a part of the
formula (`SatIsTrue`, `PartsOfFormula`).  `VerdictIsRight` adds `GivenAll`: with one or two
coordinators the assigned tasks are the formula.

`AssignedWhenIdle` holds by `InStep` and `InOrder` as long as the leader is at work.  It
also holds after the verdict, when these no longer do: what is still in the
queues then was sent before it, so a coordinator has at most one task under way
(`AssignedOnce`), and accepting it takes it from the queue.

`RankAccounted` counts how often an idle rank is waiting or the target of a request.
That it is never twice follows from `DInv`: `TargetsApart`, `IdleApart` and `OneSplit`.
That it is once needs an invariant of its own, `IdleListed`: as long as no distributed
coordinator has failed, an idle rank is in `idle_coordinators` or is the target named in
a request to split or an answer to one that is still under way.  The step that reads
an answer either puts the target back or gives it the task, so no rank is dropped
between the two.

`FeasibleDomainProofs` is about one node and proves, for every width, all that the run
`FeasibleDomain_width` checks for one to three bits:

* of the specification, that is of any sequence of operations: `DomainTypes`
  (`Spec => []TypeOK`), `ValuesAreKept` (`Spec => []WitnessKept`), `FixedDomainsAgree`
  (`Spec => []FixedAgrees`), `DriftIsBounded` (`Spec => []DriftBounded`),
  `EmptinessIsNoticed` (`Spec => []EmptyNoticed`) and `ChangesAreReported`
  (`Spec => ChangesReported`);
* of single operations: `IntersectionExact` (the cases of `intersect_interval_constraint`
  compute the one piece that two intervals share, and throw nothing), `FindMinRight` and
  `FindMaxRight` (the nearest value that the fixed bits allow), `ApplySound`,
  `TightenBitsSound`, `TightenIntervalSound` and `OverwrittenSound`.

*The argument.*  The inductive invariant is `DomainInv`.  Its main part is that the
domain is `Good`: a complementary interval has a gap, what the parents were not told of
is at most a quarter, and when all bits are fixed the interval is their value.  This
holds of `Stored(Current)`, the domain without what is pending, because a CONFLICT
may be pending and is consumed before the next operation.  Each operation is shown to take a
`Good` domain to one that `Follows` from it (good again, with no change unreported) and
to keep (`Keeps`) the values that its argument allows; the actions of the
specification are combinations of these.  The hard part is `find_min_consistent`, which
looks for the highest bit in which the limit contradicts the fixed bits and counts up the
free bits above it.  That it returns the *least* value rests on lemmas about bits: a number
below `2^n` is determined by its bits (`SameBits`), every choice of bits is the choice of
some number (`AnyBits`), and of two numbers the one with a 0 in the highest bit
they differ in is smaller (`HighestDifference`, `LowerBit`).  That powers of two
double (`PowerDouble`) is proved by counting the subsets of a finite set; induction
over the bits is by the least counterexample (`NatInd`).  `find_max_consistent` is
treated as `find_min_consistent` with every bit inverted.

### The rules and the pass

`RuleProofs` is about every rule but that of `bvashr`, for every width, `NodePropagationProofs`
about one call of `propagate_node`, and `PropagatorProofs` about the whole of
`Propagator::run`:

* `PropagateNodeMoves`: `propagate_node` touches the node and its children only; a domain
  with other bits or another interval is left with a pending state that says so; and
  a domain whose bits are all fixed keeps the interval of their value.  Each rule
  has a lemma of this form (`MulTouches`, `DivisionTouches`, `ShlTouches`, ...), which allows
  for a conflict half-way and for the same child twice.
* `ChangesKeptRight` (`Spec => ChangesKept` of `NodePropagation`): the same, for whatever
  domains a node starts with.
* `RollbacksComplete` (`PassSpec => []RollbackComplete`): after each trial of a frontier
  node, and each addition and removal, the domains are those of the last level of
  the history, and nothing is marked as changed.  It is stated for
  every finite formula, of any size and width, with any roots.

*The assumptions.*  `FormulaAssumption` says of a formula what `init_nodes_in_topo` gets
from Bitwuzla: nodes numbered from 0, as many children as the kind takes, a width of at
least 1, and a bit-vector among the children of a kind that is not one of Booleans.  The last
is what `collect_propagated_frontier` asserts when it looks for the rule of a node with
Boolean children only.  `BoundsAssumption` says that the kinds that are checked are
kinds.  `RollbacksComplete` has the hypothesis `NoShift`: no node is a `bvashr`.  It is
needed, as run `Pass_ashr` shows by a formula that has one, and `Pass_small` is an
instance that meets it.

*The argument.*  `RollbackComplete` speaks only of the moments after a rollback.  What is
true all the time is `Remembered`: a node that is not in `changed`, and that is not in the
queue with something pending, agrees with the `Base` of the history, the last level
that knows it or a fresh domain.  Which history this is depends on the stage
(`Reference`): none before the first level is stored, `prefix` while frontier nodes are
added, `history` otherwise.  A rollback restores the nodes in `changed`, so when the queue
is empty `Remembered` makes it complete (`RollbackRight`); storing a level is the other way
to make `changed` empty (`StoreRight`).  A round of the work list keeps `Remembered`
because a node that a rule changes is pending (`PropagateNodeMoves`), is then put in the
queue or in `changed`, and leaves the queue only when it is in `changed` or not pending
(`SettleRight`).  The change of the reference is the delicate part.  From adding to
removing, the domains go from the last level of `prefix` to level 0 of `history`: the rollback
goes over the nodes that any level of `prefix` after the first has stored, and of the
others the base is that of level 0 in both (`BaseUntouched`).  When the encodings are staged,
the domains are taken back to fresh ones, and what is encoded of symbols or set by constants
is pending.  `Steps` says what each stage has in its lists; `IInv` holds all of this,
as long as no conflict is found.  It was checked by TLC on the formulas of `Pass_small`
before it was proved.  `DomainsRemembered` is `PassSpec => []IInv`.

The model writes `tighten` and the rules with loops; for each loop, `Turns` reduces
what is to be shown to one turn.  `Turns!TurnsKeep` is itself proved by the least
counterexample, since folds are recursive functions.

*Only model-checked*, and why:

* what the rules *compute*, that is `RuleSound`, `OnlyNarrower` and `ChildrenDecide`: the
  sound and exact operations on one domain are proved in `FeasibleDomainProofs` for one width
  given as a constant, and their theorems cannot be cited of the instances `F(w)`, of
  which a rule uses several at once; and the columns of a product are sums over
  folds, whose value is an induction over data;
* for the same reason what follows from the meaning of the rules: `FormulaPreserved`,
  `FrontierSuffices`, `RootsFixedTrue`, `ProbeKeepsModels` and `ChildrenCover`, which are checked
  for a catalogue of formulas;
* all liveness properties (`RoundAnswered`, `Concludes`), which the prover
  does not handle.

## 5. Where the code and its promises differ

The runs that are expected to fail:

* **`Coordinator_nosplit`**: a node whose partitioner cannot partition it stays
  `simplifying` for ever, because `check_simplifying_status` keeps
  `partition_failed` in a local variable.  If it is the root, the round ends only
  with the time limit.
* **`PrePartition_three`**: with three distributed coordinators and two
  partitioners that end between two scans, `pre_partition` makes four tasks.  The
  leader assigns three, and the models of the fourth are in no task, so `unsat`
  could be printed for a satisfiable formula.  The isolated coordinator sends the fourth
  to itself and, if the send is not buffered, waits for ever: `HandOut` of `Distributed`.
* **`Pass_ashr`**: when one sign of the operand of a signed right shift is
  impossible, the rule copies the domains of the other one back, and with them
  the pending state UNCHANGED.  A change that was pending is lost: parents are not
  told, and a rollback does not find the node.  In the run, `(bvashr x y) = 3` and
  `x < 3` in two bits, what the roots said of `y` stays in its domain through the
  rollback and is encoded nowhere; the final formula is `x = 2` alone, and the
  same formula violates `FormulaPreserved` as well.  For formulas without such a shift
  it cannot happen (`RollbacksComplete`).

Two more disagreements are in `Distributed`, and show when the configuration is
changed:

* A refusal of an earlier request resets the status of a coordinator, which is then
  asked twice (`leader.py:198-200`).  With `MaxTasks = 6` and `TabuCovers = FALSE`,
  that is, when a refusal may take longer than `split_tabu`, `NoLeaderError` is
  violated: `assert(self.status.is_splitting())` in `split_node` fails.
* A coordinator that has accepted a task from one that fails before sending it
  waits in a blocking receive for ever, and with it the barrier at the end
  (`coordinator.py:641`).  This is why `Concludes` has the condition that no
  coordinator has failed.

Two more are part of the model without a run of their own.  Both
fire in `Coordinator_faults`.  `SplitCopyFails`: `select_split_node` looks at how
long a node has been solving and not at its status, so a node whose base solver
failed, whose file `terminate_node` has removed, can be offered for a split;
`copyfile` raises after `split_succeed` was sent.  `ModelMissing`: with
`get_model`, a `sat` answer of the partitioner comes without a model, and
`assert(self.get_model_done)` in `send_result_to_leader` fails.

`FixedAgrees` shows a harmless one.  `set_fixed` replaces the interval
when the last bit is fixed, so `judge_valid`, which the rule for ITE calls to see
whether a fixed value is outside its interval, never answers CONFLICT: the
contradiction is forgotten, and the domain that was empty allows one value.

Smaller observations on the rules, none of which loses a model: the rule for
BVXOR reports no conflict when all three bits are known and inconsistent; BVUREM
does not always compute its result from constants, so `ChildrenDecide` leaves it
out; `ChangesKept` leaves BVASHR out because of the finding above; the branch of
`normalize_wrapping_interval` for a wrapping constraint is never taken by the
constraints of the builder; in the removal of frontier nodes, `top_true_failed` is
never set for a formula of the catalogue.

## 6. Not modelled

* `num_dist_coords = 0`, where the leader has only the isolated coordinator;
  `init_coord_0`, which nothing calls.
* Time: the thresholds of a split, `split_tabu`, the twenty seconds of
  `pre_partition` and the waits of `terminate_subprocess` are choices.
* Directories and their removal one round later; log files; the model that is
  printed with `sat`; `unsat_percent`, which only feeds the log.
* Launcher and dispatcher: sequential input and output.
* In FDP: the construction of the DAG from the assertions and of the final one, with
  its common subexpressions; the estimated cost, scores and limits on the number
  of actions, which choose among things that are all possible in the model; the
  tasks as files.  The second propagation starts from the roots of the input,
  as it does when the pass takes its changes back, and not from the final roots.
* Bitwuzla (parser, node manager, rewriter, bit-blaster, local search, theory solvers,
  interfaces): the upstream solver that FDP is built into, seen through what a
  coordinator reads of it.  It is more than nine tenths of the lines under `src`.

## 7. Plan

1. `num_dist_coords = 0` in `Distributed`.
2. The final roots as a formula of their own, so that the second propagation can start
   from them.
3. Proofs: that the rules keep every solution (`RuleSound`), and then the pass.  It needs
   the operations of a domain proved as lemmas with the width as a parameter.
