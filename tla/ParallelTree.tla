---------------------------- MODULE ParallelTree ----------------------------
(***************************************************************************)
(* The tree of sub-problems that one coordinator works on during one       *)
(* solving round: class ParallelTree of src/src/partition_tree.py with its *)
(* nodes, work queues, running lists and task files.  The operators below  *)
(* are the methods of that class; module Coordinator calls them.           *)
(*                                                                         *)
(* A formula is abstracted to the set of its models, a subset of Models:   *)
(* it is satisfiable iff that set is not empty.  mods and given are the    *)
(* only variables the program does not have; no guard reads them except    *)
(* those that say which answers an external process can give.              *)
(***************************************************************************)
EXTENDS Naturals, Sequences, FiniteSets

CONSTANTS MaxNodes,  \* bound: the number of tree nodes of one round
          Models     \* the assignments a formula may have as models

ASSUME MaxNodesAssumption == MaxNodes \in Nat \ {0}

\* Node ids are given in creation order, as len(self.nodes).
Node == 0 .. (MaxNodes - 1)
Root == 0

VARIABLES
  numNodes,      \* len(self.nodes); 0 when the coordinator has no tree
  left,          \* left[n]: id of the first child of n, 0 when n is childless
  anc,           \* anc[n]: the ids on the chain of parent pointers of n
  mods,          \* mods[n]: the models of the formula of n
  status,        \* status[n]: PartitionNode.status
  started,       \* nodes whose time_infos has the time they became "solving"
  assign_to,     \* assign_to[n]: the subprocess of n
  tasks,         \* nodes n with a file task-n.smt2
  simps,         \* nodes n with a file task-n-simplified.smt2
  unsolveds,     \* queue of nodes to give to a partitioner
  simplifieds,   \* queue of nodes to give to a base solver
  simplifyings,  \* list of nodes with a partitioner
  solvings,      \* list of nodes with a base solver
  result,        \* PartitionTree.result
  given          \* models of the sub-problems split away to other coordinators

shape == <<numNodes, left, anc, mods>>
marks == <<status, assign_to, tasks, simps, result>>
queues == <<unsolveds, simplifieds>>
lists == <<simplifyings, solvings>>
treeVars == <<shape, marks, queues, lists, started, given>>

Status == {"unsolved", "simplifying", "simplified", "solving",
           "sat", "unsat", "terminated"}
Result == {"unsolved", "sat", "unsat"}
Process == {"none", "partitioner", "solver"}

TreeTypeOK ==
  /\ numNodes \in 0 .. MaxNodes
  /\ left \in [Node -> Node]
  /\ anc \in [Node -> SUBSET Node]
  /\ mods \in [Node -> SUBSET Models]
  /\ status \in [Node -> Status]
  /\ started \in SUBSET Node
  /\ assign_to \in [Node -> Process]
  /\ tasks \in SUBSET Node
  /\ simps \in SUBSET Node
  /\ unsolveds \in Seq(Node)
  /\ simplifieds \in Seq(Node)
  /\ simplifyings \in Seq(Node)
  /\ solvings \in Seq(Node)
  /\ result \in Result
  /\ given \in SUBSET Models

-----------------------------------------------------------------------------
Created == 0 .. (numNodes - 1)
Children(n) == IF left[n] = 0 THEN {} ELSE {left[n], left[n] + 1}
Path(n) == anc[n] \union {n}
Ended(n) == status[n] \in {"sat", "unsat", "terminated"}
Elements(s) == {s[i] : i \in 1 .. Len(s)}

\* Mutant of StopProcesses: nothing is terminated.
StopNoProcess(S) == assign_to' = assign_to

\* _stop_node_process, or the handle of a process that has exited is dropped.
StopProcesses(S) ==
  assign_to' = [m \in Node |-> IF m \in S THEN "none" ELSE assign_to[m]]

\* Mutant of PushedUp: one unsat child is enough for can_reason_unsat.
PushedUpByOneChild(n) ==
  {a \in anc[n] :
     \A b \in anc[n] : b = a \/ a \in anc[b] => status[b] # "unsat"}

(***************************************************************************)
(* unsat_push_up, called on the parent of n: the ancestors of n that       *)
(* become unsat are those it reaches through ancestors that were not unsat *)
(* and whose other child is.                                               *)
(***************************************************************************)
PushedUp(n) ==
  {a \in anc[n] :
     \A b \in anc[n] : b = a \/ a \in anc[b] =>
        /\ status[b] # "unsat"
        /\ \A c \in Children(b) : c \in Path(n) \/ status[c] = "unsat"}

\* Mutant of PushedDown: the recursive call is missing.
PushedDownToChildren(n) == {d \in Children(n) : status[d] # "unsat"}

\* unsat_push_down, called on the children of n: it stops at unsat nodes.
PushedDown(n) ==
  {d \in Node :
     /\ n \in anc[d]
     /\ \A e \in Path(d) : n \in anc[e] => status[e] # "unsat"}

(***************************************************************************)
(* node_solved_unsat: n, the ancestors above it that follow and, unless    *)
(* the root is one of them, the descendants below it.                      *)
(***************************************************************************)
NowUnsat(n) ==
  LET up == {n} \union PushedUp(n)
  IN  IF Root \in up THEN up ELSE up \union PushedDown(n)

\* stopped: the nodes that terminate_node has just ended on behalf of a split.
NodeSolvedUnsat(n, stopped) ==
  LET over == NowUnsat(n) \union stopped
  IN  /\ status' = [m \in Node |-> IF m \in NowUnsat(n) THEN "unsat"
                                   ELSE IF m \in stopped THEN "terminated"
                                   ELSE status[m]]
      /\ StopProcesses(over)
      /\ tasks' = tasks \ over
      /\ simps' = simps \ over
      /\ result' = IF Root \in NowUnsat(n) THEN "unsat" ELSE result

NodeSolvedSat(n) ==
  /\ status' = [status EXCEPT ![n] = "sat"]
  /\ StopProcesses({n})
  /\ result' = "sat"
  /\ UNCHANGED <<tasks, simps>>

NodeSolved(n, answer) ==
  \/ answer = "sat" /\ NodeSolvedSat(n)
  \/ answer = "unsat" /\ NodeSolvedUnsat(n, {})

\* Mutants of ChildPair: wrong ids; only one child.
ChildPairOffByOne(n) == <<left[n] + 1, left[n] + 2>>
ChildPairLeft(n) == <<left[n]>>

\* children[0] and children[1].
ChildPair(n) == <<left[n], left[n] + 1>>

\* node_simplified: n waits for a base solver, its children for partitioners.
NodeSimplified(n) ==
  /\ status' = [status EXCEPT ![n] = "simplified"]
  /\ StopProcesses({n})
  /\ simps' = simps \union {n}
  /\ tasks' = tasks \union Children(n)
  /\ simplifieds' = Append(simplifieds, n)
  /\ unsolveds' = unsolveds \o ChildPair(n)

\* terminate_node: stop the process of n and remove its files.
TerminateNode(n) ==
  /\ status' = [status EXCEPT ![n] = "terminated"]
  /\ StopProcesses({n})
  /\ tasks' = tasks \ {n}
  /\ simps' = simps \ {n}

(***************************************************************************)
(* simplify_partition_task: the two children are made before the process   *)
(* is started, as their ids are part of its command line.  The tasks the   *)
(* partitioner will write for them cover the models of n between them.     *)
(***************************************************************************)
SimplifyPartitionTask(n) ==
  LET l == numNodes
      r == numNodes + 1
  IN  /\ numNodes' = numNodes + 2
      /\ left' = [left EXCEPT ![n] = l]
      /\ anc' = [anc EXCEPT ![l] = Path(n), ![r] = Path(n)]
      /\ \E A \in SUBSET mods[n] : \E B \in SUBSET mods[n] :
            /\ A \union B = mods[n]
            /\ mods' = [mods EXCEPT ![l] = A, ![r] = B]
      /\ assign_to' = [assign_to EXCEPT ![n] = "partitioner"]
      /\ status' = [status EXCEPT ![n] = "simplifying"]
      /\ simplifyings' = Append(simplifyings, n)

\* solve_simplified_task and solve_node.
SolveSimplifiedTask(n) ==
  /\ assign_to' = [assign_to EXCEPT ![n] = "solver"]
  /\ status' = [status EXCEPT ![n] = "solving"]
  /\ started' = started \union {n}
  /\ solvings' = Append(solvings, n)

(***************************************************************************)
(* select_split_node walks down from the root through the one child that   *)
(* is not unsat.  It stops at the first node p with two such children, and *)
(* offers the right one when both have been solving for long enough.       *)
(***************************************************************************)
SplitPoint(p) ==
  /\ Children(p) # {}
  /\ \A c \in Children(p) : status[c] # "unsat"
  /\ \A a \in anc[p] : \E c \in Children(a) : status[c] = "unsat"
  /\ \A c \in Path(p) \ {Root} : status[c] # "unsat"

SplitNodes ==
  {left[p] + 1 : p \in {q \in Created : /\ SplitPoint(q)
                                        /\ Children(q) \subseteq started}}

SetNodeSplit(n) ==
  /\ NodeSolvedUnsat(n, {a \in Path(n) : ~Ended(a)})
  /\ given' = given \union mods[n]

-----------------------------------------------------------------------------
\* self.tree is None.
NoTree ==
  /\ numNodes = 0
  /\ left = [n \in Node |-> 0]
  /\ anc = [n \in Node |-> {}]
  /\ mods = [n \in Node |-> {}]
  /\ status = [n \in Node |-> "unsolved"]
  /\ started = {}
  /\ tasks = {}
  /\ simps = {}
  /\ unsolveds = <<>>
  /\ simplifieds = <<>>
  /\ simplifyings = <<>>
  /\ solvings = <<>>
  /\ result = "unsolved"
  /\ given = {}

\* self.tree = None; the directory of the next round is a new one.
DropTree ==
  /\ numNodes' = 0
  /\ left' = [n \in Node |-> 0]
  /\ anc' = [n \in Node |-> {}]
  /\ mods' = [n \in Node |-> {}]
  /\ status' = [n \in Node |-> "unsolved"]
  /\ started' = {}
  /\ tasks' = {}
  /\ simps' = {}
  /\ unsolveds' = <<>>
  /\ simplifieds' = <<>>
  /\ simplifyings' = <<>>
  /\ solvings' = <<>>
  /\ result' = "unsolved"
  /\ given' = {}

\* Mutant of MakeRoot: the root is queued before its file is there.
MakeRootNoFile(f) ==
  /\ numNodes' = 1
  /\ mods' = [mods EXCEPT ![Root] = f]
  /\ tasks' = {}
  /\ unsolveds' = <<Root>>

\* make_node(-1) on a new tree, whose task-0.smt2 has the models in f.
MakeRoot(f) ==
  /\ numNodes' = 1
  /\ mods' = [mods EXCEPT ![Root] = f]
  /\ tasks' = {Root}
  /\ unsolveds' = <<Root>>
=============================================================================
