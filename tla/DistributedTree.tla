-------------------------- MODULE DistributedTree ---------------------------
(***************************************************************************)
(* The leader's tree: class DistributedTree of src/src/partition_tree.py.  *)
(* One node for each task a coordinator was given; a node becomes the      *)
(* parent of the tasks that its coordinator later splits away.  "partial"  *)
(* is the answer of the coordinator, which leaves those tasks out; the     *)
(* node is unsat when it and all its children are.                         *)
(***************************************************************************)
EXTENDS Naturals, Sequences, FiniteSets

CONSTANT MaxTasks  \* bound: the number of nodes of the leader's tree

ASSUME MaxTasksAssumption == MaxTasks \in Nat \ {0}

\* Ids are given in creation order; the root is the task of the isolated
\* coordinator.
Task == 0 .. (MaxTasks - 1)
RootTask == 0

VARIABLES
  numTasks,  \* len(self.nodes)
  above,     \* above[n]: the ids on the chain of parent pointers of n
  parent,    \* parent[n]: the parent of n, n itself for the root
  partial,   \* partial[n]: DistributedNode.partial_status
  whole,     \* whole[n]: PartitionNode.status
  decision   \* PartitionTree.result

taskVars == <<numTasks, above, parent, partial, whole, decision>>

Answer == {"unsolved", "sat", "unsat"}

TaskTypeOK ==
  /\ numTasks \in 0 .. MaxTasks
  /\ above \in [Task -> SUBSET Task]
  /\ parent \in [Task -> Task]
  /\ partial \in [Task -> Answer]
  /\ whole \in [Task -> Answer]
  /\ decision \in Answer

\* assign_root_node on a new tree.
OnlyRoot ==
  /\ numTasks = 1
  /\ above = [n \in Task |-> {}]
  /\ parent = [n \in Task |-> n]
  /\ partial = [n \in Task |-> "unsolved"]
  /\ whole = [n \in Task |-> "unsolved"]
  /\ decision = "unsolved"

SubTasks(n) == {c \in 1 .. (numTasks - 1) : parent[c] = n}

\* split_node for the tasks in the sequence ps: each gets one child more.
SplitTasks(ps) ==
  LET fresh == numTasks .. (numTasks + Len(ps) - 1)
      of(c) == ps[c - numTasks + 1]
  IN  /\ numTasks' = numTasks + Len(ps)
      /\ parent' = [n \in Task |-> IF n \in fresh THEN of(n) ELSE parent[n]]
      /\ above' = [n \in Task |-> IF n \in fresh
                                  THEN above[of(n)] \union {of(n)}
                                  ELSE above[n]]

\* Mutant of CanReasonUnsat: the partial answer alone is looked at.
CanReasonAlone(a, n) == partial[a] = "unsat" \/ a = n

\* can_reason_unsat for a, when the tasks on the way up from n follow.
CanReasonUnsat(a, n) ==
  /\ partial[a] = "unsat" \/ a = n
  /\ \A c \in SubTasks(a) : c \in above[n] \union {n} \/ whole[c] = "unsat"

\* unsat_push_up from n, whose partial answer has just become unsat.
UnsatUpFrom(n) ==
  {a \in above[n] \union {n} :
     \A b \in above[n] \union {n} : b = a \/ a \in above[b] => CanReasonUnsat(b, n)}

(***************************************************************************)
(* The assertion of unsat_push_up fails: it is called on a node that is    *)
(* already unsat, n itself or the parent of one that becomes unsat.        *)
(***************************************************************************)
PushUpAsserts(n) ==
  \E a \in above[n] \union {n} :
    /\ whole[a] = "unsat"
    /\ \A b \in above[n] \union {n} : a \in above[b] => b \in UnsatUpFrom(n)

\* node_partial_solved
PartialSolved(n, answer) ==
  /\ partial' = [partial EXCEPT ![n] = answer]
  /\ IF answer = "sat"
     THEN decision' = "sat" /\ UNCHANGED whole
     ELSE /\ whole' = [m \in Task |-> IF m \in UnsatUpFrom(n) THEN "unsat"
                                      ELSE whole[m]]
          /\ decision' = IF RootTask \in UnsatUpFrom(n) THEN "unsat" ELSE decision

\* original_solved
OriginalSolved(answer) ==
  /\ whole' = [whole EXCEPT ![RootTask] = answer]
  /\ decision' = answer
  /\ UNCHANGED partial
=============================================================================
