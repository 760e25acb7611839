-------------------------- MODULE CoordinatorProofs -------------------------
(***************************************************************************)
(* Theorems about module Coordinator, for every number of nodes, models    *)
(* and cores and every choice of faults: its types, the soundness of the   *)
(* unsat marks on its tree, that it implements SolvingRound, and that the  *)
(* marks are closed while the root is open; then what its subprocesses     *)
(* use, and, when they do not fail, that no exception leaves its loop.     *)
(***************************************************************************)
EXTENDS Coordinator, SequenceTheorems, FiniteSetTheorems, WellFoundedInduction, TLAPS

\* A non-empty set of numbers with an upper bound has a greatest element.
LEMMA MaxOfBounded ==
  ASSUME NEW b \in Nat, NEW T \in SUBSET (0 .. b), T # {}
  PROVE  \E x \in T : \A y \in T : y <= x
<1> DEFINE D == {k \in Nat : k <= b /\ b - k \in T}
<1>1. PICK d \in D : \A e \in D : ~(<<e, d>> \in OpToRel(<, Nat))
  <2>1. D \subseteq Nat
    OBVIOUS
  <2>2. D # {}
    <3>1. PICK x \in T : TRUE
      OBVIOUS
    <3>2. x \in 0 .. b
      OBVIOUS
    <3>3. b - x \in Nat /\ b - x <= b /\ b - (b - x) = x
      BY <3>2
    <3> QED
      BY <3>3
  <2> HIDE DEF D
  <2> QED
    BY <2>1, <2>2, WFMin, NatLessThanWellFounded
<1>2. \A e \in D : ~(e < d)
  BY <1>1 DEF OpToRel
<1>3. b - d \in T
  OBVIOUS
<1>4. ASSUME NEW y \in T
      PROVE  y <= b - d
  <2>1. y \in 0 .. b
    OBVIOUS
  <2>2. b - y \in D
    BY <2>1
  <2> QED
    BY <2>1, <2>2, <1>2
<1> QED
  BY <1>3, <1>4

LEMMA NodeFacts == Node \subseteq Nat /\ Root \in Node /\ MaxNodes - 1 \in Nat
BY MaxNodesAssumption DEF Node, Root

\* The children of a node are nodes that have been made, after their parent.
LEMMA ChildFacts ==
  ASSUME TypeOK, TreeShape, NEW p \in Node, NEW c \in Children(p)
  PROVE  c \in Node /\ c < numNodes /\ p < c /\ p < numNodes /\ anc[c] = Path(p)
<1>1. left[p] # 0 /\ c \in {left[p], left[p] + 1}
  BY DEF Children
<1>2. left[p] \in Nat /\ numNodes \in Nat /\ numNodes <= MaxNodes /\ p \in Nat
  BY MaxNodesAssumption DEF TypeOK, TreeTypeOK, Node
<1>3. p < left[p] /\ left[p] + 1 < numNodes
  BY <1>1 DEF TreeShape
<1> QED
  BY <1>1, <1>2, <1>3, MaxNodesAssumption DEF TreeShape, Node

(***************************************************************************)
(* Whatever node_solved_unsat marks has its models in G, if those of the   *)
(* node itself and of every unsat node are.  Upwards: of the ancestors     *)
(* that would break this take the one with the greatest id.  Its child on  *)
(* the path to n is n itself or a marked ancestor with a greater id, and   *)
(* its other child is unsat, so that G has the models of both.             *)
(***************************************************************************)
LEMMA UnsatSpreads ==
  ASSUME TypeOK, TreeShape, ModelsCovered, UnsatSound,
         NEW n \in Node, n < numNodes,
         NEW G, given \subseteq G, mods[n] \subseteq G,
         NEW m \in NowUnsat(n)
  PROVE  m \in Node /\ m < numNodes /\ mods[m] \subseteq G
<1> USE NodeFacts
<1>1. numNodes \in Nat /\ n \in Nat /\ anc \in [Node -> SUBSET Node]
      /\ left \in [Node -> Node]
  BY MaxNodesAssumption DEF TypeOK, TreeTypeOK
<1>2. ASSUME NEW a \in PushedUp(n)
      PROVE  a \in Node /\ a < numNodes /\ mods[a] \subseteq G
  <2>1. \A b \in PushedUp(n) : b \in anc[n] /\ b \in Node /\ b < numNodes
    BY <1>1 DEF PushedUp, TreeShape
  <2> DEFINE T == {b \in PushedUp(n) : ~(mods[b] \subseteq G)}
  <2>2. T = {}
    <3> SUFFICES ASSUME T # {} PROVE FALSE
      OBVIOUS
    <3>1. PICK b \in T : \A y \in T : y <= b
      <4>1. T \in SUBSET (0 .. MaxNodes - 1)
        BY <2>1 DEF Node
      <4> HIDE DEF T
      <4> QED
        BY <4>1, MaxOfBounded
    <3>2. b \in anc[n] /\ b \in Node /\ b \in PushedUp(n)
      BY <2>1
    <3>3. left[b] # 0
      BY <3>2 DEF TreeShape
    <3>4. ASSUME NEW c \in Children(b)
          PROVE  mods[c] \subseteq G
      <4>1. c \in Node /\ c < numNodes /\ b < c /\ anc[c] = Path(b)
        BY <3>2, ChildFacts
      <4>2. CASE c \notin Path(n)
        <5>1. status[c] = "unsat"
          BY <3>2, <4>2 DEF PushedUp
        <5> QED
          BY <4>1, <5>1, <1>1 DEF UnsatSound, Created
      <4>3. CASE c = n
        BY <4>3
      <4>4. CASE c \in anc[n]
        <5>1. c \in PushedUp(n)
          <6> SUFFICES ASSUME NEW e \in anc[n], e = c \/ c \in anc[e]
                       PROVE  /\ status[e] # "unsat"
                              /\ \A d \in Children(e) :
                                    d \in Path(n) \/ status[d] = "unsat"
            BY <4>4 DEF PushedUp
          <6>1. e \in Node /\ b \in anc[c]
            BY <1>1, <4>1 DEF Path
          <6>2. b \in anc[e]
            BY <6>1, <4>1 DEF TreeShape
          <6> QED
            BY <6>2, <3>2 DEF PushedUp
        <5>2. c \notin T
          <6>1. b \in Nat /\ c \in Nat /\ ~(c <= b)
            BY <3>2, <4>1
          <6> HIDE DEF T
          <6> QED
            BY <3>1, <6>1
        <5> QED
          BY <5>1, <5>2
      <4> QED
        BY <4>2, <4>3, <4>4 DEF Path
    <3>5. mods[b] = mods[left[b]] \union mods[left[b] + 1]
      BY <3>2, <3>3 DEF ModelsCovered
    <3>6. left[b] \in Children(b) /\ left[b] + 1 \in Children(b)
      BY <3>3 DEF Children
    <3> QED
      BY <3>3, <3>4, <3>5, <3>6
  <2> QED
    BY <2>1, <2>2
<1>3. ASSUME NEW d \in PushedDown(n)
      PROVE  d \in Node /\ d < numNodes /\ mods[d] \subseteq G
  BY <1>1 DEF PushedDown, TreeShape, ModelsCovered
<1> QED
  BY <1>2, <1>3 DEF NowUnsat
-----------------------------------------------------------------------------
(* What the methods of the tree that change marks preserve.                *)

\* The part of the invariant that is about marks, after a step.
MarksKept ==
  /\ status' \in [Node -> Status]
  /\ assign_to' \in [Node -> Process]
  /\ tasks' \in SUBSET Node
  /\ simps' \in SUBSET Node
  /\ result' \in Result
  /\ \A m \in Node : m >= numNodes => status'[m] = "unsolved"
  /\ \A m \in Node : status'[m] \in {"unsolved", "simplifying"} =>
                       status'[m] = status[m]
  /\ UnsatSound'
  /\ ResultSound'

LEMMA ShapeFrame ==
  ASSUME TreeShape, ModelsCovered, UNCHANGED shape
  PROVE  TreeShape' /\ ModelsCovered'
BY DEF TreeShape, ModelsCovered, shape, Children, Path, Created

\* A polled node has been made: the others are "unsolved".
LEMMA PolledIsCreated ==
  ASSUME TypeOK, StatusShape, NEW n \in Node, status[n] # "unsolved"
  PROVE  n < numNodes /\ n \in Created
<1>1. n \in Nat /\ numNodes \in Nat
  BY NodeFacts, MaxNodesAssumption DEF TypeOK, TreeTypeOK
<1>2. n < numNodes
  BY <1>1 DEF StatusShape
<1> QED
  BY <1>1, <1>2 DEF Created

\* A node of the tree has models only if the root has.
LEMMA RootHasModels ==
  ASSUME TypeOK, TreeShape, ModelsCovered, NEW n \in Created
  PROVE  mods[n] \subseteq mods[Root]
<1>1. n \in Node
  BY MaxNodesAssumption DEF Created, Node, TypeOK, TreeTypeOK
<1> QED
  BY <1>1 DEF TreeShape, ModelsCovered

LEMMA StopProcessesType ==
  ASSUME TypeOK, NEW S, StopProcesses(S)
  PROVE  assign_to' \in [Node -> Process]
BY DEF TypeOK, TreeTypeOK, StopProcesses, Process

LEMMA UnsatMarks ==
  ASSUME TypeOK, TreeShape, ModelsCovered, StatusShape, UnsatSound, ResultSound,
         NEW n \in Created, NEW stopped \in SUBSET Created,
         \A m \in stopped : ~Ended(m),
         NodeSolvedUnsat(n, stopped), UNCHANGED shape,
         given \subseteq given', mods[n] \subseteq given'
  PROVE  MarksKept
<1>1. numNodes \in Nat /\ Created \subseteq Node /\ n < numNodes /\ n \in Node
  BY MaxNodesAssumption DEF TypeOK, TreeTypeOK, Created, Node
<1>2. \A m \in NowUnsat(n) : m \in Node /\ m < numNodes /\ mods[m] \subseteq given'
  BY <1>1, UnsatSpreads
<1>3. /\ status' = [m \in Node |-> IF m \in NowUnsat(n) THEN "unsat"
                                   ELSE IF m \in stopped THEN "terminated"
                                   ELSE status[m]]
      /\ tasks' \subseteq tasks
      /\ simps' \subseteq simps
      /\ result' = IF Root \in NowUnsat(n) THEN "unsat" ELSE result
  BY DEF NodeSolvedUnsat
<1>4. status' \in [Node -> Status]
  BY <1>3 DEF TypeOK, TreeTypeOK, Status
<1>5. assign_to' \in [Node -> Process]
  BY StopProcessesType DEF NodeSolvedUnsat
<1>6. \A m \in Node : m >= numNodes => status'[m] = "unsolved"
  <2> SUFFICES ASSUME NEW m \in Node, m >= numNodes
               PROVE  status'[m] = "unsolved"
    OBVIOUS
  <2>1. m \notin NowUnsat(n) /\ m \notin stopped
    BY <1>1, <1>2, NodeFacts DEF Created
  <2> QED
    BY <2>1, <1>3 DEF StatusShape
<1>7. UnsatSound'
  <2> SUFFICES ASSUME NEW m \in Created, status'[m] = "unsat"
               PROVE  mods[m] \subseteq given'
    BY DEF UnsatSound, Created, shape
  <2>1. m \in Node
    BY <1>1
  <2> QED
    BY <2>1, <1>2, <1>3 DEF UnsatSound
<1>8. ResultSound'
  BY <1>3, NodeFacts DEF ResultSound, shape, Ended
<1>9. \A m \in Node : status'[m] \in {"unsolved", "simplifying"} =>
                       status'[m] = status[m]
  BY <1>3
<1> QED
  BY <1>3, <1>4, <1>5, <1>6, <1>7, <1>8, <1>9
     DEF MarksKept, TypeOK, TreeTypeOK, Result

\* An answer of an external process about the node it was started for.
LEMMA AnswerMarks ==
  ASSUME TypeOK, TreeShape, ModelsCovered, StatusShape, UnsatSound, ResultSound,
         NEW n \in Created, NEW answer, MayAnswer(n, answer),
         NodeSolved(n, answer), UNCHANGED shape, UNCHANGED given
  PROVE  MarksKept
<1>1. CASE answer = "unsat"
  <2>1. NodeSolvedUnsat(n, {}) /\ mods[n] = {}
    BY <1>1 DEF NodeSolved, MayAnswer
  <2> QED
    BY <2>1, UnsatMarks
<1>2. CASE answer = "sat"
  <2>1. NodeSolvedSat(n) /\ mods[n] # {}
    BY <1>2 DEF NodeSolved, MayAnswer
  <2>2. n \in Node /\ n < numNodes /\ n \in Nat /\ numNodes \in Nat
    BY MaxNodesAssumption DEF TypeOK, TreeTypeOK, Created, Node
  <2>3. status' = [status EXCEPT ![n] = "sat"] /\ result' = "sat"
        /\ tasks' = tasks /\ simps' = simps
    BY <2>1 DEF NodeSolvedSat
  <2>4. assign_to' \in [Node -> Process]
    BY <2>1, StopProcessesType DEF NodeSolvedSat
  <2>5. UnsatSound'
    BY <2>2, <2>3 DEF UnsatSound, shape, Created, TypeOK, TreeTypeOK
  <2>6. ResultSound'
    BY <2>1, <2>3, RootHasModels DEF ResultSound, shape
  <2>7. \A m \in Node : m >= numNodes => status'[m] = "unsolved"
    BY <2>2, <2>3, NodeFacts DEF StatusShape, TypeOK, TreeTypeOK
  <2> QED
    BY <2>2, <2>3, <2>4, <2>5, <2>6, <2>7
       DEF MarksKept, TypeOK, TreeTypeOK, Status, Result
<1> QED
  BY <1>1, <1>2 DEF NodeSolved
-----------------------------------------------------------------------------
(* The invariant is kept by every action.                                  *)

LoopTypeOK ==
  /\ pc \in PC
  /\ solving \in BOOLEAN
  /\ todo \in Seq(Node)
  /\ kept \in Seq(Node)
  /\ modelDone \in BOOLEAN
  /\ sent \in {"none", "sat", "unsat"}

\* Actions that move the loop and leave the tree alone.
LEMMA SameTree ==
  ASSUME IInv, UNCHANGED treeVars, LoopTypeOK', LoopShape'
  PROVE  IInv'
<1>1. TreeShape' /\ ModelsCovered'
  BY ShapeFrame DEF IInv, treeVars, shape
<1>2. TypeOK'
  BY DEF IInv, TypeOK, TreeTypeOK, LoopTypeOK, treeVars, shape, marks, queues,
         lists
<1>3. StatusShape' /\ UnsatSound' /\ ResultSound'
  BY DEF IInv, StatusShape, UnsatSound, ResultSound, Created, treeVars, shape,
         marks, queues, lists
<1> QED
  BY <1>1, <1>2, <1>3 DEF IInv

\* Actions that change marks, and may queue nodes, in a tree of one shape.
LEMMA SameShape ==
  ASSUME IInv, UNCHANGED shape, MarksKept, LoopTypeOK', LoopShape',
         started' \in SUBSET Node, given' \in SUBSET Models,
         unsolveds' \in Seq(Node), simplifieds' \in Seq(Node),
         simplifyings' \in Seq(Node), solvings' \in Seq(Node),
         \A i \in 1 .. Len(unsolveds') : unsolveds'[i] < numNodes
  PROVE  IInv'
<1>1. TreeShape' /\ ModelsCovered'
  BY ShapeFrame DEF IInv
<1>2. TypeOK'
  BY DEF IInv, TypeOK, TreeTypeOK, LoopTypeOK, shape, MarksKept
<1>3. StatusShape'
  BY DEF IInv, StatusShape, MarksKept, shape
<1> QED
  BY <1>1, <1>2, <1>3 DEF IInv, MarksKept

LEMMA LoopMoves ==
  ASSUME IInv,
         \/ NoMessage
         \/ EndPartition
         \/ EndSolve
         \/ ModelMissing
         \/ Stopped
         \/ \E n \in Node : \/ SplitCopyFails(n)
                            \/ SkipStale(n)
                            \/ StillRunning(n)
                            \/ MemoryOut(n)
         \/ UNCHANGED vars
  PROVE  IInv'
<1>1. LoopTypeOK /\ LoopShape /\ simplifyings \in Seq(Node)
  BY DEF IInv, TypeOK, TreeTypeOK, LoopTypeOK
<1> USE DEF roundVars, loopVars, vars, treeVars, shape, marks, queues, lists,
            LoopTypeOK, LoopShape, PC
<1>2. CASE NoMessage
  BY <1>1, <1>2, SameTree DEF NoMessage, StartPolling
<1>3. CASE EndPartition
  BY <1>1, <1>3, SameTree DEF EndPartition
<1>4. CASE EndSolve
  BY <1>1, <1>4, SameTree DEF EndSolve
<1>5. CASE ModelMissing
  BY <1>1, <1>5, SameTree DEF ModelMissing
<1>6. CASE Stopped \/ UNCHANGED vars
  BY <1>1, <1>6, SameTree DEF Stopped
<1>7. ASSUME NEW n \in Node, SplitCopyFails(n)
      PROVE  IInv'
  BY <1>1, <1>7, SameTree DEF SplitCopyFails, SplitSelected
<1>8. ASSUME NEW n \in Node, SkipStale(n)
      PROVE  IInv'
  BY <1>1, <1>8, SameTree DEF SkipStale, PollNext
<1>9. ASSUME NEW n \in Node, StillRunning(n)
      PROVE  IInv'
  BY <1>1, <1>9, SameTree DEF StillRunning, Keep, PollPartitioner, PollSolver, PollNext
<1>10. ASSUME NEW n \in Node, MemoryOut(n)
       PROVE  IInv'
  BY <1>1, <1>10, SameTree DEF MemoryOut, PollPartitioner, PollSolver, PollNext
<1> QED
  BY <1>2, <1>3, <1>4, <1>5, <1>6, <1>7, <1>8, <1>9, <1>10

\* The loop variables after the check of a polled node that is not kept.
LEMMA DroppedLoop ==
  ASSUME IInv, NEW n \in Node, PollPartitioner(n) \/ PollSolver(n), Dropped,
         solving' = solving, sent' = sent, modelDone' \in BOOLEAN,
         UNCHANGED shape, UNCHANGED given
  PROVE  LoopTypeOK' /\ LoopShape'
<1>1. LoopTypeOK /\ LoopShape
  BY DEF IInv, TypeOK, LoopTypeOK
<1>2. pc \in {"simplifyings", "solvings"} /\ todo # <<>>
  BY DEF PollPartitioner, PollSolver, PollNext
<1>3. pc' \in PC /\ todo' \in Seq(Node) /\ kept' \in Seq(Node)
      /\ (pc' = pc \/ (pc' = "done" /\ result' # "unsolved"))
  <2>1. todo \in Seq(Node) /\ Tail(todo) \in Seq(Node) /\ <<>> \in Seq(Node)
    BY <1>1, <1>2 DEF LoopTypeOK
  <2>2. CASE result' = "unsolved"
    BY <1>1, <2>1, <2>2 DEF Dropped, LoopTypeOK
  <2>3. CASE result' # "unsolved"
    BY <2>1, <2>3 DEF Dropped, PC
  <2> QED
    BY <2>2, <2>3
<1> QED
  BY <1>1, <1>2, <1>3 DEF LoopTypeOK, LoopShape, shape

LEMMA PollInv ==
  ASSUME IInv, NEW n \in Node,
         \/ PartitionerExits(n)
         \/ SolverExits(n)
  PROVE  IInv'
<1>1. /\ TypeOK /\ TreeShape /\ ModelsCovered /\ StatusShape /\ UnsatSound
      /\ ResultSound
  BY DEF IInv
<1>2. /\ PollPartitioner(n) \/ PollSolver(n)
      /\ Dropped
      /\ UNCHANGED <<shape, lists, started, given, solving, sent>>
      /\ modelDone' \in BOOLEAN
  BY <1>1 DEF PartitionerExits, SolverExits, PartitionerAnswers,
              PartitionerSucceeds, PartitionerFails, SolverAnswers, SolverFails,
              roundVars, TypeOK
<1>3. n \in Created /\ n < numNodes
  BY <1>1, <1>2, PolledIsCreated DEF PollPartitioner, PollSolver
<1>4. LoopTypeOK' /\ LoopShape'
  BY <1>2, DroppedLoop
<1>5. ASSUME MarksKept, UNCHANGED queues
      PROVE  IInv'
  BY <1>1, <1>2, <1>4, <1>5, SameShape
     DEF TypeOK, TreeTypeOK, StatusShape, queues, lists
<1>6. ASSUME NEW answer \in {"sat", "unsat"},
             PartitionerAnswers(n, answer) \/ SolverAnswers(n, answer)
      PROVE  IInv'
  <2>1. MayAnswer(n, answer) /\ NodeSolved(n, answer) /\ UNCHANGED queues
    BY <1>6 DEF PartitionerAnswers, SolverAnswers
  <2> QED
    BY <1>1, <1>2, <1>3, <1>5, <2>1, AnswerMarks
<1>7. ASSUME NEW fault \in PartitionerFaults, PartitionerFails(n, fault)
      PROVE  IInv'
  <2>1. StopProcesses({n}) /\ UNCHANGED <<status, tasks, result, queues>>
        /\ simps' \in SUBSET Node
    BY <1>1, <1>7 DEF PartitionerFails, TypeOK, TreeTypeOK
  <2>2. MarksKept
    BY <1>1, <1>2, <2>1, StopProcessesType
       DEF MarksKept, TypeOK, TreeTypeOK, StatusShape, UnsatSound, ResultSound,
           Created, shape
  <2> QED
    BY <2>1, <2>2, <1>5
<1>8. ASSUME SolverFails(n)
      PROVE  IInv'
  <2>1. /\ status' = [status EXCEPT ![n] = "terminated"]
        /\ StopProcesses({n})
        /\ tasks' \subseteq tasks /\ simps' \subseteq simps
        /\ UNCHANGED <<result, queues>>
        /\ status[n] = "solving"
    BY <1>8 DEF SolverFails, TerminateNode, PollSolver
  <2>2. MarksKept
    <3>1. UnsatSound' /\ ResultSound'
      BY <1>1, <1>2, <1>3, <2>1
         DEF TypeOK, TreeTypeOK, UnsatSound, ResultSound, Created, shape
    <3>2. \A m \in Node : m >= numNodes => status'[m] = "unsolved"
      BY <1>1, <1>3, <2>1, NodeFacts, MaxNodesAssumption
         DEF TypeOK, TreeTypeOK, StatusShape
    <3> QED
      BY <1>1, <2>1, <3>1, <3>2, StopProcessesType
         DEF MarksKept, TypeOK, TreeTypeOK, Status
  <2> QED
    BY <2>1, <2>2, <1>5
<1>9. ASSUME PartitionerSucceeds(n)
      PROVE  IInv'
  <2>1. /\ status' = [status EXCEPT ![n] = "simplified"]
        /\ StopProcesses({n})
        /\ simps' = simps \union {n}
        /\ tasks' = tasks \union Children(n)
        /\ simplifieds' = Append(simplifieds, n)
        /\ unsolveds' = unsolveds \o ChildPair(n)
        /\ UNCHANGED result
        /\ status[n] = "simplifying"
    BY <1>9 DEF PartitionerSucceeds, NodeSimplified, PollPartitioner
  <2>2. left[n] # 0
    BY <1>1, <2>1 DEF StatusShape
  <2>3. /\ left[n] \in Node /\ left[n] + 1 \in Node
        /\ left[n] < numNodes /\ left[n] + 1 < numNodes
        /\ Children(n) \subseteq Node
    BY <1>1, <2>2, ChildFacts DEF Children
  <2>4. /\ unsolveds' \in Seq(Node)
        /\ \A i \in 1 .. Len(unsolveds') : unsolveds'[i] < numNodes
        /\ simplifieds' \in Seq(Node)
    <3>1. unsolveds \in Seq(Node) /\ simplifieds \in Seq(Node)
          /\ \A i \in 1 .. Len(unsolveds) : unsolveds[i] < numNodes
      BY <1>1 DEF TypeOK, TreeTypeOK, StatusShape
    <3> DEFINE q == <<left[n], left[n] + 1>>
    <3>2. /\ q \in Seq(Node) /\ Len(q) = 2
          /\ \A i \in 1 .. 2 : q[i] < numNodes
      BY <2>3
    <3>3. unsolveds' = unsolveds \o q
      BY <2>1 DEF ChildPair
    <3> HIDE DEF q
    <3>4. /\ unsolveds \o q \in Seq(Node)
          /\ Len(unsolveds \o q) = Len(unsolveds) + Len(q)
          /\ \A i \in 1 .. Len(unsolveds) + Len(q) :
               (unsolveds \o q)[i] = IF i <= Len(unsolveds) THEN unsolveds[i]
                                     ELSE q[i - Len(unsolveds)]
      BY <3>1, <3>2, ConcatProperties, Zenon
    <3>5. ASSUME NEW i \in 1 .. Len(unsolveds')
          PROVE  unsolveds'[i] < numNodes
      <4>1. Len(unsolveds) \in Nat
        BY <3>1, LenProperties
      <4>2. i \in 1 .. Len(unsolveds) + 2
        BY <3>2, <3>3, <3>4
      <4>3. CASE i <= Len(unsolveds)
        BY <3>1, <3>2, <3>3, <3>4, <4>1, <4>2, <4>3
      <4>4. CASE i > Len(unsolveds)
        <5>1. i - Len(unsolveds) \in 1 .. 2
          BY <4>1, <4>2, <4>4
        <5>2. unsolveds'[i] = q[i - Len(unsolveds)]
          BY <3>2, <3>3, <3>4, <4>1, <4>2, <4>4
        <5> QED
          BY <3>2, <5>1, <5>2
      <4> QED
        BY <4>1, <4>2, <4>3, <4>4
    <3>6. simplifieds' \in Seq(Node)
      BY <2>1, <3>1
    <3> QED
      BY <3>3, <3>4, <3>5, <3>6
  <2>5. MarksKept
    <3>1. UnsatSound' /\ ResultSound'
      BY <1>1, <1>2, <1>3, <2>1
         DEF TypeOK, TreeTypeOK, UnsatSound, ResultSound, Created, shape
    <3>2. \A m \in Node : m >= numNodes => status'[m] = "unsolved"
      BY <1>1, <1>3, <2>1, NodeFacts, MaxNodesAssumption
         DEF TypeOK, TreeTypeOK, StatusShape
    <3> QED
      BY <1>1, <2>1, <2>3, <3>1, <3>2, StopProcessesType
         DEF MarksKept, TypeOK, TreeTypeOK, Status
  <2> QED
    BY <1>1, <1>2, <1>4, <2>4, <2>5, SameShape
       DEF TypeOK, TreeTypeOK, lists
<1> QED
  BY <1>6, <1>7, <1>8, <1>9 DEF PartitionerExits, SolverExits

\* The round starts from an empty tree.
LEMMA AssignInv ==
  ASSUME IInv, NEW f \in SUBSET Models, Assign(f)
  PROVE  IInv'
<1>1. /\ TypeOK /\ TreeShape /\ ModelsCovered /\ StatusShape /\ UnsatSound
      /\ ResultSound /\ LoopShape
  BY DEF IInv
<1>2. /\ ~solving /\ solving' = TRUE /\ sent' = "none" /\ pc' = "simplifyings"
      /\ numNodes' = 1 /\ mods' = [mods EXCEPT ![Root] = f]
      /\ tasks' = {Root} /\ unsolveds' = <<Root>>
      /\ todo' = simplifyings /\ kept' = <<>>
      /\ UNCHANGED <<left, anc, status, assign_to, simps, result, simplifieds,
                     simplifyings, solvings, started, given, modelDone>>
  BY DEF Assign, MakeRoot, StartPolling, lists
<1>3. numNodes = 0 /\ given = {} /\ mods[Root] = {} /\ Node \subseteq Nat /\ Root \in Node
  BY <1>1, <1>2, NodeFacts DEF LoopShape, TypeOK, TreeTypeOK
<1>4. \A n \in Node : left[n] = 0 /\ anc[n] = {} /\ status[n] = "unsolved"
  <2> TAKE n \in Node
  <2>1. n \in Nat /\ left[n] \in Nat /\ anc[n] \subseteq Node
    BY <1>1, <1>3 DEF TypeOK, TreeTypeOK
  <2>2. left[n] = 0
    BY <1>1, <1>3, <2>1 DEF TreeShape
  <2>3. anc[n] = {}
    BY <1>1, <1>3, <2>1 DEF TreeShape
  <2>4. status[n] = "unsolved"
    BY <1>1, <1>3, <2>1 DEF StatusShape
  <2> QED
    BY <2>2, <2>3, <2>4
<1>5. result = "unsolved"
  BY <1>1, <1>3, <1>4 DEF ResultSound, TypeOK, TreeTypeOK, Result
<1>6. TypeOK'
  <2>1. <<Root>> \in Seq(Node) /\ <<>> \in Seq(Node)
    BY <1>3
  <2>2. 1 \in 0 .. MaxNodes
    BY MaxNodesAssumption
  <2>3. mods' \in [Node -> SUBSET Models] /\ {Root} \in SUBSET Node
    BY <1>1, <1>2, <1>3 DEF TypeOK, TreeTypeOK
  <2> QED
    BY <1>1, <1>2, <2>1, <2>2, <2>3 DEF TypeOK, TreeTypeOK, PC
<1>7. TreeShape'
  <2>1. Created' = {Root}
    BY <1>2 DEF Created, Root
  <2>2. \A n \in Node : Children(n)' = {}
    BY <1>2, <1>4 DEF Children
  <2> QED
    BY <1>2, <1>4, <2>1, <2>2 DEF TreeShape
<1>8. ModelsCovered'
  BY <1>2, <1>4 DEF ModelsCovered
<1>9. StatusShape'
  BY <1>2, <1>4 DEF StatusShape, Root
<1>10. UnsatSound' /\ ResultSound'
  <2>1. Created' \subseteq Node
    BY <1>2, <1>3 DEF Created, Root
  <2> QED
    BY <1>2, <1>4, <1>5, <2>1 DEF UnsatSound, ResultSound
<1>11. LoopShape'
  BY <1>2 DEF LoopShape
<1> QED
  BY <1>6, <1>7, <1>8, <1>9, <1>10, <1>11 DEF IInv

\* The tree is gone after a round.
LEMMA DroppedTree ==
  ASSUME IInv, DropTree, StopProcesses(Listed),
         solving' = FALSE, pc' \in {"recv", "terminated"},
         todo' \in Seq(Node), kept' \in Seq(Node), modelDone' = modelDone,
         sent' \in {"none", "sat", "unsat"}
  PROVE  IInv'
<1>1. TypeOK
  BY DEF IInv
<1>2. TypeOK'
  <2>1. <<>> \in Seq(Node) /\ 0 \in Node /\ 0 \in 0 .. MaxNodes
    BY MaxNodesAssumption DEF Node
  <2>2. assign_to' \in [Node -> Process]
    BY <1>1, StopProcessesType
  <2>3. modelDone' \in BOOLEAN
    BY <1>1 DEF TypeOK
  <2> QED
    BY <2>1, <2>2, <2>3 DEF TypeOK, TreeTypeOK, DropTree, Status, Result, PC
<1>3. TreeShape' /\ ModelsCovered' /\ StatusShape'
  <2>1. 0 \in Node
    BY MaxNodesAssumption DEF Node
  <2> QED
    BY <2>1 DEF DropTree, TreeShape, ModelsCovered, StatusShape, Children, Created
<1>4. UnsatSound' /\ ResultSound'
  BY NodeFacts, MaxNodesAssumption DEF DropTree, UnsatSound, ResultSound, Created, Node
<1>5. LoopShape'
  BY NodeFacts DEF DropTree, LoopShape
<1> QED
  BY <1>2, <1>3, <1>4, <1>5 DEF IInv

LEMMA RoundEndsInv ==
  ASSUME IInv, RoundDone \/ Terminate
  PROVE  IInv'
<1>1. TypeOK /\ LoopShape /\ <<>> \in Seq(Node)
  BY DEF IInv
<1>2. CASE RoundDone
  <2>1. sent' \in {"none", "sat", "unsat"}
    BY <1>1, <1>2 DEF RoundDone, LoopShape, TypeOK, TreeTypeOK, Result
  <2> QED
    BY <1>1, <1>2, <2>1, DroppedTree DEF RoundDone, RoundCleanUp, TypeOK
<1>3. CASE Terminate /\ solving
  BY <1>1, <1>3, DroppedTree DEF Terminate, RoundCleanUp, TypeOK
<1>4. CASE Terminate /\ ~solving
  <2>1. UNCHANGED treeVars /\ LoopTypeOK' /\ LoopShape'
    BY <1>1, <1>4 DEF Terminate, TypeOK, LoopTypeOK, LoopShape, PC, treeVars, shape
  <2> QED
    BY <2>1, SameTree
<1> QED
  BY <1>2, <1>3, <1>4

\* The node offered for a split has been made.
LEMMA SplitNodeFacts ==
  ASSUME TypeOK, TreeShape, NEW n \in SplitNodes
  PROVE  n \in Created /\ n \in Node
<1>1. PICK p \in Created : n = left[p] + 1 /\ SplitPoint(p)
  BY DEF SplitNodes
<1>2. p \in Node /\ numNodes \in Nat
  BY MaxNodesAssumption DEF TypeOK, TreeTypeOK, Created, Node
<1>3. n \in Children(p)
  BY <1>1 DEF SplitPoint, Children
<1>4. n \in Node /\ n < numNodes
  BY <1>2, <1>3, ChildFacts
<1> QED
  BY <1>2, <1>4, NodeFacts DEF Created

LEMMA SplitInv ==
  ASSUME IInv, NEW n \in Node, RequestSplit(n)
  PROVE  IInv'
<1>1. /\ TypeOK /\ TreeShape /\ ModelsCovered /\ StatusShape /\ UnsatSound
      /\ ResultSound /\ LoopShape
  BY DEF IInv
<1>2. /\ n \in SplitNodes /\ solving
      /\ NodeSolvedUnsat(n, {a \in Path(n) : ~Ended(a)})
      /\ given' = given \union mods[n]
      /\ pc' = "simplifyings" /\ todo' = simplifyings /\ kept' = <<>>
      /\ UNCHANGED <<shape, queues, lists, started, solving, modelDone, sent>>
  BY DEF RequestSplit, SplitSelected, SetNodeSplit, StartPolling, roundVars
<1>3. n \in Created
  BY <1>1, <1>2, SplitNodeFacts
<1>4. {a \in Path(n) : ~Ended(a)} \in SUBSET Created
  <2>1. n \in Nat /\ numNodes \in Nat /\ n < numNodes /\ anc[n] \subseteq Nat
    BY <1>1, <1>3, NodeFacts, MaxNodesAssumption
       DEF TypeOK, TreeTypeOK, Created, Node
  <2>2. \A a \in anc[n] : a < n
    BY <1>1 DEF TreeShape
  <2> QED
    BY <2>1, <2>2 DEF Path, Created
<1>5. MarksKept
  BY <1>1, <1>2, <1>3, <1>4, UnsatMarks
<1>6. LoopTypeOK' /\ LoopShape'
  <2>1. <<>> \in Seq(Node) /\ simplifyings \in Seq(Node)
    BY <1>1 DEF TypeOK, TreeTypeOK
  <2> QED
    BY <1>1, <1>2, <2>1 DEF TypeOK, LoopTypeOK, LoopShape, PC, shape
<1>7. given' \in SUBSET Models
  BY <1>1, <1>2 DEF TypeOK, TreeTypeOK
<1> QED
  BY <1>1, <1>2, <1>5, <1>6, <1>7, SameShape
     DEF TypeOK, TreeTypeOK, StatusShape, queues, lists

\* The end of the two halves of the poll.
LEMMA EndPollInv ==
  ASSUME IInv, EndSimplifyings \/ EndSolvings
  PROVE  IInv'
<1>1. /\ TypeOK /\ StatusShape /\ UnsatSound /\ ResultSound /\ LoopShape
  BY DEF IInv
<1>2. /\ UNCHANGED <<shape, marks, queues, started, given, solving, modelDone, sent>>
      /\ pc \in {"simplifyings", "solvings"}
      /\ pc' \in {"solvings", "partition"}
      /\ kept' = <<>> /\ todo' \in {todo, solvings}
      /\ simplifyings' \in {simplifyings, kept} /\ solvings' \in {solvings, kept}
  BY DEF EndSimplifyings, EndSolvings, roundVars
<1>3. MarksKept
  BY <1>1, <1>2
     DEF MarksKept, TypeOK, TreeTypeOK, StatusShape, UnsatSound, ResultSound,
         Created, shape, marks
<1>4. /\ <<>> \in Seq(Node) /\ todo' \in Seq(Node)
      /\ simplifyings' \in Seq(Node) /\ solvings' \in Seq(Node)
  BY <1>1, <1>2 DEF TypeOK, TreeTypeOK
<1>5. LoopTypeOK' /\ LoopShape'
  BY <1>1, <1>2, <1>4 DEF TypeOK, LoopTypeOK, LoopShape, PC, shape
<1> QED
  BY <1>1, <1>2, <1>3, <1>4, <1>5, SameShape
     DEF TypeOK, TreeTypeOK, StatusShape, queues

LEMMA SolveInv ==
  ASSUME IInv, NEW n \in Node, SolveNext(n)
  PROVE  IInv'
<1>1. /\ TypeOK /\ StatusShape /\ UnsatSound /\ ResultSound /\ LoopShape
  BY DEF IInv
<1>2. /\ simplifieds # <<>> /\ simplifieds' = Tail(simplifieds)
      /\ UNCHANGED <<shape, tasks, simps, result, unsolveds, simplifyings,
                     given, pc, todo, kept, solving, modelDone, sent>>
  BY DEF SolveNext, MaySolve, loopVars, roundVars
<1>3. /\ LoopTypeOK' /\ LoopShape' /\ simplifieds' \in Seq(Node)
      /\ started' \in SUBSET Node /\ solvings' \in Seq(Node)
  <2>1. simplifieds \in Seq(Node) /\ solvings \in Seq(Node) /\ started \in SUBSET Node
    BY <1>1 DEF TypeOK, TreeTypeOK
  <2>2. LoopTypeOK' /\ LoopShape'
    BY <1>1, <1>2 DEF TypeOK, LoopTypeOK, LoopShape, shape
  <2>3. simplifieds' \in Seq(Node)
    BY <1>2, <2>1
  <2>4. CASE StillSimplified(n)
    <3>1. started' = started \union {n} /\ solvings' = Append(solvings, n)
      BY <2>4 DEF SolveNext, SolveSimplifiedTask
    <3> QED
      BY <2>1, <2>2, <2>3, <3>1
  <2>5. CASE ~StillSimplified(n)
    BY <2>1, <2>2, <2>3, <2>5 DEF SolveNext
  <2> QED
    BY <2>4, <2>5
<1>4. MarksKept
  <2>1. CASE ~StillSimplified(n)
    BY <1>1, <1>2, <2>1
       DEF SolveNext, MarksKept, TypeOK, TreeTypeOK, StatusShape, UnsatSound,
           ResultSound, Created, shape
  <2>2. CASE StillSimplified(n)
    <3>1. /\ status[n] = "simplified"
          /\ status' = [status EXCEPT ![n] = "solving"]
          /\ assign_to' = [assign_to EXCEPT ![n] = "solver"]
      BY <2>2 DEF StillSimplified, SolveNext, SolveSimplifiedTask
    <3>2. n < numNodes /\ n \in Nat /\ numNodes \in Nat
      BY <1>1, <3>1, PolledIsCreated, NodeFacts, MaxNodesAssumption
         DEF TypeOK, TreeTypeOK
    <3>3. status' \in [Node -> Status] /\ assign_to' \in [Node -> Process]
      BY <1>1, <3>1 DEF TypeOK, TreeTypeOK, Status, Process
    <3>4. \A m \in Node : m >= numNodes => status'[m] = "unsolved"
      BY <1>1, <3>1, <3>2, NodeFacts DEF StatusShape, TypeOK, TreeTypeOK
    <3>5. /\ \A m \in Node : status'[m] \in {"unsolved", "simplifying"} =>
                               status'[m] = status[m]
          /\ \A m \in Node : status'[m] = "unsat" <=> status[m] = "unsat"
      BY <1>1, <3>1 DEF TypeOK, TreeTypeOK
    <3>6. UnsatSound' /\ ResultSound'
      <4>1. Created \subseteq Node
        BY <1>1, MaxNodesAssumption DEF Created, Node, TypeOK, TreeTypeOK
      <4> QED
        BY <1>1, <1>2, <3>5, <4>1, NodeFacts
           DEF UnsatSound, ResultSound, Created, shape
    <3> QED
      BY <1>1, <1>2, <3>3, <3>4, <3>5, <3>6 DEF MarksKept, TypeOK, TreeTypeOK
  <2> QED
    BY <2>1, <2>2
<1> QED
  BY <1>1, <1>2, <1>3, <1>4, SameShape DEF TypeOK, TreeTypeOK, StatusShape

(***************************************************************************)
(* A node is given two children.  Their ids, l and r, are the first that   *)
(* no node has, so that nothing in the old tree refers to them.            *)
(***************************************************************************)
LEMMA SplitTree ==
  ASSUME IInv, NEW n \in Node, status[n] = "unsolved", n < numNodes,
         numNodes + 2 <= MaxNodes, SimplifyPartitionTask(n)
  PROVE  TreeShape' /\ ModelsCovered'
<1>1. TypeOK /\ TreeShape /\ ModelsCovered /\ StatusShape
  BY DEF IInv
<1> DEFINE l == numNodes
           r == numNodes + 1
<1>2. /\ numNodes' = numNodes + 2
      /\ left' = [left EXCEPT ![n] = l]
      /\ anc' = [anc EXCEPT ![l] = Path(n), ![r] = Path(n)]
      /\ mods' \in [Node -> SUBSET Models]
      /\ \A m \in Node \ {l, r} : mods'[m] = mods[m]
      /\ mods'[l] \union mods'[r] = mods[n]
  <2>1. PICK A \in SUBSET mods[n], B \in SUBSET mods[n] :
           /\ A \union B = mods[n]
           /\ mods' = [mods EXCEPT ![l] = A, ![r] = B]
    BY DEF SimplifyPartitionTask
  <2>2. l \in Node /\ r \in Node /\ l # r
    BY <1>1, MaxNodesAssumption DEF Node, TypeOK, TreeTypeOK
  <2>3. mods \in [Node -> SUBSET Models]
    BY <1>1 DEF TypeOK, TreeTypeOK
  <2> HIDE DEF l, r
  <2>4. /\ mods' \in [Node -> SUBSET Models]
        /\ \A m \in Node \ {l, r} : mods'[m] = mods[m]
        /\ mods'[l] \union mods'[r] = mods[n]
    BY <2>1, <2>2, <2>3
  <2> QED
    BY <2>4 DEF SimplifyPartitionTask, l, r
<1>3. /\ l \in Node /\ r \in Node /\ l # r /\ n \in Nat /\ numNodes \in Nat
      /\ left \in [Node -> Node] /\ anc \in [Node -> SUBSET Node]
      /\ \A m \in Node : m < numNodes => m \notin {l, r}
  <2>1. /\ left \in [Node -> Node] /\ anc \in [Node -> SUBSET Node]
        /\ numNodes \in Nat
    BY <1>1, MaxNodesAssumption DEF TypeOK, TreeTypeOK
  <2>2. l \in Node /\ r \in Node /\ l # r
    BY <2>1, MaxNodesAssumption DEF Node
  <2> QED
    BY <2>1, <2>2, NodeFacts
<1>4. /\ left'[n] = l
      /\ \A m \in Node \ {n} : left'[m] = left[m]
      /\ anc'[l] = Path(n) /\ anc'[r] = Path(n)
      /\ \A m \in Node \ {l, r} : anc'[m] = anc[m]
  <2> HIDE DEF l, r
  <2> QED
    BY <1>2, <1>3
<1>5. left[n] = 0 /\ l # 0
  BY <1>1, <1>3 DEF StatusShape
<1>6. \A a \in Path(n) : /\ a \in Node /\ a <= n /\ a \notin {l, r}
                         /\ anc[a] \subseteq Path(n)
                         /\ left'[a] # 0
                         /\ mods[n] \subseteq mods[a]
  <2> TAKE a \in Path(n)
  <2>1. CASE a = n
    BY <2>1, <1>3, <1>4, <1>5 DEF Path
  <2>2. CASE a \in anc[n]
    <3>1. a \in Node /\ a < n /\ left[a] # 0 /\ anc[a] \subseteq anc[n]
      BY <2>2, <1>1, <1>3 DEF TreeShape
    <3>2. a \in Nat
      BY <3>1, NodeFacts
    <3>3. a # n /\ a \notin {l, r} /\ a <= n
      BY <3>1, <3>2, <1>3
    <3>4. mods[n] \subseteq mods[a]
      BY <2>2, <1>1 DEF ModelsCovered
    <3> QED
      BY <3>1, <3>3, <3>4, <1>4 DEF Path
  <2> QED
    BY <2>1, <2>2 DEF Path
<1>7. Path(n)' = Path(n)
  BY <1>3, <1>4 DEF Path
<1>8. \A m \in Node \ {l, r} : \A a \in anc[m] :
         a \in Node /\ a < m /\ m < numNodes /\ a \notin {l, r} /\ left'[a] # 0
  <2> TAKE m \in Node \ {l, r}
  <2> TAKE a \in anc[m]
  <2>1. a \in Node /\ a < m /\ m < numNodes /\ left[a] # 0
    BY <1>1, <1>3 DEF TreeShape
  <2>2. a \in Nat /\ m \in Nat
    BY <2>1, NodeFacts
  <2>3. a < numNodes
    BY <2>1, <2>2, <1>3
  <2> QED
    BY <2>1, <2>3, <1>3, <1>4, <1>5
<1>9. \A p \in Node \ {n} : /\ Children(p)' = Children(p)
                            /\ \A c \in Children(p) : /\ c \in Node \ {l, r}
                                                      /\ p \notin {l, r}
                                                      /\ anc[c] = Path(p)
  <2> TAKE p \in Node \ {n}
  <2>1. Children(p)' = Children(p)
    BY <1>4 DEF Children
  <2>2. \A c \in Children(p) : c \in Node /\ c < numNodes /\ p < numNodes
                               /\ anc[c] = Path(p)
    BY <1>1, ChildFacts
  <2> QED
    BY <2>1, <2>2, <1>3
<1>10. Children(n)' = {l, r}
  BY <1>4, <1>5 DEF Children
<1>11. \A m \in Node : left'[m] # 0 => m < left'[m] /\ left'[m] + 1 < numNodes'
  <2> TAKE m \in Node
  <2> HAVE left'[m] # 0
  <2>1. CASE m = n
    BY <2>1, <1>2, <1>3, <1>4
  <2>2. CASE m # n
    <3>1. left[m] \in Nat /\ m < left[m] /\ left[m] + 1 < numNodes
      BY <2>2, <1>1, <1>3, <1>4, NodeFacts DEF TreeShape
    <3> QED
      BY <2>2, <3>1, <1>2, <1>3, <1>4
  <2> QED
    BY <2>1, <2>2
<1>12. \A m \in Node : \A a \in anc'[m] : a < m /\ m < numNodes' /\ left'[a] # 0
  <2> TAKE m \in Node
  <2> TAKE a \in anc'[m]
  <2>1. CASE m \in {l, r}
    <3>1. a \in Path(n)
      BY <2>1, <1>4
    <3>2. a \in Nat /\ a <= n /\ left'[a] # 0
      BY <3>1, <1>6, NodeFacts
    <3> QED
      BY <2>1, <3>2, <1>2, <1>3
  <2>2. CASE m \notin {l, r}
    <3>1. a < m /\ m < numNodes /\ left'[a] # 0 /\ m \in Nat
      BY <2>2, <1>4, <1>8, NodeFacts
    <3> QED
      BY <3>1, <1>2, <1>3
  <2> QED
    BY <2>1, <2>2
<1>13. \A p \in Node : \A c \in Children(p)' : anc'[c] = Path(p)'
  <2> TAKE p \in Node
  <2> TAKE c \in Children(p)'
  <2>1. CASE p = n
    BY <2>1, <1>4, <1>7, <1>10
  <2>2. CASE p # n
    <3>1. c \in Node \ {l, r} /\ p \notin {l, r} /\ anc[c] = Path(p)
      BY <2>2, <1>9
    <3> QED
      BY <3>1, <1>4 DEF Path
  <2> QED
    BY <2>1, <2>2
<1>14. \A c \in Node : \A b \in anc'[c] : anc'[b] \subseteq anc'[c]
  <2> TAKE c \in Node
  <2> TAKE b \in anc'[c]
  <2>1. CASE c \in {l, r}
    <3>1. b \in Path(n) /\ anc'[c] = Path(n)
      BY <2>1, <1>4
    <3> QED
      BY <3>1, <1>4, <1>6
  <2>2. CASE c \notin {l, r}
    <3>1. b \in anc[c] /\ anc'[c] = anc[c] /\ b \in Node \ {l, r}
      BY <2>2, <1>4, <1>8
    <3> QED
      BY <3>1, <1>1, <1>4 DEF TreeShape
  <2> QED
    BY <2>1, <2>2
<1>15. \A m \in Created' : m # Root => Root \in anc'[m]
  <2> TAKE m \in Created'
  <2> HAVE m # Root
  <2>1. m \in Created \/ m \in {l, r}
    BY <1>2, <1>3 DEF Created
  <2>2. CASE m \in Created /\ m \notin {l, r}
    <3>1. m \in Node
      BY <2>2, <1>1, MaxNodesAssumption DEF Created, Node, TypeOK, TreeTypeOK
    <3> QED
      BY <2>2, <3>1, <1>1, <1>4 DEF TreeShape
  <2>3. CASE m \in {l, r}
    <3>1. Root \in Path(n)
      BY <1>1, <1>3 DEF TreeShape, Path, Created
    <3> QED
      BY <2>3, <3>1, <1>4
  <2> QED
    BY <2>1, <2>2, <2>3
<1>16. TreeShape'
  BY <1>11, <1>12, <1>13, <1>14, <1>15 DEF TreeShape
<1>17. \A p \in Node : left'[p] # 0 =>
          mods'[p] = mods'[left'[p]] \union mods'[left'[p] + 1]
  <2> TAKE p \in Node
  <2> HAVE left'[p] # 0
  <2>1. CASE p = n
    BY <2>1, <1>2, <1>3, <1>4
  <2>2. CASE p # n
    <3>1. left'[p] = left[p] /\ {left[p], left[p] + 1} = Children(p)
      BY <2>2, <1>4 DEF Children
    <3>2. {p, left[p], left[p] + 1} \subseteq Node \ {l, r}
      BY <2>2, <3>1, <1>9
    <3> QED
      BY <3>1, <3>2, <1>1, <1>2 DEF ModelsCovered
  <2> QED
    BY <2>1, <2>2
<1>18. \A m \in Node : \A a \in anc'[m] : mods'[m] \subseteq mods'[a]
  <2> TAKE m \in Node
  <2> TAKE a \in anc'[m]
  <2>1. CASE m \in {l, r}
    <3>1. a \in Path(n)
      BY <2>1, <1>4
    <3>2. mods'[a] = mods[a] /\ mods[n] \subseteq mods[a]
      BY <3>1, <1>2, <1>6
    <3>3. mods'[m] \subseteq mods[n]
      BY <2>1, <1>2
    <3> QED
      BY <3>2, <3>3
  <2>2. CASE m \notin {l, r}
    <3>1. a \in anc[m] /\ a \in Node \ {l, r}
      BY <2>2, <1>4, <1>8
    <3> QED
      BY <2>2, <3>1, <1>1, <1>2 DEF ModelsCovered
  <2> QED
    BY <2>1, <2>2
<1> QED
  BY <1>16, <1>17, <1>18 DEF ModelsCovered

LEMMA PartitionInv ==
  ASSUME IInv, NEW n \in Node, TakeUnsolved(n)
  PROVE  IInv'
<1>1. /\ TypeOK /\ TreeShape /\ ModelsCovered /\ StatusShape /\ UnsatSound
      /\ ResultSound /\ LoopShape
  BY DEF IInv
<1>2. /\ unsolveds \in Seq(Node) /\ unsolveds # <<>> /\ n = Head(unsolveds)
      /\ unsolveds' = Tail(unsolveds)
      /\ pc = "partition" /\ numNodes + 2 <= MaxNodes
      /\ UNCHANGED <<tasks, simps, result, simplifieds, solvings, started, given,
                     pc, todo, kept, solving, modelDone, sent>>
  BY <1>1 DEF TakeUnsolved, MayTake, TypeOK, TreeTypeOK, loopVars, roundVars
<1>3. /\ unsolveds' \in Seq(Node)
      /\ n < numNodes
      /\ \A i \in 1 .. Len(unsolveds') : unsolveds'[i] < numNodes
  BY <1>1, <1>2 DEF StatusShape
<1>4. numNodes \in Nat /\ n \in Nat
  BY <1>1, NodeFacts, MaxNodesAssumption DEF TypeOK, TreeTypeOK
<1>5. CASE ~StillUnsolved(n)
  <2>1. UNCHANGED <<shape, status, assign_to, simplifyings>>
    BY <1>5 DEF TakeUnsolved
  <2>2. MarksKept
    BY <1>1, <1>2, <2>1
       DEF MarksKept, TypeOK, TreeTypeOK, StatusShape, UnsatSound, ResultSound,
           Created, shape
  <2>3. LoopTypeOK' /\ LoopShape'
    BY <1>1, <1>2, <2>1 DEF TypeOK, LoopTypeOK, LoopShape, shape
  <2> QED
    BY <1>1, <1>2, <1>3, <2>1, <2>2, <2>3, SameShape DEF TypeOK, TreeTypeOK
<1>6. CASE StillUnsolved(n)
  <2>1. /\ status[n] = "unsolved" /\ SimplifyPartitionTask(n)
        /\ numNodes' = numNodes + 2
        /\ left' = [left EXCEPT ![n] = numNodes]
        /\ anc' = [anc EXCEPT ![numNodes] = Path(n), ![numNodes + 1] = Path(n)]
        /\ assign_to' = [assign_to EXCEPT ![n] = "partitioner"]
        /\ status' = [status EXCEPT ![n] = "simplifying"]
        /\ simplifyings' = Append(simplifyings, n)
    BY <1>6 DEF StillUnsolved, TakeUnsolved, SimplifyPartitionTask
  <2>2. /\ mods' \in [Node -> SUBSET Models]
        /\ \A m \in Node : m < numNodes => mods'[m] = mods[m]
    <3>1. PICK A \in SUBSET mods[n], B \in SUBSET mods[n] :
             mods' = [mods EXCEPT ![numNodes] = A, ![numNodes + 1] = B]
      BY <2>1 DEF SimplifyPartitionTask
    <3>2. mods \in [Node -> SUBSET Models]
      BY <1>1 DEF TypeOK, TreeTypeOK
    <3>3. \A m \in Node : m < numNodes => m # numNodes /\ m # numNodes + 1
      BY <1>4, NodeFacts
    <3> QED
      BY <3>1, <3>2, <3>3
  <2>3. TreeShape' /\ ModelsCovered'
    BY <1>2, <1>3, <2>1, SplitTree
  <2>4. TypeOK'
    <3>1. numNodes \in Node /\ numNodes' \in 0 .. MaxNodes
      BY <1>2, <1>4, <2>1, MaxNodesAssumption DEF Node
    <3>2. Path(n) \in SUBSET Node
      BY <1>1 DEF Path, TypeOK, TreeTypeOK
    <3>3. left' \in [Node -> Node] /\ anc' \in [Node -> SUBSET Node]
          /\ status' \in [Node -> Status] /\ assign_to' \in [Node -> Process]
      BY <1>1, <2>1, <3>1, <3>2 DEF TypeOK, TreeTypeOK, Status, Process
    <3>4. simplifyings' \in Seq(Node)
      BY <1>1, <2>1 DEF TypeOK, TreeTypeOK
    <3> QED
      BY <1>1, <1>2, <1>3, <2>2, <3>1, <3>3, <3>4 DEF TypeOK, TreeTypeOK
  <2>5. StatusShape'
    <3>1. \A m \in Node : /\ m # n => status'[m] = status[m] /\ left'[m] = left[m]
                          /\ status'[n] = "simplifying" /\ left'[n] = numNodes
      BY <1>1, <2>1 DEF TypeOK, TreeTypeOK
    <3>2. \A m \in Node : m >= numNodes' => m # n /\ m >= numNodes
      BY <1>3, <1>4, <2>1, NodeFacts
    <3>3. \A i \in 1 .. Len(unsolveds') : unsolveds'[i] < numNodes'
      <4>1. \A i \in 1 .. Len(unsolveds') : unsolveds'[i] \in Nat
        <5>1. \A i \in 1 .. Len(unsolveds') : unsolveds'[i] \in Node
          BY <1>3
        <5> QED
          BY <5>1, NodeFacts
      <4> QED
        BY <1>3, <1>4, <2>1, <4>1
    <3>4. numNodes # 0
      BY <1>3, <1>4
    <3> QED
      BY <1>1, <3>1, <3>2, <3>3, <3>4 DEF StatusShape
  <2>6. \A m \in Node : status'[m] = "unsat" <=> status[m] = "unsat"
    BY <1>1, <2>1 DEF TypeOK, TreeTypeOK
  <2>7. UnsatSound'
    <3> SUFFICES ASSUME NEW m \in Created', status'[m] = "unsat"
                 PROVE  mods'[m] \subseteq given'
      BY DEF UnsatSound
    <3>1. m \in Node /\ m \in Nat
      BY <1>2, <1>4, <2>1, MaxNodesAssumption DEF Created, Node
    <3>2. status[m] = "unsat"
      BY <2>6, <3>1
    <3>3. m < numNodes
      BY <1>1, <1>4, <3>1, <3>2 DEF StatusShape
    <3> QED
      BY <1>1, <1>2, <1>4, <2>2, <3>1, <3>2, <3>3 DEF UnsatSound, Created
  <2>8. ResultSound'
    <3>1. Root < numNodes
      BY <1>3, <1>4 DEF Root
    <3> QED
      BY <1>1, <1>2, <2>2, <2>6, <3>1, NodeFacts DEF ResultSound
  <2>9. LoopShape'
    BY <1>1, <1>2, <1>4, <2>1 DEF LoopShape
  <2> QED
    BY <2>3, <2>4, <2>5, <2>7, <2>8, <2>9 DEF IInv
<1> QED
  BY <1>5, <1>6
-----------------------------------------------------------------------------
LEMMA InitInv == Init => IInv
<1> SUFFICES ASSUME Init PROVE IInv
  OBVIOUS
<1>1. TypeOK
  <2>1. <<>> \in Seq(Node) /\ 0 \in Node /\ 0 \in 0 .. MaxNodes
    BY MaxNodesAssumption DEF Node
  <2> QED
    BY <2>1 DEF Init, NoTree, TypeOK, TreeTypeOK, Status, Result, Process, PC
<1>2. TreeShape /\ ModelsCovered /\ StatusShape
  BY MaxNodesAssumption
     DEF Init, NoTree, TreeShape, ModelsCovered, StatusShape, Children, Created,
         Node
<1>3. UnsatSound /\ ResultSound /\ LoopShape
  BY NodeFacts, MaxNodesAssumption
     DEF Init, NoTree, UnsatSound, ResultSound, LoopShape, Created, Node
<1> QED
  BY <1>1, <1>2, <1>3 DEF IInv

LEMMA NextInv == IInv /\ [Next]_vars => IInv'
<1> SUFFICES ASSUME IInv, [Next]_vars PROVE IInv'
  OBVIOUS
<1>1. CASE UNCHANGED vars
  BY <1>1, LoopMoves
<1>2. CASE Next
  BY <1>2, LoopMoves, AssignInv, RoundEndsInv, SplitInv, EndPollInv, SolveInv,
     PartitionInv, PollInv, Zenon DEF Next, Step, PartitionNext
<1> QED
  BY <1>1, <1>2

LEMMA Inductive == Spec => []IInv
BY InitInv, NextInv, PTL DEF Spec

(***************************************************************************)
(* Every state a coordinator reaches has values of the right kinds; in     *)
(* particular the child ids of ParallelTree.make_node, the queues and the  *)
(* running lists hold nodes of the tree, whatever its size.                *)
(***************************************************************************)
THEOREM TypeCorrect == Spec => []TypeOK
BY Inductive, PTL DEF IInv

(***************************************************************************)
(* node_solved_unsat, unsat_push_up and unsat_push_down never mark a node  *)
(* unsat that has a model outside the sub-problems split away, for every   *)
(* tree, every order of answers and splits and every failure.              *)
(***************************************************************************)
THEOREM UnsatIsSound == Spec => []UnsatSound
BY Inductive, PTL DEF IInv
-----------------------------------------------------------------------------
(* A coordinator implements the round of SolvingRound.                     *)

\* Most steps are steps inside a round that the leader does not see.
LEMMA RoundStutter ==
  ASSUME solving, solving' = solving, sent' = sent,
         pc \notin {"terminated", "memout", "failed"},
         pc' \notin {"terminated", "memout", "failed"},
         mods'[Root] = mods[Root], given' = given
  PROVE  UNCHANGED Round!vars
BY DEF Round!vars, phase

LEMMA RoundStep ==
  ASSUME IInv, [Next]_vars
  PROVE  [Round!Next]_Round!vars
<1>1. /\ TypeOK /\ TreeShape /\ ModelsCovered /\ StatusShape /\ UnsatSound
      /\ ResultSound /\ LoopShape
  BY DEF IInv
<1>2. ASSUME NEW f \in SUBSET Models, Assign(f)
      PROVE  Round!Start(f)
  <2>1. given' = {} /\ mods'[Root] = f
    BY <1>1, <1>2, NodeFacts
       DEF Assign, MakeRoot, LoopShape, TypeOK, TreeTypeOK
  <2>2. phase = "idle" /\ phase' = "solving" /\ sent' = "none"
    BY <1>2 DEF Assign, StartPolling, phase
  <2> QED
    BY <1>1, <1>2, <2>1, <2>2 DEF Round!Start
<1>3. ASSUME NEW n \in Node, RequestSplit(n)
      PROVE  Round!GiveAway(mods[n]) /\ mods[n] \in SUBSET Models
  <2>1. mods[n] \subseteq mods[Root] /\ mods[n] \in SUBSET Models
    BY <1>1, <1>3, SplitNodeFacts, RootHasModels
       DEF RequestSplit, SplitSelected, TypeOK, TreeTypeOK
  <2>2. phase = "solving" /\ phase' = "solving" /\ UNCHANGED <<mods, sent>>
        /\ given' = given \union mods[n]
    BY <1>3 DEF RequestSplit, SplitSelected, StartPolling, SetNodeSplit, phase,
                shape, roundVars
  <2> QED
    BY <2>1, <2>2 DEF Round!GiveAway
<1>4. ASSUME RoundDone
      PROVE  Round!Answer(result) /\ result \in {"sat", "unsat"}
  <2>1. result \in {"sat", "unsat"} /\ solving /\ Root \in Created
    BY <1>1, <1>4, MaxNodesAssumption
       DEF RoundDone, LoopShape, TypeOK, TreeTypeOK, Result, Created, Root
  <2>2. phase = "solving" /\ phase' = "idle" /\ sent' = result
    BY <1>4, <2>1 DEF RoundDone, phase
  <2>3. mods'[Root] = {}
    BY <1>4, NodeFacts DEF RoundDone, RoundCleanUp, DropTree
  <2>4. result = "unsat" => mods[Root] \ given = {}
    BY <1>1, <2>1 DEF ResultSound, UnsatSound
  <2> QED
    BY <1>1, <2>1, <2>2, <2>3, <2>4 DEF Round!Answer, ResultSound
<1>5. ASSUME NEW n \in Node, ModelMissing \/ SplitCopyFails(n) \/ MemoryOut(n)
      PROVE  Round!Crash
  <2>1. phase = "solving" /\ phase' = "crashed"
    BY <1>1, <1>5
       DEF ModelMissing, SplitCopyFails, SplitSelected, MemoryOut,
           PollPartitioner, PollSolver, PollNext, LoopShape, phase
  <2> QED
    BY <1>5, <2>1 DEF ModelMissing, SplitCopyFails, MemoryOut, Round!Crash,
                      treeVars, shape, roundVars
<1>6. ASSUME Terminate
      PROVE  Round!Terminate
  <2>1. phase # "terminated" /\ phase' = "terminated" /\ sent' = sent
    BY <1>6 DEF Terminate, phase
  <2>2. mods'[Root] = {}
    BY <1>1, <1>6, NodeFacts
       DEF Terminate, RoundCleanUp, DropTree, LoopShape, treeVars, shape
  <2> QED
    BY <2>1, <2>2 DEF Round!Terminate
<1>7. ASSUME NEW n \in Node,
             \/ SkipStale(n) \/ StillRunning(n)
             \/ PartitionerExits(n) \/ SolverExits(n)
      PROVE  UNCHANGED Round!vars
  <2>1. pc \in {"simplifyings", "solvings"}
    BY <1>7 DEF SkipStale, StillRunning, PartitionerExits, SolverExits,
                PartitionerAnswers, PartitionerSucceeds, PartitionerFails,
                SolverAnswers, SolverFails, PollPartitioner, PollSolver, PollNext
  <2>2. UNCHANGED <<mods, given, solving, sent>>
    BY <1>7 DEF SkipStale, StillRunning, PartitionerExits, SolverExits,
                PartitionerAnswers, PartitionerSucceeds, PartitionerFails,
                SolverAnswers, SolverFails, treeVars, shape, roundVars
  <2>3. pc' \in {pc, "done"}
    BY <1>7 DEF SkipStale, StillRunning, PartitionerExits, SolverExits,
                PartitionerAnswers, PartitionerSucceeds, PartitionerFails,
                SolverAnswers, SolverFails, Dropped
  <2>4. solving
    BY <1>1, <2>1 DEF LoopShape
  <2> QED
    BY <2>1, <2>2, <2>3, <2>4, RoundStutter
<1>8. ASSUME NoMessage \/ EndSimplifyings \/ EndSolvings \/ EndPartition \/ EndSolve
      PROVE  UNCHANGED Round!vars
  <2>1. /\ pc \in {"recv", "simplifyings", "solvings", "partition", "solve"}
        /\ pc' \in {"recv", "simplifyings", "solvings", "partition", "solve"}
        /\ UNCHANGED <<mods, given, solving, sent>>
    BY <1>8 DEF NoMessage, StartPolling, EndSimplifyings, EndSolvings,
                EndPartition, EndSolve, treeVars, shape, roundVars
  <2>2. solving
    BY <1>1, <1>8 DEF LoopShape, NoMessage, EndSimplifyings, EndSolvings,
                      EndPartition, EndSolve
  <2> QED
    BY <2>1, <2>2, RoundStutter
<1>9. ASSUME NEW n \in Node, SolveNext(n)
      PROVE  UNCHANGED Round!vars
  <2>1. pc = "solve" /\ UNCHANGED <<mods, given, pc, solving, sent>>
    BY <1>9 DEF SolveNext, shape, loopVars, roundVars
  <2> QED
    BY <1>1, <2>1, RoundStutter DEF LoopShape
<1>10. ASSUME NEW n \in Node, PartitionNext(n)
       PROVE  UNCHANGED Round!vars
  <2>1. pc = "partition" /\ UNCHANGED <<given, pc, solving, sent>>
    BY <1>10 DEF PartitionNext, TakeUnsolved, loopVars, roundVars
  <2>2. solving /\ numNodes \in Nat /\ Root < numNodes
    BY <1>1, <2>1, MaxNodesAssumption
       DEF LoopShape, TypeOK, TreeTypeOK, Root
  <2>3. mods'[Root] = mods[Root]
    <3>1. CASE StillUnsolved(n)
      <4>1. PICK A \in SUBSET mods[n], B \in SUBSET mods[n] :
               mods' = [mods EXCEPT ![numNodes] = A, ![numNodes + 1] = B]
        BY <1>10, <3>1 DEF PartitionNext, TakeUnsolved, SimplifyPartitionTask
      <4>2. Root # numNodes /\ Root # numNodes + 1
        BY <2>2 DEF Root
      <4> QED
        BY <1>1, <4>1, <4>2, NodeFacts DEF TypeOK, TreeTypeOK
    <3>2. CASE ~StillUnsolved(n)
      BY <1>10, <3>2 DEF PartitionNext, TakeUnsolved, shape
    <3> QED
      BY <3>1, <3>2
  <2> QED
    BY <2>1, <2>2, <2>3, RoundStutter
<1>11. CASE UNCHANGED vars \/ Stopped
  BY <1>11 DEF Stopped, vars, treeVars, loopVars, shape, roundVars, Round!vars,
               phase
<1>12. CASE Next
  <2>1. Root \in Node
    BY NodeFacts
  <2> QED
    BY <1>2, <1>3, <1>4, <1>5, <1>6, <1>7, <1>8, <1>9, <1>10, <1>11, <1>12,
       <2>1, Zenon DEF Next, Step, Round!Next
<1> QED
  BY <1>11, <1>12

(***************************************************************************)
(* Whatever a coordinator does with its tree, its files and its            *)
(* subprocesses, the leader sees the round of SolvingRound: it answers     *)
(* "unsat" only when it owes nothing more, and a crash answers nothing.    *)
(***************************************************************************)
THEOREM Refinement == Spec => ImplementsSolvingRound
<1>1. Init => Round!Init
  BY NodeFacts DEF Init, NoTree, Round!Init, phase
<1>2. IInv /\ [Next]_vars => [Round!Next]_Round!vars
  BY RoundStep
<1> QED
  BY <1>1, <1>2, Inductive, PTL DEF Spec, ImplementsSolvingRound, Round!Spec
-----------------------------------------------------------------------------
(* While the root is open, unsat marks are closed upwards and downwards.   *)

\* The chain of parents, as the lemmas below use it.
LEMMA ChainFacts ==
  ASSUME TypeOK, TreeShape
  PROVE  /\ \A m \in Node : anc[m] \subseteq Node
         /\ \A m \in Node : \A a \in anc[m] : a < m
         /\ \A m \in Node : \A a \in anc[m] : anc[a] \subseteq anc[m]
         /\ \A p \in Node : \A c \in Children(p) :
              c \in Node /\ c < numNodes /\ p < c /\ anc[c] = Path(p)
<1>1. anc \in [Node -> SUBSET Node]
  BY DEF TypeOK, TreeTypeOK
<1>2. \A p \in Node : \A c \in Children(p) :
        c \in Node /\ c < numNodes /\ p < c /\ anc[c] = Path(p)
  BY ChildFacts
<1> QED
  BY <1>1, <1>2 DEF TreeShape

\* An ancestor of n below one that is pushed up is pushed up.
LEMMA PushedUpBelow ==
  ASSUME TypeOK, TreeShape, NEW n \in Node, NEW a \in PushedUp(n),
         NEW b \in anc[n], a \in anc[b]
  PROVE  b \in PushedUp(n)
<1> SUFFICES ASSUME NEW e \in anc[n], e = b \/ b \in anc[e]
             PROVE  /\ status[e] # "unsat"
                    /\ \A c \in Children(e) : c \in Path(n) \/ status[c] = "unsat"
  BY DEF PushedUp
<1>1. e \in Node
  BY ChainFacts
<1>2. a \in anc[e]
  BY <1>1, ChainFacts
<1> QED
  BY <1>2 DEF PushedUp

\* Every node below n is unsat already or pushed down.
LEMMA BelowIsMarked ==
  ASSUME TypeOK, TreeShape, UnsatDown, status[Root] # "unsat",
         NEW n \in Node, NEW m \in Node, n \in anc[m]
  PROVE  status[m] = "unsat" \/ m \in PushedDown(n)
<1> SUFFICES ASSUME m \notin PushedDown(n) PROVE status[m] = "unsat"
  OBVIOUS
<1>1. PICK e \in Path(m) : n \in anc[e] /\ status[e] = "unsat"
  BY DEF PushedDown
<1> QED
  BY <1>1 DEF Path, UnsatDown

(***************************************************************************)
(* A node m below a pushed up node a, but on no path with n: let b be the  *)
(* last node its path shares with that of n.  b is pushed up, its child    *)
(* towards m is not on the path of n, and so it is unsat.                  *)
(***************************************************************************)
LEMMA BesideIsUnsat ==
  ASSUME TypeOK, TreeShape, OnePath, UnsatDown, status[Root] # "unsat",
         NEW n \in Node, NEW a \in PushedUp(n), NEW m \in Node, a \in anc[m],
         m \notin Path(n), n \notin anc[m]
  PROVE  status[m] = "unsat"
<1> DEFINE T == {b \in anc[n] \intersect anc[m] : b = a \/ a \in anc[b]}
<1>1. PICK b \in T : \A y \in T : y <= b
  <2>1. T \in SUBSET (0 .. MaxNodes - 1)
    BY ChainFacts DEF Node
  <2>2. a \in T
    BY DEF PushedUp
  <2> HIDE DEF T
  <2> QED
    BY <2>1, <2>2, MaxOfBounded, NodeFacts
<1>2. b \in anc[n] /\ b \in anc[m] /\ b \in Node /\ b \in PushedUp(n)
  BY PushedUpBelow, ChainFacts
<1>3. PICK c \in Node : c \in Children(b) /\ c \in Path(m)
  BY <1>2 DEF OnePath
<1>4. b < c /\ anc[c] = Path(b)
  BY <1>2, <1>3, ChainFacts
<1>5. c \notin Path(n)
  <2> SUFFICES ASSUME c \in Path(n) PROVE FALSE
    OBVIOUS
  <2>1. c \in anc[n] /\ c \in anc[m]
    BY <1>3 DEF Path
  <2>2. a \in anc[c]
    BY <1>4 DEF Path
  <2>3. c \in T
    BY <2>1, <2>2
  <2>4. b \in Nat /\ c \in Nat
    BY <1>2, NodeFacts
  <2> HIDE DEF T
  <2> QED
    BY <1>1, <1>4, <2>3, <2>4
<1>6. status[c] = "unsat"
  BY <1>2, <1>3, <1>5 DEF PushedUp
<1> QED
  BY <1>3, <1>6 DEF Path, UnsatDown

\* The marks after node_solved_unsat of an open node n.
LEMMA MarksAfter ==
  ASSUME TypeOK, NEW n \in Node, NEW stopped, \A m \in stopped : ~Ended(m),
         NodeSolvedUnsat(n, stopped), UNCHANGED shape
  PROVE  /\ \A m \in Node : Children(m)' = Children(m) /\ anc'[m] = anc[m]
         /\ \A m \in Node : status'[m] = "unsat" <=>
                              status[m] = "unsat" \/ m \in NowUnsat(n)
BY DEF NodeSolvedUnsat, shape, Children, Ended

\* node_solved_unsat leaves no open node below an unsat one.
LEMMA SolvedDown ==
  ASSUME TypeOK, TreeShape, OnePath, UnsatDown,
         NEW n \in Node, NEW stopped, \A m \in stopped : ~Ended(m),
         NodeSolvedUnsat(n, stopped), UNCHANGED shape
  PROVE  UnsatDown'
<1> SUFFICES ASSUME status'[Root] # "unsat", NEW m \in Node, NEW a \in anc'[m],
                    status'[a] = "unsat"
             PROVE  status'[m] = "unsat"
  BY DEF UnsatDown
<1>1. a \in anc[m] /\ a \in Node
  BY MarksAfter, ChainFacts
<1>2. status[Root] # "unsat" /\ NowUnsat(n) = {n} \union PushedUp(n) \union PushedDown(n)
  BY MarksAfter, NodeFacts DEF NowUnsat
<1> SUFFICES status[m] = "unsat" \/ m \in NowUnsat(n)
  BY MarksAfter
<1>3. CASE status[a] = "unsat"
  BY <1>1, <1>2, <1>3 DEF UnsatDown
<1>4. CASE n \in anc[m]
  BY <1>2, <1>4, BelowIsMarked
<1>5. CASE a = n \/ a \in PushedDown(n)
  <2>1. n \in anc[m]
    BY <1>1, <1>5, ChainFacts DEF PushedDown
  <2> QED
    BY <1>4, <2>1
<1>6. CASE a \in PushedUp(n)
  <2>1. CASE m \in Path(n)
    BY <1>1, <1>2, <1>6, <2>1, PushedUpBelow DEF Path
  <2>2. CASE m \notin Path(n) /\ n \notin anc[m]
    BY <1>1, <1>2, <1>6, <2>2, BesideIsUnsat
  <2> QED
    BY <1>4, <2>1, <2>2
<1> QED
  BY <1>1, <1>2, <1>3, <1>5, <1>6, MarksAfter

\* node_solved_unsat leaves no open node above two unsat children.
LEMMA SolvedUp ==
  ASSUME TypeOK, TreeShape, OnePath, UnsatDown, UnsatUp,
         NEW n \in Node, NEW stopped, \A m \in stopped : ~Ended(m),
         NodeSolvedUnsat(n, stopped), UNCHANGED shape
  PROVE  UnsatUp'
<1> SUFFICES ASSUME status'[Root] # "unsat", NEW p \in Node, Children(p)' # {},
                    \A c \in Children(p)' : status'[c] = "unsat",
                    status[p] # "unsat", p \notin NowUnsat(n)
             PROVE  FALSE
  BY MarksAfter DEF UnsatUp
<1>1. status[Root] # "unsat" /\ NowUnsat(n) = {n} \union PushedUp(n) \union PushedDown(n)
  BY MarksAfter, NodeFacts DEF NowUnsat
<1>2. \A c \in Children(p) : c \in Node /\ anc[c] = Path(p)
  BY ChainFacts
<1>3. \A c \in Children(p) : status[c] = "unsat" \/ c \in NowUnsat(n)
  BY <1>2, MarksAfter
<1>4. ASSUME NEW c \in Children(p)
      PROVE  c \notin PushedDown(n)
  <2> SUFFICES ASSUME c \in PushedDown(n) PROVE FALSE
    OBVIOUS
  <2>1. n \in anc[p]
    BY <1>1, <1>2, <1>4 DEF PushedDown, Path
  <2>2. PICK e \in Path(p) : n \in anc[e] /\ status[e] = "unsat"
    BY <1>1, <2>1 DEF PushedDown
  <2>3. e \in Path(c)
    BY <1>2, <1>4, <2>2 DEF Path
  <2> QED
    BY <2>2, <2>3 DEF PushedDown
<1>5. PICK c \in Children(p) : c \in Path(n) /\ (c = n \/ c \in PushedUp(n))
  <2>1. PICK c \in Children(p) : status[c] # "unsat"
    BY <1>1, MarksAfter DEF UnsatUp
  <2>2. c = n \/ c \in PushedUp(n)
    BY <1>1, <1>3, <1>4, <2>1
  <2> QED
    BY <2>1, <2>2 DEF PushedUp, Path
<1>6. p \in anc[n] /\ c \in Node
  <2>1. p \in anc[c] /\ c \in Node
    BY <1>2, <1>5 DEF Path
  <2> QED
    BY <1>5, <2>1, ChainFacts DEF Path
<1>7. ASSUME NEW d \in Children(p)
      PROVE  d \in Path(n) \/ status[d] = "unsat"
  BY <1>1, <1>3, <1>4, <1>7 DEF PushedUp, Path
<1>8. ASSUME NEW b \in anc[n], p \in anc[b]
      PROVE  c # n /\ (b = c \/ c \in anc[b])
  <2>1. b \in Node /\ Path(b) \subseteq Path(n) /\ b < n /\ anc[b] \subseteq Node
    BY <1>8, ChainFacts DEF Path
  <2>2. PICK x \in Node : Children(p) \intersect Path(b) = {x}
    BY <1>8, <2>1 DEF OnePath
  <2>3. PICK y \in Node : Children(p) \intersect Path(n) = {y}
    BY <1>6 DEF OnePath
  <2>4. c = y /\ x \in Path(n) /\ x \in Children(p) /\ x \in Path(b)
    BY <1>5, <2>1, <2>2, <2>3
  <2>5. c \in Path(b)
    BY <2>3, <2>4
  <2>6. c # n
    <3>1. c = b \/ c < b
      BY <2>1, <2>5, ChainFacts DEF Path
    <3>2. c \in Nat /\ b \in Nat /\ n \in Nat
      BY <1>6, <2>1, NodeFacts
    <3> QED
      BY <2>1, <3>1, <3>2
  <2> QED
    BY <2>5, <2>6 DEF Path
<1>9. p \in PushedUp(n)
  <2> SUFFICES ASSUME NEW b \in anc[n], b = p \/ p \in anc[b]
               PROVE  /\ status[b] # "unsat"
                      /\ \A d \in Children(b) : d \in Path(n) \/ status[d] = "unsat"
    BY <1>6 DEF PushedUp
  <2>1. CASE b = p
    BY <1>7, <2>1
  <2>2. CASE p \in anc[b]
    BY <1>5, <1>8, <2>2 DEF PushedUp
  <2> QED
    BY <2>1, <2>2
<1> QED
  BY <1>1, <1>9
-----------------------------------------------------------------------------
(* What the other actions do to the marks and to the tree.                 *)

\* A step that marks no node unsat and leaves the tree alone.
LEMMA ClosedFrame ==
  ASSUME TypeOK, TreeShape, CInv, UNCHANGED shape,
         \A m \in Node : status'[m] = "unsat" <=> status[m] = "unsat"
  PROVE  CInv'
<1>1. \A m \in Node : /\ Children(m)' = Children(m) /\ Path(m)' = Path(m)
                      /\ anc'[m] = anc[m]
                      /\ anc[m] \subseteq Node /\ Children(m) \subseteq Node
  BY ChainFacts DEF shape, Children, Path
<1>2. OnePath'
  <2> SUFFICES ASSUME NEW m \in Node, NEW a \in anc'[m]
               PROVE  \E c \in Node : Children(a)' \intersect Path(m)' = {c}
    BY DEF OnePath
  <2> QED
    BY <1>1 DEF CInv, OnePath
<1>3. UnsatDown'
  BY <1>1, NodeFacts DEF CInv, UnsatDown
<1>4. UnsatUp'
  <2> SUFFICES ASSUME status'[Root] # "unsat", NEW p \in Node,
                      Children(p)' # {}, \A c \in Children(p)' : status'[c] = "unsat"
               PROVE  status'[p] = "unsat"
    BY DEF UnsatUp
  <2>1. Children(p) # {} /\ \A c \in Children(p) : c \in Node /\ status[c] = "unsat"
    BY <1>1
  <2> QED
    BY <2>1, NodeFacts DEF CInv, UnsatUp
<1> QED
  BY <1>2, <1>3, <1>4 DEF CInv

\* Without a node that has children there is nothing to close.
LEMMA ClosedWithout ==
  ASSUME \A m \in Node : left'[m] = 0 /\ anc'[m] = {}
  PROVE  CInv'
BY DEF CInv, OnePath, UnsatDown, UnsatUp, Children

(***************************************************************************)
(* Two children of an open node are no ancestors, and are not unsat.       *)
(***************************************************************************)
LEMMA PartitionClosed ==
  ASSUME IInv, CInv, NEW n \in Node, status[n] = "unsolved", n < numNodes,
         numNodes + 2 <= MaxNodes, SimplifyPartitionTask(n)
  PROVE  CInv'
<1>1. TypeOK /\ TreeShape /\ StatusShape
  BY DEF IInv
<1> DEFINE l == numNodes
           r == numNodes + 1
<1>2. /\ l \in Node /\ r \in Node /\ l # r /\ l # 0 /\ numNodes \in Nat
      /\ \A m \in Node : m < numNodes => m \notin {l, r}
  <2>1. numNodes \in Nat /\ n \in Nat
    BY <1>1, NodeFacts, MaxNodesAssumption DEF TypeOK, TreeTypeOK
  <2>2. l \in Node /\ r \in Node /\ l # r /\ l # 0
    BY <2>1, MaxNodesAssumption DEF Node
  <2> QED
    BY <2>1, <2>2, NodeFacts
<1>3. /\ left'[n] = l /\ left[n] = 0
      /\ \A m \in Node \ {n} : left'[m] = left[m]
      /\ anc'[l] = Path(n) /\ anc'[r] = Path(n)
      /\ \A m \in Node \ {l, r} : anc'[m] = anc[m]
      /\ \A m \in Node : status'[m] = "unsat" <=> status[m] = "unsat"
      /\ status[l] = "unsolved"
  <2>1. /\ left' = [left EXCEPT ![n] = l]
        /\ anc' = [anc EXCEPT ![l] = Path(n), ![r] = Path(n)]
        /\ status' = [status EXCEPT ![n] = "simplifying"]
    BY DEF SimplifyPartitionTask
  <2>2. status[l] = "unsolved"
    BY <1>1, <1>2 DEF StatusShape
  <2>3. left[n] = 0
    BY <1>1 DEF StatusShape
  <2> HIDE DEF l, r
  <2> QED
    BY <1>1, <1>2, <2>1, <2>2, <2>3 DEF TypeOK, TreeTypeOK
<1>4. \A m \in Node : /\ m # n => Children(m)' = Children(m)
                      /\ m \notin {l, r} => Path(m)' = Path(m)
                      /\ m \in {l, r} => Path(m)' = Path(n) \union {m}
  BY <1>3 DEF Children, Path
<1>5. Children(n)' = {l, r}
  BY <1>2, <1>3 DEF Children
<1>6. \A m \in Node : Children(m) \subseteq Node \ {l, r}
  BY <1>1, <1>2, ChainFacts
<1>7. \A m \in Node : \A a \in anc[m] : a \in Node /\ a # n /\ a \notin {l, r}
  <2> SUFFICES ASSUME NEW m \in Node, NEW a \in anc[m]
               PROVE  a \in Node /\ a # n /\ a \notin {l, r}
    OBVIOUS
  <2>1. a \in Node /\ left[a] # 0
    BY <1>1, ChainFacts DEF TreeShape
  <2>2. left[l] = 0 /\ left[r] = 0
    <3>1. status[l] = "unsolved" /\ status[r] = "unsolved"
      BY <1>1, <1>2 DEF StatusShape
    <3> QED
      BY <1>1, <1>2, <3>1 DEF StatusShape
  <2> QED
    BY <1>3, <2>1, <2>2
<1>8. n \notin {l, r}
  BY <1>2
<1> HIDE DEF l, r
<1>9. OnePath'
  <2> SUFFICES ASSUME NEW m \in Node, NEW a \in anc'[m]
               PROVE  \E c \in Node : Children(a)' \intersect Path(m)' = {c}
    BY DEF OnePath
  <2>1. CASE m \notin {l, r}
    <3>1. a \in anc[m]
      BY <1>3, <2>1
    <3>2. Children(a)' = Children(a) /\ Path(m)' = Path(m)
      BY <1>4, <1>7, <2>1, <3>1
    <3> QED
      BY <3>1, <3>2 DEF CInv, OnePath
  <2>2. CASE m \in {l, r} /\ a \in anc[n]
    <3>1. Children(a)' = Children(a) /\ Path(m)' = Path(n) \union {m}
      BY <1>4, <1>7, <2>2
    <3>2. m \notin Children(a)
      BY <1>6, <1>7, <2>2
    <3>3. PICK c \in Node : Children(a) \intersect Path(n) = {c}
      BY <2>2 DEF CInv, OnePath
    <3> QED
      BY <3>1, <3>2, <3>3
  <2>3. CASE m \in {l, r} /\ a = n
    <3>1. Children(a)' = {l, r} /\ Path(m)' = Path(n) \union {m}
      BY <1>4, <1>5, <2>3
    <3>2. l \notin Path(n) /\ r \notin Path(n)
      BY <1>7, <1>8 DEF Path
    <3> QED
      BY <1>2, <2>3, <3>1, <3>2
  <2> QED
    BY <1>3, <2>1, <2>2, <2>3 DEF Path
<1>10. UnsatDown'
  <2> SUFFICES ASSUME status'[Root] # "unsat", NEW m \in Node, NEW a \in anc'[m],
                      status'[a] = "unsat"
               PROVE  status'[m] = "unsat"
    BY DEF UnsatDown
  <2>1. status[Root] # "unsat"
    BY <1>3, NodeFacts
  <2>2. CASE m \notin {l, r}
    <3>1. a \in anc[m]
      BY <1>3, <2>2
    <3> QED
      BY <1>3, <1>7, <2>1, <3>1 DEF CInv, UnsatDown
  <2>3. CASE m \in {l, r}
    <3>1. a = n \/ a \in anc[n]
      BY <1>3, <2>3 DEF Path
    <3>2. status[a] = "unsat"
      BY <1>3, <1>7, <3>1
    <3> QED
      BY <2>1, <3>1, <3>2 DEF CInv, UnsatDown
  <2> QED
    BY <2>2, <2>3
<1>11. UnsatUp'
  <2> SUFFICES ASSUME status'[Root] # "unsat", NEW p \in Node,
                      Children(p)' # {}, \A c \in Children(p)' : status'[c] = "unsat"
               PROVE  status'[p] = "unsat"
    BY DEF UnsatUp
  <2>1. p # n
    BY <1>2, <1>3, <1>5
  <2>2. Children(p) # {} /\ \A c \in Children(p) : status[c] = "unsat"
    BY <1>3, <1>4, <1>6, <2>1
  <2> QED
    BY <1>3, <2>2, NodeFacts DEF CInv, UnsatUp
<1> QED
  BY <1>9, <1>10, <1>11 DEF CInv

\* node_solved on a node that was still open.
LEMMA AnswerClosed ==
  ASSUME IInv, CInv, NEW n \in Node, status[n] # "unsat", UNCHANGED shape,
         NEW stopped, \A m \in stopped : ~Ended(m),
         NodeSolvedSat(n) \/ NodeSolvedUnsat(n, stopped)
  PROVE  CInv'
<1>1. TypeOK /\ TreeShape /\ OnePath /\ UnsatDown /\ UnsatUp
  BY DEF IInv, CInv
<1>2. CASE NodeSolvedSat(n)
  <2>1. \A m \in Node : status'[m] = "unsat" <=> status[m] = "unsat"
    BY <1>1, <1>2 DEF NodeSolvedSat, TypeOK, TreeTypeOK
  <2> QED
    BY <1>1, <2>1, ClosedFrame
<1>3. CASE NodeSolvedUnsat(n, stopped)
  <2>1. OnePath'
    <3>1. \A m \in Node : /\ Children(m)' = Children(m) /\ Path(m)' = Path(m)
                          /\ anc'[m] = anc[m] /\ anc[m] \subseteq Node
      BY <1>1, ChainFacts DEF shape, Children, Path
    <3> SUFFICES ASSUME NEW m \in Node, NEW a \in anc'[m]
                 PROVE  \E c \in Node : Children(a)' \intersect Path(m)' = {c}
      BY DEF OnePath
    <3> QED
      BY <1>1, <3>1 DEF OnePath
  <2> QED
    BY <1>1, <1>3, <2>1, SolvedDown, SolvedUp DEF CInv
<1> QED
  BY <1>2, <1>3

\* The check of a process that has stopped keeps the marks closed.
LEMMA ExitClosed ==
  ASSUME IInv, CInv, NEW n \in Node, PartitionerExits(n) \/ SolverExits(n)
  PROVE  CInv'
<1>1. TypeOK /\ TreeShape
  BY DEF IInv
<1>2. /\ UNCHANGED shape /\ status[n] \in {"simplifying", "solving"}
  BY DEF PartitionerExits, SolverExits, PartitionerAnswers, PartitionerSucceeds,
         PartitionerFails, SolverAnswers, SolverFails, PollPartitioner, PollSolver
<1>3. ASSUME NEW answer, NodeSolved(n, answer)
      PROVE  CInv'
  BY <1>2, <1>3, AnswerClosed DEF NodeSolved
<1>4. ASSUME NEW new, new # "unsat",
             status' = [status EXCEPT ![n] = new] \/ status' = status
      PROVE  CInv'
  <2>1. \A m \in Node : status'[m] = "unsat" <=> status[m] = "unsat"
    BY <1>1, <1>2, <1>4 DEF TypeOK, TreeTypeOK
  <2> QED
    BY <1>1, <1>2, <2>1, ClosedFrame
<1>5. CASE \E answer : PartitionerAnswers(n, answer) \/ SolverAnswers(n, answer)
  BY <1>3, <1>5 DEF PartitionerAnswers, SolverAnswers
<1>6. CASE PartitionerSucceeds(n)
  BY <1>4, <1>6 DEF PartitionerSucceeds, NodeSimplified
<1>7. CASE \E fault : PartitionerFails(n, fault)
  BY <1>4, <1>7 DEF PartitionerFails
<1>8. CASE SolverFails(n)
  BY <1>4, <1>8 DEF SolverFails, TerminateNode
<1> QED
  BY <1>5, <1>6, <1>7, <1>8 DEF PartitionerExits, SolverExits

LEMMA TakeClosed ==
  ASSUME IInv, CInv, NEW n \in Node, TakeUnsolved(n)
  PROVE  CInv'
<1>1. TypeOK /\ TreeShape /\ StatusShape
  BY DEF IInv
<1>2. n < numNodes /\ numNodes + 2 <= MaxNodes
  <2>1. unsolveds \in Seq(Node) /\ unsolveds # <<>> /\ n = Head(unsolveds)
        /\ numNodes + 2 <= MaxNodes
    BY <1>1 DEF TakeUnsolved, MayTake, TypeOK, TreeTypeOK
  <2> QED
    BY <1>1, <2>1 DEF StatusShape
<1>3. CASE StillUnsolved(n)
  BY <1>2, <1>3, PartitionClosed DEF TakeUnsolved, StillUnsolved
<1>4. CASE ~StillUnsolved(n)
  BY <1>1, <1>4, ClosedFrame DEF TakeUnsolved
<1> QED
  BY <1>3, <1>4

\* No step of a coordinator leaves a node open between unsat ones.
LEMMA NextClosed ==
  ASSUME IInv, CInv, [Next]_vars
  PROVE  CInv'
<1>1. TypeOK /\ TreeShape /\ StatusShape
  BY DEF IInv
<1>2. ASSUME UNCHANGED <<shape, status>>
      PROVE  CInv'
  BY <1>1, <1>2, ClosedFrame
<1>3. CASE \/ NoMessage \/ EndSimplifyings \/ EndSolvings \/ EndPartition
           \/ EndSolve \/ ModelMissing \/ Stopped \/ UNCHANGED vars
           \/ \E n \in Node : \/ SplitCopyFails(n) \/ MemoryOut(n)
                              \/ SkipStale(n) \/ StillRunning(n)
  BY <1>2, <1>3 DEF NoMessage, EndSimplifyings, EndSolvings, EndPartition, EndSolve,
                    ModelMissing, Stopped, vars, SplitCopyFails, MemoryOut,
                    SkipStale, StillRunning, treeVars, marks
<1>4. ASSUME NEW f \in SUBSET Models, Assign(f)
      PROVE  CInv'
  <2>1. numNodes = 0 /\ UNCHANGED <<left, anc>>
    BY <1>4 DEF Assign, IInv, LoopShape, TypeOK, TreeTypeOK
  <2>2. \A n \in Node : left[n] = 0 /\ anc[n] = {}
    <3> TAKE n \in Node
    <3>1. n \in Nat /\ left[n] \in Nat /\ anc[n] \subseteq Node
      BY <1>1, NodeFacts DEF TypeOK, TreeTypeOK
    <3> QED
      BY <1>1, <2>1, <3>1 DEF TreeShape
  <2> QED
    BY <2>1, <2>2, ClosedWithout
<1>5. ASSUME NEW n \in Node, RequestSplit(n)
      PROVE  CInv'
  <2>1. /\ n \in SplitNodes /\ UNCHANGED shape
        /\ NodeSolvedUnsat(n, {a \in Path(n) : ~Ended(a)})
    BY <1>5 DEF RequestSplit, SplitSelected, SetNodeSplit
  <2>2. status[n] # "unsat"
    BY <2>1 DEF SplitNodes, SplitPoint, Children
  <2> QED
    BY <2>1, <2>2, AnswerClosed
<1>6. ASSUME NEW n \in Node, PartitionNext(n)
      PROVE  CInv'
  BY <1>6, TakeClosed DEF PartitionNext
<1>7. ASSUME NEW n \in Node, SolveNext(n)
      PROVE  CInv'
  <2>1. CASE StillSimplified(n)
    <3>1. status[n] = "simplified" /\ status' = [status EXCEPT ![n] = "solving"]
          /\ UNCHANGED shape
      BY <1>7, <2>1 DEF SolveNext, StillSimplified, SolveSimplifiedTask
    <3>2. \A m \in Node : status'[m] = "unsat" <=> status[m] = "unsat"
      BY <1>1, <3>1 DEF TypeOK, TreeTypeOK
    <3> QED
      BY <1>1, <3>1, <3>2, ClosedFrame
  <2>2. CASE ~StillSimplified(n)
    BY <1>2, <1>7, <2>2 DEF SolveNext
  <2> QED
    BY <2>1, <2>2
<1>8. CASE RoundDone \/ Terminate
  <2>1. CASE DropTree
    BY <2>1, ClosedWithout DEF DropTree
  <2>2. CASE UNCHANGED treeVars
    BY <1>2, <2>2 DEF treeVars, marks
  <2> QED
    BY <1>8, <2>1, <2>2 DEF RoundDone, Terminate, RoundCleanUp
<1> QED
  BY <1>3, <1>4, <1>5, <1>6, <1>7, <1>8, ExitClosed, Zenon DEF Next, Step

(***************************************************************************)
(* Whatever the order of answers, splits and partitions, unsat_push_up and *)
(* unsat_push_down leave no node open between unsat ones: a parent is      *)
(* unsat exactly when both of its children are.  That is what              *)
(* select_split_node asserts on its way down.                              *)
(***************************************************************************)
THEOREM UnsatIsClosed == Spec => []UnsatClosed
<1>1. Init => CInv
  BY DEF Init, NoTree, CInv, OnePath, UnsatDown, UnsatUp, Children
<1>2. IInv /\ CInv /\ [Next]_vars => CInv'
  BY NextClosed
<1>3. IInv /\ CInv => UnsatClosed
  <2> SUFFICES ASSUME IInv, CInv, status[Root] # "unsat",
                      NEW p \in Created, Children(p) # {}
               PROVE  status[p] = "unsat" <=> \A c \in Children(p) : status[c] = "unsat"
    BY DEF UnsatClosed
  <2>1. p \in Node
    BY MaxNodesAssumption DEF IInv, TypeOK, TreeTypeOK, Created, Node
  <2>2. \A c \in Children(p) : c \in Node /\ p \in anc[c]
    BY <2>1, ChainFacts DEF IInv, Path
  <2> QED
    BY <2>1, <2>2 DEF CInv, UnsatDown, UnsatUp
<1> QED
  BY <1>1, <1>2, <1>3, Inductive, PTL DEF Spec
-----------------------------------------------------------------------------
(* Only the poll decides a round.                                          *)

\* The other child of the parent of a split node is open, so that
\* unsat_push_up stops at the parent.
LEMMA SplitPushesNothingUp ==
  ASSUME TypeOK, TreeShape, NEW n \in SplitNodes
  PROVE  PushedUp(n) = {} /\ n # Root
<1>1. PICK p \in Created : n = left[p] + 1 /\ SplitPoint(p)
  BY DEF SplitNodes
<1>2. /\ p \in Node /\ left[p] # 0 /\ left[p] \in Nat /\ p \in Nat
      /\ status[left[p]] # "unsat"
  <2>1. p \in Node /\ left \in [Node -> Node]
    BY MaxNodesAssumption DEF TypeOK, TreeTypeOK, Created, Node
  <2> QED
    BY <1>1, <2>1, NodeFacts DEF SplitPoint, Children
<1>3. /\ n \in Children(p) /\ left[p] \in Children(p)
      /\ anc[n] = Path(p) /\ p < left[p]
  BY <1>1, <1>2, ChainFacts DEF Children
<1>4. left[p] \notin Path(n)
  <2>1. left[p] # n
    BY <1>1, <1>2
  <2>2. left[p] \notin anc[n]
    <3>1. \A a \in anc[p] : a < p /\ a \in Nat
      BY <1>2, ChainFacts, NodeFacts
    <3> QED
      BY <1>2, <1>3, <3>1 DEF Path
  <2> QED
    BY <2>1, <2>2 DEF Path
<1>5. ASSUME NEW a \in PushedUp(n)
      PROVE  FALSE
  <2>1. a \in anc[n] /\ p \in anc[n] /\ (p = a \/ a \in anc[p])
    BY <1>3, <1>5 DEF PushedUp, Path
  <2> QED
    BY <1>2, <1>3, <1>4, <1>5, <2>1 DEF PushedUp
<1> QED
  BY <1>1, <1>2, <1>5 DEF Root

\* No step but one of the poll decides an open round.
LEMMA NextReported ==
  ASSUME IInv, DecisionReported, [Next]_vars
  PROVE  DecisionReported'
<1>1. TypeOK /\ TreeShape /\ LoopShape
  BY DEF IInv
<1>2. ASSUME UNCHANGED result, pc' = pc \/ pc \in PC \ {"done", "failed"}
      PROVE  DecisionReported'
  BY <1>2 DEF DecisionReported
<1>3. ASSUME NEW n \in Node, PartitionerExits(n) \/ SolverExits(n)
      PROVE  DecisionReported'
  <2>1. Dropped
    BY <1>3 DEF PartitionerExits, SolverExits, PartitionerAnswers,
                PartitionerSucceeds, PartitionerFails, SolverAnswers, SolverFails
  <2> QED
    BY <2>1 DEF Dropped, DecisionReported
<1>4. ASSUME NEW n \in Node, RequestSplit(n)
      PROVE  DecisionReported'
  <2>1. n \in SplitNodes /\ result = "unsolved"
        /\ result' = IF Root \in NowUnsat(n) THEN "unsat" ELSE result
    BY <1>4 DEF RequestSplit, SplitSelected, SetNodeSplit, NodeSolvedUnsat
  <2>2. PushedUp(n) = {} /\ n # Root
    BY <1>1, <2>1, SplitPushesNothingUp
  <2>3. Root \notin PushedDown(n)
    BY <1>1, <1>4, ChainFacts, NodeFacts DEF PushedDown, Root
  <2>4. Root \notin NowUnsat(n)
    BY <2>2, <2>3 DEF NowUnsat
  <2> QED
    BY <2>1, <2>4 DEF DecisionReported
<1>5. CASE RoundDone \/ Terminate
  <2>1. CASE DropTree
    BY <2>1 DEF DropTree, DecisionReported
  <2>2. CASE Terminate /\ ~solving
    <3>1. UNCHANGED result /\ pc = "recv"
      BY <1>1, <2>2 DEF Terminate, LoopShape, treeVars, marks
    <3> QED
      BY <3>1 DEF DecisionReported
  <2> QED
    BY <1>5, <2>1, <2>2 DEF RoundDone, Terminate, RoundCleanUp
<1>6. CASE \/ NoMessage \/ EndSimplifyings \/ EndSolvings \/ EndPartition
           \/ EndSolve \/ Stopped \/ UNCHANGED vars
           \/ \E f \in SUBSET Models : Assign(f)
           \/ \E n \in Node : \/ SkipStale(n) \/ StillRunning(n)
                              \/ PartitionNext(n) \/ SolveNext(n) \/ MemoryOut(n)
  <2>1. UNCHANGED result /\ (pc' = pc \/ pc \in PC \ {"done", "failed"})
    BY <1>6
       DEF NoMessage, EndSimplifyings, EndSolvings, EndPartition, EndSolve, Stopped,
           vars, Assign, SkipStale, StillRunning, PartitionNext, TakeUnsolved, SolveNext, MemoryOut,
           PollPartitioner, PollSolver, PollNext, treeVars, marks, loopVars, PC
  <2> QED
    BY <1>2, <2>1
<1>7. CASE ModelMissing \/ \E n \in Node : SplitCopyFails(n)
  BY <1>7 DEF ModelMissing, SplitCopyFails, DecisionReported
<1> QED
  BY <1>3, <1>4, <1>5, <1>6, <1>7, Zenon DEF Next, Step

(***************************************************************************)
(* A round is decided in the poll and nowhere else, a split in particular  *)
(* never decides it, so is_done need be looked at only there.              *)
(***************************************************************************)
THEOREM DecisionIsReported == Spec => []DecisionReported
<1>1. Init => DecisionReported
  BY DEF Init, NoTree, DecisionReported
<1>2. IInv /\ DecisionReported /\ [Next]_vars => DecisionReported'
  BY NextReported
<1> QED
  BY <1>1, <1>2, Inductive, PTL DEF Spec

-----------------------------------------------------------------------------
(***************************************************************************)
(* Theorems about the subprocesses of a coordinator and what they use:     *)
(* round_clean_up finds each of them in a list, a node that has ended gets *)
(* none, there are never more than the rank has cores, and the task file   *)
(* that one is about to read is there.                                     *)
(***************************************************************************)

LEMMA ElementsTail ==
  ASSUME NEW s \in Seq(Node), s # <<>>, NEW x \in Elements(s)
  PROVE  x = Head(s) \/ x \in Elements(Tail(s))
<1>1. PICK i \in 1 .. Len(s) : x = s[i]
  BY DEF Elements
<1>2. CASE i = 1
  BY <1>1, <1>2
<1>3. CASE i # 1
  <2>1. Len(s) \in Nat /\ i \in Nat /\ i - 1 \in 1 .. Len(s) - 1
    BY <1>3, LenProperties
  <2>2. Len(Tail(s)) = Len(s) - 1 /\ Tail(s)[i - 1] = s[(i - 1) + 1]
    BY <2>1, HeadTailProperties
  <2>3. (i - 1) + 1 = i
    BY <2>1
  <2> QED
    BY <1>1, <2>1, <2>2, <2>3 DEF Elements
<1> QED
  BY <1>2, <1>3

LEMMA ElementsAppend ==
  ASSUME NEW s \in Seq(Node), NEW n \in Node
  PROVE  Elements(Append(s, n)) = Elements(s) \union {n}
<1>1. /\ Len(s) \in Nat
      /\ Len(Append(s, n)) = Len(s) + 1
      /\ \A i \in 1 .. Len(s) : Append(s, n)[i] = s[i]
      /\ Append(s, n)[Len(s) + 1] = n
  BY LenProperties, AppendProperties
<1>2. 1 .. Len(s) + 1 = (1 .. Len(s)) \union {Len(s) + 1}
  BY <1>1
<1> QED
  BY <1>1, <1>2 DEF Elements

\* The parts of LInv.
Owned ==
  \A n \in Node :
    /\ assign_to[n] = "partitioner" => status[n] = "simplifying"
    /\ assign_to[n] = "solver" => status[n] = "solving"

Polled ==
  \A n \in Node :
    /\ pc = "simplifyings" /\ assign_to[n] = "partitioner" =>
         n \in Elements(todo) \union Elements(kept)
    /\ pc = "solvings" /\ assign_to[n] = "solver" =>
         n \in Elements(todo) \union Elements(kept)

LEMMA LInvParts == LInv <=> Owned /\ ProcessesListed /\ Polled
BY DEF LInv, Owned, Polled

(***************************************************************************)
(* A step that starts no process and changes the status of no node that    *)
(* keeps one leaves LInv true, if the poll forgets no such node.           *)
(***************************************************************************)
LEMMA NoNewProcess ==
  ASSUME IInv, LInv, UNCHANGED lists, pc' \in PC,
         \A n \in Node : assign_to'[n] # "none" =>
           /\ assign_to'[n] = assign_to[n]
           /\ status'[n] = status[n]
           /\ pc' \in {"simplifyings", "solvings"} =>
                /\ pc' = pc
                /\ n \in Elements(todo) \union Elements(kept) =>
                     n \in Elements(todo') \union Elements(kept')
  PROVE  LInv'
<1>1. Owned'
  BY DEF LInv, Owned
<1>2. ProcessesListed'
  BY DEF LInv, ProcessesListed, lists
<1>3. Polled'
  BY DEF LInv, Polled
<1> QED
  BY <1>1, <1>2, <1>3 DEF LInv, Owned, Polled

LEMMA InitLInv == Init => LInv
BY DEF Init, LInv, ProcessesListed

\* After the check of a polled node n that has stopped.
LEMMA ExitLInv ==
  ASSUME IInv, LInv, NEW n \in Node, PartitionerExits(n) \/ SolverExits(n)
  PROVE  LInv'
<1>1. TypeOK
  BY DEF IInv
<1>2. /\ PollPartitioner(n) \/ PollSolver(n)
      /\ Dropped
      /\ UNCHANGED lists
  BY DEF PartitionerExits, SolverExits, PartitionerAnswers,
         PartitionerSucceeds, PartitionerFails, SolverAnswers, SolverFails
<1>3. /\ assign_to'[n] = "none"
      /\ \A m \in Node : assign_to'[m] # "none" =>
           assign_to'[m] = assign_to[m] /\ status'[m] = status[m]
  <2>1. ASSUME NEW answer, NodeSolved(n, answer)
        PROVE  /\ assign_to'[n] = "none"
               /\ \A m \in Node : assign_to'[m] # "none" =>
                    assign_to'[m] = assign_to[m] /\ status'[m] = status[m]
    <3>1. CASE NodeSolvedSat(n)
      BY <1>1, <3>1 DEF NodeSolvedSat, StopProcesses, TypeOK, TreeTypeOK
    <3>2. CASE NodeSolvedUnsat(n, {})
      BY <1>1, <3>2 DEF NodeSolvedUnsat, NowUnsat, StopProcesses, TypeOK, TreeTypeOK
    <3> QED
      BY <2>1, <3>1, <3>2 DEF NodeSolved
  <2>2. CASE \E answer : NodeSolved(n, answer)
    BY <2>1, <2>2
  <2>3. CASE NodeSimplified(n)
    BY <1>1, <2>3 DEF NodeSimplified, StopProcesses, TypeOK, TreeTypeOK
  <2>4. CASE TerminateNode(n)
    BY <1>1, <2>4 DEF TerminateNode, StopProcesses, TypeOK, TreeTypeOK
  <2>5. CASE StopProcesses({n}) /\ UNCHANGED status
    BY <1>1, <2>5 DEF StopProcesses, TypeOK, TreeTypeOK
  <2> QED
    BY <2>2, <2>3, <2>4, <2>5
       DEF PartitionerExits, SolverExits, PartitionerAnswers,
           PartitionerSucceeds, PartitionerFails, SolverAnswers, SolverFails
<1>4. pc \in {"simplifyings", "solvings"} /\ todo \in Seq(Node) /\ todo # <<>>
      /\ n = Head(todo)
  BY <1>1, <1>2 DEF PollPartitioner, PollSolver, PollNext, TypeOK
<1>5. CASE result' = "unsolved"
  <2>1. todo' = Tail(todo) /\ pc' = pc /\ kept' = kept
    BY <1>2, <1>5 DEF Dropped
  <2>2. \A m \in Elements(todo) : m = n \/ m \in Elements(todo')
    BY <1>4, <2>1, ElementsTail
  <2>3. pc' \in PC
    BY <1>1, <2>1 DEF TypeOK
  <2> QED
    BY <1>2, <1>3, <2>1, <2>2, <2>3, NoNewProcess
<1>6. CASE result' # "unsolved"
  <2>1. pc' = "done"
    BY <1>2, <1>6 DEF Dropped
  <2> QED
    BY <1>2, <1>3, <2>1, NoNewProcess DEF PC
<1> QED
  BY <1>5, <1>6

\* A node is skipped only when it has no process of the polled kind.
LEMMA PollLInv ==
  ASSUME IInv, LInv, NEW n \in Node, SkipStale(n) \/ StillRunning(n)
  PROVE  LInv'
<1>1. TypeOK
  BY DEF IInv
<1>2. /\ pc \in {"simplifyings", "solvings"} /\ pc' = pc
      /\ todo \in Seq(Node) /\ todo # <<>> /\ n = Head(todo)
      /\ todo' = Tail(todo)
      /\ UNCHANGED <<assign_to, status, lists>>
  BY <1>1 DEF SkipStale, StillRunning, PollPartitioner, PollSolver, PollNext,
              TypeOK, treeVars, marks
<1>3. \A m \in Elements(todo) : m = n \/ m \in Elements(todo')
  BY <1>2, ElementsTail
<1>4. Owned' /\ ProcessesListed'
  BY <1>2 DEF LInv, Owned, ProcessesListed, lists
<1>5. CASE SkipStale(n)
  <2>1. /\ kept' = kept
        /\ pc = "simplifyings" => status[n] # "simplifying"
        /\ pc = "solvings" => status[n] # "solving"
    BY <1>2, <1>5 DEF SkipStale, PollPartitioner, PollSolver, PollNext
  <2>2. Polled'
    BY <1>2, <1>3, <2>1 DEF LInv, Polled
  <2> QED
    BY <1>4, <2>2 DEF LInv, Owned, Polled
<1>6. CASE StillRunning(n)
  <2>1. Elements(kept') = Elements(kept) \union {n}
    BY <1>1, <1>6, ElementsAppend DEF StillRunning, Keep, TypeOK
  <2>2. Polled'
    BY <1>2, <1>3, <2>1 DEF LInv, Polled
  <2> QED
    BY <1>4, <2>2 DEF LInv, Owned, Polled
<1> QED
  BY <1>5, <1>6

LEMMA EndPollLInv ==
  ASSUME IInv, LInv, EndSimplifyings \/ EndSolvings
  PROVE  LInv'
<1>1. UNCHANGED <<status, assign_to>> /\ Elements(<<>>) = {}
  BY DEF EndSimplifyings, EndSolvings, marks, Elements
<1>2. Owned'
  BY <1>1 DEF LInv, Owned
<1>3. CASE EndSimplifyings
  <2>1. /\ pc = "simplifyings" /\ pc' = "solvings" /\ todo = <<>>
        /\ todo' = solvings /\ simplifyings' = kept /\ solvings' = solvings
    BY <1>3 DEF EndSimplifyings
  <2>2. ProcessesListed' /\ Polled'
    BY <1>1, <2>1 DEF LInv, ProcessesListed, Polled
  <2> QED
    BY <1>2, <2>2 DEF LInv, Owned, Polled
<1>4. CASE EndSolvings
  <2>1. /\ pc = "solvings" /\ pc' = "partition" /\ todo = <<>>
        /\ solvings' = kept /\ simplifyings' = simplifyings
    BY <1>4 DEF EndSolvings
  <2>2. ProcessesListed' /\ Polled'
    BY <1>1, <2>1 DEF LInv, ProcessesListed, Polled
  <2> QED
    BY <1>2, <2>2 DEF LInv, Owned, Polled
<1> QED
  BY <1>3, <1>4

\* The poll starts with the whole list.
LEMMA StartLInv ==
  ASSUME IInv, LInv, UNCHANGED lists, StartPolling,
         \A n \in Node : assign_to'[n] # "none" =>
           assign_to'[n] = assign_to[n] /\ status'[n] = status[n]
  PROVE  LInv'
<1>1. Owned'
  BY DEF LInv, Owned
<1>2. ProcessesListed'
  BY DEF LInv, ProcessesListed, lists
<1>3. Polled'
  BY <1>2 DEF Polled, ProcessesListed, StartPolling, lists
<1> QED
  BY <1>1, <1>2, <1>3 DEF LInv, Owned, Polled

LEMMA NewProcessLInv ==
  ASSUME IInv, LInv, NEW n \in Node, PartitionNext(n) \/ SolveNext(n)
  PROVE  LInv'
<1>1. /\ TypeOK /\ pc \in {"partition", "solve"} /\ pc' = pc
      /\ simplifyings \in Seq(Node) /\ solvings \in Seq(Node)
  BY DEF IInv, TypeOK, TreeTypeOK, PartitionNext, TakeUnsolved, SolveNext, loopVars
<1>2. Polled'
  BY <1>1 DEF Polled
<1>3. CASE PartitionNext(n) /\ StillUnsolved(n)
  <2>1. /\ assign_to' = [assign_to EXCEPT ![n] = "partitioner"]
        /\ status' = [status EXCEPT ![n] = "simplifying"]
        /\ simplifyings' = Append(simplifyings, n) /\ solvings' = solvings
    BY <1>3 DEF PartitionNext, TakeUnsolved, SimplifyPartitionTask
  <2>2. Elements(simplifyings') = Elements(simplifyings) \union {n}
    BY <1>1, <2>1, ElementsAppend
  <2>3. Owned' /\ ProcessesListed'
    BY <1>1, <2>1, <2>2 DEF LInv, Owned, ProcessesListed, TypeOK, TreeTypeOK
  <2> QED
    BY <1>2, <2>3 DEF LInv, Owned, Polled
<1>4. CASE SolveNext(n) /\ StillSimplified(n)
  <2>1. /\ assign_to' = [assign_to EXCEPT ![n] = "solver"]
        /\ status' = [status EXCEPT ![n] = "solving"]
        /\ solvings' = Append(solvings, n) /\ simplifyings' = simplifyings
    BY <1>4 DEF SolveNext, SolveSimplifiedTask
  <2>2. Elements(solvings') = Elements(solvings) \union {n}
    BY <1>1, <2>1, ElementsAppend
  <2>3. Owned' /\ ProcessesListed'
    BY <1>1, <2>1, <2>2 DEF LInv, Owned, ProcessesListed, TypeOK, TreeTypeOK
  <2> QED
    BY <1>2, <2>3 DEF LInv, Owned, Polled
<1>5. CASE \/ PartitionNext(n) /\ ~StillUnsolved(n)
           \/ SolveNext(n) /\ ~StillSimplified(n)
  <2>1. UNCHANGED <<status, assign_to, lists>>
    BY <1>5 DEF PartitionNext, TakeUnsolved, SolveNext, lists
  <2>2. Owned' /\ ProcessesListed'
    BY <2>1 DEF LInv, Owned, ProcessesListed, lists
  <2> QED
    BY <1>2, <2>2 DEF LInv, Owned, Polled
<1> QED
  BY <1>3, <1>4, <1>5

\* round_clean_up stops every process.
LEMMA RoundEndsLInv ==
  ASSUME IInv, LInv, RoundDone \/ Terminate
  PROVE  LInv'
<1>1. TypeOK /\ pc' \in {"recv", "terminated"}
  BY DEF IInv, RoundDone, Terminate
<1>2. CASE RoundCleanUp
  <2>1. \A n \in Node : assign_to'[n] = "none"
    <3> TAKE n \in Node
    <3>1. assign_to[n] \in Process /\
          assign_to'[n] = IF n \in Listed THEN "none" ELSE assign_to[n]
      BY <1>1, <1>2 DEF RoundCleanUp, StopProcesses, TypeOK, TreeTypeOK
    <3> QED
      BY <3>1 DEF LInv, ProcessesListed, Listed, Process
  <2> QED
    BY <1>1, <2>1 DEF LInv, ProcessesListed
<1>3. CASE UNCHANGED treeVars
  BY <1>1, <1>3 DEF LInv, ProcessesListed, treeVars, marks, lists
<1> QED
  BY <1>2, <1>3 DEF RoundDone, Terminate

\* Nodes marked unsat, or terminated for a split, have no process.
LEMMA SplitStops ==
  ASSUME TypeOK, NEW n \in Node, RequestSplit(n), NEW m \in Node,
         assign_to'[m] # "none"
  PROVE  assign_to'[m] = assign_to[m] /\ status'[m] = status[m]
BY DEF RequestSplit, SetNodeSplit, NodeSolvedUnsat, StopProcesses, TypeOK, TreeTypeOK

LEMMA NextLInv == IInv /\ LInv /\ [Next]_vars => LInv'
<1> SUFFICES ASSUME IInv, LInv, [Next]_vars PROVE LInv'
  OBVIOUS
<1>1. ASSUME NEW n \in Node, RequestSplit(n)
      PROVE  LInv'
  BY <1>1, StartLInv, SplitStops DEF IInv, RequestSplit
<1>2. CASE NoMessage \/ \E f \in SUBSET Models : Assign(f)
  <2>1. UNCHANGED <<status, assign_to, lists>> /\ StartPolling
    BY <1>2 DEF NoMessage, Assign, treeVars, marks
  <2> QED
    BY <2>1, StartLInv
<1>3. CASE \/ EndPartition \/ EndSolve \/ ModelMissing
           \/ \E n \in Node : SplitCopyFails(n) \/ MemoryOut(n)
  <2>1. /\ UNCHANGED <<status, assign_to, lists>>
        /\ pc' \in {"solve", "recv", "failed", "memout"}
    BY <1>3 DEF EndPartition, EndSolve, ModelMissing, SplitCopyFails, MemoryOut,
                treeVars, marks
  <2> QED
    BY <2>1, NoNewProcess DEF PC
<1>4. CASE Stopped \/ UNCHANGED vars
  BY <1>4 DEF Stopped, vars, treeVars, loopVars, marks, lists, LInv, ProcessesListed
<1> QED
  BY <1>1, <1>2, <1>3, <1>4, ExitLInv, PollLInv, EndPollLInv, NewProcessLInv,
     RoundEndsLInv, Zenon DEF Next, Step

LEMMA LInvInductive == Spec => [](IInv /\ LInv)
<1>1. Init => LInv
  BY InitLInv
<1> QED
  BY <1>1, NextLInv, Inductive, PTL DEF Spec

(***************************************************************************)
(* Each process is that of a node in a running list, so round_clean_up,    *)
(* which goes through the two lists, leaves no process behind.             *)
(***************************************************************************)
THEOREM NoProcessForgotten == Spec => []ProcessesListed
BY LInvInductive, PTL DEF LInv
-----------------------------------------------------------------------------
\* What a node that has ended may still go through, in a step.
Stays(n) ==
  /\ Ended(n)'
  /\ assign_to'[n] = "none"
  /\ status[n] = "unsat" => status'[n] = "unsat"

\* The action in EndedForGood.
LEMMA EndedStays ==
  ASSUME IInv, LInv, [Next]_vars, NEW n \in Node, Ended(n), solving'
  PROVE  Stays(n)
<1>1. TypeOK /\ StatusShape /\ LoopShape /\ assign_to[n] = "none"
  BY DEF IInv, LInv, Ended, TypeOK, TreeTypeOK, Process
<1>2. \A m \in Node : status[m] \in {"unsolved", "simplifying", "simplified", "solving"}
                        => m # n
  BY DEF Ended
<1>3. CASE UNCHANGED <<status, assign_to>>
  BY <1>1, <1>3 DEF Stays, Ended
<1>4. ASSUME NEW x, NEW S, NodeSolvedUnsat(x, S), \A m \in S : ~Ended(m)
      PROVE  Stays(n)
  BY <1>1, <1>4 DEF NodeSolvedUnsat, StopProcesses, TypeOK, TreeTypeOK, Stays, Ended
<1>5. ASSUME NEW m \in Node, m # n, StopProcesses({m}),
             NEW new, status' = [status EXCEPT ![m] = new]
      PROVE  Stays(n)
  BY <1>1, <1>5 DEF StopProcesses, TypeOK, TreeTypeOK, Stays, Ended
<1>6. ASSUME NEW m \in Node, PartitionerExits(m) \/ SolverExits(m)
      PROVE  Stays(n)
  <2>1. m # n
    BY <1>2, <1>6 DEF PartitionerExits, SolverExits, PartitionerAnswers,
         PartitionerSucceeds, PartitionerFails, SolverAnswers, SolverFails,
         PollPartitioner, PollSolver
  <2>2. ASSUME NEW answer, NodeSolved(m, answer)
        PROVE  Stays(n)
    BY <1>4, <1>5, <2>1, <2>2 DEF NodeSolved, NodeSolvedSat
  <2>3. CASE NodeSimplified(m)
    BY <1>5, <2>1, <2>3 DEF NodeSimplified
  <2>4. CASE TerminateNode(m)
    BY <1>5, <2>1, <2>4 DEF TerminateNode
  <2>5. CASE StopProcesses({m}) /\ UNCHANGED status
    BY <1>1, <2>1, <2>5 DEF StopProcesses, TypeOK, TreeTypeOK, Stays, Ended
  <2> QED
    BY <1>6, <2>2, <2>3, <2>4, <2>5
       DEF PartitionerExits, SolverExits, PartitionerAnswers,
           PartitionerSucceeds, PartitionerFails, SolverAnswers, SolverFails
<1>7. ASSUME NEW m \in Node, RequestSplit(m)
      PROVE  Stays(n)
  BY <1>4, <1>7 DEF RequestSplit, SetNodeSplit
<1>8. ASSUME NEW m \in Node, PartitionNext(m) \/ SolveNext(m)
      PROVE  Stays(n)
  <2>1. CASE PartitionNext(m) /\ StillUnsolved(m)
    BY <1>1, <1>2, <2>1 DEF PartitionNext, TakeUnsolved, SimplifyPartitionTask, StillUnsolved,
                            TypeOK, TreeTypeOK, Stays, Ended
  <2>2. CASE SolveNext(m) /\ StillSimplified(m)
    BY <1>1, <1>2, <2>2 DEF SolveNext, SolveSimplifiedTask, StillSimplified,
                            TypeOK, TreeTypeOK, Stays, Ended
  <2> QED
    BY <1>3, <1>8, <2>1, <2>2 DEF PartitionNext, TakeUnsolved, SolveNext
<1>9. CASE RoundDone \/ Terminate
  BY <1>9 DEF RoundDone, Terminate
<1>10. CASE \/ NoMessage \/ EndSimplifyings \/ EndSolvings \/ EndPartition
            \/ EndSolve \/ ModelMissing \/ Stopped \/ UNCHANGED vars
            \/ \E f \in SUBSET Models : Assign(f)
  BY <1>3, <1>10 DEF NoMessage, EndSimplifyings, EndSolvings, EndPartition,
                     EndSolve, ModelMissing, Stopped, Assign, vars, treeVars, marks
<1>11. ASSUME NEW m \in Node,
              SplitCopyFails(m) \/ MemoryOut(m) \/ SkipStale(m) \/ StillRunning(m)
       PROVE  Stays(n)
  BY <1>3, <1>11 DEF SplitCopyFails, MemoryOut, SkipStale, StillRunning, treeVars,
                     marks
<1> QED
  BY <1>6, <1>7, <1>8, <1>9, <1>10, <1>11, Zenon DEF Next, Step

(***************************************************************************)
(* Within a round, whatever stale entries the queues and lists hold, a     *)
(* node that has ended stays so and gets no process.                       *)
(***************************************************************************)
THEOREM EndedNodesRest == Spec => EndedForGood
<1>1. IInv /\ LInv /\ [Next]_vars =>
        [\A n \in Node : Ended(n) /\ solving' =>
           /\ Ended(n)'
           /\ assign_to'[n] = "none"
           /\ status[n] = "unsat" => status'[n] = "unsat"]_vars
  BY EndedStays DEF Stays
<1> QED
  BY <1>1, LInvInductive, PTL DEF Spec, EndedForGood
-----------------------------------------------------------------------------
(* Cores and files.                                                        *)

\* A sequence has at most as many elements as it is long.
LEMMA ElementsBounded ==
  ASSUME NEW s \in Seq(Node)
  PROVE  IsFiniteSet(Elements(s)) /\ Cardinality(Elements(s)) <= Len(s)
<1>1. Len(s) \in Nat /\ s \in [1 .. Len(s) -> Node]
  BY LenProperties
<1>2. s \in Surjection(1 .. Len(s), Elements(s))
  BY <1>1 DEF Surjection, Elements
<1>3. IsFiniteSet(1 .. Len(s)) /\ Cardinality(1 .. Len(s)) = Len(s)
  BY <1>1, FS_Interval
<1> QED
  BY <1>2, <1>3, FS_Surjection

-----------------------------------------------------------------------------
(* The lists are bounded by the cores.                                     *)

\* Outside the poll only the lists count.
LEMMA NotPolling ==
  ASSUME ListsBounded, UNCHANGED lists, pc' \notin {"simplifyings", "solvings"}
  PROVE  ListsBounded'
BY DEF ListsBounded, Running, lists

\* A polled node goes to kept at most.
LEMMA PollBounded ==
  ASSUME IInv, ListsBounded, NEW n \in Node,
         \/ SkipStale(n)
         \/ StillRunning(n)
         \/ PartitionerExits(n)
         \/ SolverExits(n)
  PROVE  ListsBounded'
<1>1. /\ todo \in Seq(Node) /\ kept \in Seq(Node)
      /\ simplifyings \in Seq(Node) /\ solvings \in Seq(Node)
  BY DEF IInv, TypeOK, TreeTypeOK
<1>2. UNCHANGED lists /\ todo # <<>>
  BY DEF SkipStale, StillRunning, PartitionerExits, SolverExits,
         PartitionerAnswers, PartitionerSucceeds, PartitionerFails,
         SolverAnswers, SolverFails, PollPartitioner, PollSolver, PollNext, treeVars
<1>3. \/ todo' = Tail(todo) /\ pc' = pc /\ kept' = kept
      \/ todo' = Tail(todo) /\ pc' = pc /\ kept' = Append(kept, n)
      \/ pc' = "done"
  BY DEF SkipStale, StillRunning, Keep, PartitionerExits, SolverExits,
         PartitionerAnswers, PartitionerSucceeds, PartitionerFails,
         SolverAnswers, SolverFails, Dropped
<1>4. CASE pc' = "done"
  BY <1>2, <1>4, NotPolling
<1>5. CASE pc' = pc /\ todo' = Tail(todo) /\ kept' \in {kept, Append(kept, n)}
  <2>1. /\ Len(todo) \in Nat /\ Len(kept) \in Nat /\ Len(todo') = Len(todo) - 1
        /\ Len(simplifyings) \in Nat /\ Len(solvings) \in Nat
    BY <1>1, <1>2, <1>5, LenProperties, HeadTailProperties
  <2>2. Len(kept') \in {Len(kept), Len(kept) + 1}
    BY <1>1, <1>5, AppendProperties
  <2>3. Len(kept') + Len(todo') <= Len(kept) + Len(todo)
        /\ Len(kept') + Len(todo') \in Int
    BY <2>1, <2>2
  <2> QED
    BY <1>2, <1>5, <2>1, <2>3 DEF ListsBounded, Running, lists
<1> QED
  BY <1>3, <1>4, <1>5

\* When a poll ends, kept becomes the list: no node is added by it.
LEMMA EndPollBounded ==
  ASSUME IInv, ListsBounded, EndSimplifyings \/ EndSolvings
  PROVE  ListsBounded'
<1>1. /\ Len(kept) \in Nat /\ Len(<<>>) = 0 /\ Cores \in Nat
      /\ Len(simplifyings) \in Nat /\ Len(solvings) \in Nat
  BY LenProperties, CoresAssumption DEF IInv, TypeOK, TreeTypeOK
<1>2. CASE EndSimplifyings
  <2>1. /\ pc = "simplifyings" /\ todo = <<>> /\ simplifyings' = kept
        /\ kept' = <<>> /\ todo' = solvings /\ pc' = "solvings"
        /\ solvings' = solvings
    BY <1>2 DEF EndSimplifyings
  <2>2. Len(kept) <= Len(simplifyings)
    BY <1>1, <2>1 DEF ListsBounded
  <2> QED
    BY <1>1, <2>1, <2>2 DEF ListsBounded, Running
<1>3. CASE EndSolvings
  <2>1. /\ pc = "solvings" /\ todo = <<>> /\ solvings' = kept
        /\ pc' = "partition" /\ simplifyings' = simplifyings
    BY <1>3 DEF EndSolvings
  <2>2. Len(kept) <= Len(solvings)
    BY <1>1, <2>1 DEF ListsBounded
  <2> QED
    BY <1>1, <2>1, <2>2 DEF ListsBounded, Running
<1> QED
  BY <1>2, <1>3

\* A process is started only while a core is free.
LEMMA StartBounded ==
  ASSUME IInv, ListsBounded, NEW n \in Node, PartitionNext(n) \/ SolveNext(n)
  PROVE  ListsBounded'
<1>1. /\ simplifyings \in Seq(Node) /\ solvings \in Seq(Node)
      /\ Len(simplifyings) \in Nat /\ Len(solvings) \in Nat /\ Cores \in Nat
  BY LenProperties, CoresAssumption DEF IInv, TypeOK, TreeTypeOK
<1>2. pc' \in {"partition", "solve"} /\ Running < Cores
  BY DEF PartitionNext, TakeUnsolved, MayPartition, MayTake, SolveNext, MaySolve, CoreFree, loopVars
<1>3. \/ UNCHANGED lists
      \/ simplifyings' = Append(simplifyings, n) /\ solvings' = solvings
      \/ solvings' = Append(solvings, n) /\ simplifyings' = simplifyings
  BY DEF PartitionNext, TakeUnsolved, SimplifyPartitionTask, SolveNext, SolveSimplifiedTask, lists
<1>4. /\ Len(Append(simplifyings, n)) = Len(simplifyings) + 1
      /\ Len(Append(solvings, n)) = Len(solvings) + 1
  BY <1>1, AppendProperties
<1>5. Running' <= Cores
  BY <1>1, <1>2, <1>3, <1>4 DEF Running, lists
<1> QED
  BY <1>2, <1>5 DEF ListsBounded

\* No step of a coordinator makes its lists longer than it has cores.
LEMMA NextBounded ==
  ASSUME IInv, ListsBounded, [Next]_vars
  PROVE  ListsBounded'
<1>1. ASSUME UNCHANGED lists, StartPolling
      PROVE  ListsBounded'
  <2>1. Len(simplifyings) \in Nat /\ Len(<<>>) = 0
    BY LenProperties DEF IInv, TypeOK, TreeTypeOK
  <2> QED
    BY <1>1, <2>1 DEF ListsBounded, Running, StartPolling, lists
<1>2. CASE \/ NoMessage
           \/ \E f \in SUBSET Models : Assign(f)
           \/ \E n \in Node : RequestSplit(n)
  BY <1>1, <1>2 DEF NoMessage, Assign, RequestSplit, treeVars
<1>3. CASE \/ EndPartition \/ EndSolve \/ ModelMissing
           \/ \E n \in Node : SplitCopyFails(n) \/ MemoryOut(n)
  BY <1>3, NotPolling
     DEF EndPartition, EndSolve, ModelMissing, SplitCopyFails, MemoryOut, treeVars
<1>4. CASE Stopped \/ UNCHANGED vars
  BY <1>4 DEF Stopped, vars, treeVars, loopVars, lists, ListsBounded, Running
<1>5. CASE RoundDone \/ Terminate
  <2>1. pc' \in {"recv", "terminated"} /\ (RoundCleanUp \/ UNCHANGED treeVars)
    BY <1>5 DEF RoundDone, Terminate
  <2>2. CASE RoundCleanUp
    <3>1. simplifyings' = <<>> /\ solvings' = <<>> /\ Len(<<>>) = 0
      BY <2>2 DEF RoundCleanUp, DropTree
    <3> QED
      BY <2>1, <3>1, CoresAssumption DEF ListsBounded, Running
  <2>3. CASE UNCHANGED treeVars
    BY <2>1, <2>3, NotPolling DEF treeVars
  <2> QED
    BY <2>1, <2>2, <2>3
<1> QED
  BY <1>2, <1>3, <1>4, <1>5, PollBounded, EndPollBounded, StartBounded, Zenon
     DEF Next, Step

(***************************************************************************)
(* A subprocess belongs to a node of a list, and a list grows only while   *)
(* both together are shorter than the number of cores.                     *)
(***************************************************************************)
LEMMA BoundedCores ==
  ASSUME IInv, LInv, ListsBounded
  PROVE  CoresRespected
<1> DEFINE busy == {n \in Node : assign_to[n] # "none"}
<1>1. /\ simplifyings \in Seq(Node) /\ solvings \in Seq(Node)
      /\ Len(simplifyings) \in Nat /\ Len(solvings) \in Nat /\ Cores \in Nat
  BY LenProperties, CoresAssumption DEF IInv, TypeOK, TreeTypeOK
<1>2. busy \in SUBSET Listed
  BY DEF LInv, ProcessesListed, Listed, IInv, TypeOK, TreeTypeOK, Process
<1>3. /\ IsFiniteSet(Elements(simplifyings)) /\ IsFiniteSet(Elements(solvings))
      /\ Cardinality(Elements(simplifyings)) <= Len(simplifyings)
      /\ Cardinality(Elements(solvings)) <= Len(solvings)
  BY <1>1, ElementsBounded
<1> HIDE DEF busy
<1>4. /\ IsFiniteSet(Listed)
      /\ Cardinality(Listed) = Cardinality(Elements(simplifyings))
           + Cardinality(Elements(solvings))
           - Cardinality(Elements(simplifyings) \intersect Elements(solvings))
  BY <1>3, FS_Union DEF Listed
<1>5. Cardinality(busy) <= Cardinality(Listed)
  BY <1>2, <1>4, FS_Subset
<1>6. /\ Cardinality(Elements(simplifyings)) \in Nat
      /\ Cardinality(Elements(solvings)) \in Nat
      /\ Cardinality(Elements(simplifyings) \intersect Elements(solvings)) \in Nat
      /\ Cardinality(busy) \in Nat
  BY <1>2, <1>3, <1>4, FS_CardinalityType, FS_Intersection, FS_Subset
<1>7. Cardinality(busy) <= Cores
  BY <1>1, <1>3, <1>4, <1>5, <1>6 DEF ListsBounded, Running
<1> QED
  BY <1>7 DEF CoresRespected, busy

(***************************************************************************)
(* A rank never runs more subprocesses than it has cores, whatever the     *)
(* order of polls, answers, splits and failures.                           *)
(***************************************************************************)
THEOREM CoresAreRespected == Spec => []CoresRespected
<1>1. Init => ListsBounded
  BY CoresAssumption DEF Init, NoTree, ListsBounded, Running
<1>2. IInv /\ ListsBounded /\ [Next]_vars => ListsBounded'
  BY NextBounded
<1>3. IInv /\ LInv /\ ListsBounded => CoresRespected
  BY BoundedCores
<1> QED
  BY <1>1, <1>2, <1>3, LInvInductive, PTL DEF Spec
-----------------------------------------------------------------------------
(* The files.                                                              *)

\* Dropping the head of a queue adds nothing to it.
LEMMA TailElements ==
  ASSUME NEW s \in Seq(Node), s # <<>>
  PROVE  Elements(Tail(s)) \subseteq Elements(s)
<1> SUFFICES ASSUME NEW i \in 1 .. Len(Tail(s))
             PROVE  Tail(s)[i] \in Elements(s)
  BY DEF Elements
<1>1. Len(s) \in Nat /\ Len(Tail(s)) = Len(s) - 1 /\ Tail(s)[i] = s[i + 1]
  BY LenProperties, HeadTailProperties
<1>2. i + 1 \in 1 .. Len(s)
  BY <1>1
<1> QED
  BY <1>1, <1>2 DEF Elements

\* Joining two queues loses nothing and adds nothing.
LEMMA ConcatElements ==
  ASSUME NEW s \in Seq(Node), NEW t \in Seq(Node), NEW x \in Elements(s \o t)
  PROVE  x \in Elements(s) \/ x \in Elements(t)
<1>1. /\ Len(s) \in Nat /\ Len(t) \in Nat
      /\ Len(s \o t) = Len(s) + Len(t)
      /\ \A i \in 1 .. Len(s) + Len(t) :
           (s \o t)[i] = IF i <= Len(s) THEN s[i] ELSE t[i - Len(s)]
  BY LenProperties, ConcatProperties
<1>2. PICK i \in 1 .. Len(s) + Len(t) : x = (s \o t)[i]
  BY <1>1 DEF Elements
<1>3. CASE i <= Len(s)
  BY <1>1, <1>2, <1>3 DEF Elements
<1>4. CASE i > Len(s)
  <2>1. i - Len(s) \in 1 .. Len(t) /\ x = t[i - Len(s)]
    BY <1>1, <1>2, <1>4
  <2> QED
    BY <2>1 DEF Elements
<1> QED
  BY <1>1, <1>2, <1>3, <1>4

\* A node of the tree is in Node.
LEMMA CreatedIsNode ==
  ASSUME TypeOK
  PROVE  Created \subseteq Node /\ \A n \in Node : n < numNodes <=> n \in Created
BY MaxNodesAssumption DEF TypeOK, TreeTypeOK, Created, Node

(***************************************************************************)
(* A step that removes the files of nodes it ends, and of no others, and   *)
(* queues no node, leaves FilesPresent true.                               *)
(***************************************************************************)
LEMMA FilesKept ==
  ASSUME IInv, FilesPresent, numNodes' = numNodes,
         Elements(unsolveds') \subseteq Elements(unsolveds),
         \A m \in Node : \/ status'[m] \in {"sat", "unsat", "terminated"}
                         \/ /\ status'[m] = status[m]
                            /\ m \in tasks => m \in tasks'
                            /\ m \in simps => m \in simps'
  PROVE  FilesPresent'
<1>1. Created' = Created /\ Created \subseteq Node
  BY CreatedIsNode DEF IInv, Created
<1> QED
  BY <1>1 DEF FilesPresent

\* node_solved removes the files of nodes that end with it, and no others.
LEMMA AnswerFiles ==
  ASSUME IInv, FilesPresent, NEW n \in Node, NEW S,
         NodeSolvedSat(n) \/ NodeSolvedUnsat(n, S),
         UNCHANGED <<shape, queues>>
  PROVE  FilesPresent'
<1>1. /\ numNodes' = numNodes
      /\ Elements(unsolveds') = Elements(unsolveds)
  BY DEF shape, queues
<1>2. CASE NodeSolvedSat(n)
  BY <1>1, <1>2, FilesKept DEF NodeSolvedSat, IInv, TypeOK, TreeTypeOK
<1>3. CASE NodeSolvedUnsat(n, S)
  <2>1. \A m \in Node : \/ status'[m] \in {"unsat", "terminated"}
                        \/ /\ status'[m] = status[m]
                           /\ m \in tasks => m \in tasks'
                           /\ m \in simps => m \in simps'
    BY <1>3 DEF NodeSolvedUnsat
  <2> QED
    BY <1>1, <2>1, FilesKept
<1> QED
  BY <1>2, <1>3

\* The partitioner has written the simplified formula and both children.
LEMMA SimplifiedFiles ==
  ASSUME IInv, FilesPresent, NEW n \in Node, PartitionerSucceeds(n)
  PROVE  FilesPresent'
<1>1. TypeOK /\ TreeShape /\ StatusShape
  BY DEF IInv
<1>2. /\ status[n] = "simplifying"
      /\ status' = [status EXCEPT ![n] = "simplified"]
      /\ simps' = simps \union {n}
      /\ tasks' = tasks \union Children(n)
      /\ unsolveds' = unsolveds \o ChildPair(n)
      /\ numNodes' = numNodes
  BY DEF PartitionerSucceeds, PollPartitioner, NodeSimplified, shape
<1>3. n \in Created /\ left[n] # 0 /\ n \in tasks
  BY <1>1, <1>2, PolledIsCreated DEF StatusShape, FilesPresent
<1>4. ChildPair(n) \in Seq(Node) /\ Elements(ChildPair(n)) \subseteq Children(n)
  <2>1. left[n] \in Node /\ left[n] + 1 \in Node
    BY <1>1, <1>3, ChildFacts DEF Children
  <2>2. \A i \in 1 .. 2 : <<left[n], left[n] + 1>>[i] \in {left[n], left[n] + 1}
    OBVIOUS
  <2>3. Len(<<left[n], left[n] + 1>>) = 2
    OBVIOUS
  <2> QED
    BY <1>3, <2>1, <2>2, <2>3 DEF ChildPair, Elements, Children
<1>5. Elements(unsolveds') \subseteq Elements(unsolveds) \union Children(n)
  BY <1>1, <1>2, <1>4, ConcatElements DEF TypeOK, TreeTypeOK
<1>6. \A m \in Created : m \in Node /\ m \in Created'
  BY <1>1, <1>2, CreatedIsNode DEF Created
<1>7. Created' = Created
  BY <1>2 DEF Created
<1> QED
  BY <1>1, <1>2, <1>3, <1>5, <1>6, <1>7 DEF FilesPresent, TypeOK, TreeTypeOK

\* The check of a process that has stopped leaves every needed file.
LEMMA ExitFiles ==
  ASSUME IInv, FilesPresent, NEW n \in Node, PartitionerExits(n) \/ SolverExits(n)
  PROVE  FilesPresent'
<1>1. ASSUME NEW answer,
             PartitionerAnswers(n, answer) \/ SolverAnswers(n, answer)
      PROVE  FilesPresent'
  BY <1>1, AnswerFiles DEF PartitionerAnswers, SolverAnswers, NodeSolved
<1>2. ASSUME NEW fault, PartitionerFails(n, fault)
      PROVE  FilesPresent'
  BY <1>2, FilesKept DEF PartitionerFails, shape, queues
<1>3. CASE SolverFails(n)
  BY <1>3, FilesKept
     DEF SolverFails, TerminateNode, shape, queues, IInv, TypeOK, TreeTypeOK
<1> QED
  BY <1>1, <1>2, <1>3, SimplifiedFiles DEF PartitionerExits, SolverExits

\* The new children have no file yet, and are in no queue.
LEMMA PartitionFiles ==
  ASSUME IInv, FilesPresent, NEW n \in Node, PartitionNext(n)
  PROVE  FilesPresent'
<1>1. TypeOK /\ StatusShape
  BY DEF IInv
<1>2. /\ unsolveds \in Seq(Node) /\ unsolveds # <<>> /\ n = Head(unsolveds)
      /\ unsolveds' = Tail(unsolveds)
      /\ UNCHANGED <<tasks, simps>>
  BY <1>1 DEF PartitionNext, TakeUnsolved, MayPartition, MayTake, TypeOK, TreeTypeOK
<1>3. /\ Elements(unsolveds') \subseteq Elements(unsolveds)
      /\ n \in Elements(unsolveds)
  <2>1. n = unsolveds[1] /\ 1 \in 1 .. Len(unsolveds)
    BY <1>2, EmptySeq
  <2> QED
    BY <1>2, <2>1, TailElements DEF Elements
<1>4. CASE ~StillUnsolved(n)
  BY <1>2, <1>3, <1>4, FilesKept DEF PartitionNext, TakeUnsolved, shape
<1>5. CASE StillUnsolved(n)
  <2>1. /\ status[n] = "unsolved"
        /\ status' = [status EXCEPT ![n] = "simplifying"]
        /\ numNodes' = numNodes + 2 /\ numNodes + 2 <= MaxNodes
    BY <1>5 DEF StillUnsolved, PartitionNext, TakeUnsolved, MayPartition, MayTake, SimplifyPartitionTask
  <2>2. \A m \in Elements(unsolveds) : m \in Created
    <3>1. \A i \in 1 .. Len(unsolveds) : unsolveds[i] \in Node /\ unsolveds[i] < numNodes
      BY <1>1, <1>2 DEF StatusShape
    <3> QED
      BY <1>1, <3>1, CreatedIsNode DEF Elements
  <2>3. n \in tasks
    BY <1>3, <2>1, <2>2 DEF FilesPresent
  <2>4. ASSUME NEW m \in Created', m # n
        PROVE  m \in Node /\ status'[m] = status[m]
               /\ (m \notin Created => status'[m] = "unsolved")
    <3>1. m \in Node
      BY <1>1, <2>1, MaxNodesAssumption DEF Created, Node, TypeOK, TreeTypeOK
    <3>2. m \in Nat /\ numNodes \in Nat
      BY <1>1, <3>1, NodeFacts, MaxNodesAssumption DEF TypeOK, TreeTypeOK
    <3> QED
      BY <1>1, <2>1, <2>4, <3>1, <3>2 DEF StatusShape, Created, TypeOK, TreeTypeOK
  <2>5. status'[n] = "simplifying"
    BY <1>1, <2>1 DEF TypeOK, TreeTypeOK
  <2> QED
    BY <1>2, <1>3, <2>2, <2>3, <2>4, <2>5 DEF FilesPresent
<1> QED
  BY <1>4, <1>5

\* The file of a node whose base solver starts is there.
LEMMA SolveFiles ==
  ASSUME IInv, FilesPresent, NEW n \in Node, SolveNext(n)
  PROVE  FilesPresent'
<1>1. TypeOK /\ StatusShape
  BY DEF IInv
<1>2. UNCHANGED <<numNodes, tasks, simps, unsolveds>> /\ Created' = Created
  BY DEF SolveNext, shape, Created
<1>3. CASE ~StillSimplified(n)
  BY <1>2, <1>3 DEF SolveNext, FilesPresent
<1>4. CASE StillSimplified(n)
  <2>1. status[n] = "simplified" /\ status' = [status EXCEPT ![n] = "solving"]
    BY <1>4 DEF StillSimplified, SolveNext, SolveSimplifiedTask
  <2>2. n \in Created
    BY <1>1, <2>1, PolledIsCreated
  <2>3. Created \subseteq Node
    BY <1>1, CreatedIsNode
  <2> QED
    BY <1>1, <1>2, <2>1, <2>2, <2>3 DEF FilesPresent, TypeOK, TreeTypeOK
<1> QED
  BY <1>3, <1>4

\* No step of a coordinator removes a file that is still needed.
LEMMA NextFiles ==
  ASSUME IInv, FilesPresent, [Next]_vars
  PROVE  FilesPresent'
<1>1. ASSUME UNCHANGED treeVars
      PROVE  FilesPresent'
  BY <1>1 DEF FilesPresent, Created, treeVars, shape, marks, queues
<1>2. CASE \/ NoMessage \/ EndPartition \/ EndSolve \/ ModelMissing \/ Stopped
           \/ UNCHANGED vars
           \/ \E n \in Node : \/ SplitCopyFails(n) \/ MemoryOut(n)
                              \/ SkipStale(n) \/ StillRunning(n)
  BY <1>1, <1>2 DEF NoMessage, EndPartition, EndSolve, ModelMissing, Stopped, vars,
                    SplitCopyFails, MemoryOut, SkipStale, StillRunning
<1>3. CASE EndSimplifyings \/ EndSolvings
  BY <1>3 DEF EndSimplifyings, EndSolvings, FilesPresent, Created, shape, marks, queues
<1>4. ASSUME NEW f \in SUBSET Models, Assign(f)
      PROVE  FilesPresent'
  <2>1. numNodes = 0 /\ numNodes' = 1 /\ tasks' = {Root} /\ status' = status
    BY <1>4 DEF Assign, MakeRoot, IInv, LoopShape, TypeOK, TreeTypeOK
  <2>2. Created' = {Root} /\ status[Root] = "unsolved"
    BY <2>1, NodeFacts DEF Created, Root, IInv, StatusShape
  <2> QED
    BY <2>1, <2>2 DEF FilesPresent
<1>5. ASSUME NEW n \in Node, RequestSplit(n)
      PROVE  FilesPresent'
  BY <1>5, AnswerFiles DEF RequestSplit, SetNodeSplit
<1>6. CASE RoundDone \/ Terminate
  <2>1. CASE DropTree
    BY <2>1 DEF DropTree, FilesPresent, Created
  <2> QED
    BY <1>1, <1>6, <2>1 DEF RoundDone, Terminate, RoundCleanUp
<1> QED
  BY <1>2, <1>3, <1>4, <1>5, <1>6, ExitFiles, PartitionFiles, SolveFiles, Zenon
     DEF Next, Step

(***************************************************************************)
(* The file a partitioner or a base solver is about to read is there: a    *)
(* file is removed only with the end of its node, and a child is queued    *)
(* only when the partitioner of its parent has written it.                 *)
(***************************************************************************)
THEOREM FilesArePresent == Spec => []FilesPresent
<1>1. Init => FilesPresent
  BY DEF Init, NoTree, FilesPresent, Created
<1>2. IInv /\ FilesPresent /\ [Next]_vars => FilesPresent'
  BY NextFiles
<1> QED
  BY <1>1, <1>2, Inductive, PTL DEF Spec

-----------------------------------------------------------------------------
(***************************************************************************)
(* Theorems about a coordinator whose subprocesses do not fail: no         *)
(* exception leaves its loop and no node is forgotten.                     *)
(***************************************************************************)

\* How the check of a polled node that has stopped can end.
LEMMA ExitKinds ==
  ASSUME NEW n \in Node, PartitionerExits(n) \/ SolverExits(n)
  PROVE  /\ status[n] \in {"simplifying", "solving"}
         /\ UNCHANGED <<shape, started>>
         /\ \/ NodeSolvedSat(n) /\ UNCHANGED queues
            \/ NodeSolvedUnsat(n, {}) /\ UNCHANGED queues
            \/ PartitionerSucceeds(n)
            \/ \E fault \in PartitionerFaults \ {"memout"} :
                 /\ PartitionerFails(n, fault)
                 /\ UNCHANGED <<status, queues, result>>
            \/ /\ SolverFails(n) /\ "error" \in SolverFaults
               /\ status[n] = "solving"
               /\ status' = [status EXCEPT ![n] = "terminated"]
               /\ StopProcesses({n}) /\ UNCHANGED <<queues, result>>
BY DEF PartitionerExits, SolverExits, PartitionerAnswers, PartitionerFails,
       SolverAnswers, SolverFails, PartitionerSucceeds, PollPartitioner, PollSolver,
       NodeSolved, TerminateNode

\* Actions that the invariants below do not see.
Unseen == UNCHANGED <<shape, status, assign_to, result, queues, started>>

\* The actions of the loop that touch neither nodes nor queues.
LEMMA UnseenSteps ==
  ASSUME \/ NoMessage \/ EndSimplifyings \/ EndSolvings \/ EndPartition
         \/ EndSolve \/ ModelMissing \/ Stopped \/ UNCHANGED vars
         \/ \E n \in Node : \/ SplitCopyFails(n) \/ MemoryOut(n)
                            \/ SkipStale(n) \/ StillRunning(n)
  PROVE  Unseen
BY DEF NoMessage, EndSimplifyings, EndSolvings, EndPartition, EndSolve, ModelMissing,
       Stopped, vars, SplitCopyFails, MemoryOut, SkipStale, StillRunning, treeVars,
       marks, Unseen

\* A round ends with its tree, or leaves it as it is.
LEMMA RoundEnds ==
  ASSUME RoundDone \/ Terminate
  PROVE  DropTree \/ Unseen
BY DEF RoundDone, Terminate, RoundCleanUp, treeVars, marks, Unseen

\* Before the root is made nothing is there.
LEMMA BeforeRoot ==
  ASSUME IInv, NEW f \in SUBSET Models, Assign(f)
  PROVE  /\ numNodes' = 1 /\ unsolveds' = <<Root>>
         /\ UNCHANGED <<left, status, assign_to, started, result>>
         /\ \A n \in Node : status[n] = "unsolved" /\ left[n] = 0
<1>1. numNodes = 0
  BY DEF Assign, IInv, LoopShape, TypeOK, TreeTypeOK
<1>2. \A n \in Node : status[n] = "unsolved"
  BY <1>1, NodeFacts DEF IInv, StatusShape
<1> QED
  BY <1>2 DEF Assign, MakeRoot, IInv, StatusShape

\* The step that gives a node its children.
LEMMA PartitionFacts ==
  ASSUME IInv, NEW n \in Node, TakeUnsolved(n), StillUnsolved(n)
  PROVE  /\ status[n] = "unsolved" /\ left[n] = 0
         /\ status' = [status EXCEPT ![n] = "simplifying"]
         /\ assign_to' = [assign_to EXCEPT ![n] = "partitioner"]
         /\ UNCHANGED <<started, result, simplifieds>>
         /\ Children(n)' = {numNodes, numNodes + 1}
         /\ \A p \in Node \ {n} : Children(p)' = Children(p)
         /\ \A m \in {numNodes, numNodes + 1} :
              m \in Node /\ m # n /\ m \notin Created /\ status'[m] = "unsolved"
         /\ Created' = Created \union {numNodes, numNodes + 1}
         /\ n \in Created
<1>1. TypeOK /\ StatusShape
  BY DEF IInv
<1>2. /\ unsolveds \in Seq(Node) /\ unsolveds # <<>> /\ n = Head(unsolveds)
      /\ numNodes + 2 <= MaxNodes /\ numNodes' = numNodes + 2
      /\ left' = [left EXCEPT ![n] = numNodes]
      /\ status' = [status EXCEPT ![n] = "simplifying"]
      /\ assign_to' = [assign_to EXCEPT ![n] = "partitioner"]
      /\ UNCHANGED <<started, result, simplifieds>>
      /\ status[n] = "unsolved" /\ left[n] = 0
  BY <1>1 DEF TakeUnsolved, MayTake, StillUnsolved, SimplifyPartitionTask,
              TypeOK, TreeTypeOK, StatusShape
<1>3. n < numNodes /\ n \in Nat /\ numNodes \in Nat
  <2>1. n \in Nat /\ numNodes \in Nat
    BY <1>1, NodeFacts, MaxNodesAssumption DEF TypeOK, TreeTypeOK
  <2> QED
    BY <1>1, <1>2, <2>1 DEF StatusShape
<1>4. \A m \in {numNodes, numNodes + 1} :
         m \in Node /\ m # n /\ m \notin Created /\ m >= numNodes
  BY <1>2, <1>3, MaxNodesAssumption DEF Node, Created
<1>5. \A m \in {numNodes, numNodes + 1} : status'[m] = "unsolved"
  BY <1>1, <1>2, <1>4 DEF StatusShape, TypeOK, TreeTypeOK
<1>6. Created' = Created \union {numNodes, numNodes + 1} /\ n \in Created
  <2>1. Created' = 0 .. (numNodes + 1)
    BY <1>2, <1>3 DEF Created
  <2>2. /\ 0 .. (numNodes + 1) = (0 .. (numNodes - 1)) \union {numNodes, numNodes + 1}
        /\ n \in 0 .. (numNodes - 1)
    BY <1>3
  <2> QED
    BY <2>1, <2>2 DEF Created
<1>7. /\ Children(n)' = {numNodes, numNodes + 1}
      /\ \A p \in Node \ {n} : Children(p)' = Children(p)
  <2>1. left'[n] = numNodes /\ numNodes # 0
    BY <1>1, <1>2, <1>3 DEF TypeOK, TreeTypeOK
  <2>2. \A p \in Node \ {n} : left'[p] = left[p]
    BY <1>1, <1>2 DEF TypeOK, TreeTypeOK
  <2> QED
    BY <2>1, <2>2 DEF Children
<1> QED
  BY <1>2, <1>4, <1>5, <1>6, <1>7

\* What a queue still holds when its head has been taken.
LEMMA QueueTaken ==
  ASSUME TypeOK, NEW n \in Node
  PROVE  /\ TakeUnsolved(n) =>
              /\ n \in Elements(unsolveds)
              /\ Elements(unsolveds') \subseteq Elements(unsolveds)
              /\ Elements(unsolveds) \subseteq Elements(unsolveds') \union {n}
         /\ SolveNext(n) =>
              Elements(simplifieds) \subseteq Elements(simplifieds') \union {n}
<1>1. unsolveds \in Seq(Node) /\ simplifieds \in Seq(Node)
  BY DEF TypeOK, TreeTypeOK
<1>2. ASSUME TakeUnsolved(n)
      PROVE  /\ n \in Elements(unsolveds)
             /\ Elements(unsolveds') \subseteq Elements(unsolveds)
             /\ Elements(unsolveds) \subseteq Elements(unsolveds') \union {n}
  <2>1. unsolveds # <<>> /\ n = Head(unsolveds) /\ unsolveds' = Tail(unsolveds)
    BY <1>2 DEF TakeUnsolved, MayTake
  <2>2. n = unsolveds[1] /\ 1 \in 1 .. Len(unsolveds)
    BY <1>1, <2>1, EmptySeq
  <2> QED
    BY <1>1, <2>1, <2>2, TailElements, ElementsTail DEF Elements
<1>3. ASSUME SolveNext(n)
      PROVE  Elements(simplifieds) \subseteq Elements(simplifieds') \union {n}
  <2>1. simplifieds # <<>> /\ n = Head(simplifieds) /\ simplifieds' = Tail(simplifieds)
    BY <1>3 DEF SolveNext, MaySolve
  <2> QED
    BY <1>1, <2>1, ElementsTail
<1> QED
  BY <1>2, <1>3

\* The partitioner of n has succeeded: its children are queued.
LEMMA ChildrenQueued ==
  ASSUME IInv, NEW n \in Node, PartitionerSucceeds(n)
  PROVE  /\ status[n] = "simplifying"
         /\ status' = [status EXCEPT ![n] = "simplified"]
         /\ StopProcesses({n}) /\ UNCHANGED <<shape, started, result>>
         /\ Elements(unsolveds') = Elements(unsolveds) \union Children(n)
         /\ Elements(simplifieds') = Elements(simplifieds) \union {n}
<1>1. TypeOK /\ TreeShape /\ StatusShape
  BY DEF IInv
<1>2. /\ status[n] = "simplifying"
      /\ status' = [status EXCEPT ![n] = "simplified"]
      /\ StopProcesses({n}) /\ UNCHANGED <<shape, started, result>>
      /\ unsolveds' = unsolveds \o ChildPair(n)
      /\ simplifieds' = Append(simplifieds, n)
      /\ unsolveds \in Seq(Node) /\ simplifieds \in Seq(Node)
  BY <1>1 DEF PartitionerSucceeds, PollPartitioner, NodeSimplified, TypeOK, TreeTypeOK
<1> DEFINE q == <<left[n], left[n] + 1>>
<1>3. /\ q \in Seq(Node) /\ Len(q) = 2 /\ ChildPair(n) = q
      /\ Children(n) = {q[1], q[2]}
  <2>1. left[n] # 0
    BY <1>1, <1>2 DEF StatusShape
  <2>2. left[n] \in Node /\ left[n] + 1 \in Node
    BY <1>1, <2>1, ChildFacts DEF Children
  <2> QED
    BY <2>1, <2>2 DEF ChildPair, Children
<1> HIDE DEF q
<1>4. /\ Len(unsolveds) \in Nat
      /\ Len(unsolveds') = Len(unsolveds) + 2
      /\ \A i \in 1 .. Len(unsolveds) + 2 :
           unsolveds'[i] = IF i <= Len(unsolveds) THEN unsolveds[i]
                           ELSE q[i - Len(unsolveds)]
  <2>1. /\ Len(unsolveds \o q) = Len(unsolveds) + Len(q)
        /\ \A i \in 1 .. Len(unsolveds) + Len(q) :
             (unsolveds \o q)[i] = IF i <= Len(unsolveds) THEN unsolveds[i]
                                   ELSE q[i - Len(unsolveds)]
    BY <1>2, <1>3, ConcatProperties, Zenon
  <2>2. Len(unsolveds) \in Nat /\ unsolveds' = unsolveds \o q
    BY <1>2, <1>3, LenProperties
  <2> QED
    BY <1>3, <2>1, <2>2
<1>5. Elements(unsolveds) \subseteq Elements(unsolveds')
  <2> SUFFICES ASSUME NEW i \in 1 .. Len(unsolveds)
               PROVE  unsolveds[i] \in Elements(unsolveds')
    BY DEF Elements
  <2>1. i \in 1 .. Len(unsolveds') /\ unsolveds'[i] = unsolveds[i]
    BY <1>4
  <2> QED
    BY <2>1 DEF Elements
<1>6. Children(n) \subseteq Elements(unsolveds')
  <2>1. /\ Len(unsolveds) + 1 \in 1 .. Len(unsolveds')
        /\ Len(unsolveds) + 2 \in 1 .. Len(unsolveds')
        /\ unsolveds'[Len(unsolveds) + 1] = q[1]
        /\ unsolveds'[Len(unsolveds) + 2] = q[2]
    BY <1>4
  <2> QED
    BY <1>3, <2>1 DEF Elements
<1>7. Elements(unsolveds') \subseteq Elements(unsolveds) \union Children(n)
  <2> SUFFICES ASSUME NEW x \in Elements(unsolveds'), x \notin Elements(unsolveds)
               PROVE  x \in Children(n)
    OBVIOUS
  <2>1. x \in Elements(q)
    BY <1>2, <1>3, ConcatElements
  <2> QED
    BY <1>3, <2>1 DEF Elements
<1>8. Elements(simplifieds') = Elements(simplifieds) \union {n}
  BY <1>2, ElementsAppend
<1> QED
  BY <1>2, <1>5, <1>6, <1>7, <1>8
-----------------------------------------------------------------------------
(* Started nodes.                                                          *)

\* No step takes a started node back, or makes a node sat while the round is open.
LEMMA NextStarted ==
  ASSUME IInv, StartedShape, [Next]_vars
  PROVE  StartedShape'
<1>1. TypeOK
  BY DEF IInv
<1>2. CASE Unseen
  BY <1>2 DEF Unseen, StartedShape
<1>3. ASSUME NEW n \in Node, NEW S, NodeSolvedUnsat(n, S), UNCHANGED started
      PROVE  StartedShape'
  <2>1. started \subseteq Node
    BY <1>1 DEF TypeOK, TreeTypeOK
  <2> QED
    BY <1>3, <2>1 DEF NodeSolvedUnsat, StartedShape
<1>4. ASSUME NEW n \in Node, NEW new, status' = [status EXCEPT ![n] = new],
             \/ started' = started /\ n \notin started
             \/ started' = started /\ new \in {"sat", "terminated"}
             \/ started' = started \union {n} /\ new = "solving",
             \/ result' = "sat"
             \/ result' = result /\ new # "sat"
      PROVE  StartedShape'
  BY <1>1, <1>4 DEF StartedShape, TypeOK, TreeTypeOK
<1>5. ASSUME NEW n \in Node, PartitionerExits(n) \/ SolverExits(n)
      PROVE  StartedShape'
  <2>1. CASE NodeSolvedSat(n)
    BY <1>4, <1>5, <2>1, ExitKinds DEF NodeSolvedSat
  <2>2. CASE NodeSolvedUnsat(n, {})
    BY <1>3, <1>5, <2>2, ExitKinds
  <2>3. CASE PartitionerSucceeds(n)
    BY <1>4, <2>3, ChildrenQueued DEF StartedShape
  <2>4. CASE \E fault : PartitionerFails(n, fault)
    BY <2>4 DEF PartitionerFails, StartedShape
  <2>5. CASE SolverFails(n)
    BY <1>4, <2>5 DEF SolverFails, TerminateNode
  <2> QED
    BY <1>5, <2>1, <2>2, <2>3, <2>4, <2>5, ExitKinds
<1>6. ASSUME NEW n \in Node, RequestSplit(n)
      PROVE  StartedShape'
  BY <1>3, <1>6 DEF RequestSplit, SetNodeSplit
<1>7. ASSUME NEW n \in Node, PartitionNext(n)
      PROVE  StartedShape'
  <2>1. CASE StillUnsolved(n)
    <3>1. TakeUnsolved(n)
      BY <1>7 DEF PartitionNext
    <3> QED
      BY <1>4, <2>1, <3>1, PartitionFacts DEF StartedShape
  <2>2. CASE ~StillUnsolved(n)
    BY <1>7, <2>2 DEF PartitionNext, TakeUnsolved, StartedShape
  <2> QED
    BY <2>1, <2>2
<1>8. ASSUME NEW n \in Node, SolveNext(n)
      PROVE  StartedShape'
  <2>1. CASE StillSimplified(n)
    BY <1>4, <1>8, <2>1 DEF SolveNext, SolveSimplifiedTask
  <2>2. CASE ~StillSimplified(n)
    BY <1>8, <2>2 DEF SolveNext, StartedShape
  <2> QED
    BY <2>1, <2>2
<1>9. CASE DropTree
  BY <1>9 DEF DropTree, StartedShape
<1>10. ASSUME NEW f \in SUBSET Models, Assign(f)
       PROVE  StartedShape'
  BY <1>10, BeforeRoot DEF StartedShape
<1> QED
  BY <1>2, <1>5, <1>6, <1>7, <1>8, <1>9, <1>10, UnseenSteps, RoundEnds, Zenon
     DEF Next, Step
-----------------------------------------------------------------------------
(* The children of a node whose partitioner is running.                    *)

\* Two nodes with a common child are one.
LEMMA OneParent ==
  ASSUME TypeOK, TreeShape, NEW p \in Node, NEW q \in Node,
         NEW c \in Children(p), c \in Children(q)
  PROVE  p = q
<1>1. Path(p) = Path(q)
  BY ChainFacts
<1>2. p \in Nat /\ q \in Nat
  BY NodeFacts
<1> SUFFICES ASSUME p # q PROVE FALSE
  OBVIOUS
<1>3. p \in anc[q] /\ q \in anc[p]
  BY <1>1 DEF Path
<1>4. p < q /\ q < p
  BY <1>3, ChainFacts
<1> QED
  BY <1>2, <1>4

\* node_solved_unsat on n leaves an untouched child of an open node alone.
LEMMA WaitingUnmarked ==
  ASSUME TypeOK, TreeShape, StatusShape, NEW n \in Node, status[n] # "unsolved",
         NEW p \in Node, p \notin NowUnsat(n),
         NEW c \in Children(p), status[c] = "unsolved"
  PROVE  c \notin NowUnsat(n) /\ c \notin Path(n)
<1>1. c \in Node /\ anc[c] = Path(p) /\ left[c] = 0
  BY ChainFacts DEF StatusShape
<1>2. c \notin Path(n)
  BY <1>1 DEF Path, TreeShape
<1>3. c \notin PushedUp(n)
  BY <1>2 DEF PushedUp, Path
<1>4. ASSUME Root \notin {n} \union PushedUp(n)
      PROVE  c \notin PushedDown(n)
  <2> SUFFICES ASSUME c \in PushedDown(n) PROVE FALSE
    OBVIOUS
  <2>1. p # n /\ p \notin PushedDown(n)
    BY <1>4 DEF NowUnsat
  <2>2. n \in anc[p]
    BY <1>1, <2>1 DEF PushedDown, Path
  <2> QED
    BY <1>1, <2>1, <2>2 DEF PushedDown, Path
<1> QED
  BY <1>2, <1>3, <1>4 DEF NowUnsat, Path

\* New children wait, and so do those of the other nodes.
LEMMA TakeWait ==
  ASSUME IInv, ChildrenWait, NEW n \in Node, TakeUnsolved(n)
  PROVE  ChildrenWait'
<1>1. TypeOK /\ TreeShape /\ StatusShape
  BY DEF IInv
<1>2. \A p \in Node : Children(p) \subseteq Node
  BY <1>1, ChainFacts
<1>3. ASSUME UNCHANGED shape
      PROVE  \A p \in Node : Children(p)' = Children(p)
  BY <1>3 DEF shape, Children
<1>4. /\ n \in Elements(unsolveds)
      /\ Elements(unsolveds') \subseteq Elements(unsolveds)
  BY <1>1, QueueTaken
<1>5. CASE ~StillUnsolved(n)
  BY <1>2, <1>3, <1>4, <1>5 DEF TakeUnsolved, ChildrenWait
<1>6. CASE StillUnsolved(n)
  <2> SUFFICES ASSUME NEW p \in Node, status'[p] = "simplifying",
                      NEW c \in Children(p)'
               PROVE  status'[c] = "unsolved" /\ c \notin Elements(unsolveds')
    BY DEF ChildrenWait
  <2>1. CASE p = n
    <3>1. c \notin Created /\ status'[c] = "unsolved"
      BY <1>6, <2>1, PartitionFacts
    <3>2. Elements(unsolveds) \subseteq Created
      <4>1. \A i \in 1 .. Len(unsolveds) :
              unsolveds[i] \in Node /\ unsolveds[i] < numNodes
        BY <1>1 DEF StatusShape, TypeOK, TreeTypeOK
      <4> QED
        BY <1>1, <4>1, CreatedIsNode DEF Elements
    <3> QED
      BY <1>4, <3>1, <3>2
  <2>2. CASE p # n
    <3>1. c \in Children(p) /\ status' = [status EXCEPT ![n] = "simplifying"]
      BY <1>6, <2>2, PartitionFacts
    <3>2. status[p] = "simplifying"
      BY <1>1, <2>2, <3>1 DEF TypeOK, TreeTypeOK
    <3>3. status[c] = "unsolved" /\ c \notin Elements(unsolveds) /\ c \in Node
      BY <1>2, <3>1, <3>2 DEF ChildrenWait
    <3> QED
      BY <1>1, <1>4, <3>1, <3>3 DEF TypeOK, TreeTypeOK
  <2> QED
    BY <2>1, <2>2
<1> QED
  BY <1>5, <1>6

\* The children of a node wait untouched while its partitioner runs.
LEMMA NextWait ==
  ASSUME IInv, StartedShape, ChildrenWait, [Next]_vars
  PROVE  ChildrenWait'
<1>1. TypeOK /\ TreeShape /\ StatusShape
  BY DEF IInv
<1>2. \A p \in Node : Children(p) \subseteq Node
  BY <1>1, ChainFacts
<1>3. ASSUME UNCHANGED shape
      PROVE  \A p \in Node : Children(p)' = Children(p)
  BY <1>3 DEF shape, Children
<1>4. CASE Unseen
  BY <1>2, <1>3, <1>4 DEF Unseen, ChildrenWait, queues
<1>5. ASSUME NEW n \in Node, NEW S \in SUBSET Path(n), NodeSolvedUnsat(n, S),
             status[n] # "unsolved", UNCHANGED <<shape, queues>>
      PROVE  ChildrenWait'
  <2> SUFFICES ASSUME NEW p \in Node, status'[p] = "simplifying", NEW c \in Children(p)
               PROVE  status'[c] = "unsolved" /\ c \notin Elements(unsolveds')
    BY <1>3, <1>5 DEF ChildrenWait
  <2>1. p \notin NowUnsat(n) /\ status[p] = "simplifying"
    BY <1>5 DEF NodeSolvedUnsat
  <2>2. status[c] = "unsolved" /\ c \notin Elements(unsolveds) /\ c \in Node
    BY <1>2, <2>1 DEF ChildrenWait
  <2>3. c \notin NowUnsat(n) /\ c \notin S
    BY <1>1, <1>5, <2>1, <2>2, WaitingUnmarked
  <2> QED
    BY <1>5, <2>2, <2>3 DEF NodeSolvedUnsat, queues
<1>6. ASSUME NEW n \in Node, NEW new, status' = [status EXCEPT ![n] = new],
             new # "simplifying", status[n] # "unsolved", UNCHANGED shape,
             Elements(unsolveds') = Elements(unsolveds)
      PROVE  ChildrenWait'
  BY <1>1, <1>2, <1>3, <1>6 DEF ChildrenWait, TypeOK, TreeTypeOK
<1>7. ASSUME NEW n \in Node, PartitionerExits(n) \/ SolverExits(n)
      PROVE  ChildrenWait'
  <2>1. status[n] # "unsolved" /\ UNCHANGED shape
    BY <1>7, ExitKinds
  <2>2. CASE NodeSolvedSat(n) /\ UNCHANGED queues
    BY <1>6, <2>1, <2>2 DEF NodeSolvedSat, queues
  <2>3. CASE NodeSolvedUnsat(n, {}) /\ UNCHANGED queues
    BY <1>5, <2>1, <2>3
  <2>4. CASE PartitionerSucceeds(n)
    <3> SUFFICES ASSUME NEW p \in Node, status'[p] = "simplifying",
                        NEW c \in Children(p)
                 PROVE  status'[c] = "unsolved" /\ c \notin Elements(unsolveds')
      BY <1>3, <2>1 DEF ChildrenWait
    <3>1. /\ status[n] = "simplifying" /\ status' = [status EXCEPT ![n] = "simplified"]
          /\ Elements(unsolveds') = Elements(unsolveds) \union Children(n)
      BY <2>4, ChildrenQueued
    <3>2. p # n /\ status[p] = "simplifying"
      BY <1>1, <3>1 DEF TypeOK, TreeTypeOK
    <3>3. status[c] = "unsolved" /\ c \notin Elements(unsolveds) /\ c \in Node
      BY <1>2, <3>2 DEF ChildrenWait
    <3>4. c \notin Children(n)
      BY <1>1, <3>2, OneParent
    <3> QED
      BY <1>1, <3>1, <3>3, <3>4 DEF TypeOK, TreeTypeOK
  <2>5. CASE UNCHANGED <<status, queues>>
    BY <1>2, <1>3, <2>1, <2>5 DEF ChildrenWait, queues
  <2>6. CASE status' = [status EXCEPT ![n] = "terminated"] /\ UNCHANGED queues
    BY <1>6, <2>1, <2>6 DEF queues
  <2> QED
    BY <1>7, <2>2, <2>3, <2>4, <2>5, <2>6, ExitKinds
<1>8. ASSUME NEW n \in Node, RequestSplit(n)
      PROVE  ChildrenWait'
  <2>1. /\ n \in SplitNodes /\ UNCHANGED <<shape, queues>>
        /\ NodeSolvedUnsat(n, {a \in Path(n) : ~Ended(a)})
    BY <1>8 DEF RequestSplit, SplitSelected, SetNodeSplit
  <2>2. n \in started
    BY <2>1 DEF SplitNodes, SplitPoint, Children
  <2>3. status[n] # "unsolved"
    BY <2>2 DEF StartedShape
  <2> QED
    BY <1>5, <2>1, <2>3
<1>9. ASSUME NEW n \in Node, PartitionNext(n)
      PROVE  ChildrenWait'
  BY <1>9, TakeWait DEF PartitionNext
<1>10. ASSUME NEW n \in Node, SolveNext(n)
       PROVE  ChildrenWait'
  <2>1. CASE StillSimplified(n)
    BY <1>6, <1>10, <2>1 DEF SolveNext, SolveSimplifiedTask, StillSimplified
  <2>2. CASE ~StillSimplified(n)
    BY <1>2, <1>3, <1>10, <2>2 DEF SolveNext, ChildrenWait
  <2> QED
    BY <2>1, <2>2
<1>11. CASE DropTree
  BY <1>11 DEF DropTree, ChildrenWait
<1>12. ASSUME NEW f \in SUBSET Models, Assign(f)
       PROVE  ChildrenWait'
  BY <1>12, BeforeRoot DEF ChildrenWait
<1> QED
  BY <1>4, <1>7, <1>8, <1>9, <1>10, <1>11, <1>12, UnseenSteps, RoundEnds, Zenon
     DEF Next, Step
-----------------------------------------------------------------------------
(* Nothing raises: the node offered for a split still has its file.        *)

\* A split is offered below nodes with an unsat sibling only.
LEMMA AboveSplit ==
  ASSUME TypeOK, TreeShape, NEW n \in SplitNodes, NEW p \in Node,
         NEW c \in Children(p), c \in anc[n]
  PROVE  \E d \in Children(p) \ {c} : status[d] = "unsat"
<1>1. PICK q \in Created : n = left[q] + 1 /\ SplitPoint(q)
  BY DEF SplitNodes
<1>2. q \in Node /\ n \in Children(q)
  BY <1>1, CreatedIsNode DEF SplitPoint, Children
<1>3. c \in Path(q) /\ c \in Node /\ p \in anc[c] /\ p < c
  BY <1>2, ChainFacts DEF Path
<1>4. p \in anc[q]
  BY <1>2, <1>3, ChainFacts DEF Path
<1>5. PICK d \in Children(p) : status[d] = "unsat"
  BY <1>1, <1>4 DEF SplitPoint
<1>6. c # Root
  BY <1>3, NodeFacts DEF Root
<1>7. status[c] # "unsat"
  BY <1>1, <1>3, <1>6 DEF SplitPoint
<1> QED
  BY <1>5, <1>7

\* If no base solver fails, no step terminates a child but beside an unsat one.
LEMMA NextBeside ==
  ASSUME IInv, BesideTerminated, "error" \notin SolverFaults, [Next]_vars
  PROVE  BesideTerminated'
<1>1. TypeOK /\ TreeShape /\ StatusShape
  BY DEF IInv
<1>2. \A p \in Node : Children(p) \subseteq Node
  BY <1>1, ChainFacts
<1>3. ASSUME \A p \in Node : Children(p)' = Children(p),
             \A m \in Node : /\ status'[m] = "terminated" => status[m] = "terminated"
                             /\ status[m] = "unsat" => status'[m] = "unsat"
      PROVE  BesideTerminated'
  BY <1>2, <1>3 DEF BesideTerminated
<1>4. ASSUME UNCHANGED shape
      PROVE  \A p \in Node : Children(p)' = Children(p)
  BY <1>4 DEF shape, Children
<1>5. CASE Unseen
  BY <1>3, <1>4, <1>5 DEF Unseen
<1>6. ASSUME NEW n \in Node, NEW new, status' = [status EXCEPT ![n] = new],
             new # "terminated", status[n] # "unsat", UNCHANGED shape
      PROVE  BesideTerminated'
  BY <1>1, <1>3, <1>4, <1>6 DEF TypeOK, TreeTypeOK
<1>7. ASSUME NEW n \in Node, PartitionerExits(n) \/ SolverExits(n)
      PROVE  BesideTerminated'
  <2>1. UNCHANGED shape /\ status[n] # "unsat"
    BY <1>7, ExitKinds
  <2>2. CASE NodeSolvedSat(n)
    BY <1>6, <2>1, <2>2 DEF NodeSolvedSat
  <2>3. CASE NodeSolvedUnsat(n, {})
    BY <1>3, <1>4, <2>1, <2>3 DEF NodeSolvedUnsat
  <2>4. CASE PartitionerSucceeds(n)
    BY <1>6, <2>1, <2>4, ChildrenQueued
  <2>5. CASE UNCHANGED status
    BY <1>3, <1>4, <2>1, <2>5
  <2> QED
    BY <1>7, <2>2, <2>3, <2>4, <2>5, ExitKinds
<1>8. ASSUME NEW n \in Node, RequestSplit(n)
      PROVE  BesideTerminated'
  <2>1. /\ n \in SplitNodes /\ UNCHANGED shape
        /\ NodeSolvedUnsat(n, {a \in Path(n) : ~Ended(a)})
    BY <1>8 DEF RequestSplit, SplitSelected, SetNodeSplit
  <2> SUFFICES ASSUME NEW p \in Node, NEW c \in Children(p), status'[c] = "terminated"
               PROVE  \E d \in Children(p) \ {c} : status'[d] = "unsat"
    BY <1>4, <2>1 DEF BesideTerminated
  <2>2. \A m \in Node : status[m] = "unsat" => status'[m] = "unsat"
    BY <2>1 DEF NodeSolvedUnsat, Ended
  <2>3. CASE status[c] = "terminated"
    BY <1>2, <2>2, <2>3 DEF BesideTerminated
  <2>4. CASE status[c] # "terminated"
    <3>1. c \in Path(n) /\ c \notin NowUnsat(n)
      BY <1>2, <2>1, <2>4 DEF NodeSolvedUnsat
    <3>2. c \in anc[n]
      BY <3>1 DEF Path, NowUnsat
    <3> QED
      BY <1>1, <1>2, <2>1, <2>2, <3>2, AboveSplit
  <2> QED
    BY <2>3, <2>4
<1>9. ASSUME NEW n \in Node, PartitionNext(n)
      PROVE  BesideTerminated'
  <2>1. CASE ~StillUnsolved(n)
    BY <1>3, <1>4, <1>9, <2>1 DEF PartitionNext, TakeUnsolved
  <2>2. TakeUnsolved(n)
    BY <1>9 DEF PartitionNext
  <2>3. CASE StillUnsolved(n)
    <3> SUFFICES ASSUME NEW p \in Node, NEW c \in Children(p)',
                        status'[c] = "terminated"
                 PROVE  \E d \in Children(p)' \ {c} : status'[d] = "unsat"
      BY DEF BesideTerminated
    <3>1. p # n /\ c \in Children(p) /\ Children(p)' = Children(p)
      BY <2>2, <2>3, PartitionFacts
    <3>2. \A m \in Node : /\ status'[m] = "terminated" => status[m] = "terminated"
                          /\ status[m] = "unsat" => status'[m] = "unsat"
      BY <1>1, <2>2, <2>3, PartitionFacts DEF TypeOK, TreeTypeOK
    <3> QED
      BY <1>2, <3>1, <3>2 DEF BesideTerminated
  <2> QED
    BY <2>1, <2>3
<1>10. ASSUME NEW n \in Node, SolveNext(n)
       PROVE  BesideTerminated'
  <2>1. CASE StillSimplified(n)
    BY <1>6, <1>10, <2>1 DEF SolveNext, SolveSimplifiedTask, StillSimplified
  <2>2. CASE ~StillSimplified(n)
    BY <1>3, <1>4, <1>10, <2>2 DEF SolveNext
  <2> QED
    BY <2>1, <2>2
<1>11. CASE DropTree
  BY <1>11 DEF DropTree, BesideTerminated, Children
<1>12. ASSUME NEW f \in SUBSET Models, Assign(f)
       PROVE  BesideTerminated'
  BY <1>12, BeforeRoot DEF BesideTerminated, Children
<1> QED
  BY <1>5, <1>7, <1>8, <1>9, <1>10, <1>11, <1>12, UnseenSteps, RoundEnds, Zenon
     DEF Next, Step

(***************************************************************************)
(* A node that is offered has been started, so it is solving: a sat node   *)
(* would have ended the round, an unsat one is not offered, and neither is *)
(* one with an unsat sibling.                                              *)
(***************************************************************************)
LEMMA CopySucceeds ==
  ASSUME IInv, FilesPresent, StartedShape, BesideTerminated,
         NEW n \in Node, SplitSelected(n)
  PROVE  ~CopyRaises(n)
<1>1. TypeOK /\ TreeShape
  BY DEF IInv
<1>2. n \in SplitNodes /\ result = "unsolved"
  BY DEF SplitSelected
<1>3. PICK p \in Created : /\ n = left[p] + 1 /\ SplitPoint(p)
                           /\ Children(p) \subseteq started
  BY <1>2 DEF SplitNodes
<1>4. p \in Node /\ n \in Children(p)
  BY <1>1, <1>3, CreatedIsNode DEF SplitPoint, Children
<1>5. status[n] \notin {"unsat", "terminated", "sat"}
  BY <1>2, <1>3, <1>4 DEF SplitPoint, BesideTerminated, StartedShape
<1>6. status[n] = "solving"
  BY <1>3, <1>4, <1>5 DEF StartedShape
<1>7. n \in Created
  BY <1>1, <1>2, SplitNodeFacts
<1> QED
  BY <1>6, <1>7 DEF FilesPresent, CopyRaises

(***************************************************************************)
(* If no base solver fails and no model is asked for, no exception leaves  *)
(* the loop, whatever the partitioners do: the file that a split copies is *)
(* there, in every tree and at every moment.                               *)
(***************************************************************************)
THEOREM CrashFree ==
  ASSUME ~GetModel, "error" \notin SolverFaults
  PROVE  Spec => []NoCrash
<1> DEFINE Inv == /\ IInv /\ FilesPresent /\ StartedShape /\ BesideTerminated
                  /\ NoCrash
<1>1. Init => Inv
  BY InitInv, NodeFacts
     DEF Init, NoTree, FilesPresent, Created, StartedShape, BesideTerminated,
         Children, NoCrash
<1>2. Inv /\ [Next]_vars => Inv'
  <2> SUFFICES ASSUME Inv, [Next]_vars PROVE Inv'
    OBVIOUS
  <2>1. IInv' /\ FilesPresent' /\ StartedShape' /\ BesideTerminated'
    BY NextInv, NextFiles, NextStarted, NextBeside
  <2>2. NoCrash'
    <3>1. ~ModelMissing
      BY DEF ModelMissing, ResultHasModel
    <3>2. ASSUME NEW n \in Node
          PROVE  ~SplitCopyFails(n)
      BY CopySucceeds DEF SplitCopyFails
    <3>3. CASE UNCHANGED vars
      BY <3>3 DEF vars, loopVars, NoCrash
    <3>4. CASE \/ NoMessage \/ EndSimplifyings \/ EndSolvings \/ EndPartition
               \/ EndSolve \/ RoundDone \/ Terminate \/ Stopped
               \/ \E f \in SUBSET Models : Assign(f)
      BY <3>4 DEF NoMessage, EndSimplifyings, EndSolvings, EndPartition, EndSolve,
                  RoundDone, Terminate, Stopped, Assign, StartPolling, vars,
                  loopVars, NoCrash
    <3>5. CASE \E n \in Node : \/ SkipStale(n) \/ StillRunning(n)
                               \/ PartitionNext(n) \/ SolveNext(n)
                               \/ RequestSplit(n) \/ MemoryOut(n)
      BY <3>5 DEF SkipStale, StillRunning, PartitionNext, TakeUnsolved, SolveNext, RequestSplit,
                  MemoryOut, StartPolling, loopVars, NoCrash
    <3>6. CASE \E n \in Node : PartitionerExits(n) \/ SolverExits(n)
      BY <3>6 DEF PartitionerExits, SolverExits, PartitionerAnswers,
                  PartitionerSucceeds, PartitionerFails, SolverAnswers, SolverFails,
                  Dropped, NoCrash
    <3> QED
      BY <3>1, <3>2, <3>3, <3>4, <3>5, <3>6, Zenon DEF Next, Step
  <2> QED
    BY <2>1, <2>2
<1>3. Inv => NoCrash
  OBVIOUS
<1> HIDE DEF Inv
<1> QED
  BY <1>1, <1>2, <1>3, PTL DEF Spec
-----------------------------------------------------------------------------
(* No node is forgotten.                                                   *)

\* NodesKept for one node.
Waits(n) ==
  \/ n \in Elements(unsolveds)
  \/ \E p \in Created : n \in Children(p) /\ assign_to[p] = "partitioner"

Kept(n) ==
  /\ status[n] = "unsolved" => Waits(n)
  /\ status[n] = "simplifying" => assign_to[n] = "partitioner"
  /\ status[n] = "simplified" => n \in Elements(simplifieds)
  /\ status[n] = "solving" => assign_to[n] = "solver"

\* NodesKept, one node at a time.
LEMMA NodesKeptDef ==
  NodesKept <=> (result = "unsolved" => \A n \in Created : Kept(n))
BY DEF NodesKept, Kept, Waits

(***************************************************************************)
(* node_solved_unsat stops processes, but not that of a node whose child   *)
(* still waits for it: a child below a node that becomes unsat is marked   *)
(* with it, and the nodes above a split have no partitioner.               *)
(***************************************************************************)
LEMMA UnsatKeeps ==
  ASSUME IInv, LInv, ChildrenWait, OnePath, NodesKept,
         NEW n \in Node, status[n] # "unsolved", NEW S \in SUBSET Path(n),
         NodeSolvedUnsat(n, S), UNCHANGED <<shape, queues>>
  PROVE  NodesKept'
<1>1. TypeOK /\ TreeShape /\ StatusShape
  BY DEF IInv
<1> SUFFICES ASSUME result' = "unsolved", NEW m \in Created PROVE Kept(m)'
  <2>1. Created' = Created
    BY DEF Created, shape
  <2> QED
    BY <2>1 DEF NodesKept, Kept, Waits
<1>2. result = "unsolved" /\ Kept(m) /\ m \in Node
  BY <1>1, NodesKeptDef, CreatedIsNode DEF NodeSolvedUnsat
<1>3. /\ \A x \in Node : Children(x)' = Children(x)
      /\ Created' = Created /\ UNCHANGED queues
  BY DEF shape, Children, Created
<1>4. \A x \in Node : x \notin NowUnsat(n) \union S =>
         status'[x] = status[x] /\ assign_to'[x] = assign_to[x]
  BY DEF NodeSolvedUnsat, StopProcesses
<1>5. CASE m \in NowUnsat(n) \union S
  <2>1. status'[m] \in {"unsat", "terminated"}
    BY <1>2, <1>5 DEF NodeSolvedUnsat
  <2> QED
    BY <2>1 DEF Kept
<1>6. CASE m \notin NowUnsat(n) \union S /\ status[m] # "unsolved"
  BY <1>2, <1>3, <1>4, <1>6 DEF Kept, queues
<1>7. CASE m \notin NowUnsat(n) \union S /\ status[m] = "unsolved"
  <2>1. CASE m \in Elements(unsolveds)
    BY <1>2, <1>3, <1>4, <1>7, <2>1 DEF Kept, Waits, queues
  <2>2. ASSUME NEW p \in Created, m \in Children(p), assign_to[p] = "partitioner"
        PROVE  Kept(m)'
    <3>1. p \in Node /\ status[p] = "simplifying"
      BY <1>1, <2>2, CreatedIsNode DEF LInv
    <3>2. p \notin NowUnsat(n)
      <4>1. anc[m] = Path(p) /\ left[m] = 0
        BY <1>1, <1>2, <1>7, <2>2, <3>1, ChainFacts DEF StatusShape
      <4>2. m \notin anc[n]
        BY <1>1, <4>1 DEF TreeShape
      <4>3. p \notin PushedUp(n)
        BY <1>7, <2>2, <4>2 DEF PushedUp, NowUnsat, Path
      <4>4. CASE p = n \/ (p \in PushedDown(n) /\ Root \notin {n} \union PushedUp(n))
        <5>1. Root \notin {n} \union PushedUp(n)
          BY <4>4 DEF NowUnsat, NodeSolvedUnsat
        <5>2. n \in anc[m]
          BY <4>1, <4>4 DEF Path, PushedDown
        <5>3. \A e \in Path(m) : n \in anc[e] => status[e] # "unsat"
          <6>1. n \notin anc[n] /\ \A e \in anc[n] : n \notin anc[e]
            <7>1. n \in Nat /\ \A e \in anc[n] : e < n /\ e \in Nat
              BY <1>1, ChainFacts, NodeFacts
            <7> QED
              BY <1>1, <7>1, ChainFacts
          <6> QED
            BY <1>7, <4>1, <4>4, <6>1 DEF Path, PushedDown
        <5> QED
          BY <1>2, <1>7, <5>1, <5>2, <5>3 DEF PushedDown, NowUnsat
      <4> QED
        BY <4>3, <4>4 DEF NowUnsat
    <3>3. p \notin S
      <4> SUFFICES ASSUME p \in anc[n] PROVE FALSE
        BY <3>2 DEF Path, NowUnsat
      <4>1. PICK c \in Node : c \in Children(p) /\ c \in Path(n)
        BY DEF OnePath
      <4>2. status[c] = "unsolved"
        BY <3>1, <4>1 DEF ChildrenWait
      <4>3. left[c] = 0
        BY <1>1, <4>2 DEF StatusShape
      <4> QED
        BY <1>1, <4>1, <4>2, <4>3 DEF Path, TreeShape
    <3>4. assign_to'[p] = "partitioner"
      BY <1>4, <2>2, <3>1, <3>2, <3>3
    <3> QED
      BY <1>2, <1>3, <1>4, <1>7, <2>2, <3>1, <3>4 DEF Kept, Waits
  <2> QED
    BY <1>2, <1>7, <2>1, <2>2 DEF Kept, Waits
<1> QED
  BY <1>5, <1>6, <1>7

\* The check of a process that has stopped forgets no node.
LEMMA ExitKeeps ==
  ASSUME IInv, LInv, ChildrenWait, OnePath, NodesKept,
         PartitionerFaults \subseteq {"memout"},
         NEW n \in Node, PartitionerExits(n) \/ SolverExits(n)
  PROVE  NodesKept'
<1>1. TypeOK
  BY DEF IInv
<1>2. UNCHANGED shape /\ status[n] # "unsolved"
  BY ExitKinds
<1>3. /\ \A x \in Node : Children(x)' = Children(x)
      /\ Created' = Created /\ Created \subseteq Node
  BY <1>1, <1>2, CreatedIsNode DEF shape, Children, Created
<1>4. CASE NodeSolvedSat(n)
  BY <1>4 DEF NodeSolvedSat, NodesKept
<1>5. CASE NodeSolvedUnsat(n, {}) /\ UNCHANGED queues
  BY <1>2, <1>5, UnsatKeeps
<1>6. CASE PartitionerSucceeds(n)
  <2>1. /\ status' = [status EXCEPT ![n] = "simplified"]
        /\ StopProcesses({n}) /\ UNCHANGED result
        /\ Elements(unsolveds') = Elements(unsolveds) \union Children(n)
        /\ Elements(simplifieds') = Elements(simplifieds) \union {n}
    BY <1>6, ChildrenQueued
  <2>2. \A m \in Node \ {n} : status'[m] = status[m] /\ assign_to'[m] = assign_to[m]
    BY <1>1, <2>1 DEF StopProcesses, TypeOK, TreeTypeOK
  <2> SUFFICES ASSUME result = "unsolved", NEW m \in Created PROVE Kept(m)'
    BY <1>3, <2>1 DEF NodesKept, Kept, Waits
  <2>3. Kept(m) /\ m \in Node
    BY <1>3, NodesKeptDef
  <2>4. CASE m = n
    <3>1. status'[n] = "simplified"
      BY <1>1, <2>1 DEF TypeOK, TreeTypeOK
    <3> QED
      BY <2>1, <2>4, <3>1 DEF Kept
  <2>5. CASE m # n
    <3>1. Waits(m) => Waits(m)'
      BY <1>3, <2>1, <2>2 DEF Waits
    <3> QED
      BY <2>1, <2>2, <2>3, <2>5, <3>1 DEF Kept
  <2> QED
    BY <2>4, <2>5
<1>7. CASE /\ status[n] = "solving" /\ status' = [status EXCEPT ![n] = "terminated"]
           /\ StopProcesses({n}) /\ UNCHANGED <<queues, result>>
  <2>1. \A m \in Node \ {n} : status'[m] = status[m] /\ assign_to'[m] = assign_to[m]
    BY <1>1, <1>7 DEF StopProcesses, TypeOK, TreeTypeOK
  <2>2. assign_to[n] # "partitioner" /\ status'[n] = "terminated"
    BY <1>1, <1>7 DEF LInv, TypeOK, TreeTypeOK
  <2> SUFFICES ASSUME result = "unsolved", NEW m \in Created PROVE Kept(m)'
    BY <1>3, <1>7 DEF NodesKept, Kept, Waits
  <2>3. Kept(m) /\ m \in Node
    BY <1>3, NodesKeptDef
  <2>4. Waits(m) => Waits(m)'
    BY <1>3, <1>7, <2>1, <2>2 DEF Waits, queues
  <2> QED
    BY <1>7, <2>1, <2>2, <2>3, <2>4 DEF Kept, queues
<1> QED
  BY <1>4, <1>5, <1>6, <1>7, ExitKinds

\* A node that leaves a queue gets a process, or was no longer waiting in it.
LEMMA QueueKeeps ==
  ASSUME IInv, LInv, NodesKept, NEW n \in Node, PartitionNext(n) \/ SolveNext(n)
  PROVE  NodesKept'
<1>1. TypeOK /\ StatusShape /\ Created \subseteq Node
  BY CreatedIsNode DEF IInv
<1>2. UNCHANGED result
  BY DEF PartitionNext, TakeUnsolved, SolveNext
<1>3. CASE PartitionNext(n) /\ ~StillUnsolved(n)
  <2>1. /\ UNCHANGED <<shape, status, assign_to, simplifieds>>
        /\ Elements(unsolveds) \subseteq Elements(unsolveds') \union {n}
        /\ status[n] # "unsolved"
    BY <1>1, <1>3, QueueTaken DEF PartitionNext, TakeUnsolved, StillUnsolved
  <2> QED
    BY <1>2, <2>1 DEF NodesKept, shape, Created, Children
<1>4. CASE SolveNext(n) /\ ~StillSimplified(n)
  <2>1. /\ UNCHANGED <<shape, status, assign_to, unsolveds>>
        /\ Elements(simplifieds) \subseteq Elements(simplifieds') \union {n}
        /\ status[n] # "simplified"
    BY <1>1, <1>4, QueueTaken DEF SolveNext, StillSimplified
  <2> QED
    BY <1>2, <2>1 DEF NodesKept, shape, Created, Children
<1>5. CASE SolveNext(n) /\ StillSimplified(n)
  <2>1. /\ UNCHANGED <<shape, unsolveds>>
        /\ Elements(simplifieds) \subseteq Elements(simplifieds') \union {n}
        /\ status[n] = "simplified"
        /\ status' = [status EXCEPT ![n] = "solving"]
        /\ assign_to' = [assign_to EXCEPT ![n] = "solver"]
    BY <1>1, <1>5, QueueTaken DEF SolveNext, StillSimplified, SolveSimplifiedTask
  <2>2. /\ \A m \in Node \ {n} : status'[m] = status[m] /\ assign_to'[m] = assign_to[m]
        /\ status'[n] = "solving" /\ assign_to'[n] = "solver"
        /\ assign_to[n] # "partitioner"
        /\ Created' = Created /\ \A x \in Node : Children(x)' = Children(x)
    BY <1>1, <2>1 DEF LInv, TypeOK, TreeTypeOK, shape, Created, Children
  <2> SUFFICES ASSUME result = "unsolved", NEW m \in Created PROVE Kept(m)'
    BY <1>2, <2>2 DEF NodesKept, Kept, Waits
  <2>3. Kept(m) /\ m \in Node
    BY <1>1, NodesKeptDef
  <2>4. Waits(m) => Waits(m)'
    BY <1>1, <2>1, <2>2 DEF Waits
  <2> QED
    BY <2>1, <2>2, <2>3, <2>4 DEF Kept
<1>6. CASE PartitionNext(n) /\ StillUnsolved(n)
  <2>1. /\ status[n] = "unsolved" /\ left[n] = 0 /\ n \in Created
        /\ status' = [status EXCEPT ![n] = "simplifying"]
        /\ assign_to' = [assign_to EXCEPT ![n] = "partitioner"]
        /\ UNCHANGED simplifieds
        /\ Elements(unsolveds) \subseteq Elements(unsolveds') \union {n}
        /\ Children(n)' = {numNodes, numNodes + 1}
        /\ \A x \in Node \ {n} : Children(x)' = Children(x)
        /\ \A m \in {numNodes, numNodes + 1} : m # n /\ status'[m] = "unsolved"
        /\ Created' = Created \union {numNodes, numNodes + 1}
    <3>1. TakeUnsolved(n)
      BY <1>6 DEF PartitionNext
    <3> QED
      BY <1>1, <1>6, <3>1, QueueTaken, PartitionFacts
  <2>2. /\ \A m \in Node \ {n} : status'[m] = status[m] /\ assign_to'[m] = assign_to[m]
        /\ status'[n] = "simplifying" /\ assign_to'[n] = "partitioner"
    BY <1>1, <2>1 DEF TypeOK, TreeTypeOK
  <2> SUFFICES ASSUME result = "unsolved", NEW m \in Created' PROVE Kept(m)'
    BY <1>2 DEF NodesKept, Kept, Waits
  <2>3. CASE m \in {numNodes, numNodes + 1}
    BY <2>1, <2>2, <2>3 DEF Kept, Waits
  <2>4. CASE m = n
    BY <2>2, <2>4 DEF Kept
  <2>5. CASE m \in Created /\ m # n
    <3>1. Kept(m) /\ m \in Node
      BY <1>1, <2>5, NodesKeptDef
    <3>2. Children(n) = {}
      BY <2>1 DEF Children
    <3>3. Waits(m) => Waits(m)'
      BY <1>1, <2>1, <2>2, <2>5, <3>2 DEF Waits
    <3> QED
      BY <2>1, <2>2, <2>5, <3>1, <3>3 DEF Kept
  <2> QED
    BY <2>1, <2>3, <2>4, <2>5
<1> QED
  BY <1>3, <1>4, <1>5, <1>6

\* No step of a coordinator forgets a node of an open round.
LEMMA NextKeeps ==
  ASSUME IInv, LInv, StartedShape, ChildrenWait, OnePath, NodesKept,
         PartitionerFaults \subseteq {"memout"}, [Next]_vars
  PROVE  NodesKept'
<1>1. CASE Unseen
  BY <1>1 DEF Unseen, NodesKept, shape, queues, Created, Children
<1>2. ASSUME NEW n \in Node, RequestSplit(n)
      PROVE  NodesKept'
  <2>1. /\ n \in SplitNodes /\ UNCHANGED <<shape, queues>>
        /\ NodeSolvedUnsat(n, {a \in Path(n) : ~Ended(a)})
    BY <1>2 DEF RequestSplit, SplitSelected, SetNodeSplit
  <2>2. n \in started
    BY <2>1 DEF SplitNodes, SplitPoint, Children
  <2>3. status[n] # "unsolved"
    BY <2>2 DEF StartedShape
  <2> QED
    BY <2>1, <2>3, UnsatKeeps
<1>3. CASE DropTree
  BY <1>3 DEF DropTree, NodesKept, Created
<1>4. ASSUME NEW f \in SUBSET Models, Assign(f)
      PROVE  NodesKept'
  <2>1. Created' = {0} /\ Elements(unsolveds') = {0} /\ status'[0] = "unsolved"
    BY <1>4, BeforeRoot, NodeFacts DEF Created, Elements, Root
  <2> QED
    BY <2>1 DEF NodesKept
<1> QED
  BY <1>1, <1>2, <1>3, <1>4, ExitKeeps, QueueKeeps, UnseenSteps, RoundEnds, Zenon
     DEF Next, Step

(***************************************************************************)
(* If partitioners that do not run out of memory partition, then as long   *)
(* as a round is open each node of the tree has ended, is queued, has a    *)
(* process or waits for the partitioner of its parent.                     *)
(***************************************************************************)
THEOREM NoNodeForgotten ==
  ASSUME PartitionerFaults \subseteq {"memout"}
  PROVE  Spec => []NoNodeLost
<1> DEFINE Inv == /\ IInv /\ LInv /\ CInv /\ StartedShape /\ ChildrenWait
                  /\ NodesKept
<1>1. Init => Inv
  BY InitInv, InitLInv
     DEF Init, NoTree, CInv, OnePath, UnsatDown, UnsatUp, Children, StartedShape,
         ChildrenWait, NodesKept, Created
<1>2. Inv /\ [Next]_vars => Inv'
  <2> SUFFICES ASSUME Inv, [Next]_vars PROVE Inv'
    OBVIOUS
  <2>1. NodesKept'
    BY NextKeeps DEF CInv
  <2> QED
    BY <2>1, NextInv, NextLInv, NextClosed, NextStarted, NextWait
<1>3. Inv => NoNodeLost
  <2> SUFFICES ASSUME Inv, result = "unsolved", NEW n \in Created
               PROVE  Ended(n) \/ Pending(n)
    BY DEF NoNodeLost
  <2>1. status[n] \in Status
    BY CreatedIsNode DEF IInv, TypeOK, TreeTypeOK
  <2>2. Kept(n)
    BY NodesKeptDef
  <2> QED
    BY <2>1, <2>2 DEF Kept, Waits, Status, Ended, Pending
<1> HIDE DEF Inv
<1> QED
  BY <1>1, <1>2, <1>3, PTL DEF Spec
=============================================================================
