---------------------------- MODULE Coordinator -----------------------------
(***************************************************************************)
(* One distributed coordinator: interactive_solve of                       *)
(* src/src/coordinator.py and everything it calls, over the tree of module *)
(* ParallelTree.  The coordinator is one thread, so its state is seen by   *)
(* others only at a poll of a subprocess or at a message of the leader:    *)
(* one action per message, per polled node and per loop iteration.         *)
(*                                                                         *)
(* The partitioner and the base solver are external.  They answer "sat" or *)
(* "unsat" only when the formula they were given is, a partitioner that    *)
(* partitions writes tasks that cover it, and each can fail in the ways    *)
(* the constants allow.                                                    *)
(***************************************************************************)
EXTENDS ParallelTree

CONSTANTS Cores,             \* available_cores of this rank
          GetModel,          \* get_model_flag
          PartitionerFaults, \* how a partitioner may fail
          SolverFaults       \* how a base solver may fail

ASSUME CoresAssumption == Cores \in Nat \ {0}
ASSUME FaultsAssumption ==
  /\ GetModel \in BOOLEAN
  /\ PartitionerFaults \subseteq {"nosplit", "broken", "memout"}
  /\ SolverFaults \subseteq {"error", "memout"}

VARIABLES
  pc,         \* where the loop is
  solving,    \* self.status is solving (TRUE) or idle (FALSE)
  todo,       \* the part of the running list still to be polled
  kept,       \* still_runnings
  modelDone,  \* get_model_done
  sent        \* the result last sent to the leader, "none" during a round

roundVars == <<solving, modelDone, sent>>
loopVars == <<pc, todo, kept, roundVars>>
vars == <<treeVars, loopVars>>

PC == {"recv", "simplifyings", "solvings", "partition", "solve", "done",
       "memout", "failed", "terminated"}

TypeOK ==
  /\ TreeTypeOK
  /\ pc \in PC
  /\ solving \in BOOLEAN
  /\ todo \in Seq(Node)
  /\ kept \in Seq(Node)
  /\ modelDone \in BOOLEAN
  /\ sent \in {"none", "sat", "unsat"}

Init ==
  /\ NoTree
  /\ assign_to = [n \in Node |-> "none"]
  /\ pc = "recv"
  /\ solving = FALSE
  /\ todo = <<>>
  /\ kept = <<>>
  /\ modelDone = FALSE
  /\ sent = "none"

-----------------------------------------------------------------------------
(* Messages of the leader, one at most for each turn of the loop.          *)

\* parallel_solving starts with check_simplifyings_status.
StartPolling ==
  /\ pc' = "simplifyings"
  /\ todo' = simplifyings
  /\ kept' = <<>>

\* process_assign_message and start_solving; f: the formula received.
Assign(f) ==
  /\ pc = "recv"
  /\ ~solving
  /\ solving' = TRUE
  /\ sent' = "none"
  /\ MakeRoot(f)
  /\ StartPolling
  /\ UNCHANGED <<left, anc, status, assign_to, simps, result, simplifieds,
                 lists, started, given, modelDone>>

\* No message, or a request to split that select_split_node turns down: the
\* time a node has been solving for is not modelled, so it always may.
NoMessage ==
  /\ pc = "recv"
  /\ solving
  /\ StartPolling
  /\ UNCHANGED <<treeVars, roundVars>>

\* Mutant of CopyRaises: the nodes are marked, and their files are removed,
\* before the copy.
CopyRaisesLate(n) == n \notin tasks \ Path(n)

\* shutil.copyfile of the task file of n.
CopyRaises(n) == n \notin tasks

SplitSelected(n) ==
  /\ pc = "recv"
  /\ solving
  /\ result = "unsolved"
  /\ n \in SplitNodes

\* process_split_message: split_succeed is sent, then the task file of the
\* node is copied to task-split.smt2, then the node is marked.
RequestSplit(n) ==
  /\ SplitSelected(n)
  /\ ~CopyRaises(n)
  /\ SetNodeSplit(n)
  /\ StartPolling
  /\ UNCHANGED <<shape, queues, lists, started, roundVars>>

\* __call__ reports the error and waits for the end.
SplitCopyFails(n) ==
  /\ SplitSelected(n)
  /\ CopyRaises(n)
  /\ pc' = "failed"
  /\ UNCHANGED <<treeVars, todo, kept, roundVars>>

\* The nodes round_clean_up goes through.
Listed == Elements(simplifyings) \union Elements(solvings)

RoundCleanUp == DropTree /\ StopProcesses(Listed)

\* terminate_coordinator, and clean_up.
Terminate ==
  /\ pc \in {"recv", "memout", "failed"}
  /\ pc' = "terminated"
  /\ IF solving THEN RoundCleanUp ELSE UNCHANGED treeVars
  /\ solving' = FALSE
  /\ todo' = <<>>
  /\ kept' = <<>>
  /\ UNCHANGED <<modelDone, sent>>

-----------------------------------------------------------------------------
(* check_runnings_status, on one list and then on the other.               *)

PollNext(list, n) == pc = list /\ todo # <<>> /\ n = Head(todo)
PollPartitioner(n) == PollNext("simplifyings", n) /\ status[n] = "simplifying"
PollSolver(n) == PollNext("solvings", n) /\ status[n] = "solving"

\* Mutant of Dropped: is_done is not evaluated.
DroppedUnseen == todo' = Tail(todo) /\ UNCHANGED <<pc, kept>>

\* The node just checked is not kept; is_done is evaluated.
Dropped ==
  IF result' = "unsolved"
  THEN todo' = Tail(todo) /\ UNCHANGED <<pc, kept>>
  ELSE pc' = "done" /\ todo' = <<>> /\ kept' = <<>>

\* The status of the node changed since it was put in the list.
SkipStale(n) ==
  /\ PollNext("simplifyings", n) \/ PollNext("solvings", n)
  /\ ~PollPartitioner(n) /\ ~PollSolver(n)
  /\ todo' = Tail(todo)
  /\ UNCHANGED <<treeVars, pc, kept, roundVars>>

\* Mutant of Keep.
KeepNothing(n) == kept' = kept

\* still_runnings.append(node)
Keep(n) == kept' = Append(kept, n)

\* poll() returns None.
StillRunning(n) ==
  /\ PollPartitioner(n) \/ PollSolver(n)
  /\ todo' = Tail(todo)
  /\ Keep(n)
  /\ UNCHANGED <<treeVars, pc, roundVars>>

\* What an external process may print about the formula of n.
MayAnswer(n, answer) ==
  \/ answer = "sat" /\ mods[n] # {}
  \/ answer = "unsat" /\ mods[n] = {}

PartitionerAnswers(n, answer) ==
  /\ PollPartitioner(n)
  /\ MayAnswer(n, answer)
  /\ NodeSolved(n, answer)
  /\ Dropped
  /\ UNCHANGED <<shape, queues, lists, started, given, roundVars>>

PartitionerSucceeds(n) ==
  /\ PollPartitioner(n)
  /\ NodeSimplified(n)
  /\ UNCHANGED result
  /\ Dropped
  /\ UNCHANGED <<shape, lists, started, given, roundVars>>

(***************************************************************************)
(* "nosplit": exit code 233, or the child tasks are missing; the           *)
(* simplified formula is there.  "broken": another exit code, or the       *)
(* simplified formula is missing.  The node is "partition_failed" or       *)
(* "simplify_failed" in a local variable only: check_simplifying_status    *)
(* calls node_simplified for a simplified node alone.                      *)
(***************************************************************************)
PartitionerFails(n, fault) ==
  /\ PollPartitioner(n)
  /\ fault \in PartitionerFaults \ {"memout"}
  /\ StopProcesses({n})
  /\ simps' = IF fault = "nosplit" THEN simps \union {n} ELSE simps
  /\ UNCHANGED result
  /\ Dropped
  /\ UNCHANGED <<shape, status, tasks, queues, lists, started, given,
                 roundVars>>

\* get_model_done is set with the model, which only a base solver prints.
SolverAnswers(n, answer) ==
  /\ PollSolver(n)
  /\ MayAnswer(n, answer)
  /\ NodeSolved(n, answer)
  /\ modelDone' = (modelDone \/ (GetModel /\ answer = "sat"))
  /\ Dropped
  /\ UNCHANGED <<shape, queues, lists, started, given, solving, sent>>

\* A wrong exit code or an answer other than sat and unsat.
SolverFails(n) ==
  /\ PollSolver(n)
  /\ "error" \in SolverFaults
  /\ TerminateNode(n)
  /\ UNCHANGED result
  /\ Dropped
  /\ UNCHANGED <<shape, queues, lists, started, given, roundVars>>

\* report_memory_out tells the leader and raises MemoryOutMessage.
MemoryOut(n) ==
  /\ \/ PollPartitioner(n) /\ "memout" \in PartitionerFaults
     \/ PollSolver(n) /\ "memout" \in SolverFaults
  /\ pc' = "memout"
  /\ UNCHANGED <<treeVars, todo, kept, roundVars>>

EndSimplifyings ==
  /\ pc = "simplifyings"
  /\ todo = <<>>
  /\ simplifyings' = kept
  /\ kept' = <<>>
  /\ todo' = solvings
  /\ pc' = "solvings"
  /\ UNCHANGED <<shape, marks, queues, solvings, started, given, roundVars>>

EndSolvings ==
  /\ pc = "solvings"
  /\ todo = <<>>
  /\ solvings' = kept
  /\ kept' = <<>>
  /\ pc' = "partition"
  /\ UNCHANGED <<shape, marks, queues, simplifyings, started, given, todo,
                 roundVars>>

-----------------------------------------------------------------------------
(* simplify_partition_tasks and solve_simplified_tasks.                    *)

\* Mutant of Running: only the partitioners are counted.
RunningPartitioners == Len(simplifyings)

Running == Len(simplifyings) + Len(solvings)

CoreFree == Running < Cores

\* The loops that start partitioners end when the queue is empty, and also
\* when the tree is full, which bounds the model.
MayTake == unsolveds # <<>> /\ numNodes + 2 <= MaxNodes

MayPartition ==
  /\ CoreFree
  /\ Len(simplifieds) + Running < Cores
  /\ MayTake

\* Mutant of StillUnsolved and StillSimplified: stale nodes are not dropped.
AnyStatus(n) == TRUE

\* get_next_unsolved_node drops the nodes that are no longer unsolved.
StillUnsolved(n) == status[n] = "unsolved"

TakeUnsolved(n) ==
  /\ pc = "partition"
  /\ MayTake
  /\ n = Head(unsolveds)
  /\ unsolveds' = Tail(unsolveds)
  /\ IF StillUnsolved(n)
     THEN SimplifyPartitionTask(n)
     ELSE UNCHANGED <<shape, status, assign_to, simplifyings>>
  /\ UNCHANGED <<tasks, simps, result, simplifieds, solvings, started, given,
                 loopVars>>

PartitionNext(n) == MayPartition /\ TakeUnsolved(n)

EndPartition ==
  /\ pc = "partition"
  /\ ~MayPartition
  /\ pc' = "solve"
  /\ UNCHANGED <<treeVars, todo, kept, roundVars>>

MaySolve == CoreFree /\ simplifieds # <<>>

\* get_next_simplified_node drops the nodes that are no longer simplified.
StillSimplified(n) == status[n] = "simplified"

SolveNext(n) ==
  /\ pc = "solve"
  /\ MaySolve
  /\ n = Head(simplifieds)
  /\ simplifieds' = Tail(simplifieds)
  /\ IF StillSimplified(n)
     THEN SolveSimplifiedTask(n)
     ELSE UNCHANGED <<status, assign_to, started, solvings>>
  /\ UNCHANGED <<shape, tasks, simps, result, unsolveds, simplifyings, given,
                 loopVars>>

EndSolve ==
  /\ pc = "solve"
  /\ ~MaySolve
  /\ pc' = "recv"
  /\ UNCHANGED <<treeVars, todo, kept, roundVars>>

-----------------------------------------------------------------------------
(* solving_round_done.                                                     *)

ResultHasModel == GetModel /\ result = "sat" => modelDone

RoundDone ==
  /\ pc = "done"
  /\ ResultHasModel
  /\ sent' = result
  /\ RoundCleanUp
  /\ solving' = FALSE
  /\ pc' = "recv"
  /\ UNCHANGED <<todo, kept, modelDone>>

\* assert(self.get_model_done) in send_result_to_leader.
ModelMissing ==
  /\ pc = "done"
  /\ ~ResultHasModel
  /\ pc' = "failed"
  /\ UNCHANGED <<treeVars, todo, kept, roundVars>>

\* The process has left __call__.
Stopped == pc = "terminated" /\ UNCHANGED vars

-----------------------------------------------------------------------------
PartitionerExits(n) ==
  \/ \E answer \in {"sat", "unsat"} : PartitionerAnswers(n, answer)
  \/ PartitionerSucceeds(n)
  \/ \E fault \in PartitionerFaults : PartitionerFails(n, fault)

SolverExits(n) ==
  \/ \E answer \in {"sat", "unsat"} : SolverAnswers(n, answer)
  \/ SolverFails(n)

\* What the coordinator does when no message comes and nothing crashes.
Step ==
  \/ NoMessage
  \/ EndSimplifyings
  \/ EndSolvings
  \/ EndPartition
  \/ EndSolve
  \/ RoundDone
  \/ \E n \in Node :
       \/ SkipStale(n)
       \/ StillRunning(n)
       \/ PartitionerExits(n)
       \/ SolverExits(n)
       \/ PartitionNext(n)
       \/ SolveNext(n)

Next ==
  \/ Step
  \/ \E f \in SUBSET Models : Assign(f)
  \/ \E n \in Node : RequestSplit(n) \/ SplitCopyFails(n) \/ MemoryOut(n)
  \/ ModelMissing
  \/ Terminate
  \/ Stopped

Spec == Init /\ [][Next]_vars

(***************************************************************************)
(* The loop never blocks, and partitioners and base solvers stop when they *)
(* are given enough time: if some process is found running again and again *)
(* at its polls, one is found stopped in the end.  As a round starts       *)
(* finitely many processes, each of them stops.                            *)
(***************************************************************************)
SomeExit == \E n \in Node : PartitionerExits(n) \/ SolverExits(n)

Fairness == WF_vars(Step) /\ SF_vars(SomeExit)

FairSpec == Spec /\ Fairness
-----------------------------------------------------------------------------
(* Safety.                                                                 *)

(***************************************************************************)
(* A node is unsat only when each model of its formula is a model of a     *)
(* sub-problem that another coordinator now has.  With the root this is    *)
(* the soundness of the "unsat" of a round, whichever mixture of solver    *)
(* answers, push-up, push-down and splits it came from.                    *)
(***************************************************************************)
UnsatSound == \A n \in Created : status[n] = "unsat" => mods[n] \subseteq given

(***************************************************************************)
(* While the root is open, unsat is closed upwards and downwards: two      *)
(* unsat children close their parent and an unsat node leaves no open      *)
(* child.  select_split_node asserts the first half on its way down; the   *)
(* second is what lets node_solved_unsat stop at unsat nodes.              *)
(***************************************************************************)
UnsatClosed ==
  status[Root] # "unsat" =>
    \A p \in Created : Children(p) # {} =>
      (status[p] = "unsat" <=> \A c \in Children(p) : status[c] = "unsat")

(***************************************************************************)
(* parallel_solving looks at is_done only just after it has dropped a      *)
(* polled node.  A round decided at any other moment, by a split say,      *)
(* would never be reported.                                                *)
(***************************************************************************)
DecisionReported == result # "unsolved" => pc \in {"done", "failed"}

(***************************************************************************)
(* round_clean_up kills the processes of listed nodes only, so a process   *)
(* of a node that is in neither list outlives the round.                   *)
(***************************************************************************)
ProcessesListed ==
  \A n \in Node :
    /\ assign_to[n] = "partitioner" => n \in Elements(simplifyings)
    /\ assign_to[n] = "solver" => n \in Elements(solvings)

\* The subprocesses alive at one time never exceed the cores of the rank,
\* although the lists are brought up to date only once in each loop.
CoresRespected == Cardinality({n \in Node : assign_to[n] # "none"}) <= Cores

(***************************************************************************)
(* A task file exists as long as somebody may still read it: it is the     *)
(* input of a queued or running node, and the copy a split sends away.     *)
(***************************************************************************)
FilesPresent ==
  \A n \in Created :
    /\ status[n] \in {"simplifying", "simplified", "solving"} => n \in tasks
    /\ status[n] = "unsolved" /\ n \in Elements(unsolveds) => n \in tasks
    /\ status[n] \in {"simplified", "solving"} => n \in simps

\* Somebody is going to look at n again.
Pending(n) ==
  \/ n \in Elements(unsolveds) \union Elements(simplifieds)
  \/ assign_to[n] # "none"
  \/ \E p \in Created : n \in Children(p) /\ assign_to[p] = "partitioner"

(***************************************************************************)
(* While the round is open, a node that has not ended is queued, has a     *)
(* process, or waits for the partitioner of its parent.  A node for which  *)
(* none of this holds is never solved, and neither is the round.           *)
(***************************************************************************)
NoNodeLost ==
  result = "unsolved" => \A n \in Created : Ended(n) \/ Pending(n)

\* No exception leaves the loop: the file of the node that select_split_node
\* offers is there to be copied, and a "sat" has its model.
NoCrash == pc # "failed"

-----------------------------------------------------------------------------
(* What a step may never do, and what must happen.                         *)

(***************************************************************************)
(* Within a round a node that has ended gets no process again, although    *)
(* queues and lists still hold it, and an unsat node stays unsat.          *)
(***************************************************************************)
EndedForGood ==
  [][\A n \in Node : Ended(n) /\ solving' =>
       /\ Ended(n)'
       /\ assign_to'[n] = "none"
       /\ status[n] = "unsat" => status'[n] = "unsat"]_vars

\* A round is answered, or the leader ends it; interactive_solve never spins
\* for ever on a tree with nothing left to run.
RoundAnswered == solving ~> ~solving

\* The life cycle written above class NodeStatus: simplifying is followed by
\* simplified or by an answer.
SimplifyingEnds ==
  \A n \in Node :
    status[n] = "simplifying" ~> status[n] # "simplifying"
-----------------------------------------------------------------------------
(* The coordinator keeps the promise of module SolvingRound.               *)

phase ==
  IF pc = "terminated" THEN "terminated"
  ELSE IF pc \in {"memout", "failed"} THEN "crashed"
  ELSE IF solving THEN "solving" ELSE "idle"

Round == INSTANCE SolvingRound
           WITH formula <- mods[Root], owed <- mods[Root] \ given,
                answer <- sent

\* Every step of the loop is a step of the abstract round or changes nothing
\* the leader can see: in particular "unsat" is sent only when nothing is owed.
ImplementsSolvingRound == Round!Spec
-----------------------------------------------------------------------------
(* The inductive invariant from which UnsatSound and the refinement follow. *)

\* anc is the strict ancestor relation of the tree that left describes.
TreeShape ==
  /\ \A n \in Node : left[n] # 0 => n < left[n] /\ left[n] + 1 < numNodes
  /\ \A n \in Node : \A a \in anc[n] : a < n /\ n < numNodes /\ left[a] # 0
  /\ \A p \in Node : \A c \in Children(p) : anc[c] = Path(p)
  /\ \A c \in Node : \A b \in anc[c] : anc[b] \subseteq anc[c]
  /\ \A n \in Created : n # Root => Root \in anc[n]

\* The children of a node cover it, and nothing is added on the way down.
ModelsCovered ==
  /\ \A p \in Node : left[p] # 0 => mods[p] = mods[left[p]] \union mods[left[p] + 1]
  /\ \A n \in Node : \A a \in anc[n] : mods[n] \subseteq mods[a]

\* Which nodes have a status of their own, and which have children.
StatusShape ==
  /\ \A n \in Node : n >= numNodes => status[n] = "unsolved"
  /\ \A n \in Node : status[n] = "unsolved" => left[n] = 0
  /\ \A n \in Node : status[n] = "simplifying" => left[n] # 0
  /\ \A i \in 1 .. Len(unsolveds) : unsolveds[i] < numNodes

ResultSound ==
  /\ result = "unsat" => status[Root] = "unsat"
  /\ result = "sat" => mods[Root] # {}

LoopShape ==
  /\ pc = "done" => result # "unsolved"
  /\ pc \notin {"recv", "terminated"} => solving
  /\ pc = "terminated" => ~solving
  /\ solving <=> numNodes > 0
  /\ ~solving => mods[Root] = {} /\ given = {}

IInv ==
  /\ TypeOK
  /\ TreeShape
  /\ ModelsCovered
  /\ StatusShape
  /\ UnsatSound
  /\ ResultSound
  /\ LoopShape

(***************************************************************************)
(* What ProcessesListed and EndedForGood need besides IInv: a process      *)
(* belongs to a running node, and while a list is being polled the nodes   *)
(* of it that have a process are kept or still to be polled.               *)
(***************************************************************************)
LInv ==
  /\ \A n \in Node :
       /\ assign_to[n] = "partitioner" => status[n] = "simplifying"
       /\ assign_to[n] = "solver" => status[n] = "solving"
  /\ ProcessesListed
  /\ \A n \in Node :
       /\ pc = "simplifyings" /\ assign_to[n] = "partitioner" =>
            n \in Elements(todo) \union Elements(kept)
       /\ pc = "solvings" /\ assign_to[n] = "solver" =>
            n \in Elements(todo) \union Elements(kept)

(***************************************************************************)
(* What UnsatClosed needs besides IInv.  A path goes through one child of  *)
(* each of its nodes, and unsat is closed along whole paths.               *)
(***************************************************************************)
OnePath ==
  \A n \in Node : \A a \in anc[n] : \E c \in Node : Children(a) \intersect Path(n) = {c}

UnsatDown ==
  status[Root] # "unsat" =>
    \A n \in Node : \A a \in anc[n] : status[a] = "unsat" => status[n] = "unsat"

UnsatUp ==
  status[Root] # "unsat" =>
    \A p \in Node :
      Children(p) # {} /\ (\A c \in Children(p) : status[c] = "unsat")
        => status[p] = "unsat"

CInv == OnePath /\ UnsatDown /\ UnsatUp

(***************************************************************************)
(* What CoresRespected needs besides ProcessesListed: the lists never hold *)
(* more nodes than there are cores, and a poll makes none of them longer.  *)
(***************************************************************************)
ListsBounded ==
  /\ Running <= Cores
  /\ pc = "simplifyings" => Len(kept) + Len(todo) <= Len(simplifyings)
  /\ pc = "solvings" => Len(kept) + Len(todo) <= Len(solvings)

(***************************************************************************)
(* What NoCrash and NoNodeLost need besides the above.                     *)
(***************************************************************************)

\* A node that was given to a base solver never gets back, and while the round
\* is open no node is sat.
StartedShape ==
  /\ \A n \in started : status[n] \in {"solving", "sat", "unsat", "terminated"}
  /\ result = "unsolved" => \A n \in Node : status[n] # "sat"

\* Nobody touches the children of a node before its partitioner has ended.
ChildrenWait ==
  \A p \in Node : status[p] = "simplifying" =>
    \A c \in Children(p) : status[c] = "unsolved" /\ c \notin Elements(unsolveds)

\* If no base solver fails, a node is terminated only above a split, which
\* goes through nodes with an unsat sibling.
BesideTerminated ==
  \A p \in Node : \A c \in Children(p) :
    status[c] = "terminated" => \E d \in Children(p) \ {c} : status[d] = "unsat"

\* Where each open node waits, if no partitioner fails.
NodesKept ==
  result = "unsolved" =>
    \A n \in Created :
      /\ status[n] = "unsolved" =>
           \/ n \in Elements(unsolveds)
           \/ \E p \in Created : n \in Children(p) /\ assign_to[p] = "partitioner"
      /\ status[n] = "simplifying" => assign_to[n] = "partitioner"
      /\ status[n] = "simplified" => n \in Elements(simplifieds)
      /\ status[n] = "solving" => assign_to[n] = "solver"
=============================================================================
