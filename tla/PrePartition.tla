---------------------------- MODULE PrePartition ----------------------------
(***************************************************************************)
(* pre_partition of src/src/coordinator.py: how the isolated coordinator   *)
(* makes the first tasks of the distributed ones.  It polls its            *)
(* partitioners as any coordinator does (module Coordinator), but answers  *)
(* no messages and starts no base solvers; after each turn it replaces the *)
(* nodes it would hand out by their children, until there are enough of    *)
(* them or twenty seconds are over.                                        *)
(***************************************************************************)
EXTENDS Coordinator, SequencesExt

CONSTANT MinDists,  \* bounds: the smallest and the largest number of
         MaxDists   \* distributed coordinators

ASSUME DistsAssumption ==
  MinDists \in Nat \ {0} /\ MaxDists \in Nat /\ MinDists <= MaxDists

VARIABLES
  dists,    \* num_dist_coords
  cores,    \* available_cores of the isolated rank, at most Cores
  subnodes  \* the nodes to hand out, to the coordinators 0, 1, ...

sizes == <<dists, cores>>
isoVars == <<vars, sizes, subnodes>>

\* The sizes are arguments of the program.
IsoInit ==
  /\ Init
  /\ dists \in MinDists .. MaxDists
  /\ cores \in 1 .. Cores
  /\ subnodes = <<>>

\* solve_leader_root; the original task is given to a base solver too.
IsoAssign(f) ==
  /\ Assign(f)
  /\ subnodes' = <<Root>>
  /\ UNCHANGED sizes

Starting == pc = "simplifyings" /\ todo = simplifyings /\ kept = <<>>

\* check_original_task, at the start of a turn; its failure changes nothing.
OriginalAnswers(answer) ==
  /\ Starting
  /\ MayAnswer(Root, answer)
  /\ pc' = "done"
  /\ todo' = <<>>
  /\ UNCHANGED <<treeVars, kept, roundVars, sizes, subnodes>>

IsoPoll ==
  /\ pc = "simplifyings"
  /\ \E n \in Node :
       SkipStale(n) \/ StillRunning(n) \/ PartitionerExits(n) \/ MemoryOut(n)
  /\ UNCHANGED <<sizes, subnodes>>

IsoEndPoll ==
  /\ pc = "simplifyings"
  /\ todo = <<>>
  /\ simplifyings' = kept
  /\ kept' = <<>>
  /\ pc' = "partition"
  /\ UNCHANGED <<shape, marks, queues, solvings, started, given, todo,
                 roundVars, sizes, subnodes>>

\* pre_partition_tasks; simplified nodes do not count, as none is solved yet.
MayPrePartition == Running < cores /\ MayTake

PrePartitionNext(n) ==
  /\ MayPrePartition
  /\ TakeUnsolved(n)
  /\ UNCHANGED <<sizes, subnodes>>

\* Mutant of Offspring: without a look at whether the children are written.
OffspringEarly(n) == IF Children(n) = {} THEN <<n>> ELSE ChildPair(n)

\* What replaces n in the list.
Offspring(n) ==
  CASE status[n] \in {"sat", "unsat"} -> <<>>
    [] status[n] \in {"unsolved", "simplifying"} -> <<n>>
    [] OTHER -> ChildPair(n)

OffspringUpTo(i) == FlattenSeq([j \in 1 .. i |-> Offspring(subnodes[j])])

\* The for loop breaks after the first node that makes the list long enough;
\* the nodes behind it are not in the new list.
Rescanned ==
  LET stops(i) == i = Len(subnodes) \/ Len(OffspringUpTo(i)) >= dists
  IN  OffspringUpTo(CHOOSE i \in 0 .. Len(subnodes) :
                      stops(i) /\ \A j \in 0 .. i - 1 : ~stops(j))

\* The turn ends; the time may be over.  "solve" is where the tasks are
\* handed out: the files are copied and sent one after the other.
Rescan ==
  /\ pc = "partition"
  /\ ~MayPrePartition
  /\ subnodes' = Rescanned
  /\ \/ Len(Rescanned) < dists /\ StartPolling
     \/ pc' = "solve" /\ UNCHANGED <<todo, kept>>
  /\ UNCHANGED <<treeVars, roundVars, sizes>>

IsoNext ==
  \/ \E f \in SUBSET Models : IsoAssign(f)
  \/ \E answer \in {"sat", "unsat"} : OriginalAnswers(answer)
  \/ IsoPoll
  \/ IsoEndPoll
  \/ \E n \in Node : PrePartitionNext(n)
  \/ Rescan

IsoSpec == IsoInit /\ [][IsoNext]_isoVars
-----------------------------------------------------------------------------
HandingOut == pc = "solve"

(***************************************************************************)
(* The tasks that are handed out to the distributed coordinators cover     *)
(* the formula.  The leader counts the root as unsat from then on, except  *)
(* for those tasks, so a model of none of them is lost and "unsat" would   *)
(* be printed although the formula has that model.                         *)
(***************************************************************************)
PrePartitionCovers ==
  HandingOut =>
    mods[Root] \subseteq
      UNION {mods[subnodes[i]] : i \in {j \in 1 .. Len(subnodes) : j <= dists}}

(***************************************************************************)
(* With two distributed coordinators, or one partitioner at a time, the    *)
(* list never outgrows the coordinators: nothing is cut off it, each task  *)
(* has a rank to be sent to, and the tasks cover the formula.  (Rank dists *)
(* is the isolated coordinator itself, which never receives a task.)       *)
(***************************************************************************)
SmallPrePartitionCovers ==
  HandingOut /\ (dists <= 2 \/ cores = 1) =>
    Len(subnodes) <= dists /\ PrePartitionCovers

(***************************************************************************)
(* There is a subnode to hand out, and the task file of each is written:   *)
(* copy_split_node_file does not raise, whatever the partitioners that are *)
(* still running are doing.                                                *)
(***************************************************************************)
SubnodesHaveFiles ==
  HandingOut => subnodes # <<>> /\ ToSet(subnodes) \subseteq tasks
=============================================================================
