---------------------------- MODULE Distributed -----------------------------
(***************************************************************************)
(* The whole program: the leader (src/src/leader.py), the distributed      *)
(* coordinators and the isolated one, and the MPI messages between them.   *)
(* What a coordinator does with a task is the abstract round of module     *)
(* SolvingRound, which module Coordinator is shown to implement; here are  *)
(* the messages it reacts to, one action for each.                         *)
(*                                                                         *)
(* Messages of one sender to one receiver arrive in order.  A control      *)
(* message (tag 1) and its argument (tag 2) are one record, as the         *)
(* receiver takes the second right after the first; task files are the     *)
(* other messages with tag 2, one channel for each pair of coordinators.   *)
(* A formula is the set of its models.                                     *)
(***************************************************************************)
EXTENDS DistributedTree, SequencesExt

CONSTANTS N,            \* num_dist_coords
          Models,       \* the assignments a formula may have as models
          Buffering,    \* whether MPI buffers task files; if not, send waits
          TabuCovers,   \* split_tabu is longer than any message takes
          Faults        \* "memout", "crash", "timeout"

ASSUME NAssumption == N \in Nat \ {0} /\ N < MaxTasks
ASSUME SwitchAssumption ==
  /\ Buffering \subseteq BOOLEAN
  /\ TabuCovers \in BOOLEAN
  /\ Faults \subseteq {"memout", "crash", "timeout"}

Dist == 0 .. (N - 1)
Iso == N
Rank == 0 .. N
NoTask == MaxTasks

Undecided == {"timeout", "memoryout", "Coordinator-Error", "Leader-Error"}

VARIABLES
  formula,    \* the models of the input formula
  buffered,   \* what MPI does with task files in this run
  \* the leader
  at,         \* "init", "loop" or "ended"
  verdict,    \* what was printed
  cstatus,    \* coordinators[c].status
  assigned,   \* coordinators[c].assigned
  idle,       \* idle_coordinators
  nextSplit,  \* next_split_rank
  \* the coordinators
  phase,      \* phase[c]: what c is doing
  task,       \* task[c]: the models of the formula c is solving
  owed,       \* owed[c]: those c has to answer for
  answer,     \* answer[c]: the last answer of c
  split,      \* split[c]: what task-split.smt2 of c holds
  from,       \* from[c]: the coordinator c receives a task from
  parts,      \* subnodes of pre_partition: the tasks it found
  handed,     \* how many of them have been handed out
  given,      \* ghost: the models of those that the leader tells a rank of
  \* the messages
  l2c,        \* l2c[c]: from the leader to c
  c2l,        \* c2l[c]: from c to the leader
  data        \* data[s][c]: the task files from s to c

leaderVars == <<at, verdict, cstatus, assigned, idle, nextSplit>>
coordVars == <<phase, task, owed, answer, split, from, parts, handed, given>>
channels == <<l2c, c2l, data>>
input == <<formula, buffered>>
vars == <<input, taskVars, leaderVars, coordVars, channels>>

Phase == {"prepartition", "waiting", "handing", "stuck",    \* the isolated one
          "idle", "receiving", "solving", "crashed", "ended"}

Message == [type : {"request_split", "transfer_node"}, rank : Dist]
             \union [type : {"assign_node"}, rank : Rank]
             \union [type : {"terminate"}]
Report == [type : {"split_succeed", "split_failed"}, rank : Dist]
            \union [type : {"result"}, value : {"sat", "unsat"}]
            \union [type : {"pre_partition_done"}, value : 0 .. N + 1]
            \union [type : {"error", "memory_out"}]

TypeOK ==
  /\ formula \in SUBSET Models
  /\ buffered \in Buffering
  /\ TaskTypeOK
  /\ at \in {"init", "loop", "ended"}
  /\ verdict \in {"none", "sat", "unsat"} \union Undecided
  /\ cstatus \in [Dist -> {"idle", "solving", "splitting"}]
  /\ assigned \in [Dist -> Task \union {NoTask}]
  /\ idle \in Seq(Dist)
  /\ nextSplit \in Dist
  /\ phase \in [Rank -> Phase]
  /\ task \in [Rank -> SUBSET Models]
  /\ owed \in [Rank -> SUBSET Models]
  /\ answer \in [Rank -> {"none", "sat", "unsat"}]
  /\ split \in [Rank -> SUBSET Models]
  /\ from \in [Dist -> Rank]
  /\ parts \in Seq(SUBSET Models)
  /\ handed \in 0 .. N
  /\ given \in SUBSET Models
  /\ l2c \in [Rank -> Seq(Message)]
  /\ c2l \in [Rank -> Seq(Report)]
  /\ data \in [Rank -> [Dist -> Seq(SUBSET Models)]]

Init ==
  /\ formula \in SUBSET Models
  /\ buffered \in Buffering
  /\ OnlyRoot
  /\ at = "init"
  /\ verdict = "none"
  /\ cstatus = [c \in Dist |-> "idle"]
  /\ assigned = [c \in Dist |-> NoTask]
  /\ idle = <<>>
  /\ nextSplit = 0
  /\ phase = [c \in Rank |-> IF c = Iso THEN "prepartition" ELSE "idle"]
  /\ task = [c \in Rank |-> IF c = Iso THEN formula ELSE {}]
  /\ owed = task
  /\ answer = [c \in Rank |-> "none"]
  /\ split = [c \in Rank |-> {}]
  /\ from = [c \in Dist |-> Iso]
  /\ parts = <<>>
  /\ handed = 0
  /\ given = {}
  /\ l2c = [c \in Rank |-> <<>>]
  /\ c2l = [c \in Rank |-> <<>>]
  /\ data = [s \in Rank |-> [c \in Dist |-> <<>>]]

-----------------------------------------------------------------------------
(* Sending and receiving.                                                  *)

RequestSplit(t) == [type |-> "request_split", rank |-> t]
AssignNode(s) == [type |-> "assign_node", rank |-> s]
TransferNode(t) == [type |-> "transfer_node", rank |-> t]
TerminateCoordinator == [type |-> "terminate"]

SplitSucceed(t) == [type |-> "split_succeed", rank |-> t]
SplitFailed(t) == [type |-> "split_failed", rank |-> t]
NotifyResult(r) == [type |-> "result", value |-> r]
PrePartitionDone(k) == [type |-> "pre_partition_done", value |-> k]
NotifyError == [type |-> "error"]
NotifyMemoryOut == [type |-> "memory_out"]

Pending(queue, c, type) == queue[c] # <<>> /\ Head(queue[c]).type = type

\* c takes its next message and reports ms.
Reports(c, ms) == c2l' = [c2l EXCEPT ![c] = @ \o ms]
Takes(c) == l2c' = [l2c EXCEPT ![c] = Tail(@)]

\* c is inside MPI send: its last task file has not been received.
Sending(c) == ~buffered /\ \E t \in Dist : data[c][t] # <<>>

-----------------------------------------------------------------------------
(* The distributed coordinators: receive_message_from_leader and the round *)
(* that parallel_solving goes through.                                     *)

LeaderSame == UNCHANGED <<input, taskVars, leaderVars>>

Looping(c) == c \in Dist /\ phase[c] \in {"idle", "solving"} /\ ~Sending(c)

\* process_split_message when the coordinator is idle or no node qualifies.
SplitRefused(c) ==
  /\ Looping(c)
  /\ Pending(l2c, c, "request_split")
  /\ Takes(c)
  /\ Reports(c, <<SplitFailed(Head(l2c[c]).rank)>>)
  /\ UNCHANGED <<coordVars, data>>
  /\ LeaderSame

\* Mutant of GiveAway: the whole path to the root is marked unsat.
GiveAwayAll(c, s) == owed' = [owed EXCEPT ![c] = {}]

\* The sub-problem s is marked unsat in the tree of c.
GiveAway(c, s) == owed' = [owed EXCEPT ![c] = @ \ s]

\* process_split_message: the task s goes to task-split.smt2.
SplitGranted(c, s) ==
  /\ Looping(c)
  /\ phase[c] = "solving"
  /\ Pending(l2c, c, "request_split")
  /\ s \subseteq task[c]
  /\ Takes(c)
  /\ Reports(c, <<SplitSucceed(Head(l2c[c]).rank)>>)
  /\ GiveAway(c, s)
  /\ split' = [split EXCEPT ![c] = s]
  /\ UNCHANGED <<phase, task, answer, from, parts, handed, given, data>>
  /\ LeaderSame

\* process_split_message when copyfile raises: SplitCopyFails of Coordinator.
SplitCrashes(c) ==
  /\ Looping(c)
  /\ "crash" \in Faults
  /\ phase[c] = "solving"
  /\ Pending(l2c, c, "request_split")
  /\ Takes(c)
  /\ Reports(c, <<SplitSucceed(Head(l2c[c]).rank), NotifyError>>)
  /\ phase' = [phase EXCEPT ![c] = "crashed"]
  /\ UNCHANGED <<task, owed, answer, split, from, parts, handed, given, data>>
  /\ LeaderSame

\* process_transfer_message
Transfer(c) ==
  /\ Looping(c)
  /\ Pending(l2c, c, "transfer_node")
  /\ Takes(c)
  /\ data' = [data EXCEPT ![c][Head(l2c[c]).rank] = Append(@, split[c])]
  /\ UNCHANGED <<coordVars, c2l>>
  /\ LeaderSame

\* The assertion that a coordinator that is given a task is idle, and
\* process_assign_message up to the receipt of the task.
AcceptNode(c) ==
  /\ Looping(c)
  /\ Pending(l2c, c, "assign_node")
  /\ Takes(c)
  /\ IF phase[c] = "idle"
     THEN /\ phase' = [phase EXCEPT ![c] = "receiving"]
          /\ from' = [from EXCEPT ![c] = Head(l2c[c]).rank]
          /\ UNCHANGED c2l
     ELSE /\ phase' = [phase EXCEPT ![c] = "crashed"]
          /\ Reports(c, <<NotifyError>>)
          /\ UNCHANGED from
  /\ UNCHANGED <<task, owed, answer, split, parts, handed, given, data>>
  /\ LeaderSame

\* receive_node_from_coordinator and start_solving.
ReceiveNode(c) ==
  /\ c \in Dist
  /\ phase[c] = "receiving"
  /\ data[from[c]][c] # <<>>
  /\ LET s == Head(data[from[c]][c])
     IN  /\ task' = [task EXCEPT ![c] = s]
         /\ owed' = [owed EXCEPT ![c] = s]
  /\ data' = [data EXCEPT ![from[c]][c] = Tail(@)]
  /\ answer' = [answer EXCEPT ![c] = "none"]
  /\ phase' = [phase EXCEPT ![c] = "solving"]
  /\ UNCHANGED <<split, from, parts, handed, given, l2c, c2l>>
  /\ LeaderSame

\* The leader's terminate message, in the loop, while a coordinator waits for
\* it after a failure, and in pre_partition; then clean_up and the barrier.
Terminated(c) ==
  /\ phase[c] \in {"idle", "solving", "crashed", "waiting"}
  /\ ~Sending(c)
  /\ Pending(l2c, c, "terminate")
  /\ Takes(c)
  /\ phase' = [phase EXCEPT ![c] = "ended"]
  /\ task' = [task EXCEPT ![c] = {}]
  /\ owed' = [owed EXCEPT ![c] = {}]
  /\ UNCHANGED <<answer, split, from, parts, handed, given, c2l, data>>
  /\ LeaderSame

\* A crashed coordinator drops every other message.
DropMessage(c) ==
  /\ phase[c] = "crashed"
  /\ l2c[c] # <<>>
  /\ ~Pending(l2c, c, "terminate")
  /\ Takes(c)
  /\ UNCHANGED <<coordVars, c2l, data>>
  /\ LeaderSame

Working(c) == phase[c] \in {"solving", "prepartition"} /\ ~Sending(c)

\* Mutant of Justified: the sub-problems still open are not looked at.
JustifiedWithOpen(c, r) == r = "sat" => task[c] # {}

\* The result of a round: what module SolvingRound allows, and of the base
\* solver that the isolated coordinator gives the original formula to.
Justified(c, r) ==
  /\ r = "unsat" => owed[c] = {}
  /\ r = "sat" => task[c] # {}

\* solving_round_done; for the isolated coordinator also during pre_partition.
SolveTask(c, r) ==
  /\ Working(c)
  /\ Justified(c, r)
  /\ Reports(c, <<NotifyResult(r)>>)
  /\ phase' = [phase EXCEPT ![c] = "idle"]
  /\ task' = [task EXCEPT ![c] = {}]
  /\ owed' = [owed EXCEPT ![c] = {}]
  /\ answer' = [answer EXCEPT ![c] = r]
  /\ UNCHANGED <<split, from, parts, handed, given, l2c, data>>
  /\ LeaderSame

(***************************************************************************)
(* report_memory_out, when a process is polled; or another exception,      *)
(* anywhere in the loop or while the tasks are handed out.  A message that *)
(* c was at work on then is dropped as those behind it are.                *)
(***************************************************************************)
Crash(c, report) ==
  /\ ~Sending(c)
  /\ \/ report = NotifyMemoryOut /\ "memout" \in Faults /\ Working(c)
     \/ /\ report = NotifyError /\ "crash" \in Faults
        /\ phase[c] \in {"prepartition", "handing", "idle", "receiving", "solving"}
  /\ Reports(c, <<report>>)
  /\ phase' = [phase EXCEPT ![c] = "crashed"]
  /\ UNCHANGED <<task, owed, answer, split, from, parts, handed, given, l2c, data>>
  /\ LeaderSame

-----------------------------------------------------------------------------
(* The isolated coordinator: isolated_solve.                               *)

(***************************************************************************)
(* pre_partition stops with some tasks.  Module PrePartition looks at how  *)
(* it finds them: at most one for each of two distributed coordinators,    *)
(* and then they cover the formula (SmallPrePartitionCovers).  Of three or *)
(* more there may be one task too many, and models may be missing (run     *)
(* PrePartition_three).                                                    *)
(***************************************************************************)
Covering(ps) == UNION {ps[i] : i \in DOMAIN ps} = formula

PrePartitionTasks ==
  {ps \in UNION {[1 .. k -> SUBSET formula] : k \in 1 .. N + 1} :
     N <= 2 => Len(ps) <= N /\ Covering(ps)}

\* Mutant of KnownTasks: the leader is sure that there are not too many.
AllTasks(k) == k

\* As many tasks as the leader tells coordinators of when it hears of k.
KnownTasks(k) == IF k <= N THEN k ELSE N

\* Without a task the whole formula is handed out.
PrePartition(ps, k) ==
  /\ phase[Iso] = "prepartition"
  /\ \/ k = Len(ps)
     \/ k = 0 /\ ps = <<formula>>
  /\ Reports(Iso, <<PrePartitionDone(k)>>)
  /\ parts' = ps
  /\ given' = UNION {ps[i] : i \in 1 .. KnownTasks(Len(ps))}
  /\ phase' = [phase EXCEPT ![Iso] = "waiting"]
  /\ UNCHANGED <<task, owed, answer, split, from, handed, l2c, data>>
  /\ LeaderSame

StartHandingOut ==
  /\ phase[Iso] = "waiting"
  /\ Pending(l2c, Iso, "assign_node")
  /\ Takes(Iso)
  /\ phase' = [phase EXCEPT ![Iso] = "handing"]
  /\ UNCHANGED <<task, owed, answer, split, from, parts, handed, given, c2l, data>>
  /\ LeaderSame

\* One turn of the loop over the subnodes: the tasks go to the coordinators
\* 0, 1, ...  One too many goes to the isolated coordinator itself, which does
\* not receive it: without a buffer it waits for ever.
HandOut ==
  /\ phase[Iso] = "handing"
  /\ ~Sending(Iso)
  /\ IF handed \in Dist
     THEN data' = [data EXCEPT ![Iso][handed] = Append(@, parts[handed + 1])]
     ELSE UNCHANGED data
  /\ IF handed + 1 < Len(parts)
     THEN handed' = handed + 1 /\ UNCHANGED <<phase, parts>>
     ELSE /\ handed' = 0
          /\ parts' = <<>>
          /\ phase' = [phase EXCEPT ![Iso] = IF handed \in Dist \/ buffered
                                             THEN "solving" ELSE "stuck"]
  /\ UNCHANGED <<task, owed, answer, split, from, given, l2c, c2l>>
  /\ LeaderSame

-----------------------------------------------------------------------------
(* The leader: init_coord_isolated and the loop of solve.                  *)

CoordSame == UNCHANGED <<input, coordVars, data>>

\* The leader takes the next report of c, of the given type.
Heard(c, type) ==
  /\ at = "loop" \/ (at = "init" /\ c = Iso)
  /\ Pending(c2l, c, type)
  /\ c2l' = [c2l EXCEPT ![c] = Tail(@)]

\* Mutant of ToldToStop: the isolated coordinator is left out.
OnlyDistTold == Dist

\* terminate_coordinators
ToldToStop == Rank

\* The verdict is printed and the coordinators are told to stop; queues holds
\* what was sent before in the same step.
LeaderEnds(v, queues) ==
  /\ at' = "ended"
  /\ verdict' = v
  /\ l2c' = [c \in Rank |-> IF c \in ToldToStop
                            THEN Append(queues[c], TerminateCoordinator)
                            ELSE queues[c]]
  /\ UNCHANGED <<cstatus, assigned, idle, nextSplit>>

(***************************************************************************)
(* pre_partition: the first tasks under the root go to the first           *)
(* coordinators, the others are idle.  The isolated coordinator answers    *)
(* for the whole formula only, so the root counts as partially unsat.      *)
(***************************************************************************)
GetPrePartition ==
  /\ Heard(Iso, "pre_partition_done")
  /\ LET k == IF Head(c2l[Iso]).value = 0 THEN 1
              ELSE KnownTasks(Head(c2l[Iso]).value)
     IN  /\ SplitTasks([i \in 1 .. k |-> RootTask])
         /\ cstatus' = [c \in Dist |-> IF c < k THEN "solving" ELSE "idle"]
         /\ assigned' = [c \in Dist |-> IF c < k THEN c + 1 ELSE NoTask]
         /\ idle' = [i \in 1 .. (N - k) |-> k + i - 1]
         /\ l2c' = [c \in Rank |-> IF c < k \/ c = Iso
                                   THEN Append(l2c[c], AssignNode(Iso))
                                   ELSE l2c[c]]
  /\ partial' = [partial EXCEPT ![RootTask] = "unsat"]
  /\ at' = "loop"
  /\ UNCHANGED <<whole, decision, verdict, nextSplit>>
  /\ CoordSame

\* Assign the task to t and make c transfer it.
SplitMessages(c, t) ==
  [l2c EXCEPT ![t] = Append(@, AssignNode(c)), ![c] = Append(@, TransferNode(t))]

\* The assertions of update_split_assign_info, assign_node and split_node.
SplitExpected(c, t) ==
  assigned[c] # NoTask /\ cstatus[t] = "idle" /\ cstatus[c] = "splitting"

\* The messages are sent before the assertions are evaluated.
GetSplitSucceed(c) ==
  /\ Heard(c, "split_succeed")
  /\ LET t == Head(c2l[c]).rank
     IN  IF SplitExpected(c, t)
         THEN /\ SplitTasks(<<assigned[c]>>)
              /\ assigned' = [assigned EXCEPT ![t] = numTasks]
              /\ cstatus' = [cstatus EXCEPT ![t] = "solving", ![c] = "solving"]
              /\ l2c' = SplitMessages(c, t)
              /\ UNCHANGED <<at, verdict, idle, nextSplit>>
         ELSE /\ LeaderEnds("Leader-Error", SplitMessages(c, t))
              /\ UNCHANGED <<numTasks, above, parent>>
  /\ UNCHANGED <<partial, whole, decision>>
  /\ CoordSame

\* Mutant of BackToIdle: the target of the request is forgotten.
BackNowhere(t) == idle' = idle

\* The target of a refused request may be the target of another one.
BackToIdle(t) == idle' = Append(idle, t)

\* Mutant of GetSplitFailed: the coordinator that refused is taken for idle.
GetSplitFailedBack(c) ==
  /\ Heard(c, "split_failed")
  /\ BackToIdle(c)
  /\ cstatus' = [cstatus EXCEPT ![c] = IF @ = "splitting" THEN "solving" ELSE @]
  /\ UNCHANGED <<taskVars, at, verdict, assigned, nextSplit, l2c>>
  /\ CoordSame

GetSplitFailed(c) ==
  /\ Heard(c, "split_failed")
  /\ BackToIdle(Head(c2l[c]).rank)
  /\ cstatus' = [cstatus EXCEPT ![c] = IF @ = "splitting" THEN "solving" ELSE @]
  /\ UNCHANGED <<taskVars, at, verdict, assigned, nextSplit, l2c>>
  /\ CoordSame

ResultExpected(c) ==
  /\ assigned[c] # NoTask
  /\ Head(c2l[c]).value = "unsat" => ~PushUpAsserts(assigned[c])

\* Mutant of SetCoordinatorIdle: the node stays assigned.
SetIdleOnly(c) ==
  /\ cstatus' = [cstatus EXCEPT ![c] = "idle"]
  /\ idle' = Append(idle, c)
  /\ UNCHANGED assigned

SetCoordinatorIdle(c) ==
  /\ cstatus' = [cstatus EXCEPT ![c] = "idle"]
  /\ assigned' = [assigned EXCEPT ![c] = NoTask]
  /\ idle' = Append(idle, c)

\* process_notified_result of a distributed coordinator.
GetResult(c) ==
  /\ c \in Dist
  /\ Heard(c, "result")
  /\ IF ResultExpected(c)
     THEN /\ PartialSolved(assigned[c], Head(c2l[c]).value)
          /\ IF decision' # "unsolved"
             THEN LeaderEnds(decision', l2c)
             ELSE /\ SetCoordinatorIdle(c)
                  /\ UNCHANGED <<at, verdict, nextSplit, l2c>>
     ELSE /\ LeaderEnds("Leader-Error", l2c)
          /\ UNCHANGED <<partial, whole, decision>>
  /\ UNCHANGED <<numTasks, above, parent>>
  /\ CoordSame

\* process_notified_result of the isolated coordinator.
GetIsoResult ==
  /\ Heard(Iso, "result")
  /\ OriginalSolved(Head(c2l[Iso]).value)
  /\ LeaderEnds(decision', l2c)
  /\ UNCHANGED <<numTasks, above, parent>>
  /\ CoordSame

GetFailure(c) ==
  /\ \/ Heard(c, "memory_out") /\ LeaderEnds("memoryout", l2c)
     \/ Heard(c, "error") /\ LeaderEnds("Coordinator-Error", l2c)
  /\ UNCHANGED taskVars
  /\ CoordSame

LeaderTimeout ==
  /\ at # "ended"
  /\ "timeout" \in Faults
  /\ LeaderEnds("timeout", l2c)
  /\ UNCHANGED <<taskVars, c2l>>
  /\ CoordSame

\* The requests that the leader has sent and that were not answered yet.
RequestTargets == {t \in Dist : cstatus[t] = "idle" /\ ~Contains(idle, t)}

\* Bound: every request has a task left to be granted.
MayRequest == numTasks + Cardinality(RequestTargets) < MaxTasks

(***************************************************************************)
(* split_tabu seconds have passed since c was given its task or was split. *)
(* If that is long enough for every message, those from before have been   *)
(* handled by then, on both sides.                                         *)
(***************************************************************************)
TabuOver(c) == TabuCovers => l2c[c] = <<>> /\ c2l[c] = <<>>

\* Mutant of MaySplit: a coordinator that is splitting is asked again.
MaySplitTwice(c) == cstatus[c] # "idle"

\* The condition of select_coordinator_to_split.
MaySplit(c) == cstatus[c] = "solving" /\ TabuOver(c)

\* Mutant of NextRank: the counter does not start again.
NextRankOn(r) == r + 1

NextRank(r) == (r + 1) % N

\* assign_node_to_idle_coordinator
AssignIdle ==
  /\ at = "loop"
  /\ idle # <<>>
  /\ nextSplit' = NextRank(nextSplit)
  /\ \/ /\ MaySplit(nextSplit)
        /\ MayRequest
        /\ idle' = Tail(idle)
        /\ cstatus' = [cstatus EXCEPT ![nextSplit] = "splitting"]
        /\ l2c' = [l2c EXCEPT ![nextSplit] = Append(@, RequestSplit(Head(idle)))]
     \/ \* its status is another one, or the tabu is not over
        /\ idle' = Append(Tail(idle), Head(idle))
        /\ UNCHANGED <<cstatus, l2c>>
  /\ UNCHANGED <<taskVars, at, verdict, assigned, c2l>>
  /\ CoordSame

\* Every process is at the barrier.
Exited == at = "ended" /\ \A c \in Rank : phase[c] = "ended"

Stopped == Exited /\ UNCHANGED vars

-----------------------------------------------------------------------------
LeaderHears(c) ==
  \/ GetSplitSucceed(c)
  \/ GetSplitFailed(c)
  \/ GetResult(c)
  \/ GetFailure(c)

\* What a coordinator does about its messages.
Reacts(c) ==
  \/ SplitRefused(c)
  \/ \E s \in SUBSET Models : SplitGranted(c, s)
  \/ SplitCrashes(c)
  \/ Transfer(c)
  \/ AcceptNode(c)
  \/ ReceiveNode(c)
  \/ Terminated(c)
  \/ DropMessage(c)

IsoHandsOut == StartHandingOut \/ HandOut

Solves(c) == \E r \in {"sat", "unsat"} : SolveTask(c, r)

Next ==
  \/ \E c \in Rank :
       \/ LeaderHears(c)
       \/ Reacts(c)
       \/ Solves(c)
       \/ \E report \in {NotifyMemoryOut, NotifyError} : Crash(c, report)
  \/ GetPrePartition
  \/ GetIsoResult
  \/ LeaderTimeout
  \/ AssignIdle
  \/ \E ps \in PrePartitionTasks, k \in 0 .. N + 1 : PrePartition(ps, k)
  \/ IsoHandsOut
  \/ Stopped

Spec == Init /\ [][Next]_vars

(***************************************************************************)
(* The leader and the coordinators poll for ever, so a message is taken in *)
(* the end, and each task is solved in the end: RoundAnswered of module    *)
(* Coordinator for the distributed ones.  Of the isolated coordinator only *)
(* its messages are relied on.                                             *)
(***************************************************************************)
Fairness ==
  /\ WF_vars(GetPrePartition)
  /\ WF_vars(GetIsoResult)
  /\ WF_vars(IsoHandsOut)
  /\ \A c \in Rank : WF_vars(LeaderHears(c)) /\ WF_vars(Reacts(c))
  /\ \A c \in Dist : WF_vars(Solves(c))
  /\ WF_vars(\E ps \in PrePartitionTasks, k \in 0 .. N + 1 : PrePartition(ps, k))

FairSpec == Spec /\ Fairness
-----------------------------------------------------------------------------
(* Safety.                                                                 *)

Healthy == \A c \in Rank : phase[c] # "crashed"

Reported(c, m) == Contains(c2l[c], m)

\* A message of the type is under way.
Sent(queue, c, type) == \E i \in 1 .. Len(queue[c]) : queue[c][i].type = type

\* What c has split away and will still transfer to somebody.
Promised(c) ==
  IF \E t \in Dist : Reported(c, SplitSucceed(t)) \/ Contains(l2c[c], TransferNode(t))
  THEN split[c] ELSE {}

InTransit == UNION {UNION {ToSet(data[s][t]) : t \in Dist} : s \in Rank}

\* First tasks that some coordinator still waits for.
NotHandedOut == {parts[i] : i \in handed + 1 .. KnownTasks(Len(parts))}

(***************************************************************************)
(* As long as nothing is decided and nobody has failed, each model of the  *)
(* first tasks is a model of the task of some distributed coordinator that *)
(* still has to answer for it, or of a task file on its way to one.        *)
(* Otherwise "unsat" from all of them would not mean unsat.                *)
(***************************************************************************)
NoModelLost ==
  /\ at = "loop"
  /\ Healthy
  /\ \A c \in Rank : ~Reported(c, NotifyResult("sat"))
  => given \subseteq UNION ({owed[c] \union Promised(c) : c \in Dist}
                              \union InTransit \union NotHandedOut)

(***************************************************************************)
(* "unsat" is printed only when no first task has a model, and "sat" only  *)
(* when the formula has one.                                               *)
(***************************************************************************)
VerdictOfTasks ==
  /\ verdict = "unsat" => given = {}
  /\ verdict = "sat" => formula # {}

Positions(seq, ms) == {i \in 1 .. Len(seq) : seq[i] \in ms}

\* The places where a rank is listed as one that gets a task next: in
\* idle_coordinators, and as the target of a request to split that the leader
\* has sent and whose answer it has not read.
Listings(t) ==
  {<<"idle", t, i>> : i \in Positions(idle, {t})}
    \union (UNION {{<<"request", c, i>> : i \in Positions(l2c[c], {RequestSplit(t)})}
                     \union {<<"answer", c, i>> :
                               i \in Positions(c2l[c], {SplitSucceed(t), SplitFailed(t)})} :
                   c \in Dist})

(***************************************************************************)
(* As long as nobody has failed, a coordinator without a task is waiting   *)
(* in idle_coordinators, once, or is the target of exactly one request;    *)
(* one with a task is neither.  A rank that fell out would be lost to the  *)
(* run, and one that was twice in would be given two tasks.                *)
(***************************************************************************)
RankAccounted ==
  at = "loop" /\ Healthy =>
    \A c \in Dist : Cardinality(Listings(c)) = IF cstatus[c] = "idle" THEN 1 ELSE 0

(***************************************************************************)
(* A coordinator that is solving is not given another task: the result of  *)
(* its round and the leader's message would have crossed, and the          *)
(* assertion of receive_message_from_leader would fail.                    *)
(***************************************************************************)
AssignedWhenIdle ==
  \A c \in Dist : phase[c] \in {"receiving", "solving"} => ~Sent(l2c, c, "assign_node")

\* The assertions that the leader makes about the order of reports hold.
NoLeaderError == verdict # "Leader-Error"

(***************************************************************************)
(* The coordinators of the leader's tree: a solving coordinator works on   *)
(* an open task, no two of them on the same one, and a task is open as     *)
(* long as the coordinator it was given to has not answered.               *)
(***************************************************************************)
OpenTasks ==
  at = "loop" =>
    /\ \A c, d \in Dist : assigned[c] = assigned[d] /\ c # d => assigned[c] = NoTask
    /\ \A c \in Dist : (assigned[c] # NoTask) <=> (cstatus[c] # "idle")
    /\ {n \in 0 .. (numTasks - 1) : partial[n] = "unsolved"} =
         {assigned[c] : c \in Dist} \ {NoTask}

-----------------------------------------------------------------------------
(* What must happen, and what the modules promise one another.             *)

\* Some coordinator has failed; the leader reads no report after the verdict.
Failed ==
  \/ verdict \in {"memoryout", "Coordinator-Error"}
  \/ \E c \in Rank : Reported(c, NotifyError) \/ Reported(c, NotifyMemoryOut)

(***************************************************************************)
(* The leader comes to a verdict, whatever fails, and then every process   *)
(* reaches the barrier, so that the program ends, unless some coordinator  *)
(* has failed: the time limit, or a result in the middle of a transfer,    *)
(* keeps nobody waiting.                                                   *)
(***************************************************************************)
Concludes == <>(at = "ended" /\ (Exited \/ Failed))

V == INSTANCE Verdict

\* What is printed is right, and is printed once.
ImplementsVerdict == V!Spec

-----------------------------------------------------------------------------
(* Invariants that the above rest on, used in the proofs.                  *)

(***************************************************************************)
(* The first tasks: they are announced, handed out one by one, and gone.   *)
(***************************************************************************)
PartsInOrder ==
  /\ Len(parts) <= N + 1
  /\ handed < Len(parts) \/ handed = 0
  /\ phase[Iso] \in {"prepartition", "waiting"} => handed = 0
  /\ phase[Iso] \in {"waiting", "handing"} => parts # <<>>
  /\ phase[Iso] \in {"prepartition", "idle", "solving", "stuck"} => parts = <<>>

\* Which phases a coordinator can be in.
PhasesApart ==
  /\ \A c \in Dist : phase[c] \notin {"prepartition", "waiting", "handing", "stuck"}
  /\ phase[Iso] # "receiving"

(***************************************************************************)
(* The messages of a distributed coordinator c while the leader is at      *)
(* work: at most one message of a split is under way, a task is the last   *)
(* thing c is sent, and after its result it can only refuse, or fail.      *)
(***************************************************************************)
Asking(m) == m.type \in {"request_split", "transfer_node"}
Answering(m) == m.type \in {"split_succeed", "split_failed"}
Failing(m) == m.type \in {"error", "memory_out"}

OneSplit(c) ==
  /\ \A i, j \in 1 .. Len(l2c[c]) : Asking(l2c[c][i]) /\ Asking(l2c[c][j]) => i = j
  /\ \A i, j \in 1 .. Len(c2l[c]) : Answering(c2l[c][i]) /\ Answering(c2l[c][j]) => i = j
  /\ \A i \in 1 .. Len(l2c[c]), j \in 1 .. Len(c2l[c]) :
       ~(Asking(l2c[c][i]) /\ Answering(c2l[c][j]))

InOrder(c) ==
  /\ \A i \in 1 .. Len(l2c[c]) :
       l2c[c][i].type = "assign_node" => i = Len(l2c[c])
  /\ \A i, j \in 1 .. Len(c2l[c]) :
       c2l[c][i].type = "result" /\ i # j =>
         /\ Answering(c2l[c][j]) \/ Failing(c2l[c][j])
         /\ i < j => c2l[c][j].type # "split_succeed"

(***************************************************************************)
(* What the leader has noted of c and what c is doing.                     *)
(***************************************************************************)
InStep(c) ==
  /\ assigned[c] = NoTask <=> cstatus[c] = "idle"
  /\ assigned[c] = NoTask =>
       /\ phase[c] \in {"idle", "crashed"}
       /\ ~Sent(l2c, c, "assign_node")
       /\ ~Sent(c2l, c, "result") /\ ~Sent(c2l, c, "split_succeed")
  /\ Sent(l2c, c, "assign_node") \/ Sent(c2l, c, "result") =>
       phase[c] \in {"idle", "crashed"}
  /\ Sent(l2c, c, "assign_node") =>
       ~Sent(c2l, c, "result") /\ ~Sent(c2l, c, "split_succeed")
  /\ Sent(l2c, c, "request_split") /\ phase[c] \notin {"idle", "crashed"} =>
       cstatus[c] = "splitting"
  /\ Sent(c2l, c, "split_succeed") => cstatus[c] = "splitting"
  /\ Sent(c2l, c, "error") \/ Sent(c2l, c, "memory_out") => phase[c] = "crashed"
  /\ ~Sent(l2c, c, "terminate")
  /\ ~Sent(c2l, c, "pre_partition_done")

\* t is the target of a request to c that is not settled.
Requested(c, t) ==
  \/ Contains(l2c[c], RequestSplit(t))
  \/ Reported(c, SplitSucceed(t))
  \/ Reported(c, SplitFailed(t))

(***************************************************************************)
(* The target of a request is idle, is not waiting in idle_coordinators,   *)
(* and is the target of no other request.                                  *)
(***************************************************************************)
TargetsApart ==
  \A c, t \in Dist : Requested(c, t) =>
    /\ cstatus[t] = "idle"
    /\ ~Contains(idle, t)
    /\ \A d \in Dist : Requested(d, t) => d = c

IdleApart ==
  \A i, j \in 1 .. Len(idle) :
    cstatus[idle[i]] = "idle" /\ (idle[i] = idle[j] => i = j)

\* As long as no distributed coordinator has failed, no idle rank is forgotten.
IdleListed ==
  at = "loop" /\ (\A c \in Dist : phase[c] # "crashed") =>
    \A t \in Dist :
      cstatus[t] = "idle" => Contains(idle, t) \/ \E c \in Dist : Requested(c, t)

\* There is a task left for each request.
RequestsBounded == numTasks + Cardinality(RequestTargets) <= MaxTasks

(***************************************************************************)
(* The leader's tree: n and the tasks above it make a chain that ends in   *)
(* the root, and a task that is not on it hangs under it somewhere.        *)
(***************************************************************************)
Upward(n) == above[n] \union {n}

Chains ==
  /\ numTasks > 0
  /\ above[RootTask] = {}
  /\ \A n \in 1 .. (numTasks - 1) :
       /\ parent[n] < n
       /\ above[n] = Upward(parent[n])
       /\ above[n] \subseteq 0 .. (n - 1)
       /\ RootTask \in above[n]
  /\ \A n \in Task : n >= numTasks => partial[n] = "unsolved" /\ whole[n] = "unsolved"

ChainsMeet ==
  /\ \A n \in 0 .. (numTasks - 1) : \A a \in above[n] : above[a] \subseteq above[n]
  /\ \A n \in 0 .. (numTasks - 1) : \A a, b \in Upward(n) :
       a \in Upward(b) \/ b \in Upward(a)
  /\ \A m, n \in 0 .. (numTasks - 1) : m \notin Upward(n) =>
       \E c \in Upward(m) : c \notin Upward(n) /\ c # RootTask /\ parent[c] \in Upward(n)

\* Below a task that is unsat nothing is left to solve.
UnsatBelow ==
  \A a, n \in 0 .. (numTasks - 1) :
    whole[a] = "unsat" /\ a \in Upward(n) => partial[n] = "unsat"

\* Nothing has been asked of c.
Unused(c) ==
  /\ cstatus[c] = "idle" /\ phase[c] \in {"idle", "crashed"}
  /\ l2c[c] = <<>>
  /\ c2l[c] = IF phase[c] = "idle" THEN <<>> ELSE <<NotifyError>>

\* Before the first tasks are known nobody but the isolated coordinator works.
NothingYet ==
  /\ numTasks = 1 /\ idle = <<>> /\ partial[RootTask] = "unsolved"
  /\ \A c \in Dist : Unused(c)
  /\ l2c[Iso] = <<>>
  /\ phase[Iso] \in {"prepartition", "waiting", "idle", "crashed"}
  /\ phase[Iso] = "prepartition" => c2l[Iso] = <<>>
  /\ phase[Iso] = "waiting" =>
       /\ Len(c2l[Iso]) = 1
       /\ c2l[Iso][1].type = "pre_partition_done"
       /\ c2l[Iso][1].value \in {0, Len(parts)}
       /\ c2l[Iso][1].value = 0 => Len(parts) = 1
  /\ phase[Iso] # "waiting" => ~Sent(c2l, Iso, "pre_partition_done")

\* What the isolated coordinator sends and is sent.
IsoInStep ==
  /\ \A i \in 1 .. Len(c2l[Iso]) : ~Answering(c2l[Iso][i])
  /\ ~Sent(l2c, Iso, "terminate")
  /\ at = "loop" => /\ phase[Iso] # "prepartition"
                    /\ ~Sent(c2l, Iso, "pre_partition_done")

(***************************************************************************)
(* The inductive invariant of the protocol.                                *)
(***************************************************************************)
DInv ==
  /\ TypeOK /\ PartsInOrder /\ PhasesApart
  /\ verdict # "Leader-Error"
  /\ at # "ended" =>
       /\ verdict = "none" /\ decision = "unsolved"
       /\ \A c \in Dist : OneSplit(c) /\ InOrder(c) /\ InStep(c)
       /\ TargetsApart /\ IdleApart /\ Chains /\ ChainsMeet /\ UnsatBelow
       /\ IsoInStep
  /\ at = "init" => NothingYet
  /\ at = "loop" => OpenTasks /\ RequestsBounded

-----------------------------------------------------------------------------
(* The models.                                                             *)

\* A task for t is on its way from s.
Coming(s, t) ==
  \/ Contains(l2c[s], TransferNode(t))
  \/ data[s][t] # <<>>
  \/ s = Iso /\ t \in handed .. (Len(parts) - 1)

\* t has been told to take a task from s.
Awaits(t, s) ==
  \/ Contains(l2c[t], AssignNode(s))
  \/ phase[t] = "receiving" /\ from[t] = s

\* t was given a task and has failed before it gave a result.
Silent(t) == phase[t] = "crashed" /\ cstatus[t] # "idle" /\ ~Sent(c2l, t, "result")

\* Each task comes to a coordinator that waits for it or has failed, and comes
\* once.
ComesOnce ==
  \A s \in Rank, t \in Dist :
    /\ Coming(s, t) => Awaits(t, s) \/ Silent(t)
    /\ Len(data[s][t]) <= 1
    /\ data[s][t] # <<>> => /\ ~Contains(l2c[s], TransferNode(t))
                            /\ s = Iso => t \notin handed .. (Len(parts) - 1)
    /\ ~Contains(l2c[Iso], TransferNode(t))

\* Nobody works on anything but a part of the formula.
PartsOfFormula ==
  /\ \A c \in Rank : task[c] \subseteq formula /\ split[c] \subseteq formula
  /\ \A s \in Rank, t \in Dist : \A x \in ToSet(data[s][t]) : x \subseteq formula
  /\ \A x \in ToSet(parts) : x \subseteq formula

IsoOwesAll ==
  /\ phase[Iso] \in {"prepartition", "waiting", "handing", "solving"} =>
       owed[Iso] = formula
  /\ Reported(Iso, NotifyResult("unsat")) => formula = {}

SatIsTrue == \A c \in Rank : Reported(c, NotifyResult("sat")) => formula # {}

OwesNothing ==
  \A c \in Dist :
    \/ phase[c] \in {"idle", "receiving"}
    \/ phase[c] = "crashed" /\ (cstatus[c] = "idle" \/ Sent(c2l, c, "result"))
    => owed[c] = {}

\* The models that somebody will still answer for.
Accounted ==
  UNION ({owed[c] \union Promised(c) : c \in Dist} \union InTransit \union NotHandedOut)

\* The leader will not hear of the task of t: t has failed, or the coordinator
\* that was to send the task.
Unanswering(t) ==
  \/ Silent(t)
  \/ \E s \in Rank : Awaits(t, s) /\ phase[s] = "crashed" /\ ~Coming(s, t)

(***************************************************************************)
(* NoModelLost, also with failures: as long as the leader may hear of each *)
(* task, the models of the first tasks are in somebody's task.             *)
(***************************************************************************)
Covered ==
  (\A c \in Dist : ~Unanswering(c) /\ ~Reported(c, NotifyResult("sat")))
    => given \subseteq Accounted

\* The first tasks make up the formula: with two coordinators they do.
GivenAll == N <= 2 => given = formula

(***************************************************************************)
(* What NoModelLost and the verdict rest on.                               *)
(***************************************************************************)
MInv ==
  /\ given \subseteq formula
  /\ at # "ended" => PartsOfFormula /\ IsoOwesAll /\ SatIsTrue /\ OwesNothing
  /\ at = "init" =>
       /\ \A s \in Rank, t \in Dist : data[s][t] = <<>>
       /\ phase[Iso] = "waiting" =>
            given = UNION {parts[i] : i \in 1 .. KnownTasks(Len(parts))} /\ GivenAll
  /\ at = "loop" => ComesOnce /\ Covered /\ GivenAll

\* A coordinator gets one task at a time.
AssignedOnce ==
  /\ AssignedWhenIdle
  /\ \A c \in Dist : \A i, j \in 1 .. Len(l2c[c]) :
       l2c[c][i].type = "assign_node" /\ l2c[c][j].type = "assign_node" => i = j
=============================================================================
