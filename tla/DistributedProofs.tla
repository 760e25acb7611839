-------------------------- MODULE DistributedProofs -------------------------
(***************************************************************************)
(* Theorems about module Distributed, for every number of coordinators,    *)
(* tasks and models and every choice of faults: its types, the leader's    *)
(* tree and table of coordinators, and the assertions of the leader; then  *)
(* its verdict, the ranks without a task, and what is assigned to whom.    *)
(***************************************************************************)
EXTENDS Distributed, SequenceTheorems, FiniteSetTheorems, TLAPS

\* What is left of a queue whose head has been taken.
LEMMA Taken ==
  ASSUME NEW S, NEW s \in Seq(S), s # <<>>
  PROVE  /\ Len(s) \in Nat /\ Len(s) > 0
         /\ Head(s) = s[1] /\ Head(s) \in S
         /\ Tail(s) \in Seq(S)
         /\ Len(Tail(s)) = Len(s) - 1
         /\ \A i \in 1 .. Len(s) - 1 : Tail(s)[i] = s[i + 1]
BY HeadTailProperties, EmptySeq

\* A queue to which one message has been added.
LEMMA Added ==
  ASSUME NEW S, NEW s \in Seq(S), NEW m \in S
  PROVE  /\ Append(s, m) = s \o <<m>>
         /\ Len(s) \in Nat
         /\ Append(s, m) \in Seq(S)
         /\ Len(Append(s, m)) = Len(s) + 1
         /\ \A i \in 1 .. Len(s) : Append(s, m)[i] = s[i]
         /\ Append(s, m)[Len(s) + 1] = m
BY AppendProperties, AppendIsConcat, LenProperties

\* A sequence with two elements added, by index.
LEMMA AddedTwo ==
  ASSUME NEW S, NEW s \in Seq(S), NEW m1 \in S, NEW m2 \in S
  PROVE  /\ s \o <<m1, m2>> = Append(Append(s, m1), m2)
         /\ s \o <<m1, m2>> \in Seq(S)
<1>1. s \o <<m1, m2>> \in Seq(S)
  BY ConcatProperties
<1> QED
  BY <1>1

\* The ranks, and which of them are distributed.
LEMMA Ranks ==
  /\ Dist \subseteq Rank /\ Iso \in Rank /\ Iso \notin Dist
  /\ Rank = Dist \union {Iso}
  /\ N \in Nat /\ N > 0 /\ 0 \in Dist
BY NAssumption DEF Dist, Rank, Iso

\* The tasks that pre_partition may find.
LEMMA FoundTasks ==
  ASSUME NEW ps \in PrePartitionTasks
  PROVE  /\ ps \in Seq(SUBSET formula) /\ Len(ps) \in 1 .. N + 1
         /\ N <= 2 => Len(ps) <= N /\ Covering(ps)
         /\ DOMAIN ps = 1 .. Len(ps)
<1>1. PICK n \in 1 .. N + 1 : ps \in [1 .. n -> SUBSET formula]
  BY DEF PrePartitionTasks
<1>2. n \in Nat
  BY <1>1, Ranks
<1>3. ps \in Seq(SUBSET formula) /\ DOMAIN ps = 1 .. n
  BY <1>1, <1>2, SeqDef
<1>4. Len(ps) = n
  BY <1>2, <1>3, LenProperties
<1> QED
  BY <1>1, <1>3, <1>4 DEF PrePartitionTasks

\* How many of the first tasks the leader knows of.
First == KnownTasks(Len(parts))

\* The ids of tasks, and the one that stands for none.
LEMMA Tasks ==
  /\ MaxTasks \in Nat /\ MaxTasks > 1 /\ RootTask \in Task /\ NoTask \notin Task
  /\ Task \subseteq Nat
BY NAssumption, MaxTasksAssumption DEF Task, RootTask, NoTask
-----------------------------------------------------------------------------
(* What sending and receiving do to the channels.                          *)

\* The queue of c in q has lost its head.
Lost(q, c) ==
  /\ Len(q[c]) \in Nat /\ Len(q[c]) > 0
  /\ Head(q[c]) = q[c][1]
  /\ Len(q'[c]) = Len(q[c]) - 1
  /\ \A i \in 1 .. Len(q[c]) - 1 : q'[c][i] = q[c][i + 1]
  /\ \A d \in Rank : d # c => q'[d] = q[d]

\* The queue of c in q has got m.
Got(q, c, m) ==
  /\ Len(q[c]) \in Nat
  /\ Len(q'[c]) = Len(q[c]) + 1
  /\ \A i \in 1 .. Len(q[c]) : q'[c][i] = q[c][i]
  /\ q'[c][Len(q[c]) + 1] = m
  /\ \A d \in Rank : d # c => q'[d] = q[d]

\* A coordinator that takes a message loses the head of its queue.
LEMMA TakesFacts ==
  ASSUME TypeOK, NEW c \in Rank, l2c[c] # <<>>, Takes(c)
  PROVE  /\ l2c' \in [Rank -> Seq(Message)]
         /\ Head(l2c[c]) \in Message
         /\ Lost(l2c, c)
<1>1. l2c[c] \in Seq(Message) /\ l2c \in [Rank -> Seq(Message)]
  BY DEF TypeOK
<1>2. l2c' = [l2c EXCEPT ![c] = Tail(l2c[c])]
  BY DEF Takes
<1> HIDE DEF Takes
<1>3. l2c'[c] = Tail(l2c[c]) /\ \A d \in Rank : d # c => l2c'[d] = l2c[d]
  BY <1>1, <1>2
<1> QED
  BY <1>1, <1>2, <1>3, Taken DEF Lost

\* A report that the leader reads leaves the queue.
LEMMA HeardFacts ==
  ASSUME TypeOK, NEW c \in Rank, NEW type, Heard(c, type)
  PROVE  /\ c2l' \in [Rank -> Seq(Report)]
         /\ Head(c2l[c]) \in Report /\ Head(c2l[c]).type = type
         /\ Lost(c2l, c)
         /\ at # "ended"
<1>1. c2l[c] \in Seq(Report) /\ c2l \in [Rank -> Seq(Report)]
  BY DEF TypeOK
<1>2. c2l' = [c2l EXCEPT ![c] = Tail(c2l[c])] /\ c2l[c] # <<>>
  BY DEF Heard, Pending
<1>3. c2l'[c] = Tail(c2l[c]) /\ \A d \in Rank : d # c => c2l'[d] = c2l[d]
  BY <1>1, <1>2
<1>4. Lost(c2l, c) /\ c2l' \in [Rank -> Seq(Report)] /\ Head(c2l[c]) \in Report
  BY <1>1, <1>2, <1>3, Taken DEF Lost
<1> QED
  BY <1>4 DEF Heard, Pending

\* A report that is sent is at the end of the queue.
LEMMA ReportsFacts ==
  ASSUME TypeOK, NEW c \in Rank, NEW m \in Report, Reports(c, <<m>>)
  PROVE  c2l' \in [Rank -> Seq(Report)] /\ Got(c2l, c, m)
<1>1. c2l[c] \in Seq(Report) /\ c2l \in [Rank -> Seq(Report)]
  BY DEF TypeOK
<1>2. c2l' = [c2l EXCEPT ![c] = Append(c2l[c], m)]
  <2>1. c2l' = [c2l EXCEPT ![c] = c2l[c] \o <<m>>]
    BY DEF Reports
  <2>2. c2l[c] \o <<m>> = Append(c2l[c], m)
    BY <1>1, Added
  <2> QED
    BY <2>1, <2>2
<1>3. c2l'[c] = Append(c2l[c], m) /\ \A d \in Rank : d # c => c2l'[d] = c2l[d]
  BY <1>1, <1>2
<1> QED
  BY <1>1, <1>2, <1>3, Added DEF Got

\* The leader sends m to c.
LEMMA SendsFacts ==
  ASSUME TypeOK, NEW c \in Rank, NEW m \in Message,
         l2c' = [l2c EXCEPT ![c] = Append(@, m)]
  PROVE  l2c' \in [Rank -> Seq(Message)] /\ Got(l2c, c, m)
<1>1. l2c[c] \in Seq(Message) /\ l2c \in [Rank -> Seq(Message)]
  BY DEF TypeOK
<1>2. l2c'[c] = Append(l2c[c], m) /\ \A d \in Rank : d # c => l2c'[d] = l2c[d]
  BY <1>1
<1> QED
  BY <1>1, <1>2, Added DEF Got

\* The messages are messages.
LEMMA MessageTypes ==
  /\ \A t \in Dist : /\ RequestSplit(t) \in Message /\ TransferNode(t) \in Message
                     /\ SplitSucceed(t) \in Report /\ SplitFailed(t) \in Report
  /\ \A s \in Rank : AssignNode(s) \in Message
  /\ TerminateCoordinator \in Message
  /\ \A r \in {"sat", "unsat"} : NotifyResult(r) \in Report
  /\ \A k \in 0 .. N + 1 : PrePartitionDone(k) \in Report
  /\ NotifyError \in Report /\ NotifyMemoryOut \in Report
BY DEF Message, Report, RequestSplit, TransferNode, SplitSucceed, SplitFailed,
       AssignNode, TerminateCoordinator, NotifyResult, PrePartitionDone, NotifyError,
       NotifyMemoryOut

\* What a message of a type carries.
LEMMA MessageFields ==
  /\ \A m \in Message :
       /\ m.type \in {"request_split", "transfer_node"} => m.rank \in Dist
       /\ m.type = "assign_node" => m.rank \in Rank
       /\ m.type = "request_split" => m = RequestSplit(m.rank)
       /\ m.type = "transfer_node" => m = TransferNode(m.rank)
       /\ m.type = "assign_node" => m = AssignNode(m.rank)
  /\ \A m \in Report :
       /\ m.type \in {"split_succeed", "split_failed"} => m.rank \in Dist
       /\ m.type = "split_succeed" => m = SplitSucceed(m.rank)
       /\ m.type = "split_failed" => m = SplitFailed(m.rank)
       /\ m.type = "result" => m.value \in {"sat", "unsat"} /\ m = NotifyResult(m.value)
       /\ m.type = "pre_partition_done" => m.value \in 0 .. N + 1
BY DEF Message, Report, RequestSplit, TransferNode, SplitSucceed, SplitFailed,
       AssignNode, NotifyResult
-----------------------------------------------------------------------------
(* Types.                                                                  *)

\* The action of a coordinator that takes a message and may report one.
LEMMA TakeType ==
  ASSUME TypeOK, NEW c \in Rank, l2c[c] # <<>>, Takes(c), LeaderSame,
         c2l' \in [Rank -> Seq(Report)],
         UNCHANGED <<task, owed, answer, split, from, parts, handed, given, data>>,
         phase' \in [Rank -> Phase]
  PROVE  TypeOK'
BY TakesFacts DEF TypeOK, LeaderSame, input, taskVars, leaderVars, TaskTypeOK

\* The handlers of a request to split keep the types.
LEMMA SplitType ==
  ASSUME TypeOK, NEW c \in Rank,
         \/ SplitRefused(c) \/ (\E s \in SUBSET Models : SplitGranted(c, s))
         \/ SplitCrashes(c)
  PROVE  TypeOK'
<1>1. /\ l2c[c] # <<>> /\ Takes(c) /\ LeaderSame /\ c \in Dist
      /\ Head(l2c[c]).type = "request_split"
  BY DEF SplitRefused, SplitGranted, SplitCrashes, Pending, Looping
<1>2. l2c' \in [Rank -> Seq(Message)] /\ Head(l2c[c]).rank \in Dist
  BY <1>1, TakesFacts, MessageFields
<1>3. CASE SplitRefused(c)
  <2>1. c2l' \in [Rank -> Seq(Report)]
    BY <1>2, <1>3, ReportsFacts, MessageTypes DEF SplitRefused
  <2> QED
    BY <1>1, <1>3, <2>1, TakeType DEF SplitRefused, coordVars, TypeOK
<1>4. ASSUME NEW s \in SUBSET Models, SplitGranted(c, s)
      PROVE  TypeOK'
  <2>1. c2l' \in [Rank -> Seq(Report)]
    BY <1>2, <1>4, ReportsFacts, MessageTypes DEF SplitGranted
  <2>2. owed' \in [Rank -> SUBSET Models] /\ split' \in [Rank -> SUBSET Models]
    BY <1>4 DEF SplitGranted, GiveAway, TypeOK
  <2> QED
    BY <1>1, <1>2, <1>4, <2>1, <2>2
       DEF SplitGranted, TypeOK, LeaderSame, input, taskVars, leaderVars, TaskTypeOK
<1>5. CASE SplitCrashes(c)
  <2> DEFINE m1 == SplitSucceed(Head(l2c[c]).rank)
  <2>1. m1 \in Report /\ NotifyError \in Report /\ c2l \in [Rank -> Seq(Report)]
    BY <1>2, MessageTypes DEF TypeOK
  <2>2. c2l' = [c2l EXCEPT ![c] = c2l[c] \o <<m1, NotifyError>>]
    BY <1>5 DEF SplitCrashes, Reports
  <2> HIDE DEF m1
  <2>3. c2l[c] \o <<m1, NotifyError>> \in Seq(Report)
    BY <2>1, AddedTwo
  <2>4. c2l' \in [Rank -> Seq(Report)]
    BY <2>1, <2>2, <2>3
  <2>5. phase' \in [Rank -> Phase]
    BY <1>5 DEF SplitCrashes, TypeOK, Phase
  <2> QED
    BY <1>1, <1>5, <2>4, <2>5, TakeType DEF SplitCrashes
<1> QED
  BY <1>3, <1>4, <1>5

\* The handlers of the other messages keep the types.
LEMMA ReactType ==
  ASSUME TypeOK, NEW c \in Rank, Reacts(c)
  PROVE  TypeOK'
<1>1. CASE \/ SplitRefused(c) \/ (\E s \in SUBSET Models : SplitGranted(c, s))
           \/ SplitCrashes(c)
  BY <1>1, SplitType
<1>2. CASE Transfer(c)
  <2>1. /\ l2c[c] # <<>> /\ Takes(c) /\ LeaderSame /\ c \in Dist
        /\ Head(l2c[c]).type = "transfer_node"
    BY <1>2 DEF Transfer, Pending, Looping
  <2> DEFINE t == Head(l2c[c]).rank
  <2>2. l2c' \in [Rank -> Seq(Message)] /\ t \in Dist
    BY <2>1, TakesFacts, MessageFields
  <2>3. Append(data[c][t], split[c]) \in Seq(SUBSET Models)
    <3>1. data[c][t] \in Seq(SUBSET Models) /\ split[c] \in SUBSET Models
      BY <2>2 DEF TypeOK
    <3> QED
      BY <3>1, AppendProperties
  <2>4. data' = [data EXCEPT ![c] = [data[c] EXCEPT ![t] = Append(data[c][t], split[c])]]
    BY <1>2 DEF Transfer
  <2> HIDE DEF t
  <2>5. data' \in [Rank -> [Dist -> Seq(SUBSET Models)]]
    BY <2>2, <2>3, <2>4 DEF TypeOK
  <2> QED
    BY <1>2, <2>1, <2>2, <2>5
       DEF Transfer, TypeOK, LeaderSame, input, taskVars, leaderVars, coordVars,
           TaskTypeOK
<1>3. CASE AcceptNode(c)
  <2>1. /\ l2c[c] # <<>> /\ Takes(c) /\ LeaderSame /\ c \in Dist
        /\ Head(l2c[c]).type = "assign_node"
    BY <1>3 DEF AcceptNode, Pending, Looping
  <2>2. l2c' \in [Rank -> Seq(Message)] /\ Head(l2c[c]).rank \in Rank
    BY <2>1, TakesFacts, MessageFields
  <2>3. from' \in [Dist -> Rank] /\ phase' \in [Rank -> Phase]
    BY <1>3, <2>1, <2>2 DEF AcceptNode, TypeOK, Phase
  <2>4. c2l' \in [Rank -> Seq(Report)]
    <3>1. c2l' = c2l \/ Reports(c, <<NotifyError>>)
      BY <1>3 DEF AcceptNode
    <3> QED
      BY <3>1, ReportsFacts, MessageTypes DEF TypeOK
  <2> QED
    BY <1>3, <2>1, <2>2, <2>3, <2>4
       DEF AcceptNode, TypeOK, LeaderSame, input, taskVars, leaderVars, TaskTypeOK
<1>4. CASE ReceiveNode(c)
  <2> DEFINE s == from[c]
  <2>1. c \in Dist /\ s \in Rank /\ data[s][c] \in Seq(SUBSET Models) /\ data[s][c] # <<>>
    BY <1>4 DEF ReceiveNode, TypeOK
  <2>2. Head(data[s][c]) \in SUBSET Models /\ Tail(data[s][c]) \in Seq(SUBSET Models)
    BY <2>1, HeadTailProperties
  <2>3. data' = [data EXCEPT ![s] = [data[s] EXCEPT ![c] = Tail(data[s][c])]]
    BY <1>4 DEF ReceiveNode
  <2>4. /\ task' = [task EXCEPT ![c] = Head(data[s][c])]
        /\ owed' = [owed EXCEPT ![c] = Head(data[s][c])]
    BY <1>4 DEF ReceiveNode
  <2> HIDE DEF s
  <2>5. data' \in [Rank -> [Dist -> Seq(SUBSET Models)]]
    BY <2>1, <2>2, <2>3 DEF TypeOK
  <2>6. task' \in [Rank -> SUBSET Models] /\ owed' \in [Rank -> SUBSET Models]
    BY <2>2, <2>4 DEF TypeOK
  <2> QED
    BY <1>4, <2>5, <2>6
       DEF ReceiveNode, TypeOK, LeaderSame, input, taskVars, leaderVars, TaskTypeOK, Phase
<1>5. CASE Terminated(c)
  <2>1. l2c[c] # <<>> /\ Takes(c)
    BY <1>5 DEF Terminated, Pending
  <2>2. l2c' \in [Rank -> Seq(Message)]
    BY <2>1, TakesFacts
  <2> QED
    BY <1>5, <2>2
       DEF Terminated, TypeOK, LeaderSame, input, taskVars, leaderVars, TaskTypeOK, Phase
<1>6. CASE DropMessage(c)
  BY <1>6, TakeType DEF DropMessage, coordVars, TypeOK
<1> QED
  BY <1>1, <1>2, <1>3, <1>4, <1>5, <1>6 DEF Reacts

\* Solving, crashing and ending keep the types.
LEMMA WorkType ==
  ASSUME TypeOK, NEW c \in Rank,
         \/ Solves(c)
         \/ \E report \in {NotifyMemoryOut, NotifyError} : Crash(c, report)
  PROVE  TypeOK'
<1>1. ASSUME NEW r \in {"sat", "unsat"}, SolveTask(c, r)
      PROVE  TypeOK'
  <2>1. c2l' \in [Rank -> Seq(Report)]
    BY <1>1, ReportsFacts, MessageTypes DEF SolveTask
  <2> QED
    BY <1>1, <2>1
       DEF SolveTask, TypeOK, LeaderSame, input, taskVars, leaderVars, TaskTypeOK, Phase
<1>2. ASSUME NEW report \in {NotifyMemoryOut, NotifyError}, Crash(c, report)
      PROVE  TypeOK'
  <2>1. c2l' \in [Rank -> Seq(Report)]
    BY <1>2, ReportsFacts, MessageTypes DEF Crash
  <2> QED
    BY <1>2, <2>1
       DEF Crash, TypeOK, LeaderSame, input, taskVars, leaderVars, TaskTypeOK, Phase
<1> QED
  BY <1>1, <1>2 DEF Solves

\* What the isolated coordinator does keeps the types.
LEMMA IsoType ==
  ASSUME TypeOK, PartsInOrder,
         \/ \E ps \in PrePartitionTasks, k \in 0 .. N + 1 : PrePartition(ps, k)
         \/ IsoHandsOut
  PROVE  TypeOK'
<1>1. ASSUME NEW ps \in PrePartitionTasks, NEW k \in 0 .. N + 1, PrePartition(ps, k)
      PROVE  TypeOK'
  <2>1. c2l' \in [Rank -> Seq(Report)]
    BY <1>1, Ranks, ReportsFacts, MessageTypes DEF PrePartition
  <2>2. ps \in Seq(SUBSET Models)
    BY FoundTasks DEF TypeOK
  <2>3. given' \in SUBSET Models
    <3>1. given' = UNION {ps[i] : i \in 1 .. KnownTasks(Len(ps))}
      BY <1>1 DEF PrePartition
    <3>2. KnownTasks(Len(ps)) <= Len(ps) /\ KnownTasks(Len(ps)) \in Nat
      BY FoundTasks, Ranks DEF KnownTasks
    <3>3. \A i \in 1 .. KnownTasks(Len(ps)) : ps[i] \in SUBSET Models
      BY <2>2, <3>2, FoundTasks, ElementOfSeq
    <3> QED
      BY <3>1, <3>3
  <2> QED
    BY <1>1, <2>1, <2>2, <2>3
       DEF PrePartition, TypeOK, LeaderSame, input, taskVars, leaderVars, TaskTypeOK, Phase
<1>2. CASE StartHandingOut
  <2>1. l2c[Iso] # <<>> /\ Takes(Iso) /\ Iso \in Rank
    BY <1>2, Ranks DEF StartHandingOut, Pending
  <2>2. l2c' \in [Rank -> Seq(Message)]
    BY <2>1, TakesFacts
  <2> QED
    BY <1>2, <2>2
       DEF StartHandingOut, TypeOK, LeaderSame, input, taskVars, leaderVars, TaskTypeOK,
           Phase
<1>3. CASE HandOut
  <2> DEFINE x == parts[handed + 1]
  <2>1. /\ handed \in Nat /\ Len(parts) \in Nat /\ handed < Len(parts)
        /\ Len(parts) <= N + 1 /\ parts \in Seq(SUBSET Models)
    <3>1. parts \in Seq(SUBSET Models) /\ parts # <<>> /\ handed \in Nat
      BY <1>3, Ranks DEF HandOut, PartsInOrder, TypeOK
    <3>2. Len(parts) \in Nat /\ Len(parts) > 0
      BY <3>1, Taken
    <3> QED
      BY <3>1, <3>2 DEF PartsInOrder
  <2>2. x \in SUBSET Models
    BY <2>1, Ranks, ElementOfSeq
  <2>3. Iso \in Rank /\ data \in [Rank -> [Dist -> Seq(SUBSET Models)]]
    BY Ranks DEF TypeOK
  <2>6. data' \in [Rank -> [Dist -> Seq(SUBSET Models)]]
    <3>1. CASE handed \in Dist
      <4>1. data[Iso] \in [Dist -> Seq(SUBSET Models)]
        BY <2>3
      <4>2. data[Iso][handed] \in Seq(SUBSET Models)
        BY <3>1, <4>1
      <4>3. data' = [data EXCEPT ![Iso] =
                       [data[Iso] EXCEPT ![handed] = Append(data[Iso][handed], x)]]
        BY <1>3, <3>1 DEF HandOut
      <4> HIDE DEF x
      <4>4. Append(data[Iso][handed], x) \in Seq(SUBSET Models)
        BY <2>2, <4>2, AppendProperties
      <4> QED
        BY <2>3, <3>1, <4>3, <4>4
    <3>2. CASE handed \notin Dist
      BY <1>3, <2>3, <3>2 DEF HandOut
    <3> QED
      BY <3>1, <3>2
  <2>7. handed' \in 0 .. N
    BY <1>3, <2>1, Ranks DEF HandOut
  <2>8. parts' \in Seq(SUBSET Models)
    BY <1>3, <2>1, EmptySeq DEF HandOut
  <2>9. phase' \in [Rank -> Phase]
    <3>1. \/ phase' = phase
          \/ \E p \in {"solving", "stuck"} : phase' = [phase EXCEPT ![Iso] = p]
      BY <1>3 DEF HandOut
    <3> QED
      BY <3>1 DEF TypeOK, Phase
  <2> QED
    BY <1>3, <2>6, <2>7, <2>8, <2>9
       DEF HandOut, TypeOK, LeaderSame, input, taskVars, leaderVars, TaskTypeOK
<1> QED
  BY <1>1, <1>2, <1>3 DEF IsoHandsOut

\* The last step of the leader.
LEMMA EndsType ==
  ASSUME TypeOK, NEW v \in {"sat", "unsat"} \union Undecided,
         NEW queues \in [Rank -> Seq(Message)], LeaderEnds(v, queues)
  PROVE  /\ l2c' \in [Rank -> Seq(Message)]
         /\ at' = "ended" /\ verdict' = v
         /\ UNCHANGED <<cstatus, assigned, idle, nextSplit>>
<1>1. ASSUME NEW c \in Rank
      PROVE  Append(queues[c], TerminateCoordinator) \in Seq(Message)
  BY MessageTypes, AppendProperties
<1> QED
  BY <1>1 DEF LeaderEnds

\* New tasks below old ones.
LEMMA SplitTasksType ==
  ASSUME TaskTypeOK, NEW ps \in Seq(0 .. (numTasks - 1)), numTasks + Len(ps) <= MaxTasks,
         SplitTasks(ps)
  PROVE  /\ numTasks' \in 0 .. MaxTasks
         /\ above' \in [Task -> SUBSET Task]
         /\ parent' \in [Task -> Task]
<1>1. numTasks \in Nat /\ Len(ps) \in Nat /\ MaxTasks \in Nat /\ numTasks <= MaxTasks
  BY Tasks, LenProperties DEF TaskTypeOK
<1>2. ASSUME NEW n \in Task, n \in numTasks .. (numTasks + Len(ps) - 1)
      PROVE  ps[n - numTasks + 1] \in Task
  <2>1. n - numTasks + 1 \in 1 .. Len(ps)
    BY <1>1, <1>2
  <2>2. ps[n - numTasks + 1] \in 0 .. (numTasks - 1)
    BY <2>1, ElementOfSeq
  <2> QED
    BY <1>1, <2>2 DEF Task
<1>3. numTasks' = numTasks + Len(ps)
  BY DEF SplitTasks
<1>4. parent' \in [Task -> Task]
  BY <1>2 DEF SplitTasks, TaskTypeOK
<1>5. above' \in [Task -> SUBSET Task]
  BY <1>2 DEF SplitTasks, TaskTypeOK
<1> QED
  BY <1>1, <1>3, <1>4, <1>5

\* Verdicts and results.
LEMMA PartialType ==
  ASSUME TaskTypeOK, NEW n \in Task, NEW r \in {"sat", "unsat"}, PartialSolved(n, r)
  PROVE  /\ partial' \in [Task -> Answer] /\ whole' \in [Task -> Answer]
         /\ decision' \in Answer
BY DEF PartialSolved, TaskTypeOK, Answer

\* What the leader's handlers leave alone.
LEMMA LeaderFrame ==
  ASSUME TypeOK, CoordSame,
         TaskTypeOK', at' \in {"init", "loop", "ended"},
         verdict' \in {"none", "sat", "unsat"} \union Undecided,
         cstatus' \in [Dist -> {"idle", "solving", "splitting"}],
         assigned' \in [Dist -> Task \union {NoTask}],
         idle' \in Seq(Dist), nextSplit' \in Dist,
         l2c' \in [Rank -> Seq(Message)], c2l' \in [Rank -> Seq(Report)]
  PROVE  TypeOK'
BY DEF TypeOK, CoordSame, input, coordVars

\* The messages that end the run keep the types.
LEMMA EndingType ==
  ASSUME TypeOK, CoordSame, TaskTypeOK', c2l' \in [Rank -> Seq(Report)],
         NEW v \in {"sat", "unsat"} \union Undecided,
         NEW queues \in [Rank -> Seq(Message)], LeaderEnds(v, queues)
  PROVE  TypeOK'
<1>1. /\ l2c' \in [Rank -> Seq(Message)]
      /\ at' = "ended" /\ verdict' = v
      /\ UNCHANGED <<cstatus, assigned, idle, nextSplit>>
  BY EndsType
<1>2. /\ cstatus \in [Dist -> {"idle", "solving", "splitting"}]
      /\ assigned \in [Dist -> Task \union {NoTask}]
      /\ idle \in Seq(Dist) /\ nextSplit \in Dist
  BY DEF TypeOK
<1> QED
  BY <1>1, <1>2, LeaderFrame

\* A report of a failure keeps the types.
LEMMA FailureType ==
  ASSUME TypeOK, (\E c \in Rank : GetFailure(c)) \/ LeaderTimeout
  PROVE  TypeOK'
<1>1. {"timeout", "memoryout", "Coordinator-Error"} \subseteq Undecided
  BY DEF Undecided
<1>2. l2c \in [Rank -> Seq(Message)] /\ c2l \in [Rank -> Seq(Report)] /\ TaskTypeOK
  BY DEF TypeOK
<1>3. ASSUME NEW c \in Rank, GetFailure(c)
      PROVE  TypeOK'
  <2>1. TaskTypeOK' /\ CoordSame
    BY <1>2, <1>3 DEF GetFailure, taskVars, TaskTypeOK
  <2>2. c2l' \in [Rank -> Seq(Report)]
    BY <1>3, HeardFacts DEF GetFailure
  <2> QED
    BY <1>1, <1>2, <1>3, <2>1, <2>2, EndingType DEF GetFailure
<1>4. CASE LeaderTimeout
  <2>1. TaskTypeOK' /\ CoordSame
    BY <1>2, <1>4 DEF LeaderTimeout, taskVars, TaskTypeOK
  <2> QED
    BY <1>1, <1>2, <1>4, <2>1, EndingType DEF LeaderTimeout
<1> QED
  BY <1>3, <1>4

\* A result keeps the types.
LEMMA ResultType ==
  ASSUME TypeOK, NEW c \in Rank, GetResult(c)
  PROVE  TypeOK'
<1>1. /\ l2c \in [Rank -> Seq(Message)] /\ TaskTypeOK /\ c \in Dist
      /\ CoordSame /\ UNCHANGED <<numTasks, above, parent>>
  BY DEF TypeOK, GetResult
<1>2. /\ c2l' \in [Rank -> Seq(Report)]
      /\ Head(c2l[c]).value \in {"sat", "unsat"}
  BY HeardFacts, MessageFields DEF GetResult
<1>3. CASE ResultExpected(c)
  <2>1. PartialSolved(assigned[c], Head(c2l[c]).value) /\ assigned[c] \in Task
    BY <1>1, <1>3 DEF GetResult, ResultExpected, TypeOK
  <2>2. TaskTypeOK' /\ decision' \in Answer
    BY <1>1, <1>2, <2>1, PartialType DEF TaskTypeOK
  <2>3. CASE decision' # "unsolved"
    <3>1. LeaderEnds(decision', l2c) /\ decision' \in {"sat", "unsat"}
      BY <1>3, <2>2, <2>3 DEF GetResult, Answer
    <3> QED
      BY <1>1, <1>2, <2>2, <3>1, EndingType
  <2>4. CASE decision' = "unsolved"
    <3>1. SetCoordinatorIdle(c) /\ UNCHANGED <<at, verdict, nextSplit, l2c>>
      BY <1>3, <2>4 DEF GetResult
    <3>2. idle' \in Seq(Dist)
      BY <1>1, <3>1, AppendProperties DEF SetCoordinatorIdle, TypeOK
    <3>3. /\ cstatus' \in [Dist -> {"idle", "solving", "splitting"}]
          /\ assigned' \in [Dist -> Task \union {NoTask}]
      BY <1>1, <3>1 DEF SetCoordinatorIdle, TypeOK
    <3> QED
      BY <1>1, <1>2, <2>2, <3>1, <3>2, <3>3, LeaderFrame DEF TypeOK
  <2> QED
    BY <2>3, <2>4
<1>4. CASE ~ResultExpected(c)
  <2>1. TaskTypeOK' /\ LeaderEnds("Leader-Error", l2c)
    BY <1>1, <1>4 DEF GetResult, TaskTypeOK
  <2> QED
    BY <1>1, <1>2, <2>1, EndingType DEF Undecided
<1> QED
  BY <1>3, <1>4

\* The answer of the isolated coordinator keeps the types.
LEMMA IsoResultType ==
  ASSUME TypeOK, GetIsoResult
  PROVE  TypeOK'
<1>1. /\ l2c \in [Rank -> Seq(Message)] /\ TaskTypeOK /\ Heard(Iso, "result")
      /\ CoordSame /\ UNCHANGED <<numTasks, above, parent>>
  BY DEF TypeOK, GetIsoResult
<1>2. /\ c2l' \in [Rank -> Seq(Report)]
      /\ Head(c2l[Iso]).value \in {"sat", "unsat"}
  BY <1>1, HeardFacts, MessageFields, Ranks
<1>3. TaskTypeOK' /\ decision' \in {"sat", "unsat"} /\ LeaderEnds(decision', l2c)
  BY <1>1, <1>2, Tasks DEF GetIsoResult, OriginalSolved, TaskTypeOK, Answer
<1> QED
  BY <1>1, <1>2, <1>3, EndingType

-----------------------------------------------------------------------------
(* What the handlers of the leader do, given the invariant.                *)

\* The head of a queue is in it.
LEMMA HeadSent ==
  ASSUME TypeOK, NEW c \in Rank
  PROVE  /\ l2c[c] # <<>> => /\ Sent(l2c, c, Head(l2c[c]).type)
                             /\ Contains(l2c[c], Head(l2c[c]))
         /\ c2l[c] # <<>> => /\ Sent(c2l, c, Head(c2l[c]).type)
                             /\ Reported(c, Head(c2l[c]))
<1>1. l2c[c] \in Seq(Message) /\ c2l[c] \in Seq(Report)
  BY DEF TypeOK
<1>2. ASSUME l2c[c] # <<>>
      PROVE  1 \in 1 .. Len(l2c[c]) /\ Head(l2c[c]) = l2c[c][1]
  BY <1>1, <1>2, Taken
<1>3. ASSUME c2l[c] # <<>>
      PROVE  1 \in 1 .. Len(c2l[c]) /\ Head(c2l[c]) = c2l[c][1]
  BY <1>1, <1>3, Taken
<1> QED
  BY <1>2, <1>3 DEF Sent, Contains, Reported

\* There are finitely many targets of requests.
LEMMA TargetsFinite ==
  ASSUME TypeOK
  PROVE  /\ IsFiniteSet(RequestTargets) /\ Cardinality(RequestTargets) \in Nat
         /\ RequestTargets # {} => Cardinality(RequestTargets) > 0
<1>1. IsFiniteSet(Dist)
  BY Ranks, FS_Interval DEF Dist
<1>2. IsFiniteSet(RequestTargets)
  BY <1>1, FS_Subset DEF RequestTargets
<1> QED
  BY <1>2, FS_CardinalityType, FS_EmptySet

\* The target of a split is idle, and there is a task for it.
LEMMA SucceedFacts ==
  ASSUME DInv, NEW c \in Rank, GetSplitSucceed(c)
  PROVE  LET t == Head(c2l[c]).rank
         IN  /\ c \in Dist /\ t \in Dist /\ t # c /\ at = "loop"
             /\ Requested(c, t) /\ Sent(c2l, c, "split_succeed")
             /\ SplitExpected(c, t)
             /\ t \in RequestTargets
             /\ assigned[c] \in 0 .. (numTasks - 1)
             /\ numTasks \in Task /\ numTasks < MaxTasks
             /\ l2c' = SplitMessages(c, t)
             /\ SplitTasks(<<assigned[c]>>)
             /\ assigned' = [assigned EXCEPT ![t] = numTasks]
             /\ cstatus' = [cstatus EXCEPT ![t] = "solving", ![c] = "solving"]
             /\ UNCHANGED <<at, verdict, idle, nextSplit>>
<1> DEFINE t == Head(c2l[c]).rank
<1>1. TypeOK /\ at # "ended" /\ Heard(c, "split_succeed") /\ c2l[c] # <<>>
  BY HeardFacts DEF DInv, GetSplitSucceed, Heard, Pending
<1>2. /\ Head(c2l[c]) \in Report /\ Head(c2l[c]).type = "split_succeed"
      /\ t \in Dist /\ Head(c2l[c]) = SplitSucceed(t)
  BY <1>1, HeardFacts, MessageFields
<1>3. Requested(c, t) /\ Sent(c2l, c, "split_succeed")
  BY <1>1, <1>2, HeadSent DEF Requested
<1>4. c \in Dist
  <2>1. ~Sent(c2l, Iso, "split_succeed")
    BY <1>1 DEF DInv, IsoInStep, Answering, Sent
  <2> QED
    BY <1>3, <2>1, Ranks
<1>5. at = "loop"
  BY <1>1, <1>4, Ranks DEF Heard
<1>6. /\ cstatus[c] = "splitting" /\ assigned[c] # NoTask
      /\ cstatus[t] = "idle" /\ ~Contains(idle, t)
  <2>1. InStep(c) /\ TargetsApart
    BY <1>1, <1>4 DEF DInv
  <2> QED
    BY <1>2, <1>3, <1>4, <2>1 DEF InStep, TargetsApart
<1>7. SplitExpected(c, t) /\ t \in RequestTargets
  BY <1>2, <1>6 DEF SplitExpected, RequestTargets
<1>8. assigned[c] \in 0 .. (numTasks - 1)
  <2>1. assigned[c] \in {assigned[d] : d \in Dist} \ {NoTask}
    BY <1>4, <1>6
  <2> QED
    BY <1>5, <2>1 DEF DInv, OpenTasks
<1>9. numTasks \in Task /\ numTasks < MaxTasks
  <2>1. numTasks + Cardinality(RequestTargets) <= MaxTasks
    BY <1>5 DEF DInv, RequestsBounded
  <2>2. numTasks \in Nat
    BY <1>1, Tasks DEF TypeOK, TaskTypeOK
  <2> QED
    BY <1>1, <1>7, <2>1, <2>2, TargetsFinite, Tasks DEF Task
<1> HIDE DEF t
<1>10. /\ l2c' = SplitMessages(c, t)
       /\ SplitTasks(<<assigned[c]>>)
       /\ assigned' = [assigned EXCEPT ![t] = numTasks]
       /\ cstatus' = [cstatus EXCEPT ![t] = "solving", ![c] = "solving"]
       /\ UNCHANGED <<at, verdict, idle, nextSplit>>
  BY <1>7 DEF GetSplitSucceed, t
<1> QED
  BY <1>2, <1>3, <1>4, <1>5, <1>6, <1>7, <1>8, <1>9, <1>10 DEF t

\* The messages of a split.
LEMMA SplitMessagesFacts ==
  ASSUME TypeOK, NEW c \in Dist, NEW t \in Dist, t # c, l2c' = SplitMessages(c, t)
  PROVE  /\ l2c' \in [Rank -> Seq(Message)]
         /\ l2c'[c] = Append(l2c[c], TransferNode(t))
         /\ l2c'[t] = Append(l2c[t], AssignNode(c))
         /\ \A d \in Rank : d \notin {c, t} => l2c'[d] = l2c[d]
<1>1. l2c \in [Rank -> Seq(Message)] /\ c \in Rank /\ t \in Rank
  BY Ranks DEF TypeOK
<1>2. /\ Append(l2c[c], TransferNode(t)) \in Seq(Message)
      /\ Append(l2c[t], AssignNode(c)) \in Seq(Message)
  BY <1>1, MessageTypes, AppendProperties
<1> QED
  BY <1>1, <1>2 DEF SplitMessages

\* A split that is reported keeps the types.
LEMMA SucceedType ==
  ASSUME DInv, NEW c \in Rank, GetSplitSucceed(c)
  PROVE  TypeOK'
<1> DEFINE t == Head(c2l[c]).rank
<1>1. TypeOK /\ Heard(c, "split_succeed") /\ CoordSame
  BY DEF DInv, GetSplitSucceed
<1>2. c2l' \in [Rank -> Seq(Report)]
  BY <1>1, HeardFacts
<1>3. /\ c \in Dist /\ t \in Dist /\ t # c
      /\ assigned[c] \in 0 .. (numTasks - 1)
      /\ numTasks \in Task /\ numTasks < MaxTasks
      /\ l2c' = SplitMessages(c, t)
      /\ SplitTasks(<<assigned[c]>>)
      /\ assigned' = [assigned EXCEPT ![t] = numTasks]
      /\ cstatus' = [cstatus EXCEPT ![t] = "solving", ![c] = "solving"]
      /\ UNCHANGED <<at, verdict, idle, nextSplit>>
  BY SucceedFacts
<1>4. UNCHANGED <<partial, whole, decision>>
  BY DEF GetSplitSucceed
<1> HIDE DEF t
<1>5. TaskTypeOK'
  <2>1. <<assigned[c]>> \in Seq(0 .. (numTasks - 1)) /\ Len(<<assigned[c]>>) = 1
    BY <1>3
  <2>2. numTasks + Len(<<assigned[c]>>) <= MaxTasks
    BY <1>3, <2>1, Tasks
  <2>3. TaskTypeOK
    BY <1>1 DEF TypeOK
  <2> QED
    BY <1>3, <1>4, <2>1, <2>2, <2>3, SplitTasksType DEF TaskTypeOK
<1>6. l2c' \in [Rank -> Seq(Message)]
  BY <1>1, <1>3, SplitMessagesFacts
<1>7. /\ cstatus' \in [Dist -> {"idle", "solving", "splitting"}]
      /\ assigned' \in [Dist -> Task \union {NoTask}]
  BY <1>1, <1>3 DEF TypeOK
<1>8. idle \in Seq(Dist) /\ nextSplit \in Dist /\ at \in {"init", "loop", "ended"}
      /\ verdict \in {"none", "sat", "unsat"} \union Undecided
  BY <1>1 DEF TypeOK
<1> QED
  BY <1>1, <1>2, <1>3, <1>5, <1>6, <1>7, <1>8, LeaderFrame

\* The first tasks.
LEMMA FirstFacts ==
  ASSUME DInv, GetPrePartition
  PROVE  /\ at = "init" /\ phase[Iso] = "waiting" /\ NothingYet
         /\ First \in 1 .. N /\ First <= Len(parts) /\ Len(parts) \in Nat
         /\ c2l' \in [Rank -> Seq(Report)] /\ Len(c2l'[Iso]) = 0
         /\ \A c \in Dist : c2l'[c] = c2l[c]
         /\ SplitTasks([i \in 1 .. First |-> RootTask])
         /\ cstatus' = [c \in Dist |-> IF c < First THEN "solving" ELSE "idle"]
         /\ assigned' = [c \in Dist |-> IF c < First THEN c + 1 ELSE NoTask]
         /\ idle' = [i \in 1 .. (N - First) |-> First + i - 1]
         /\ l2c' = [c \in Rank |-> IF c < First \/ c = Iso
                                   THEN Append(l2c[c], AssignNode(Iso))
                                   ELSE l2c[c]]
<1>1. TypeOK /\ Heard(Iso, "pre_partition_done") /\ c2l[Iso] # <<>>
      /\ PartsInOrder /\ Iso \in Rank
  BY Ranks DEF DInv, GetPrePartition, Heard, Pending
<1>2. /\ Sent(c2l, Iso, "pre_partition_done")
      /\ c2l' \in [Rank -> Seq(Report)] /\ Lost(c2l, Iso)
      /\ Head(c2l[Iso]) \in Report /\ Head(c2l[Iso]).type = "pre_partition_done"
  BY <1>1, HeardFacts, HeadSent
<1>3. at = "init" /\ NothingYet
  BY <1>1, <1>2 DEF DInv, Heard, IsoInStep
<1>4. phase[Iso] = "waiting" /\ Len(c2l[Iso]) = 1 /\ Head(c2l[Iso]) = c2l[Iso][1]
  BY <1>2, <1>3 DEF NothingYet, Lost
<1>5. First \in 1 .. N /\ First <= Len(parts) /\ Len(parts) \in Nat
  <2>1. parts \in Seq(SUBSET Models) /\ parts # <<>> /\ Len(parts) <= N + 1
    BY <1>1, <1>4 DEF PartsInOrder, TypeOK
  <2> QED
    BY <2>1, Taken, Ranks DEF First, KnownTasks
<1>6. First = IF Head(c2l[Iso]).value = 0 THEN 1 ELSE KnownTasks(Head(c2l[Iso]).value)
  <2> DEFINE v == Head(c2l[Iso]).value
  <2>1. v \in {0, Len(parts)} /\ (v = 0 => Len(parts) = 1)
    BY <1>3, <1>4 DEF NothingYet
  <2> HIDE DEF v
  <2>2. CASE v = 0
    <3>1. Len(parts) = 1
      BY <2>1, <2>2
    <3>2. First = KnownTasks(1)
      BY <3>1 DEF First
    <3>3. KnownTasks(1) = 1
      BY Ranks DEF KnownTasks
    <3> QED
      BY <2>2, <3>2, <3>3 DEF v
  <2>3. CASE v # 0
    BY <2>1, <2>3 DEF First, v
  <2> QED
    BY <2>2, <2>3
<1>7. \A c \in Dist : c2l'[c] = c2l[c]
  BY <1>2, Ranks DEF Lost
<1>8. Len(c2l'[Iso]) = 0
  BY <1>2, <1>4 DEF Lost
<1> QED
  BY <1>2, <1>3, <1>4, <1>5, <1>6, <1>7, <1>8 DEF GetPrePartition

\* The messages that go with them.
LEMMA FirstMessages ==
  ASSUME DInv, GetPrePartition
  PROVE  /\ l2c' \in [Rank -> Seq(Message)]
         /\ \A c \in Dist : IF c < First THEN l2c'[c] = <<AssignNode(Iso)>>
                                              ELSE l2c'[c] = <<>>
         /\ l2c'[Iso] = <<AssignNode(Iso)>>
<1>1. /\ NothingYet /\ First \in 1 .. N
      /\ l2c' = [c \in Rank |-> IF c < First \/ c = Iso
                                THEN Append(l2c[c], AssignNode(Iso))
                                ELSE l2c[c]]
  BY FirstFacts
<1>2. \A c \in Rank : l2c[c] = <<>>
  BY <1>1, Ranks DEF NothingYet, Unused
<1>3. AssignNode(Iso) \in Message
  BY MessageTypes, Ranks
<1>4. Append(<<>>, AssignNode(Iso)) = <<AssignNode(Iso)>>
  OBVIOUS
<1>5. <<>> \in Seq(Message) /\ <<AssignNode(Iso)>> \in Seq(Message)
  BY <1>3
<1> QED
  BY <1>1, <1>2, <1>4, <1>5, Ranks

\* The first tasks keep the types.
LEMMA FirstType ==
  ASSUME DInv, GetPrePartition
  PROVE  TypeOK'
<1> DEFINE k == First
           ps == [i \in 1 .. k |-> RootTask]
<1>1. TypeOK /\ CoordSame /\ k \in 1 .. N /\ NothingYet
      /\ c2l' \in [Rank -> Seq(Report)] /\ l2c' \in [Rank -> Seq(Message)]
  BY FirstFacts, FirstMessages DEF DInv, GetPrePartition
<1>2. /\ at' = "loop" /\ partial' = [partial EXCEPT ![RootTask] = "unsat"]
      /\ UNCHANGED <<whole, decision, verdict, nextSplit>>
  BY DEF GetPrePartition
<1>3. /\ SplitTasks(ps)
      /\ cstatus' = [c \in Dist |-> IF c < k THEN "solving" ELSE "idle"]
      /\ assigned' = [c \in Dist |-> IF c < k THEN c + 1 ELSE NoTask]
      /\ idle' = [i \in 1 .. (N - k) |-> k + i - 1]
  BY FirstFacts
<1> HIDE DEF k
<1>4. k \in Nat /\ numTasks = 1 /\ k <= N /\ N < MaxTasks
  BY <1>1, Ranks, NAssumption DEF NothingYet
<1>5. TaskTypeOK'
  <2>1. ps \in Seq(0 .. (numTasks - 1)) /\ Len(ps) = k
    BY <1>4, SeqDef DEF RootTask
  <2> HIDE DEF ps
  <2>2. numTasks + Len(ps) <= MaxTasks
    BY <1>4, <2>1, Tasks, Ranks
  <2>3. TaskTypeOK
    BY <1>1 DEF TypeOK
  <2>4. partial' \in [Task -> Answer]
    BY <1>2, <2>3 DEF TaskTypeOK, Answer
  <2> QED
    BY <1>2, <1>3, <2>1, <2>2, <2>3, <2>4, SplitTasksType DEF TaskTypeOK
<1>6. cstatus' \in [Dist -> {"idle", "solving", "splitting"}]
  BY <1>3
<1>7. assigned' \in [Dist -> Task \union {NoTask}]
  <2>1. \A c \in Dist : c < k => c + 1 \in Task
    BY <1>4, Ranks, Tasks DEF Dist, Task
  <2> QED
    BY <1>3, <2>1
<1>8. idle' \in Seq(Dist)
  <2>1. N - k \in Nat /\ \A i \in 1 .. (N - k) : k + i - 1 \in Dist
    BY <1>4, Ranks DEF Dist
  <2>2. idle' \in [1 .. (N - k) -> Dist]
    BY <1>3, <2>1
  <2> QED
    BY <2>1, <2>2, SeqDef
<1>9. verdict \in {"none", "sat", "unsat"} \union Undecided /\ nextSplit \in Dist
  BY <1>1 DEF TypeOK
<1> QED
  BY <1>1, <1>2, <1>5, <1>6, <1>7, <1>8, <1>9, LeaderFrame

\* A refused request.
LEMMA FailedFacts ==
  ASSUME DInv, NEW c \in Rank, GetSplitFailed(c)
  PROVE  LET t == Head(c2l[c]).rank
         IN  /\ c \in Dist /\ t \in Dist /\ at = "loop"
             /\ Requested(c, t) /\ Sent(c2l, c, "split_failed")
             /\ t \in RequestTargets
             /\ c2l' \in [Rank -> Seq(Report)] /\ Lost(c2l, c)
             /\ Head(c2l[c]) = SplitFailed(t)
<1> DEFINE t == Head(c2l[c]).rank
<1>1. TypeOK /\ at # "ended" /\ Heard(c, "split_failed") /\ c2l[c] # <<>>
  BY HeardFacts DEF DInv, GetSplitFailed, Heard, Pending
<1>2. /\ Head(c2l[c]) \in Report /\ Head(c2l[c]).type = "split_failed"
      /\ t \in Dist /\ Head(c2l[c]) = SplitFailed(t)
      /\ c2l' \in [Rank -> Seq(Report)] /\ Lost(c2l, c)
  BY <1>1, HeardFacts, MessageFields
<1>3. Requested(c, t) /\ Sent(c2l, c, "split_failed")
  BY <1>1, <1>2, HeadSent DEF Requested
<1>4. c \in Dist
  <2>1. ~Sent(c2l, Iso, "split_failed")
    BY <1>1 DEF DInv, IsoInStep, Answering, Sent
  <2> QED
    BY <1>3, <2>1, Ranks
<1>5. cstatus[t] = "idle" /\ ~Contains(idle, t)
  BY <1>1, <1>2, <1>3, <1>4 DEF DInv, TargetsApart
<1> QED
  BY <1>1, <1>2, <1>3, <1>4, <1>5, Ranks DEF RequestTargets, Heard

\* A refused split keeps the types.
LEMMA FailedType ==
  ASSUME DInv, NEW c \in Rank, GetSplitFailed(c)
  PROVE  TypeOK'
<1> DEFINE t == Head(c2l[c]).rank
<1>1. TypeOK /\ CoordSame /\ t \in Dist /\ c \in Dist /\ c2l' \in [Rank -> Seq(Report)]
      /\ idle' = Append(idle, t)
      /\ cstatus' = [cstatus EXCEPT ![c] = IF @ = "splitting" THEN "solving" ELSE @]
      /\ UNCHANGED <<taskVars, at, verdict, assigned, nextSplit, l2c>>
  BY FailedFacts DEF DInv, GetSplitFailed, BackToIdle
<1> HIDE DEF t
<1>2. idle' \in Seq(Dist)
  BY <1>1, AppendProperties DEF TypeOK
<1>3. cstatus' \in [Dist -> {"idle", "solving", "splitting"}]
  BY <1>1 DEF TypeOK
<1> QED
  BY <1>1, <1>2, <1>3, LeaderFrame DEF TypeOK, taskVars, TaskTypeOK

\* The first idle coordinator, and the one that is asked for a task for it.
LEMMA AssignFacts ==
  ASSUME DInv, AssignIdle
  PROVE  /\ TypeOK /\ at = "loop" /\ idle \in Seq(Dist) /\ idle # <<>>
         /\ Head(idle) \in Dist /\ Tail(idle) \in Seq(Dist) /\ nextSplit \in Dist
         /\ nextSplit' \in Dist
         /\ Head(idle) = idle[1] /\ Len(idle) \in Nat /\ Len(idle) > 0
         /\ Len(Tail(idle)) = Len(idle) - 1
         /\ \A i \in 1 .. Len(idle) - 1 : Tail(idle)[i] = idle[i + 1]
         /\ cstatus[Head(idle)] = "idle"
<1>1. TypeOK /\ at = "loop" /\ idle # <<>> /\ idle \in Seq(Dist) /\ IdleApart
      /\ nextSplit \in Dist
  BY DEF DInv, AssignIdle, TypeOK
<1>2. nextSplit' \in Dist
  BY <1>1, Ranks DEF AssignIdle, NextRank, Dist
<1>3. /\ Head(idle) \in Dist /\ Tail(idle) \in Seq(Dist)
      /\ Head(idle) = idle[1] /\ Len(idle) \in Nat /\ Len(idle) > 0
      /\ Len(Tail(idle)) = Len(idle) - 1
      /\ \A i \in 1 .. Len(idle) - 1 : Tail(idle)[i] = idle[i + 1]
  BY <1>1, Taken
<1>4. cstatus[Head(idle)] = "idle"
  BY <1>1, <1>3 DEF IdleApart
<1> QED
  BY <1>1, <1>2, <1>3, <1>4

\* A request to split keeps the types.
LEMMA AssignType ==
  ASSUME DInv, AssignIdle
  PROVE  TypeOK'
<1>1. /\ TypeOK /\ CoordSame /\ UNCHANGED <<taskVars, at, verdict, assigned, c2l>>
      /\ Head(idle) \in Dist /\ Tail(idle) \in Seq(Dist) /\ nextSplit \in Dist
      /\ nextSplit' \in Dist
  BY AssignFacts DEF AssignIdle
<1>2. idle' \in Seq(Dist)
  BY <1>1, AppendProperties DEF AssignIdle
<1>3. cstatus' \in [Dist -> {"idle", "solving", "splitting"}]
  BY <1>1 DEF AssignIdle, TypeOK
<1>4. l2c' \in [Rank -> Seq(Message)]
  <2>1. RequestSplit(Head(idle)) \in Message /\ nextSplit \in Rank
    BY <1>1, MessageTypes, Ranks
  <2>2. CASE UNCHANGED l2c
    BY <1>1, <2>2 DEF TypeOK
  <2>3. CASE l2c' = [l2c EXCEPT ![nextSplit] = Append(@, RequestSplit(Head(idle)))]
    BY <1>1, <2>1, <2>3, SendsFacts
  <2> QED
    BY <2>2, <2>3 DEF AssignIdle
<1> QED
  BY <1>1, <1>2, <1>3, <1>4, LeaderFrame DEF TypeOK, taskVars, TaskTypeOK

\* Every step keeps the types.
LEMMA NextType ==
  ASSUME DInv, [Next]_vars
  PROVE  TypeOK'
<1>1. TypeOK /\ PartsInOrder
  BY DEF DInv
<1>2. CASE UNCHANGED vars
  BY <1>1, <1>2
     DEF vars, input, taskVars, leaderVars, coordVars, channels, TypeOK, TaskTypeOK
<1> QED
  BY <1>1, <1>2, ReactType, WorkType, IsoType, FailureType, ResultType, IsoResultType,
     SucceedType, FirstType, FailedType, AssignType
     DEF Next, LeaderHears, Stopped

-----------------------------------------------------------------------------
(* The isolated coordinator, and the phases.                               *)

\* The actions of the leader.
LeaderStep ==
  \/ \E c \in Rank : LeaderHears(c)
  \/ GetPrePartition \/ GetIsoResult \/ LeaderTimeout \/ AssignIdle

\* A step of the leader leaves the coordinators alone.
LEMMA LeaderStepFrame ==
  ASSUME LeaderStep
  PROVE  CoordSame
BY DEF LeaderStep, LeaderHears, GetSplitSucceed, GetSplitFailed, GetResult, GetFailure,
       GetPrePartition, GetIsoResult, LeaderTimeout, AssignIdle

\* A coordinator's own step does not touch another one.
LEMMA PhaseFrame ==
  ASSUME TypeOK, PhasesApart, NEW c \in Rank,
         \/ Reacts(c) \/ Solves(c)
         \/ \E report \in {NotifyMemoryOut, NotifyError} : Crash(c, report)
  PROVE  /\ \A d \in Rank : d # c => phase'[d] = phase[d]
         /\ UNCHANGED <<parts, handed>>
         /\ phase'[c] = phase[c] \/ phase'[c] \in {"idle", "receiving", "solving", "crashed", "ended"}
         /\ phase'[c] = "receiving" => c \in Dist
         /\ c \notin Dist /\ phase'[c] # phase[c] =>
              \/ phase[c] \in {"solving", "prepartition"} /\ phase'[c] = "idle"
              \/ phase'[c] \in {"crashed", "ended"}
<1>0. CASE UNCHANGED <<phase, parts, handed>> /\ (c \in Dist \/ phase[c] # "receiving")
  BY <1>0
<1>1. ASSUME SplitRefused(c) \/ Transfer(c) \/ DropMessage(c)
      PROVE  UNCHANGED <<phase, parts, handed>> /\ (c \in Dist \/ phase[c] # "receiving")
  BY <1>1 DEF SplitRefused, Transfer, DropMessage, coordVars, Looping
<1>2. ASSUME NEW s \in SUBSET Models, SplitGranted(c, s)
      PROVE  UNCHANGED <<phase, parts, handed>> /\ c \in Dist
  BY <1>2 DEF SplitGranted, Looping
<1>3. CASE SplitCrashes(c) \/ AcceptNode(c) \/ ReceiveNode(c)
  BY <1>3 DEF SplitCrashes, AcceptNode, ReceiveNode, Looping, TypeOK
<1>4. CASE Terminated(c)
  BY <1>4 DEF Terminated, TypeOK
<1>5. CASE Solves(c)
  BY <1>5 DEF Solves, SolveTask, Working, TypeOK
<1>6. ASSUME NEW report \in {NotifyMemoryOut, NotifyError}, Crash(c, report)
      PROVE  /\ phase' = [phase EXCEPT ![c] = "crashed"] /\ UNCHANGED <<parts, handed>>
             /\ c \in Dist \/ phase[c] # "receiving"
  BY <1>6, Ranks DEF Crash, Working, PhasesApart
<1>7. CASE \E report \in {NotifyMemoryOut, NotifyError} : Crash(c, report)
  BY <1>6, <1>7 DEF TypeOK
<1>8. CASE Reacts(c)
  BY <1>0, <1>1, <1>2, <1>3, <1>4, <1>8 DEF Reacts
<1> QED
  BY <1>5, <1>7, <1>8

\* Every step keeps the first tasks in order and the phases apart.
LEMMA NextParts ==
  ASSUME TypeOK, PartsInOrder, PhasesApart, [Next]_vars
  PROVE  PartsInOrder' /\ PhasesApart'
<1>1. /\ phase \in [Rank -> Phase] /\ Iso \in Rank /\ Iso \notin Dist /\ Dist \subseteq Rank
      /\ N \in Nat /\ N > 0
  BY Ranks DEF TypeOK
<1>2. CASE UNCHANGED <<phase, parts, handed>>
  BY <1>2 DEF PartsInOrder, PhasesApart
<1>3. CASE LeaderStep
  BY <1>2, <1>3, LeaderStepFrame DEF CoordSame, coordVars
<1>4. ASSUME NEW c \in Rank,
             \/ Reacts(c) \/ Solves(c)
             \/ \E report \in {NotifyMemoryOut, NotifyError} : Crash(c, report)
      PROVE  PartsInOrder' /\ PhasesApart'
  BY <1>1, <1>4, PhaseFrame DEF PartsInOrder, PhasesApart
<1>5. ASSUME NEW ps \in PrePartitionTasks, NEW k \in 0 .. N + 1, PrePartition(ps, k)
      PROVE  PartsInOrder' /\ PhasesApart'
  <2>1. Len(ps) \in 1 .. N + 1
    BY FoundTasks
  <2>2. /\ phase[Iso] = "prepartition" /\ phase' = [phase EXCEPT ![Iso] = "waiting"]
        /\ parts' = ps /\ handed' = handed
    BY <1>5 DEF PrePartition
  <2>3. ps # <<>>
    BY <2>1
  <2> QED
    BY <1>1, <2>1, <2>2, <2>3 DEF PartsInOrder, PhasesApart
<1>6. CASE StartHandingOut
  <2>1. /\ phase[Iso] = "waiting" /\ phase' = [phase EXCEPT ![Iso] = "handing"]
        /\ UNCHANGED <<parts, handed>>
    BY <1>6 DEF StartHandingOut
  <2>2. parts # <<>> /\ handed = 0 /\ Len(parts) \in Nat
    BY <2>1, LenProperties DEF PartsInOrder, TypeOK
  <2>3. Len(parts) > 0
    BY <2>2, EmptySeq DEF TypeOK
  <2> QED
    BY <1>1, <2>1, <2>2, <2>3 DEF PartsInOrder, PhasesApart
<1>7. CASE HandOut
  <2>1. phase[Iso] = "handing" /\ handed \in Nat /\ Len(parts) \in Nat
    BY <1>1, <1>7, LenProperties DEF HandOut, TypeOK
  <2>2. CASE handed + 1 < Len(parts)
    BY <1>1, <1>7, <2>1, <2>2 DEF HandOut, PartsInOrder, PhasesApart
  <2>3. CASE ~(handed + 1 < Len(parts))
    <3>1. /\ handed' = 0 /\ parts' = <<>>
          /\ \E p \in {"solving", "stuck"} : phase' = [phase EXCEPT ![Iso] = p]
      BY <1>7, <2>3 DEF HandOut
    <3> QED
      BY <1>1, <2>1, <3>1 DEF PartsInOrder, PhasesApart
  <2> QED
    BY <2>2, <2>3
<1> QED
  BY <1>2, <1>3, <1>4, <1>5, <1>6, <1>7
     DEF Next, LeaderStep, IsoHandsOut, Stopped, vars, coordVars

-----------------------------------------------------------------------------
(* What a step does to the messages under way.                             *)

\* After l2c[c] has lost its head.
LEMMA DownLost ==
  ASSUME NEW c \in Rank, Lost(l2c, c)
  PROVE  /\ \A type : Sent(l2c', c, type) => Sent(l2c, c, type)
         /\ \A type : Sent(l2c, c, type) => \/ Sent(l2c', c, type)
                                            \/ Head(l2c[c]).type = type
         /\ \A m : Contains(l2c'[c], m) => Contains(l2c[c], m)
         /\ \A m : Contains(l2c[c], m) => Contains(l2c'[c], m) \/ Head(l2c[c]) = m
         /\ \A d \in Rank : d # c => l2c'[d] = l2c[d]
<1>1. /\ Len(l2c[c]) \in Nat /\ Len(l2c[c]) > 0 /\ Head(l2c[c]) = l2c[c][1]
      /\ Len(l2c'[c]) = Len(l2c[c]) - 1
      /\ \A i \in 1 .. Len(l2c[c]) - 1 : l2c'[c][i] = l2c[c][i + 1]
      /\ \A d \in Rank : d # c => l2c'[d] = l2c[d]
  BY DEF Lost
<1>2. \A i \in 1 .. Len(l2c'[c]) : l2c'[c][i] = l2c[c][i + 1] /\ i + 1 \in 1 .. Len(l2c[c])
  BY <1>1
<1>3. \A i \in 1 .. Len(l2c[c]) :
        i = 1 \/ (i - 1 \in 1 .. Len(l2c'[c]) /\ l2c'[c][i - 1] = l2c[c][i])
  BY <1>1
<1>4. ASSUME NEW type, Sent(l2c', c, type)
      PROVE  Sent(l2c, c, type)
  BY <1>2, <1>4 DEF Sent
<1>5. ASSUME NEW type, Sent(l2c, c, type), Head(l2c[c]).type # type
      PROVE  Sent(l2c', c, type)
  <2>1. PICK i \in 1 .. Len(l2c[c]) : l2c[c][i].type = type
    BY <1>5 DEF Sent
  <2>2. i # 1
    BY <1>1, <1>5, <2>1
  <2>3. i - 1 \in 1 .. Len(l2c'[c]) /\ l2c'[c][i - 1] = l2c[c][i]
    BY <1>3, <2>2
  <2> QED
    BY <2>1, <2>3 DEF Sent
<1>6. ASSUME NEW m, Contains(l2c'[c], m)
      PROVE  Contains(l2c[c], m)
  BY <1>2, <1>6 DEF Contains
<1>7. ASSUME NEW m, Contains(l2c[c], m), Head(l2c[c]) # m
      PROVE  Contains(l2c'[c], m)
  <2>1. PICK i \in 1 .. Len(l2c[c]) : l2c[c][i] = m
    BY <1>7 DEF Contains
  <2>2. i # 1
    BY <1>1, <1>7, <2>1
  <2>3. i - 1 \in 1 .. Len(l2c'[c]) /\ l2c'[c][i - 1] = l2c[c][i]
    BY <1>3, <2>2
  <2> QED
    BY <2>1, <2>3 DEF Contains
<1> QED
  BY <1>1, <1>4, <1>5, <1>6, <1>7

\* What a queue of reports keeps when its head is taken.
LEMMA UpLost ==
  ASSUME NEW c \in Rank, Lost(c2l, c)
  PROVE  /\ \A type : Sent(c2l', c, type) => Sent(c2l, c, type)
         /\ \A type : Sent(c2l, c, type) => \/ Sent(c2l', c, type)
                                            \/ Head(c2l[c]).type = type
         /\ \A m : Reported(c, m)' => Reported(c, m)
         /\ \A m : Reported(c, m) => Reported(c, m)' \/ Head(c2l[c]) = m
         /\ \A d \in Rank : d # c => c2l'[d] = c2l[d]
<1>1. /\ Len(c2l[c]) \in Nat /\ Len(c2l[c]) > 0 /\ Head(c2l[c]) = c2l[c][1]
      /\ Len(c2l'[c]) = Len(c2l[c]) - 1
      /\ \A i \in 1 .. Len(c2l[c]) - 1 : c2l'[c][i] = c2l[c][i + 1]
      /\ \A d \in Rank : d # c => c2l'[d] = c2l[d]
  BY DEF Lost
<1>2. \A i \in 1 .. Len(c2l'[c]) : c2l'[c][i] = c2l[c][i + 1] /\ i + 1 \in 1 .. Len(c2l[c])
  BY <1>1
<1>3. \A i \in 1 .. Len(c2l[c]) :
        i = 1 \/ (i - 1 \in 1 .. Len(c2l'[c]) /\ c2l'[c][i - 1] = c2l[c][i])
  BY <1>1
<1>4. ASSUME NEW type, Sent(c2l', c, type)
      PROVE  Sent(c2l, c, type)
  BY <1>2, <1>4 DEF Sent
<1>5. ASSUME NEW type, Sent(c2l, c, type), Head(c2l[c]).type # type
      PROVE  Sent(c2l', c, type)
  <2>1. PICK i \in 1 .. Len(c2l[c]) : c2l[c][i].type = type
    BY <1>5 DEF Sent
  <2>2. i # 1
    BY <1>1, <1>5, <2>1
  <2>3. i - 1 \in 1 .. Len(c2l'[c]) /\ c2l'[c][i - 1] = c2l[c][i]
    BY <1>3, <2>2
  <2> QED
    BY <2>1, <2>3 DEF Sent
<1>6. ASSUME NEW m, Reported(c, m)'
      PROVE  Reported(c, m)
  BY <1>2, <1>6 DEF Contains, Reported
<1>7. ASSUME NEW m, Reported(c, m), Head(c2l[c]) # m
      PROVE  Reported(c, m)'
  <2>1. PICK i \in 1 .. Len(c2l[c]) : c2l[c][i] = m
    BY <1>7 DEF Contains, Reported
  <2>2. i # 1
    BY <1>1, <1>7, <2>1
  <2>3. i - 1 \in 1 .. Len(c2l'[c]) /\ c2l'[c][i - 1] = c2l[c][i]
    BY <1>3, <2>2
  <2> QED
    BY <2>1, <2>3 DEF Contains, Reported
<1> QED
  BY <1>1, <1>4, <1>5, <1>6, <1>7

\* After a queue has got m.
LEMMA DownGot ==
  ASSUME NEW c \in Rank, NEW m, Got(l2c, c, m)
  PROVE  /\ \A type : Sent(l2c', c, type) <=> Sent(l2c, c, type) \/ m.type = type
         /\ \A x : Contains(l2c'[c], x) <=> Contains(l2c[c], x) \/ x = m
         /\ \A d \in Rank : d # c => l2c'[d] = l2c[d]
<1>1. /\ Len(l2c[c]) \in Nat /\ Len(l2c'[c]) = Len(l2c[c]) + 1
      /\ \A i \in 1 .. Len(l2c[c]) : l2c'[c][i] = l2c[c][i]
      /\ l2c'[c][Len(l2c[c]) + 1] = m
      /\ \A d \in Rank : d # c => l2c'[d] = l2c[d]
  BY DEF Got
<1>2. 1 .. Len(l2c'[c]) = (1 .. Len(l2c[c])) \union {Len(l2c[c]) + 1}
  BY <1>1
<1> QED
  BY <1>1, <1>2 DEF Sent, Contains

\* What a queue of reports keeps when a report is added.
LEMMA UpGot ==
  ASSUME NEW c \in Rank, NEW m, Got(c2l, c, m)
  PROVE  /\ \A type : Sent(c2l', c, type) <=> Sent(c2l, c, type) \/ m.type = type
         /\ \A x : Reported(c, x)' <=> Reported(c, x) \/ x = m
         /\ \A d \in Rank : d # c => c2l'[d] = c2l[d]
<1>1. /\ Len(c2l[c]) \in Nat /\ Len(c2l'[c]) = Len(c2l[c]) + 1
      /\ \A i \in 1 .. Len(c2l[c]) : c2l'[c][i] = c2l[c][i]
      /\ c2l'[c][Len(c2l[c]) + 1] = m
      /\ \A d \in Rank : d # c => c2l'[d] = c2l[d]
  BY DEF Got
<1>2. 1 .. Len(c2l'[c]) = (1 .. Len(c2l[c])) \union {Len(c2l[c]) + 1}
  BY <1>1
<1> QED
  BY <1>1, <1>2 DEF Sent, Contains, Reported

\* Nothing has changed for c.
Still(c) == l2c'[c] = l2c[c] /\ c2l'[c] = c2l[c]

Talk(c) == OneSplit(c) /\ InOrder(c) /\ InStep(c)

\* What is known of a coordinator whose queues only got shorter.
LEMMA TalkFrame ==
  ASSUME NEW c \in Dist, Still(c), phase'[c] = phase[c], cstatus'[c] = cstatus[c],
         assigned'[c] = assigned[c], Talk(c)
  PROVE  Talk(c)'
BY DEF Talk, Still, OneSplit, InOrder, InStep, Sent

\* A message of the leader has been taken, and is not answered yet.
LEMMA OrderTaken ==
  ASSUME NEW c \in Rank, Lost(l2c, c), c2l'[c] = c2l[c], OneSplit(c), InOrder(c)
  PROVE  OneSplit(c)' /\ InOrder(c)'
<1>1. /\ Len(l2c[c]) \in Nat /\ Len(l2c[c]) > 0
      /\ Len(l2c'[c]) = Len(l2c[c]) - 1
      /\ \A i \in 1 .. Len(l2c[c]) - 1 : l2c'[c][i] = l2c[c][i + 1]
  BY DEF Lost
<1>2. \A i \in 1 .. Len(l2c'[c]) :
        /\ i \in Nat /\ l2c'[c][i] = l2c[c][i + 1] /\ i + 1 \in 1 .. Len(l2c[c])
  BY <1>1
<1>3. OneSplit(c)'
  <2>1. ASSUME NEW i \in 1 .. Len(l2c'[c]), NEW j \in 1 .. Len(l2c'[c]),
               Asking(l2c'[c][i]), Asking(l2c'[c][j])
        PROVE  i = j
    <3>1. i + 1 = j + 1
      BY <1>2, <2>1 DEF OneSplit
    <3> QED
      BY <1>2, <3>1
  <2>2. ASSUME NEW i \in 1 .. Len(l2c'[c]), NEW j \in 1 .. Len(c2l'[c])
        PROVE  ~(Asking(l2c'[c][i]) /\ Answering(c2l'[c][j]))
    BY <1>2 DEF OneSplit
  <2> QED
    BY <2>1, <2>2 DEF OneSplit
<1>4. InOrder(c)'
  <2>1. ASSUME NEW i \in 1 .. Len(l2c'[c]), l2c'[c][i].type = "assign_node"
        PROVE  i = Len(l2c'[c])
    <3>1. i + 1 = Len(l2c[c])
      BY <1>2, <2>1 DEF InOrder
    <3> QED
      BY <1>1, <1>2, <3>1
  <2> QED
    BY <2>1 DEF InOrder
<1> QED
  BY <1>3, <1>4

\* A report of c has been taken.
LEMMA OrderHeard ==
  ASSUME NEW c \in Rank, Lost(c2l, c), l2c'[c] = l2c[c], OneSplit(c), InOrder(c)
  PROVE  OneSplit(c)' /\ InOrder(c)'
<1>1. /\ Len(c2l[c]) \in Nat /\ Len(c2l[c]) > 0
      /\ Len(c2l'[c]) = Len(c2l[c]) - 1
      /\ \A i \in 1 .. Len(c2l[c]) - 1 : c2l'[c][i] = c2l[c][i + 1]
  BY DEF Lost
<1>2. \A i \in 1 .. Len(c2l'[c]) :
        /\ i \in Nat /\ c2l'[c][i] = c2l[c][i + 1] /\ i + 1 \in 1 .. Len(c2l[c])
  BY <1>1
<1>3. OneSplit(c)'
  <2>1. ASSUME NEW i \in 1 .. Len(c2l'[c]), NEW j \in 1 .. Len(c2l'[c]),
               Answering(c2l'[c][i]), Answering(c2l'[c][j])
        PROVE  i = j
    <3>1. i + 1 = j + 1
      BY <1>2, <2>1 DEF OneSplit
    <3> QED
      BY <1>2, <3>1
  <2>2. ASSUME NEW i \in 1 .. Len(l2c'[c]), NEW j \in 1 .. Len(c2l'[c])
        PROVE  ~(Asking(l2c'[c][i]) /\ Answering(c2l'[c][j]))
    BY <1>2 DEF OneSplit
  <2> QED
    BY <2>1, <2>2 DEF OneSplit
<1>4. InOrder(c)'
  <2> SUFFICES ASSUME NEW i \in 1 .. Len(c2l'[c]), NEW j \in 1 .. Len(c2l'[c]),
                      c2l'[c][i].type = "result", i # j
               PROVE  /\ Answering(c2l'[c][j]) \/ Failing(c2l'[c][j])
                      /\ i < j => c2l'[c][j].type # "split_succeed"
    BY DEF InOrder
  <2>1. PICK k \in 1 .. Len(c2l[c]), l \in 1 .. Len(c2l[c]) : k = i + 1 /\ l = j + 1
    BY <1>2
  <2>2. /\ c2l'[c][i] = c2l[c][k] /\ c2l'[c][j] = c2l[c][l]
        /\ k # l /\ (i < j => k < l)
    <3>1. c2l'[c][i] = c2l[c][k] /\ i \in Nat
      BY <1>2, <2>1
    <3>2. c2l'[c][j] = c2l[c][l] /\ j \in Nat
      BY <1>2, <2>1
    <3> QED
      BY <2>1, <3>1, <3>2
  <2>3. c2l[c][k].type = "result"
    BY <2>2
  <2>4. /\ Answering(c2l[c][l]) \/ Failing(c2l[c][l])
        /\ k < l => c2l[c][l].type # "split_succeed"
    BY <2>2, <2>3 DEF InOrder
  <2> QED
    BY <2>2, <2>4
<1> QED
  BY <1>3, <1>4

\* c has answered the request at the head of its queue.
LEMMA OrderAnswered ==
  ASSUME NEW c \in Rank, Lost(l2c, c), Asking(Head(l2c[c])), NEW m, Got(c2l, c, m),
         Answering(m), m.type = "split_succeed" => ~Sent(c2l, c, "result"),
         OneSplit(c), InOrder(c)
  PROVE  /\ OneSplit(c)' /\ InOrder(c)'
         /\ ~Sent(l2c', c, "request_split") /\ ~Sent(l2c', c, "transfer_node")
<1>1. /\ Len(l2c[c]) \in Nat /\ Len(l2c[c]) > 0 /\ Head(l2c[c]) = l2c[c][1]
      /\ Len(l2c'[c]) = Len(l2c[c]) - 1
      /\ \A i \in 1 .. Len(l2c[c]) - 1 : l2c'[c][i] = l2c[c][i + 1]
  BY DEF Lost
<1>2. \A i \in 1 .. Len(l2c'[c]) :
        /\ i \in Nat /\ l2c'[c][i] = l2c[c][i + 1] /\ i + 1 \in 1 .. Len(l2c[c]) /\ i + 1 # 1
  BY <1>1
<1>3. 1 \in 1 .. Len(l2c[c])
  BY <1>1
<1>4. \A i \in 1 .. Len(l2c'[c]) : ~Asking(l2c'[c][i])
  BY <1>1, <1>2, <1>3 DEF OneSplit
<1>5. \A j \in 1 .. Len(c2l[c]) : ~Answering(c2l[c][j])
  BY <1>1, <1>3 DEF OneSplit
<1>6. /\ Len(c2l[c]) \in Nat /\ Len(c2l'[c]) = Len(c2l[c]) + 1
      /\ \A i \in 1 .. Len(c2l[c]) : c2l'[c][i] = c2l[c][i]
      /\ c2l'[c][Len(c2l[c]) + 1] = m
      /\ 1 .. Len(c2l'[c]) = (1 .. Len(c2l[c])) \union {Len(c2l[c]) + 1}
  BY DEF Got
<1>7. OneSplit(c)'
  BY <1>4, <1>5, <1>6 DEF OneSplit
<1>8. \A i \in 1 .. Len(l2c'[c]) : l2c'[c][i].type = "assign_node" => i = Len(l2c'[c])
  BY SMTT(30), <1>1, <1>2 DEF InOrder
<1>9. ASSUME NEW i \in 1 .. Len(c2l'[c]), NEW j \in 1 .. Len(c2l'[c]),
             c2l'[c][i].type = "result", i # j
      PROVE  /\ Answering(c2l'[c][j]) \/ Failing(c2l'[c][j])
             /\ i < j => c2l'[c][j].type # "split_succeed"
  <2>1. i \in 1 .. Len(c2l[c]) /\ Sent(c2l, c, "result")
    BY <1>6, <1>9 DEF Answering, Sent
  <2>2. m.type = "split_failed"
    BY <2>1 DEF Answering
  <2>3. CASE j \in 1 .. Len(c2l[c])
    BY <1>5, <1>6, <1>9, <2>1, <2>3 DEF InOrder
  <2>4. CASE j = Len(c2l[c]) + 1
    BY <1>6, <2>2, <2>4 DEF Answering
  <2> QED
    BY <1>6, <2>3, <2>4
<1>10. InOrder(c)'
  BY <1>8, <1>9 DEF InOrder
<1> QED
  BY <1>4, <1>7, <1>10 DEF Sent, Asking

\* c has reported a result or a failure.
LEMMA OrderReported ==
  ASSUME NEW c \in Rank, l2c'[c] = l2c[c], NEW m, Got(c2l, c, m), ~Answering(m),
         m.type = "result" => /\ ~Sent(c2l, c, "result")
                              /\ \A i \in 1 .. Len(c2l[c]) : Answering(c2l[c][i]),
         m.type # "result" => Failing(m),
         OneSplit(c), InOrder(c)
  PROVE  OneSplit(c)' /\ InOrder(c)'
<1>1. /\ Len(c2l[c]) \in Nat /\ Len(c2l'[c]) = Len(c2l[c]) + 1
      /\ \A i \in 1 .. Len(c2l[c]) : c2l'[c][i] = c2l[c][i]
      /\ c2l'[c][Len(c2l[c]) + 1] = m
      /\ 1 .. Len(c2l'[c]) = (1 .. Len(c2l[c])) \union {Len(c2l[c]) + 1}
  BY DEF Got
<1>2. OneSplit(c)'
  BY <1>1 DEF OneSplit
<1>3. ASSUME NEW i \in 1 .. Len(c2l'[c]), NEW j \in 1 .. Len(c2l'[c]),
             c2l'[c][i].type = "result", i # j
      PROVE  /\ Answering(c2l'[c][j]) \/ Failing(c2l'[c][j])
             /\ i < j => c2l'[c][j].type # "split_succeed"
  <2>1. CASE m.type = "result"
    <3>1. i = Len(c2l[c]) + 1
      BY <1>1, <1>3, <2>1 DEF Sent
    <3> QED
      BY <1>1, <1>3, <2>1, <3>1
  <2>2. CASE m.type # "result"
    <3>1. i \in 1 .. Len(c2l[c]) /\ Failing(m)
      BY <1>1, <1>3, <2>2
    <3>2. CASE j \in 1 .. Len(c2l[c])
      BY <1>1, <1>3, <3>1, <3>2 DEF InOrder
    <3>3. CASE j = Len(c2l[c]) + 1
      BY <1>1, <3>1, <3>3 DEF Failing
    <3> QED
      BY <1>1, <1>3, <3>2, <3>3
  <2> QED
    BY <2>1, <2>2
<1> QED
  BY <1>2, <1>3 DEF InOrder

\* The leader has sent c a message.
LEMMA OrderSent ==
  ASSUME NEW c \in Rank, NEW m, Got(l2c, c, m), c2l'[c] = c2l[c],
         ~Sent(l2c, c, "assign_node"), OneSplit(c), InOrder(c),
         Asking(m) => /\ \A i \in 1 .. Len(l2c[c]) : ~Asking(l2c[c][i])
                      /\ \A j \in 1 .. Len(c2l[c]) : ~Answering(c2l[c][j])
  PROVE  OneSplit(c)' /\ InOrder(c)'
<1>1. /\ Len(l2c[c]) \in Nat /\ Len(l2c'[c]) = Len(l2c[c]) + 1
      /\ \A i \in 1 .. Len(l2c[c]) : l2c'[c][i] = l2c[c][i]
      /\ l2c'[c][Len(l2c[c]) + 1] = m
      /\ 1 .. Len(l2c'[c]) = (1 .. Len(l2c[c])) \union {Len(l2c[c]) + 1}
  BY DEF Got
<1>2. OneSplit(c)'
  BY <1>1 DEF OneSplit
<1>3. ASSUME NEW i \in 1 .. Len(l2c'[c]), l2c'[c][i].type = "assign_node"
      PROVE  i = Len(l2c'[c])
  BY <1>1, <1>3 DEF Sent
<1> QED
  BY <1>2, <1>3 DEF InOrder

\* The leader has heard that c has split, and tells it to transfer the task.
LEMMA OrderTransfer ==
  ASSUME NEW c \in Rank, NEW m, Lost(c2l, c), Asking(m),
         Len(l2c[c]) \in Nat, Len(l2c'[c]) = Len(l2c[c]) + 1,
         \A i \in 1 .. Len(l2c[c]) : l2c'[c][i] = l2c[c][i],
         l2c'[c][Len(l2c[c]) + 1] = m,
         Answering(Head(c2l[c])), ~Sent(l2c, c, "assign_node"), OneSplit(c), InOrder(c)
  PROVE  /\ OneSplit(c)' /\ InOrder(c)'
         /\ ~Sent(c2l', c, "split_succeed") /\ ~Sent(c2l', c, "split_failed")
         /\ ~Sent(l2c, c, "request_split") /\ ~Sent(l2c, c, "transfer_node")
<1>1. /\ Len(c2l[c]) \in Nat /\ Len(c2l[c]) > 0 /\ Head(c2l[c]) = c2l[c][1]
      /\ Len(c2l'[c]) = Len(c2l[c]) - 1
      /\ \A i \in 1 .. Len(c2l[c]) - 1 : c2l'[c][i] = c2l[c][i + 1]
  BY DEF Lost
<1>2. \A i \in 1 .. Len(c2l'[c]) :
        /\ i \in Nat /\ c2l'[c][i] = c2l[c][i + 1]
        /\ i + 1 \in 1 .. Len(c2l[c]) /\ i + 1 # 1
  BY <1>1
<1>3. 1 \in 1 .. Len(c2l[c])
  BY <1>1
<1>4. \A i \in 1 .. Len(c2l'[c]) : ~Answering(c2l'[c][i])
  BY <1>1, <1>2, <1>3 DEF OneSplit
<1>5. \A i \in 1 .. Len(l2c[c]) : ~Asking(l2c[c][i])
  BY <1>1, <1>3 DEF OneSplit
<1>6. /\ Len(l2c[c]) \in Nat /\ Len(l2c'[c]) = Len(l2c[c]) + 1
      /\ \A i \in 1 .. Len(l2c[c]) : l2c'[c][i] = l2c[c][i]
      /\ l2c'[c][Len(l2c[c]) + 1] = m
      /\ 1 .. Len(l2c'[c]) = (1 .. Len(l2c[c])) \union {Len(l2c[c]) + 1}
  OBVIOUS
<1>7. OneSplit(c)'
  BY <1>4, <1>5, <1>6 DEF OneSplit
<1>8. ASSUME NEW i \in 1 .. Len(l2c'[c]), l2c'[c][i].type = "assign_node"
      PROVE  i = Len(l2c'[c])
  BY <1>6, <1>8 DEF Sent
<1>9. ASSUME NEW i \in 1 .. Len(c2l'[c]), NEW j \in 1 .. Len(c2l'[c]),
             c2l'[c][i].type = "result", i # j
      PROVE  /\ Answering(c2l'[c][j]) \/ Failing(c2l'[c][j])
             /\ i < j => c2l'[c][j].type # "split_succeed"
  <2>1. /\ i + 1 \in 1 .. Len(c2l[c]) /\ j + 1 \in 1 .. Len(c2l[c]) /\ i + 1 # j + 1
        /\ c2l'[c][i] = c2l[c][i + 1] /\ c2l'[c][j] = c2l[c][j + 1]
        /\ i < j <=> i + 1 < j + 1
    BY <1>2, <1>9
  <2> QED
    BY <1>9, <2>1 DEF InOrder
<1> QED
  BY <1>4, <1>5, <1>7, <1>8, <1>9 DEF InOrder, Sent, Answering, Asking

\* copyfile raises after split_succeed was sent.
LEMMA OrderCrashed ==
  ASSUME TypeOK, NEW c \in Rank, Lost(l2c, c), Asking(Head(l2c[c])),
         NEW m \in Report, Answering(m), NEW e \in Report, ~Answering(e),
         e.type # "result", Reports(c, <<m, e>>),
         ~Sent(c2l, c, "result"), OneSplit(c), InOrder(c)
  PROVE  /\ OneSplit(c)' /\ InOrder(c)'
         /\ ~Sent(l2c', c, "request_split") /\ ~Sent(l2c', c, "transfer_node")
         /\ \A type : Sent(c2l', c, type) <=> Sent(c2l, c, type) \/ type \in {m.type, e.type}
         /\ \A x : Reported(c, x)' <=> Reported(c, x) \/ x \in {m, e}
         /\ \A d \in Rank : d # c => c2l'[d] = c2l[d]
<1>1. c2l[c] \in Seq(Report) /\ c2l \in [Rank -> Seq(Report)]
  BY DEF TypeOK
<1>2. c2l' = [c2l EXCEPT ![c] = c2l[c] \o <<m, e>>]
  BY DEF Reports
<1>3. c2l'[c] = c2l[c] \o <<m, e>> /\ \A d \in Rank : d # c => c2l'[d] = c2l[d]
  BY <1>1, <1>2
<1> DEFINE n == Len(c2l[c])
<1>4. /\ n \in Nat /\ Len(c2l'[c]) = n + 2
      /\ \A i \in 1 .. n : c2l'[c][i] = c2l[c][i]
      /\ c2l'[c][n + 1] = m /\ c2l'[c][n + 2] = e
  <2>1. /\ Append(c2l[c], m) \in Seq(Report) /\ Len(Append(c2l[c], m)) = n + 1
        /\ n \in Nat
        /\ \A i \in 1 .. n : Append(c2l[c], m)[i] = c2l[c][i]
        /\ Append(c2l[c], m)[n + 1] = m
    BY <1>1, Added
  <2>2. c2l'[c] = Append(Append(c2l[c], m), e)
    BY <1>1, <1>3, AddedTwo
  <2> HIDE DEF n
  <2> DEFINE s == Append(c2l[c], m)
  <2>3. s \in Seq(Report) /\ Len(s) = n + 1 /\ c2l'[c] = Append(s, e)
    BY <2>1, <2>2
  <2> HIDE DEF s
  <2>4. /\ Len(Append(s, e)) = Len(s) + 1 /\ Append(s, e)[Len(s) + 1] = e
        /\ \A i \in 1 .. Len(s) : Append(s, e)[i] = s[i]
    BY <2>3, Added
  <2>5. (\A i \in 1 .. n : s[i] = c2l[c][i]) /\ s[n + 1] = m
    BY <2>1 DEF s
  <2>6. n + 1 \in 1 .. Len(s) /\ \A i \in 1 .. n : i \in 1 .. Len(s)
    BY <2>1, <2>3
  <2> QED
    BY <2>1, <2>3, <2>4, <2>5, <2>6
<1>5. 1 .. Len(c2l'[c]) = (1 .. n) \union {n + 1, n + 2}
  BY <1>4
<1>6. /\ Len(l2c[c]) \in Nat /\ Len(l2c[c]) > 0 /\ Head(l2c[c]) = l2c[c][1]
      /\ Len(l2c'[c]) = Len(l2c[c]) - 1
      /\ \A i \in 1 .. Len(l2c[c]) - 1 : l2c'[c][i] = l2c[c][i + 1]
  BY DEF Lost
<1>7. \A i \in 1 .. Len(l2c'[c]) :
        /\ i \in Nat /\ l2c'[c][i] = l2c[c][i + 1] /\ i + 1 \in 1 .. Len(l2c[c]) /\ i + 1 # 1
  BY <1>6
<1>8. 1 \in 1 .. Len(l2c[c])
  BY <1>6
<1>9. \A i \in 1 .. Len(l2c'[c]) : ~Asking(l2c'[c][i])
  BY <1>6, <1>7, <1>8 DEF OneSplit
<1>10. \A j \in 1 .. n : ~Answering(c2l[c][j])
  BY <1>6, <1>8 DEF OneSplit
<1>11. OneSplit(c)'
  BY <1>4, <1>5, <1>9, <1>10 DEF OneSplit
<1>12. \A i \in 1 .. Len(l2c'[c]) : l2c'[c][i].type = "assign_node" => i = Len(l2c'[c])
  BY <1>6, <1>7 DEF InOrder
<1>13. \A i \in 1 .. Len(c2l'[c]) : c2l'[c][i].type # "result"
  BY <1>4, <1>5 DEF Sent, Answering
<1>14. InOrder(c)'
  BY <1>12, <1>13 DEF InOrder
<1>15. \A type : Sent(c2l', c, type) <=> Sent(c2l, c, type) \/ type \in {m.type, e.type}
  BY <1>4, <1>5 DEF Sent
<1>16. \A x : Reported(c, x)' <=> Reported(c, x) \/ x \in {m, e}
  BY <1>4, <1>5 DEF Reported, Contains
<1> QED
  BY <1>3, <1>9, <1>11, <1>14, <1>15, <1>16 DEF Sent, Asking

-----------------------------------------------------------------------------
(* The steps of a distributed coordinator.                                 *)

LEMMA QueueTypes ==
  ASSUME TypeOK, NEW c \in Rank
  PROVE  /\ \A i \in 1 .. Len(c2l[c]) :
              /\ c2l[c][i] \in Report
              /\ c2l[c][i].type \in {"split_succeed", "split_failed", "result",
                                     "pre_partition_done", "error", "memory_out"}
         /\ \A i \in 1 .. Len(l2c[c]) : l2c[c][i] \in Message
<1>1. c2l[c] \in Seq(Report) /\ l2c[c] \in Seq(Message)
  BY DEF TypeOK
<1>2. \A i \in 1 .. Len(c2l[c]) : c2l[c][i] \in Report
  BY <1>1, ElementOfSeq
<1>3. \A i \in 1 .. Len(l2c[c]) : l2c[c][i] \in Message
  BY <1>1, ElementOfSeq
<1>4. \A m \in Report : m.type \in {"split_succeed", "split_failed", "result",
                                     "pre_partition_done", "error", "memory_out"}
  BY DEF Report
<1> QED
  BY <1>2, <1>3, <1>4

\* Which messages are which.
LEMMA MessageKinds ==
  /\ \A t : /\ RequestSplit(t).type = "request_split"
            /\ TransferNode(t).type = "transfer_node"
            /\ AssignNode(t).type = "assign_node"
            /\ SplitSucceed(t).type = "split_succeed" /\ Answering(SplitSucceed(t))
            /\ SplitFailed(t).type = "split_failed" /\ Answering(SplitFailed(t))
            /\ RequestSplit(t).rank = t /\ TransferNode(t).rank = t
            /\ AssignNode(t).rank = t
            /\ SplitSucceed(t).rank = t /\ SplitFailed(t).rank = t
            /\ Asking(RequestSplit(t)) /\ Asking(TransferNode(t)) /\ ~Asking(AssignNode(t))
  /\ \A r : /\ NotifyResult(r).type = "result" /\ ~Answering(NotifyResult(r))
            /\ NotifyResult(r).value = r
  /\ NotifyError.type = "error" /\ ~Answering(NotifyError) /\ Failing(NotifyError)
  /\ NotifyMemoryOut.type = "memory_out" /\ ~Answering(NotifyMemoryOut)
  /\ Failing(NotifyMemoryOut)
BY DEF RequestSplit, TransferNode, AssignNode, SplitSucceed, SplitFailed, NotifyResult,
       NotifyError, NotifyMemoryOut, Asking, Answering, Failing

\* A request that is under way was under way before.
NoNewRequest(c) == \A t \in Dist : Requested(c, t)' => Requested(c, t)

\* The handlers of a request to split, for the coordinator itself.
LEMMA SplitTalk ==
  ASSUME TypeOK, NEW c \in Dist, Talk(c),
         \/ SplitRefused(c) \/ (\E s \in SUBSET Models : SplitGranted(c, s))
         \/ SplitCrashes(c)
  PROVE  Talk(c)' /\ NoNewRequest(c)
<1> DEFINE t == Head(l2c[c]).rank
<1>1. /\ l2c[c] # <<>> /\ Takes(c) /\ LeaderSame /\ c \in Rank
      /\ Head(l2c[c]).type = "request_split"
  BY Ranks DEF SplitRefused, SplitGranted, SplitCrashes, Pending
<1>2. /\ Lost(l2c, c) /\ t \in Dist /\ Head(l2c[c]) = RequestSplit(t)
      /\ Asking(Head(l2c[c]))
      /\ Sent(l2c, c, "request_split") /\ Contains(l2c[c], RequestSplit(t))
  <2>1. Lost(l2c, c) /\ Head(l2c[c]) \in Message
    BY <1>1, TakesFacts
  <2> QED
    BY <1>1, <2>1, MessageFields, HeadSent DEF Asking
<1>3. OneSplit(c) /\ InOrder(c) /\ InStep(c) /\ UNCHANGED <<cstatus, assigned>>
  BY <1>1 DEF Talk, LeaderSame, leaderVars
<1>4. /\ \A type : Sent(l2c', c, type) => Sent(l2c, c, type)
      /\ \A m : Contains(l2c'[c], m) => Contains(l2c[c], m)
  BY <1>1, <1>2, DownLost
<1>5. SplitSucceed(t) \in Report /\ SplitFailed(t) \in Report /\ NotifyError \in Report
  BY <1>2, MessageTypes
<1> HIDE DEF t
<1>6. CASE SplitRefused(c)
  <2>1. phase'[c] = phase[c] /\ Reports(c, <<SplitFailed(t)>>)
    BY <1>6 DEF SplitRefused, coordVars, t
  <2>2. Got(c2l, c, SplitFailed(t))
    BY <1>1, <1>5, <2>1, ReportsFacts
  <2>3. /\ OneSplit(c)' /\ InOrder(c)'
        /\ ~Sent(l2c', c, "request_split") /\ ~Sent(l2c', c, "transfer_node")
    BY <1>1, <1>2, <1>3, <2>2, OrderAnswered, MessageKinds
  <2>4. /\ \A type : Sent(c2l', c, type) <=> Sent(c2l, c, type) \/ type = "split_failed"
        /\ \A x : Reported(c, x)' <=> Reported(c, x) \/ x = SplitFailed(t)
    BY <1>1, <2>2, UpGot, MessageKinds
  <2>5. InStep(c)'
    BY <1>3, <1>4, <2>1, <2>3, <2>4 DEF InStep
  <2>6. NoNewRequest(c)
    BY <1>2, <1>4, <2>4, MessageKinds DEF NoNewRequest, Requested
  <2> QED
    BY <2>3, <2>5, <2>6 DEF Talk
<1>7. ASSUME NEW s \in SUBSET Models, SplitGranted(c, s)
      PROVE  Talk(c)' /\ NoNewRequest(c)
  <2>1. phase'[c] = phase[c] /\ phase[c] = "solving" /\ Reports(c, <<SplitSucceed(t)>>)
    BY <1>7 DEF SplitGranted, t
  <2>2. Got(c2l, c, SplitSucceed(t)) /\ ~Sent(c2l, c, "result")
        /\ ~Sent(l2c, c, "assign_node") /\ cstatus[c] = "splitting" /\ assigned[c] # NoTask
    BY <1>1, <1>2, <1>3, <1>5, <2>1, ReportsFacts DEF InStep
  <2>3. /\ OneSplit(c)' /\ InOrder(c)'
        /\ ~Sent(l2c', c, "request_split") /\ ~Sent(l2c', c, "transfer_node")
    BY <1>1, <1>2, <1>3, <2>2, OrderAnswered, MessageKinds
  <2>4. /\ \A type : Sent(c2l', c, type) <=> Sent(c2l, c, type) \/ type = "split_succeed"
        /\ \A x : Reported(c, x)' <=> Reported(c, x) \/ x = SplitSucceed(t)
    BY <1>1, <2>2, UpGot, MessageKinds
  <2>5. InStep(c)'
    BY <1>3, <1>4, <2>1, <2>2, <2>3, <2>4 DEF InStep
  <2>6. NoNewRequest(c)
    BY <1>2, <1>4, <2>4, MessageKinds DEF NoNewRequest, Requested
  <2> QED
    BY <2>3, <2>5, <2>6 DEF Talk
<1>8. CASE SplitCrashes(c)
  <2>1. /\ phase'[c] = "crashed" /\ phase[c] = "solving"
        /\ Reports(c, <<SplitSucceed(t), NotifyError>>)
    BY <1>1, <1>8 DEF SplitCrashes, t, TypeOK
  <2>2. ~Sent(c2l, c, "result")
        /\ ~Sent(l2c, c, "assign_node") /\ cstatus[c] = "splitting" /\ assigned[c] # NoTask
    BY <1>2, <1>3, <2>1 DEF InStep
  <2>3. /\ OneSplit(c)' /\ InOrder(c)'
        /\ ~Sent(l2c', c, "request_split") /\ ~Sent(l2c', c, "transfer_node")
        /\ \A type : Sent(c2l', c, type) <=>
                       Sent(c2l, c, type) \/ type \in {"split_succeed", "error"}
        /\ \A x : Reported(c, x)' <=>
                    Reported(c, x) \/ x \in {SplitSucceed(t), NotifyError}
    BY <1>1, <1>2, <1>3, <1>5, <2>1, <2>2, OrderCrashed, MessageKinds
  <2>4. InStep(c)'
    BY <1>3, <1>4, <2>1, <2>2, <2>3 DEF InStep
  <2>5. NoNewRequest(c)
    BY <1>2, <1>4, <2>3, MessageKinds DEF NoNewRequest, Requested
  <2> QED
    BY <2>3, <2>4, <2>5 DEF Talk
<1> QED
  BY <1>6, <1>7, <1>8

\* The handlers of the other messages, for the coordinator itself.
LEMMA ReactTalk ==
  ASSUME TypeOK, NEW c \in Dist, Talk(c), Reacts(c)
  PROVE  Talk(c)' /\ NoNewRequest(c)
<1>1. /\ c \in Rank /\ OneSplit(c) /\ InOrder(c) /\ InStep(c)
      /\ phase \in [Rank -> Phase]
  BY Ranks DEF Talk, TypeOK
<1>2. UNCHANGED <<cstatus, assigned>>
  BY DEF Reacts, SplitRefused, SplitGranted, SplitCrashes, Transfer, AcceptNode,
         ReceiveNode, Terminated, DropMessage, LeaderSame, leaderVars
<1>3. ASSUME l2c[c] # <<>>, Takes(c), UNCHANGED c2l
      PROVE  /\ Lost(l2c, c) /\ OneSplit(c)' /\ InOrder(c)' /\ NoNewRequest(c)
             /\ \A type : Sent(l2c', c, type) => Sent(l2c, c, type)
             /\ \A type : Sent(c2l', c, type) = Sent(c2l, c, type)
             /\ Sent(l2c, c, Head(l2c[c]).type)
  <2>1. Lost(l2c, c) /\ Sent(l2c, c, Head(l2c[c]).type)
    BY <1>1, <1>3, TakesFacts, HeadSent
  <2>2. OneSplit(c)' /\ InOrder(c)'
    BY <1>1, <1>3, <2>1, OrderTaken
  <2>3. /\ \A type : Sent(l2c', c, type) => Sent(l2c, c, type)
        /\ \A m : Contains(l2c'[c], m) => Contains(l2c[c], m)
    BY <1>1, <2>1, DownLost
  <2> QED
    BY <1>3, <2>1, <2>2, <2>3 DEF NoNewRequest, Requested, Reported, Sent
<1>4. CASE \/ SplitRefused(c) \/ (\E s \in SUBSET Models : SplitGranted(c, s))
           \/ SplitCrashes(c)
  BY <1>4, SplitTalk
<1>5. CASE Transfer(c) \/ DropMessage(c)
  <2>1. l2c[c] # <<>> /\ Takes(c) /\ UNCHANGED <<c2l, phase>>
    BY <1>5 DEF Transfer, DropMessage, Pending, coordVars
  <2> QED
    BY <1>1, <1>2, <1>3, <2>1 DEF Talk, InStep
<1>6. CASE AcceptNode(c)
  <2>0. /\ l2c[c] # <<>> /\ Takes(c) /\ Head(l2c[c]).type = "assign_node"
        /\ phase[c] \in {"idle", "solving"}
    BY <1>6 DEF AcceptNode, Pending, Looping
  <2>1. /\ l2c[c] # <<>> /\ Takes(c) /\ UNCHANGED c2l
        /\ phase[c] = "idle" /\ phase'[c] = "receiving"
        /\ Head(l2c[c]).type = "assign_node"
    <3>1. Sent(l2c, c, "assign_node")
      BY <1>1, <2>0, HeadSent
    <3>2. phase[c] = "idle"
      BY <1>1, <2>0, <3>1 DEF InStep
    <3> QED
      BY <1>1, <1>6, <2>0, <3>2 DEF AcceptNode
  <2>2. Len(l2c'[c]) = 0
    BY <1>1, <1>3, <2>1 DEF InOrder, Lost
  <2>3. \A type : ~Sent(l2c', c, type)
    BY <2>2 DEF Sent
  <2> QED
    BY <1>1, <1>2, <1>3, <2>1, <2>3 DEF Talk, InStep
<1>7. CASE ReceiveNode(c)
  <2>1. /\ UNCHANGED <<l2c, c2l>> /\ phase[c] = "receiving" /\ phase'[c] = "solving"
    BY <1>1, <1>7 DEF ReceiveNode
  <2>2. NoNewRequest(c)
    BY <2>1 DEF NoNewRequest, Requested, Reported
  <2> QED
    BY <1>1, <1>2, <2>1, <2>2 DEF Talk, InStep, OneSplit, InOrder, Sent
<1>8. CASE Terminated(c)
  <2>1. l2c[c] # <<>> /\ Head(l2c[c]).type = "terminate"
    BY <1>8 DEF Terminated, Pending
  <2>2. Sent(l2c, c, "terminate")
    BY <1>1, <2>1, HeadSent
  <2> QED
    BY <1>1, <2>2 DEF InStep
<1> QED
  BY <1>4, <1>5, <1>6, <1>7, <1>8 DEF Reacts

\* Solving and crashing, for the coordinator itself.
LEMMA WorkTalk ==
  ASSUME TypeOK, PhasesApart, NEW c \in Dist, Talk(c),
         \/ Solves(c)
         \/ \E report \in {NotifyMemoryOut, NotifyError} : Crash(c, report)
  PROVE  Talk(c)' /\ NoNewRequest(c)
<1>1. /\ c \in Rank /\ OneSplit(c) /\ InOrder(c) /\ InStep(c)
      /\ phase \in [Rank -> Phase]
  BY Ranks DEF Talk, TypeOK
<1>2. UNCHANGED <<cstatus, assigned, l2c>>
  BY DEF Solves, SolveTask, Crash, LeaderSame, leaderVars
<1>3. ASSUME phase[c] = "solving"
      PROVE  /\ ~Sent(l2c, c, "assign_node") /\ ~Sent(c2l, c, "result")
             /\ assigned[c] # NoTask
             /\ \A i \in 1 .. Len(c2l[c]) : Answering(c2l[c][i])
  <2>1. /\ ~Sent(l2c, c, "assign_node") /\ ~Sent(c2l, c, "result") /\ assigned[c] # NoTask
        /\ ~Sent(c2l, c, "error") /\ ~Sent(c2l, c, "memory_out")
        /\ ~Sent(c2l, c, "pre_partition_done")
    BY <1>1, <1>3 DEF InStep
  <2>2. \A i \in 1 .. Len(c2l[c]) :
          c2l[c][i].type \in {"split_succeed", "split_failed", "result",
                              "pre_partition_done", "error", "memory_out"}
    BY <1>1, QueueTypes
  <2> QED
    BY <2>1, <2>2 DEF Sent, Answering
<1>4. ASSUME NEW m \in Report, Reports(c, <<m>>), ~Answering(m)
      PROVE  /\ Got(c2l, c, m) /\ NoNewRequest(c)
             /\ \A type : Sent(c2l', c, type) <=> Sent(c2l, c, type) \/ m.type = type
             /\ \A type : Sent(l2c', c, type) <=> Sent(l2c, c, type)
  <2>1. Got(c2l, c, m)
    BY <1>1, <1>4, ReportsFacts
  <2>2. /\ \A type : Sent(c2l', c, type) <=> Sent(c2l, c, type) \/ m.type = type
        /\ \A x : Reported(c, x)' <=> Reported(c, x) \/ x = m
    BY <1>1, <2>1, UpGot
  <2>3. NoNewRequest(c)
    BY <1>2, <1>4, <2>2, MessageKinds DEF NoNewRequest, Requested
  <2> QED
    BY <1>2, <2>1, <2>2, <2>3
<1>5. ASSUME NEW r \in {"sat", "unsat"}, SolveTask(c, r)
      PROVE  Talk(c)' /\ NoNewRequest(c)
  <2> DEFINE m == NotifyResult(r)
  <2>1. /\ m \in Report /\ m.type = "result" /\ ~Answering(m)
        /\ Reports(c, <<m>>) /\ phase'[c] = "idle" /\ phase[c] = "solving"
    BY <1>1, <1>5, MessageTypes, MessageKinds DEF SolveTask, Working, PhasesApart
  <2> HIDE DEF m
  <2>2. OneSplit(c)' /\ InOrder(c)'
    BY <1>1, <1>2, <1>3, <1>4, <2>1, OrderReported
  <2>3. InStep(c)'
    BY <1>1, <1>2, <1>3, <1>4, <2>1 DEF InStep
  <2> QED
    BY <1>4, <2>1, <2>2, <2>3 DEF Talk
<1>6. ASSUME NEW m \in {NotifyMemoryOut, NotifyError}, Crash(c, m)
      PROVE  Talk(c)' /\ NoNewRequest(c)
  <2>1. /\ m \in Report /\ m.type \in {"error", "memory_out"} /\ ~Answering(m) /\ Failing(m)
        /\ Reports(c, <<m>>) /\ phase'[c] = "crashed"
    BY <1>1, <1>6, MessageTypes, MessageKinds DEF Crash
  <2>2. OneSplit(c)' /\ InOrder(c)'
    BY <1>1, <1>2, <1>4, <2>1, OrderReported
  <2>3. InStep(c)'
    BY <1>1, <1>2, <1>4, <2>1 DEF InStep
  <2> QED
    BY <1>4, <2>1, <2>2, <2>3 DEF Talk
<1> QED
  BY <1>5, <1>6 DEF Solves

-----------------------------------------------------------------------------
(* The steps of the coordinators keep the invariant.                       *)

CoordStep(c) ==
  \/ Reacts(c) \/ Solves(c)
  \/ \E report \in {NotifyMemoryOut, NotifyError} : Crash(c, report)

\* A coordinator's own step touches its own queues only.
LEMMA QueueFrame ==
  ASSUME TypeOK, NEW c \in Rank, CoordStep(c)
  PROVE  LeaderSame /\ \A d \in Rank : d # c => Still(d)
<1>1. LeaderSame
  BY DEF CoordStep, Reacts, SplitRefused, SplitGranted, SplitCrashes, Transfer, AcceptNode,
         ReceiveNode, Terminated, DropMessage, Solves, SolveTask, Crash
<1>2. \/ UNCHANGED l2c
      \/ Takes(c)
  BY DEF CoordStep, Reacts, SplitRefused, SplitGranted, SplitCrashes, Transfer, AcceptNode,
         ReceiveNode, Terminated, DropMessage, Solves, SolveTask, Crash
<1>3. \/ UNCHANGED c2l
      \/ \E ms : Reports(c, ms)
  <2>1. CASE Reacts(c)
    BY <2>1 DEF Reacts, SplitRefused, SplitGranted, SplitCrashes, Transfer, AcceptNode,
                ReceiveNode, Terminated, DropMessage, coordVars
  <2>2. CASE Solves(c)
    BY <2>2 DEF Solves, SolveTask
  <2>3. CASE \E report \in {NotifyMemoryOut, NotifyError} : Crash(c, report)
    BY <2>3 DEF Crash
  <2> QED
    BY <2>1, <2>2, <2>3 DEF CoordStep
<1>4. \A d \in Rank : d # c => l2c'[d] = l2c[d]
  BY <1>2 DEF Takes, TypeOK
<1>5. \A d \in Rank : d # c => c2l'[d] = c2l[d]
  BY <1>3 DEF Reports, TypeOK
<1> QED
  BY <1>1, <1>4, <1>5 DEF Still

\* What is left to show for the step of a coordinator.
LEMMA CoordKeeps ==
  ASSUME DInv, LeaderSame, TypeOK', PartsInOrder', PhasesApart',
         at # "ended" => /\ \A c \in Dist : Talk(c)' /\ NoNewRequest(c)
                         /\ IsoInStep',
         at = "init" => NothingYet'
  PROVE  DInv'
<1>1. UNCHANGED <<at, verdict, decision, cstatus, assigned, idle, numTasks, above, parent,
                  partial, whole>>
  BY DEF LeaderSame, leaderVars, taskVars
<1>2. ASSUME at # "ended"
      PROVE  TargetsApart'
  <2>1. TargetsApart /\ \A c \in Dist : NoNewRequest(c)
    BY <1>2 DEF DInv
  <2> QED
    BY <1>1, <2>1 DEF TargetsApart, NoNewRequest
<1>3. ASSUME at # "ended"
      PROVE  IdleApart' /\ Chains' /\ ChainsMeet' /\ UnsatBelow'
  BY <1>1, <1>3 DEF DInv, IdleApart, Chains, ChainsMeet, UnsatBelow, Upward
<1>4. ASSUME at = "loop"
      PROVE  OpenTasks' /\ RequestsBounded'
  BY <1>1, <1>4 DEF DInv, OpenTasks, RequestsBounded, RequestTargets
<1> QED
  BY <1>1, <1>2, <1>3, <1>4 DEF DInv, Talk

\* A step of a distributed coordinator keeps the invariant.
LEMMA DistStep ==
  ASSUME DInv, NEW c \in Dist, CoordStep(c)
  PROVE  DInv'
<1>1. TypeOK /\ PartsInOrder /\ PhasesApart /\ c \in Rank /\ Iso # c /\ Iso \in Rank
      /\ Next
  BY Ranks DEF DInv, CoordStep, Next
<1>2. LeaderSame /\ \A d \in Rank : d # c => Still(d) /\ phase'[d] = phase[d]
  BY <1>1, QueueFrame, PhaseFrame DEF CoordStep
<1>3. UNCHANGED <<at, cstatus, assigned>>
  BY <1>2 DEF LeaderSame, leaderVars
<1>4. ASSUME at # "ended"
      PROVE  \A d \in Dist : Talk(d)' /\ NoNewRequest(d)
  <2>1. \A d \in Dist : Talk(d)
    BY <1>4 DEF DInv, Talk
  <2>2. Talk(c)' /\ NoNewRequest(c)
    BY <1>1, <2>1, ReactTalk, WorkTalk DEF CoordStep
  <2>3. ASSUME NEW d \in Dist, d # c
        PROVE  Talk(d)' /\ NoNewRequest(d)
    <3>1. Still(d) /\ phase'[d] = phase[d]
      BY <1>2, <2>3, Ranks
    <3>2. Talk(d)'
      BY <1>3, <2>1, <3>1, TalkFrame
    <3> QED
      BY <3>1, <3>2 DEF NoNewRequest, Requested, Reported, Still
  <2> QED
    BY <2>2, <2>3
<1>5. ASSUME at # "ended"
      PROVE  IsoInStep'
  BY <1>1, <1>2, <1>3, <1>5 DEF DInv, IsoInStep, Still, Sent
<1>6. ASSUME at = "init"
      PROVE  NothingYet'
  <2>1. NothingYet /\ Unused(c)
    BY <1>6 DEF DInv, NothingYet
  <2>2. Crash(c, NotifyError)
    BY <2>1 DEF CoordStep, Reacts, SplitRefused, SplitGranted, SplitCrashes, Transfer, AcceptNode,
           ReceiveNode, Terminated, DropMessage, Solves, SolveTask, Crash, Pending, Working,
           Unused, NotifyMemoryOut, NotifyError
  <2>3. /\ phase[c] = "idle" /\ phase'[c] = "crashed" /\ l2c'[c] = <<>>
        /\ Reports(c, <<NotifyError>>)
    BY <1>1, <2>1, <2>2 DEF Crash, Unused, PhasesApart, Working, NotifyError, NotifyMemoryOut, TypeOK
  <2>4. c2l'[c] = <<NotifyError>>
    BY <1>1, <2>1, <2>3 DEF Reports, Unused, TypeOK
  <2>5. Unused(c)'
    BY <1>3, <2>1, <2>3, <2>4 DEF Unused
  <2>6. \A d \in Dist : d # c => Unused(d)'
    BY <1>2, <1>3, <2>1, Ranks DEF Unused, Still, NothingYet
  <2>7. UNCHANGED <<numTasks, idle, partial, parts>> /\ Still(Iso) /\ phase'[Iso] = phase[Iso]
    BY <1>1, <1>2, PhaseFrame DEF LeaderSame, leaderVars, taskVars, CoordStep
  <2> QED
    BY <2>1, <2>5, <2>6, <2>7 DEF NothingYet, Still, Sent
<1>7. TypeOK' /\ PartsInOrder' /\ PhasesApart'
  BY <1>1, NextType, NextParts
<1> QED
  BY <1>2, <1>4, <1>5, <1>6, <1>7, CoordKeeps

\* What is left to show for a step of the isolated coordinator.
LEMMA IsoKeeps ==
  ASSUME DInv, LeaderSame, TypeOK', PartsInOrder', PhasesApart',
         \A d \in Dist : Still(d) /\ phase'[d] = phase[d],
         at # "ended" => IsoInStep',
         at = "init" => NothingYet'
  PROVE  DInv'
<1>1. UNCHANGED <<at, cstatus, assigned>>
  BY DEF LeaderSame, leaderVars
<1>2. ASSUME at # "ended", NEW d \in Dist
      PROVE  Talk(d)' /\ NoNewRequest(d)
  <2>1. Talk(d)
    BY <1>2 DEF DInv, Talk
  <2>2. Talk(d)'
    BY <1>1, <1>2, <2>1, TalkFrame
  <2> QED
    BY <2>2 DEF NoNewRequest, Requested, Reported, Still
<1> QED
  BY <1>2, CoordKeeps

\* The report of a failure or a result.
LEMMA IsoReports ==
  ASSUME DInv, CoordStep(Iso), NEW m \in Report, Reports(Iso, <<m>>), UNCHANGED l2c,
         m.type \in {"result", "error", "memory_out"},
         phase[Iso] # "waiting", phase'[Iso] \in {"idle", "crashed"}, at # "ended"
  PROVE  IsoInStep' /\ (at = "init" => NothingYet')
<1>1. TypeOK /\ PhasesApart /\ Iso \in Rank /\ Iso \notin Dist /\ IsoInStep
  BY Ranks DEF DInv
<1>2. Got(c2l, Iso, m)
  BY <1>1, ReportsFacts
<1>3. LeaderSame /\ \A d \in Rank : d # Iso => Still(d) /\ phase'[d] = phase[d]
  BY <1>1, QueueFrame, PhaseFrame DEF CoordStep
<1>4. at' = at /\ UNCHANGED <<numTasks, idle, cstatus, partial>>
  BY <1>3 DEF LeaderSame, leaderVars, taskVars
<1>5. \A type : Sent(c2l', Iso, type) <=> Sent(c2l, Iso, type) \/ m.type = type
  BY <1>1, <1>2, UpGot
<1>6. ~Answering(m)
  BY DEF Answering
<1>7. \A i \in 1 .. Len(c2l'[Iso]) : ~Answering(c2l'[Iso][i])
  <2>1. /\ Len(c2l[Iso]) \in Nat /\ Len(c2l'[Iso]) = Len(c2l[Iso]) + 1
        /\ \A i \in 1 .. Len(c2l[Iso]) : c2l'[Iso][i] = c2l[Iso][i]
        /\ c2l'[Iso][Len(c2l[Iso]) + 1] = m
    BY <1>2 DEF Got
  <2>2. 1 .. Len(c2l'[Iso]) = (1 .. Len(c2l[Iso])) \union {Len(c2l[Iso]) + 1}
    BY <2>1
  <2> QED
    BY <1>1, <1>6, <2>1, <2>2 DEF IsoInStep
<1>8. IsoInStep'
  BY <1>1, <1>4, <1>5, <1>7 DEF IsoInStep, Sent
<1>9. ASSUME at = "init"
      PROVE  NothingYet'
  <2>1. NothingYet
    BY <1>9 DEF DInv
  <2>3. \A c \in Dist : Unused(c)'
    BY <1>1, <1>3, <1>4, <2>1, Ranks DEF NothingYet, Unused, Still
  <2>4. ~Sent(c2l', Iso, "pre_partition_done")
    <3>1. ~Sent(c2l, Iso, "pre_partition_done")
      BY <2>1 DEF NothingYet
    <3> QED
      BY <1>5, <3>1
  <2>5. numTasks' = 1 /\ idle' = <<>> /\ l2c'[Iso] = <<>> /\ partial'[RootTask] = "unsolved"
    BY <1>4, <2>1 DEF NothingYet
  <2> QED
    BY <2>3, <2>4, <2>5 DEF NothingYet
<1> QED
  BY <1>8, <1>9

\* A step of the isolated coordinator keeps the invariant.
LEMMA IsoStep ==
  ASSUME DInv, CoordStep(Iso)
  PROVE  DInv'
<1>1. TypeOK /\ PartsInOrder /\ PhasesApart /\ Iso \in Rank /\ Iso \notin Dist /\ Next
      /\ phase \in [Rank -> Phase]
  BY Ranks DEF DInv, CoordStep, Next, TypeOK
<1>2. LeaderSame /\ \A d \in Rank : d # Iso => Still(d) /\ phase'[d] = phase[d]
  BY <1>1, QueueFrame, PhaseFrame DEF CoordStep
<1>3. TypeOK' /\ PartsInOrder' /\ PhasesApart'
  BY <1>1, NextType, NextParts
<1>4. ASSUME at # "ended"
      PROVE  IsoInStep' /\ (at = "init" => NothingYet')
  <2>1. at' = at /\ IsoInStep
    BY <1>2, <1>4 DEF LeaderSame, leaderVars, DInv
  <2>2. CASE Reacts(Iso)
    <3>1. Terminated(Iso) \/ DropMessage(Iso)
      BY <1>1, <2>2 DEF Reacts, SplitRefused, SplitGranted, SplitCrashes, Transfer, AcceptNode,
                        ReceiveNode, Looping
    <3>2. ~Terminated(Iso)
      BY <1>1, <2>1, HeadSent DEF Terminated, Pending, IsoInStep
    <3>3. /\ l2c[Iso] # <<>> /\ Takes(Iso) /\ UNCHANGED <<phase, c2l>>
      BY <3>1, <3>2 DEF DropMessage, coordVars
    <3>4. \A type : Sent(l2c', Iso, type) => Sent(l2c, Iso, type)
      BY <1>1, <3>3, TakesFacts, DownLost
    <3>5. IsoInStep'
      BY <2>1, <3>3, <3>4 DEF IsoInStep, Sent
    <3>6. at # "init"
      BY <3>3 DEF DInv, NothingYet
    <3> QED
      BY <3>5, <3>6
  <2>3. ASSUME NEW r \in {"sat", "unsat"}, SolveTask(Iso, r)
        PROVE  IsoInStep' /\ (at = "init" => NothingYet')
    <3>1. /\ NotifyResult(r) \in Report /\ NotifyResult(r).type = "result"
          /\ Reports(Iso, <<NotifyResult(r)>>) /\ phase'[Iso] = "idle" /\ UNCHANGED l2c
          /\ phase[Iso] # "waiting"
      BY <1>1, <2>3, MessageTypes, MessageKinds DEF SolveTask, Working
    <3> QED
      BY <1>4, <3>1, IsoReports
  <2>4. ASSUME NEW report \in {NotifyMemoryOut, NotifyError}, Crash(Iso, report)
        PROVE  IsoInStep' /\ (at = "init" => NothingYet')
    <3>1. /\ report \in Report /\ report.type \in {"error", "memory_out"} /\ UNCHANGED l2c
          /\ Reports(Iso, <<report>>) /\ phase'[Iso] = "crashed"
          /\ phase[Iso] # "waiting"
      BY <1>1, <2>4, MessageTypes, MessageKinds DEF Crash, Working
    <3> QED
      BY <1>4, <3>1, IsoReports
  <2> QED
    BY <2>2, <2>3, <2>4 DEF CoordStep, Solves
<1>5. \A d \in Dist : Still(d) /\ phase'[d] = phase[d]
  BY <1>1, <1>2, Ranks
<1> QED
  BY <1>2, <1>3, <1>4, <1>5, IsoKeeps

\* Handing out the first tasks keeps the invariant.
LEMMA HandsOutStep ==
  ASSUME DInv, IsoHandsOut
  PROVE  DInv'
<1>1. TypeOK /\ PartsInOrder /\ PhasesApart /\ Iso \in Rank /\ Iso \notin Dist /\ Next
      /\ phase \in [Rank -> Phase] /\ LeaderSame /\ c2l' = c2l
  BY Ranks DEF DInv, IsoHandsOut, StartHandingOut, HandOut, Next, TypeOK
<1>2. TypeOK' /\ PartsInOrder' /\ PhasesApart'
  BY <1>1, NextType, NextParts
<1>3. CASE StartHandingOut
  <2>1. /\ l2c[Iso] # <<>> /\ Takes(Iso) /\ Lost(l2c, Iso) /\ phase[Iso] = "waiting"
        /\ phase' = [phase EXCEPT ![Iso] = "handing"]
    BY <1>1, <1>3, TakesFacts DEF StartHandingOut, Pending
  <2>2. /\ \A type : Sent(l2c', Iso, type) => Sent(l2c, Iso, type)
        /\ \A d \in Rank : d # Iso => l2c'[d] = l2c[d]
    BY <1>1, <2>1, DownLost
  <2>3. \A d \in Dist : Still(d) /\ phase'[d] = phase[d]
    BY <1>1, <2>1, <2>2, Ranks DEF Still
  <2>4. at # "init"
    BY <2>1 DEF DInv, NothingYet
  <2>5. ASSUME at # "ended"
        PROVE  IsoInStep'
    BY <1>1, <2>1, <2>2, <2>5 DEF DInv, IsoInStep, Sent, LeaderSame, leaderVars
  <2> QED
    BY <1>1, <1>2, <2>3, <2>4, <2>5, IsoKeeps
<1>4. CASE HandOut
  <2>1. /\ phase[Iso] = "handing" /\ l2c' = l2c /\ phase'[Iso] \in {"handing", "solving", "stuck"}
        /\ \A d \in Rank : d # Iso => phase'[d] = phase[d]
    BY <1>1, <1>4 DEF HandOut
  <2>2. \A d \in Dist : Still(d) /\ phase'[d] = phase[d]
    BY <1>1, <2>1, Ranks DEF Still
  <2>3. at # "init"
    BY <2>1 DEF DInv, NothingYet
  <2>4. ASSUME at # "ended"
        PROVE  IsoInStep'
    BY <1>1, <2>1, <2>4 DEF DInv, IsoInStep, Sent, LeaderSame, leaderVars
  <2> QED
    BY <1>1, <1>2, <2>2, <2>3, <2>4, IsoKeeps
<1> QED
  BY <1>3, <1>4 DEF IsoHandsOut

\* Finding the first tasks keeps the invariant.
LEMMA PrePartitionStep ==
  ASSUME DInv, NEW ps \in PrePartitionTasks, NEW k \in 0 .. N + 1, PrePartition(ps, k)
  PROVE  DInv'
<1>1. TypeOK /\ PartsInOrder /\ PhasesApart /\ Iso \in Rank /\ Iso \notin Dist /\ Next
      /\ phase \in [Rank -> Phase] /\ LeaderSame /\ UNCHANGED l2c
      /\ phase[Iso] = "prepartition" /\ phase' = [phase EXCEPT ![Iso] = "waiting"]
      /\ Reports(Iso, <<PrePartitionDone(k)>>) /\ parts' = ps
      /\ (k = Len(ps) \/ (k = 0 /\ ps = <<formula>>))
  BY Ranks DEF DInv, PrePartition, Next, TypeOK
<1>2. TypeOK' /\ PartsInOrder' /\ PhasesApart'
  BY <1>1, NextType, NextParts
<1>3. PrePartitionDone(k) \in Report /\ PrePartitionDone(k).type = "pre_partition_done"
      /\ PrePartitionDone(k).value = k
  BY MessageTypes DEF PrePartitionDone
<1> DEFINE m == PrePartitionDone(k)
<1> HIDE DEF m
<1>4. Got(c2l, Iso, m)
  BY <1>1, <1>3, ReportsFacts DEF m
<1>5. \A d \in Dist : Still(d) /\ phase'[d] = phase[d]
  BY <1>1, <1>4, Ranks DEF Still, Got
<1>6. UNCHANGED <<at, numTasks, idle, cstatus, partial>>
  BY <1>1 DEF LeaderSame, leaderVars, taskVars
<1>7. ASSUME at # "ended"
      PROVE  IsoInStep' /\ NothingYet'
  <2>1. at = "init" /\ NothingYet /\ IsoInStep
    BY <1>1, <1>7 DEF DInv, IsoInStep, TypeOK
  <2>2. c2l[Iso] = <<>> /\ l2c[Iso] = <<>>
    BY <1>1, <2>1 DEF NothingYet
  <2>3. Len(c2l'[Iso]) = 1 /\ c2l'[Iso][1] = m
    BY <1>4, <2>2 DEF Got
  <2>4. IsoInStep'
    BY <1>1, <1>3, <1>6, <2>1, <2>3 DEF IsoInStep, Sent, Answering, m
  <2>5. k = 0 => Len(ps) = 1
    <3>1. ASSUME k = 0, k = Len(ps)
          PROVE  FALSE
      <4>1. phase'[Iso] = "waiting" /\ parts' # <<>> /\ parts' \in Seq(SUBSET Models)
        BY <1>1, <1>2 DEF PartsInOrder, TypeOK
      <4> QED
        BY <1>1, <3>1, <4>1, EmptySeq, LenProperties
    <3> QED
      BY <1>1, <3>1
  <2>6. c2l'[Iso][1].type = "pre_partition_done" /\ c2l'[Iso][1].value = k
    BY <1>3, <2>3 DEF m
  <2>7. k \in {0, Len(parts')} /\ (k = 0 => Len(parts') = 1)
    BY <1>1, <2>5
  <2>8. \A c \in Dist : Unused(c)'
    BY <1>5, <1>6, <2>1 DEF NothingYet, Unused, Still
  <2>9. /\ numTasks' = 1 /\ idle' = <<>> /\ l2c'[Iso] = <<>> /\ phase'[Iso] = "waiting"
        /\ partial'[RootTask] = "unsolved"
    BY <1>1, <1>6, <2>1, <2>2 DEF NothingYet
  <2>10. NothingYet'
    BY <2>3, <2>6, <2>7, <2>8, <2>9 DEF NothingYet
  <2> QED
    BY <2>4, <2>10
<1> QED
  BY <1>1, <1>2, <1>5, <1>7, IsoKeeps

-----------------------------------------------------------------------------
(* The steps of the leader.                                                *)

\* What is left to show for a step in the leader's loop.
LEMMA LoopKeeps ==
  ASSUME DInv, Next, at = "loop", at' = "loop", CoordSame, UNCHANGED <<verdict, decision>>,
         \A c \in Dist : Talk(c)',
         TargetsApart', IdleApart', Chains', ChainsMeet', UnsatBelow', OpenTasks',
         RequestsBounded',
         l2c'[Iso] = l2c[Iso], c2l'[Iso] = c2l[Iso]
  PROVE  DInv'
<1>1. TypeOK' /\ PartsInOrder' /\ PhasesApart'
  BY NextType, NextParts DEF DInv
<1>2. IsoInStep'
  BY DEF DInv, IsoInStep, CoordSame, coordVars, Sent
<1> QED
  BY <1>1, <1>2 DEF DInv, Talk

\* The leader's verdict is the end of what the invariant has to say.
LEMMA EndKeeps ==
  ASSUME DInv, Next, at' = "ended", verdict' # "Leader-Error"
  PROVE  DInv'
BY NextType, NextParts DEF DInv

\* What has been added to idle_coordinators or taken from it.
LEMMA Listed ==
  ASSUME NEW S, NEW s \in Seq(S), NEW m \in S
  PROVE  /\ \A x : Contains(Append(s, m), x) <=> Contains(s, x) \/ x = m
         /\ s # <<>> => \A x : Contains(s, x) <=> Contains(Tail(s), x) \/ x = Head(s)
<1>1. \A x : Contains(Append(s, m), x) <=> Contains(s, x) \/ x = m
  <2> DEFINE r == Append(s, m)
  <2>1. /\ Len(s) \in Nat /\ Len(r) = Len(s) + 1 /\ r[Len(s) + 1] = m
        /\ \A i \in 1 .. Len(s) : r[i] = s[i]
    BY Added
  <2>2. 1 .. Len(r) = (1 .. Len(s)) \union {Len(s) + 1}
    BY <2>1
  <2> HIDE DEF r
  <2>3. \A x : Contains(r, x) <=> Contains(s, x) \/ x = m
    BY <2>1, <2>2 DEF Contains
  <2> QED
    BY <2>3 DEF r
<1>2. ASSUME s # <<>>
      PROVE  \A x : Contains(s, x) <=> Contains(Tail(s), x) \/ x = Head(s)
  <2> DEFINE r == Tail(s)
  <2>1. /\ Len(s) \in Nat /\ Len(s) > 0 /\ Head(s) = s[1] /\ Len(r) = Len(s) - 1
        /\ \A i \in 1 .. Len(s) - 1 : r[i] = s[i + 1]
    BY <1>2, Taken
  <2> HIDE DEF r
  <2>2. \A i \in 1 .. Len(r) : r[i] = s[i + 1] /\ i + 1 \in 1 .. Len(s)
    BY <2>1
  <2>3. \A i \in 1 .. Len(s) : i = 1 \/ (i - 1 \in 1 .. Len(r) /\ r[i - 1] = s[i])
    BY <2>1
  <2>4. 1 \in 1 .. Len(s)
    BY <2>1
  <2>5. \A x : Contains(s, x) <=> Contains(r, x) \/ x = Head(s)
    <3>1. ASSUME NEW x, Contains(s, x), x # Head(s)
          PROVE  Contains(r, x)
      <4>1. PICK i \in 1 .. Len(s) : s[i] = x
        BY <3>1 DEF Contains
      <4>2. i # 1
        BY <2>1, <3>1, <4>1
      <4>3. i - 1 \in 1 .. Len(r) /\ r[i - 1] = s[i]
        BY <2>3, <4>2
      <4> QED
        BY <4>1, <4>3 DEF Contains
    <3>2. ASSUME NEW x, Contains(r, x)
          PROVE  Contains(s, x)
      BY <2>2, <3>2 DEF Contains
    <3>3. Contains(s, Head(s))
      BY <2>1, <2>4 DEF Contains
    <3> QED
      BY <3>1, <3>2, <3>3
  <2> QED
    BY <2>5 DEF r
<1> QED
  BY <1>1, <1>2

\* c has answered, so no other message of a split is under way.
LEMMA AnswerHeard ==
  ASSUME NEW c \in Rank, Lost(c2l, c), Answering(Head(c2l[c])), OneSplit(c)
  PROVE  /\ ~Sent(c2l', c, "split_succeed") /\ ~Sent(c2l', c, "split_failed")
         /\ ~Sent(l2c, c, "request_split") /\ ~Sent(l2c, c, "transfer_node")
<1>1. /\ Len(c2l[c]) \in Nat /\ Len(c2l[c]) > 0 /\ Head(c2l[c]) = c2l[c][1]
      /\ Len(c2l'[c]) = Len(c2l[c]) - 1
      /\ \A i \in 1 .. Len(c2l[c]) - 1 : c2l'[c][i] = c2l[c][i + 1]
  BY DEF Lost
<1>2. \A i \in 1 .. Len(c2l'[c]) :
        /\ i \in Nat /\ c2l'[c][i] = c2l[c][i + 1]
        /\ i + 1 \in 1 .. Len(c2l[c]) /\ i + 1 # 1
  BY <1>1
<1>3. 1 \in 1 .. Len(c2l[c])
  BY <1>1
<1>4. \A i \in 1 .. Len(c2l'[c]) : ~Answering(c2l'[c][i])
  BY <1>1, <1>2, <1>3 DEF OneSplit
<1>5. \A i \in 1 .. Len(l2c[c]) : ~Asking(l2c[c][i])
  BY <1>1, <1>3 DEF OneSplit
<1> QED
  BY <1>4, <1>5 DEF Sent, Answering, Asking

\* A message of its type is under way.
LEMMA RequestedSent ==
  ASSUME TypeOK, NEW c \in Rank, NEW t, Requested(c, t)
  PROVE  \/ Sent(l2c, c, "request_split")
         \/ Sent(c2l, c, "split_succeed") \/ Sent(c2l, c, "split_failed")
BY MessageKinds DEF Requested, Sent, Contains, Reported

\* An answered request leaves one target less.
LEMMA FewerTargets ==
  ASSUME TypeOK, RequestTargets' \subseteq RequestTargets, numTasks' = numTasks,
         RequestsBounded
  PROVE  RequestsBounded'
<1> DEFINE A == RequestTargets
           B == RequestTargets'
<1>1. IsFiniteSet(A) /\ B \subseteq A
  BY TargetsFinite
<1> HIDE DEF A, B
<1>2. Cardinality(B) <= Cardinality(A) /\ Cardinality(B) \in Nat /\ Cardinality(A) \in Nat
  BY <1>1, FS_Subset, FS_CardinalityType
<1>3. numTasks + Cardinality(A) <= MaxTasks
  BY DEF RequestsBounded, A
<1>4. numTasks \in Nat /\ MaxTasks \in Nat
  BY Tasks DEF TypeOK, TaskTypeOK
<1>5. numTasks + Cardinality(B) <= MaxTasks
  BY <1>2, <1>3, <1>4
<1> QED
  BY <1>5 DEF RequestsBounded, B

\* A coordinator that was not in idle_coordinators is added.
LEMMA IdleAdded ==
  ASSUME idle \in Seq(Dist), IdleApart, NEW t \in Dist, ~Contains(idle, t),
         idle' = Append(idle, t), cstatus'[t] = "idle",
         \A d \in Dist : d # t /\ cstatus[d] = "idle" => cstatus'[d] = "idle"
  PROVE  IdleApart'
<1>1. /\ Len(idle) \in Nat /\ Len(idle') = Len(idle) + 1 /\ idle'[Len(idle) + 1] = t
      /\ \A i \in 1 .. Len(idle) : idle'[i] = idle[i]
  BY Added
<1>2. 1 .. Len(idle') = (1 .. Len(idle)) \union {Len(idle) + 1}
  BY <1>1
<1>3. \A i \in 1 .. Len(idle) : idle[i] \in Dist /\ idle[i] # t /\ cstatus[idle[i]] = "idle"
  BY ElementOfSeq DEF Contains, IdleApart
<1>4. \A i \in 1 .. Len(idle') : cstatus'[idle'[i]] = "idle"
  BY <1>1, <1>2, <1>3
<1>5. ASSUME NEW i \in 1 .. Len(idle'), NEW j \in 1 .. Len(idle'), idle'[i] = idle'[j]
      PROVE  i = j
  BY <1>1, <1>2, <1>3, <1>5 DEF IdleApart
<1> QED
  BY <1>4, <1>5 DEF IdleApart

\* A refused split keeps the invariant.
LEMMA FailedStep ==
  ASSUME DInv, NEW c \in Rank, GetSplitFailed(c)
  PROVE  DInv'
<1> DEFINE t == Head(c2l[c]).rank
<1>1. /\ c \in Dist /\ t \in Dist /\ at = "loop" /\ Requested(c, t)
      /\ t \in RequestTargets /\ Lost(c2l, c) /\ Head(c2l[c]) = SplitFailed(t)
  BY FailedFacts
<1>2. /\ TypeOK /\ CoordSame /\ Next
      /\ idle' = Append(idle, t)
      /\ cstatus' = [cstatus EXCEPT ![c] = IF @ = "splitting" THEN "solving" ELSE @]
      /\ UNCHANGED <<taskVars, at, verdict, assigned, nextSplit, l2c>>
  BY DEF DInv, GetSplitFailed, BackToIdle, Next, LeaderHears
<1> HIDE DEF t
<1>3. /\ \A d \in Dist : Talk(d)
      /\ TargetsApart /\ IdleApart /\ Chains /\ ChainsMeet /\ UnsatBelow
      /\ OpenTasks /\ RequestsBounded /\ idle \in Seq(Dist)
      /\ cstatus \in [Dist -> {"idle", "solving", "splitting"}]
  BY <1>1 DEF DInv, Talk, TypeOK
<1>4. /\ cstatus'[c] = IF cstatus[c] = "splitting" THEN "solving" ELSE cstatus[c]
      /\ \A d \in Dist : d # c => cstatus'[d] = cstatus[d]
      /\ \A d \in Dist : cstatus'[d] = "idle" <=> cstatus[d] = "idle"
  BY <1>1, <1>2, <1>3
<1>5. /\ \A type : Sent(c2l', c, type) => Sent(c2l, c, type)
      /\ \A m : Reported(c, m)' => Reported(c, m)
      /\ \A d \in Rank : d # c => c2l'[d] = c2l[d]
  BY <1>1, UpLost
<1>6. /\ ~Sent(c2l', c, "split_succeed") /\ ~Sent(c2l', c, "split_failed")
      /\ ~Sent(l2c, c, "request_split") /\ ~Sent(l2c, c, "transfer_node")
  BY <1>1, <1>3, AnswerHeard, MessageKinds DEF Talk
<1>7. Talk(c)'
  <2>1. OneSplit(c)' /\ InOrder(c)'
    BY <1>1, <1>2, <1>3, OrderHeard DEF Talk
  <2>2. phase' = phase /\ assigned' = assigned
    BY <1>2 DEF CoordSame, coordVars
  <2>3. \A type : Sent(l2c', c, type) <=> Sent(l2c, c, type)
    BY <1>2
  <2>4. InStep(c)'
    BY <1>1, <1>3, <1>4, <1>5, <1>6, <2>2, <2>3 DEF InStep, Talk
  <2> QED
    BY <2>1, <2>4 DEF Talk
<1>8. ASSUME NEW d \in Dist, d # c
      PROVE  Talk(d)'
  <2>1. Still(d) /\ phase'[d] = phase[d] /\ cstatus'[d] = cstatus[d] /\ assigned'[d] = assigned[d]
    BY <1>2, <1>4, <1>5, <1>8, Ranks DEF Still, CoordSame, coordVars
  <2> QED
    BY <1>3, <2>1, TalkFrame
<1>9. ASSUME NEW d \in Dist, NEW u \in Dist, Requested(d, u)'
      PROVE  Requested(d, u) /\ u # t /\ d # c
  <2>1. Requested(d, u)
    BY <1>2, <1>5, <1>9, Ranks DEF Requested, Reported
  <2>2. d # c
    BY SMTT(30), <1>2, <1>6, <1>9, MessageKinds DEF Requested, Reported, Contains, Sent
  <2> QED
    BY <1>1, <1>3, <2>1, <2>2 DEF TargetsApart
<1>10. \A x : Contains(idle', x) <=> Contains(idle, x) \/ x = t
  BY <1>1, <1>2, <1>3, Listed
<1>11. TargetsApart'
  BY <1>3, <1>4, <1>9, <1>10 DEF TargetsApart
<1>12. cstatus[t] = "idle" /\ ~Contains(idle, t)
  BY <1>1 DEF RequestTargets
<1>13. IdleApart'
  BY <1>1, <1>2, <1>3, <1>4, <1>12, IdleAdded
<1>14. RequestsBounded'
  <2>1. RequestTargets' \subseteq RequestTargets
    BY <1>4, <1>10 DEF RequestTargets
  <2> QED
    BY <1>2, <1>3, <2>1, FewerTargets DEF taskVars
<1>15. OpenTasks'
  BY <1>1, <1>2, <1>3, <1>4 DEF OpenTasks, taskVars
<1>16. Chains' /\ ChainsMeet' /\ UnsatBelow'
  BY <1>2, <1>3 DEF Chains, ChainsMeet, UnsatBelow, Upward, taskVars
<1>17. /\ at' = "loop" /\ UNCHANGED <<verdict, decision>>
       /\ l2c'[Iso] = l2c[Iso] /\ c2l'[Iso] = c2l[Iso]
  BY <1>1, <1>2, <1>5, Ranks DEF taskVars
<1> QED
  BY <1>1, <1>2, <1>7, <1>8, <1>11, <1>13, <1>14, <1>15, <1>16, <1>17, LoopKeeps

\* The first of idle_coordinators has gone from it.
LEMMA IdleTaken ==
  ASSUME idle \in Seq(Dist), idle # <<>>, IdleApart
  PROVE  /\ ~Contains(Tail(idle), Head(idle))
         /\ \A i, j \in 1 .. Len(Tail(idle)) : Tail(idle)[i] = Tail(idle)[j] => i = j
         /\ \A i \in 1 .. Len(Tail(idle)) : /\ Tail(idle)[i] \in Dist
                                            /\ cstatus[Tail(idle)[i]] = "idle"
         /\ Head(idle) \in Dist /\ cstatus[Head(idle)] = "idle"
         /\ Tail(idle) \in Seq(Dist)
<1> DEFINE r == Tail(idle)
<1>1. /\ Len(idle) \in Nat /\ Len(idle) > 0 /\ Head(idle) = idle[1]
      /\ Len(r) = Len(idle) - 1 /\ r \in Seq(Dist) /\ Head(idle) \in Dist
      /\ \A i \in 1 .. Len(idle) - 1 : r[i] = idle[i + 1]
  BY Taken
<1> HIDE DEF r
<1>2. \A i \in 1 .. Len(r) :
        i \in Nat /\ r[i] = idle[i + 1] /\ i + 1 \in 1 .. Len(idle) /\ i + 1 # 1
  BY <1>1
<1>3. 1 \in 1 .. Len(idle)
  BY <1>1
<1>4. ~Contains(r, Head(idle))
  BY <1>1, <1>2, <1>3 DEF Contains, IdleApart
<1>5. ASSUME NEW i \in 1 .. Len(r), NEW j \in 1 .. Len(r), r[i] = r[j]
      PROVE  i = j
  <2>1. i + 1 = j + 1
    BY <1>2, <1>5 DEF IdleApart
  <2> QED
    BY <1>2, <2>1
<1>6. \A i \in 1 .. Len(r) : r[i] \in Dist /\ cstatus[r[i]] = "idle"
  <2>1. \A k \in 1 .. Len(idle) : idle[k] \in Dist
    BY ElementOfSeq
  <2>2. \A k \in 1 .. Len(idle) : cstatus[idle[k]] = "idle"
    BY DEF IdleApart
  <2> QED
    BY <1>2, <2>1, <2>2
<1>7. cstatus[Head(idle)] = "idle"
  BY <1>1, <1>3 DEF IdleApart
<1> QED
  BY <1>1, <1>4, <1>5, <1>6, <1>7 DEF r

\* An idle coordinator that waits on keeps the invariant.
LEMMA RotateStep ==
  ASSUME DInv, AssignIdle, idle' = Append(Tail(idle), Head(idle)), UNCHANGED <<cstatus, l2c>>
  PROVE  DInv'
<1>1. /\ TypeOK /\ Next /\ CoordSame /\ at = "loop" /\ idle # <<>> /\ idle \in Seq(Dist)
      /\ UNCHANGED <<taskVars, at, verdict, assigned, c2l>>
  BY DEF DInv, AssignIdle, Next, TypeOK
<1>2. /\ \A d \in Dist : Talk(d)
      /\ TargetsApart /\ IdleApart /\ Chains /\ ChainsMeet /\ UnsatBelow
      /\ OpenTasks /\ RequestsBounded
  BY <1>1 DEF DInv, Talk
<1>3. /\ Tail(idle) \in Seq(Dist) /\ Head(idle) \in Dist
      /\ ~Contains(Tail(idle), Head(idle))
      /\ \A i, j \in 1 .. Len(Tail(idle)) : Tail(idle)[i] = Tail(idle)[j] => i = j
      /\ \A i \in 1 .. Len(Tail(idle)) : Tail(idle)[i] \in Dist /\ cstatus[Tail(idle)[i]] = "idle"
      /\ cstatus[Head(idle)] = "idle"
  BY <1>1, <1>2, IdleTaken
<1>4. \A x : Contains(idle', x) <=> Contains(idle, x)
  <2> DEFINE r == Tail(idle)
             t == Head(idle)
  <2>1. r \in Seq(Dist) /\ t \in Dist /\ idle' = Append(r, t)
        /\ \A x : Contains(idle, x) <=> Contains(r, x) \/ x = t
    BY <1>1, <1>3, Listed
  <2> HIDE DEF r, t
  <2>2. \A x : Contains(Append(r, t), x) <=> Contains(r, x) \/ x = t
    BY <2>1, Listed
  <2> QED
    BY <2>1, <2>2
<1>5. \A d \in Dist : Talk(d)'
  BY <1>1, <1>2, TalkFrame DEF Still, CoordSame, coordVars
<1>6. TargetsApart'
  BY <1>1, <1>2, <1>4 DEF TargetsApart, Requested, Reported
<1>7. IdleApart'
  <2> DEFINE r == Tail(idle)
             t == Head(idle)
  <2>1. /\ r \in Seq(Dist) /\ t \in Dist /\ ~Contains(r, t) /\ idle' = Append(r, t)
        /\ \A i, j \in 1 .. Len(r) : r[i] = r[j] => i = j
        /\ \A i \in 1 .. Len(r) : cstatus[r[i]] = "idle"
        /\ cstatus[t] = "idle"
    BY <1>3
  <2> HIDE DEF r, t
  <2>2. /\ Len(r) \in Nat /\ Len(Append(r, t)) = Len(r) + 1 /\ Append(r, t)[Len(r) + 1] = t
        /\ \A i \in 1 .. Len(r) : Append(r, t)[i] = r[i]
    BY <2>1, Added
  <2>3. 1 .. Len(idle') = (1 .. Len(r)) \union {Len(r) + 1}
    BY <2>1, <2>2
  <2>4. \A i \in 1 .. Len(r) : r[i] # t
    BY <2>1 DEF Contains
  <2>5. /\ idle'[Len(r) + 1] = t
        /\ \A i \in 1 .. Len(r) : idle'[i] = r[i]
    BY <2>1, <2>2
  <2>6. \A i \in 1 .. Len(idle') : cstatus'[idle'[i]] = "idle"
    BY <2>1, <2>3, <2>5
  <2>7. ASSUME NEW i \in 1 .. Len(idle'), NEW j \in 1 .. Len(idle'), idle'[i] = idle'[j]
        PROVE  i = j
    <3>1. CASE i = Len(r) + 1
      BY <2>2, <2>3, <2>4, <2>5, <2>7, <3>1
    <3>2. CASE j = Len(r) + 1
      BY <2>2, <2>3, <2>4, <2>5, <2>7, <3>2
    <3>3. CASE i \in 1 .. Len(r) /\ j \in 1 .. Len(r)
      BY <2>1, <2>5, <2>7, <3>3
    <3> QED
      BY <2>3, <3>1, <3>2, <3>3
  <2> QED
    BY <2>6, <2>7 DEF IdleApart
<1>8. RequestTargets' = RequestTargets
  BY <1>4 DEF RequestTargets
<1>9. RequestsBounded' /\ OpenTasks'
  BY <1>1, <1>2, <1>8 DEF RequestsBounded, OpenTasks, taskVars
<1>10. Chains' /\ ChainsMeet' /\ UnsatBelow'
  BY <1>1, <1>2 DEF Chains, ChainsMeet, UnsatBelow, Upward, taskVars
<1> QED
  BY <1>1, <1>5, <1>6, <1>7, <1>9, <1>10, LoopKeeps DEF taskVars

\* A request to split keeps the invariant.
LEMMA RequestStep ==
  ASSUME TabuCovers, DInv, AssignIdle, MaySplit(nextSplit), MayRequest, idle' = Tail(idle),
         cstatus' = [cstatus EXCEPT ![nextSplit] = "splitting"],
         l2c' = [l2c EXCEPT ![nextSplit] = Append(@, RequestSplit(Head(idle)))]
  PROVE  DInv'
<1>0. PICK n \in Dist, t \in Dist : n = nextSplit /\ t = Head(idle)
  BY AssignFacts
<1>1. /\ TypeOK /\ Next /\ CoordSame /\ at = "loop" /\ idle # <<>> /\ idle \in Seq(Dist)
      /\ UNCHANGED <<taskVars, at, verdict, assigned, c2l>>
      /\ n \in Dist /\ n \in Rank /\ cstatus \in [Dist -> {"idle", "solving", "splitting"}]
  BY <1>0, Ranks DEF DInv, AssignIdle, Next, TypeOK
<1>2. /\ \A d \in Dist : Talk(d)
      /\ TargetsApart /\ IdleApart /\ Chains /\ ChainsMeet /\ UnsatBelow
      /\ OpenTasks /\ RequestsBounded
  BY <1>1 DEF DInv, Talk
<1>3. /\ Tail(idle) \in Seq(Dist) /\ t \in Dist
      /\ ~Contains(Tail(idle), t)
      /\ \A i, j \in 1 .. Len(Tail(idle)) : Tail(idle)[i] = Tail(idle)[j] => i = j
      /\ \A i \in 1 .. Len(Tail(idle)) : Tail(idle)[i] \in Dist /\ cstatus[Tail(idle)[i]] = "idle"
      /\ cstatus[t] = "idle"
  BY <1>0, <1>1, <1>2, IdleTaken
<1>4. \A x : Contains(idle, x) <=> Contains(idle', x) \/ x = t
  BY <1>0, <1>1, <1>3, Listed
<1>5. cstatus[n] = "solving" /\ l2c[n] = <<>> /\ c2l[n] = <<>> /\ assigned[n] # NoTask
  BY <1>0, <1>1, <1>2 DEF MaySplit, TabuOver, Talk, InStep
<1>6. Got(l2c, n, RequestSplit(t))
  BY <1>0, <1>1, <1>3, MessageTypes, SendsFacts
<1>7. /\ cstatus'[n] = "splitting" /\ \A d \in Dist : d # n => cstatus'[d] = cstatus[d]
  BY <1>0, <1>1
<1>8. /\ \A type : Sent(l2c', n, type) <=> Sent(l2c, n, type) \/ type = "request_split"
      /\ \A x : Contains(l2c'[n], x) <=> Contains(l2c[n], x) \/ x = RequestSplit(t)
      /\ \A d \in Rank : d # n => l2c'[d] = l2c[d]
  <2> DEFINE m == RequestSplit(t)
  <2>1. Got(l2c, n, m) /\ m.type = "request_split" /\ n \in Rank
    BY <1>1, <1>6, MessageKinds
  <2> HIDE DEF m
  <2>2. /\ \A type : Sent(l2c', n, type) <=> Sent(l2c, n, type) \/ m.type = type
        /\ \A x : Contains(l2c'[n], x) <=> Contains(l2c[n], x) \/ x = m
        /\ \A d \in Rank : d # n => l2c'[d] = l2c[d]
    BY <2>1, DownGot
  <2>3. \A type : Sent(l2c', n, type) <=> Sent(l2c, n, type) \/ type = "request_split"
    BY <2>1, <2>2
  <2> QED
    BY <2>2, <2>3 DEF m
<1>9. \A type : ~Sent(l2c, n, type) /\ ~Sent(c2l, n, type)
  BY <1>5 DEF Sent
<1>10. Talk(n)'
  <2>1. OneSplit(n)' /\ InOrder(n)'
    <3>1. c2l'[n] = c2l[n] /\ ~Sent(l2c, n, "assign_node")
      BY <1>1, <1>9
    <3>2. /\ \A i \in 1 .. Len(l2c[n]) : ~Asking(l2c[n][i])
          /\ \A i \in 1 .. Len(c2l[n]) : ~Answering(c2l[n][i])
      BY <1>5
    <3>3. OneSplit(n) /\ InOrder(n)
      BY <1>1, <1>2 DEF Talk
    <3> DEFINE m == RequestSplit(t)
    <3>4. Got(l2c, n, m)
      BY <1>6
    <3> HIDE DEF m
    <3> QED
      BY <1>1, <3>1, <3>2, <3>3, <3>4, OrderSent
  <2>2. UNCHANGED <<assigned, phase, c2l>>
    BY <1>1 DEF CoordSame, coordVars
  <2>3. \A type : ~Sent(c2l', n, type)
    BY <1>9, <2>2
  <2>4. /\ ~Sent(l2c', n, "assign_node") /\ ~Sent(l2c', n, "terminate")
        /\ assigned'[n] # NoTask /\ cstatus'[n] = "splitting"
    <3>1. ~Sent(l2c', n, "assign_node")
      BY <1>8, <1>9 DEF Sent
    <3>2. ~Sent(l2c', n, "terminate")
      BY <1>8, <1>9 DEF Sent
    <3> QED
      BY <1>5, <1>7, <2>2, <3>1, <3>2
  <2>5. InStep(n)'
    BY <2>3, <2>4 DEF InStep
  <2> QED
    BY <2>1, <2>5 DEF Talk
<1>11. ASSUME NEW d \in Dist, d # n
       PROVE  Talk(d)'
  <2>1. Still(d) /\ phase'[d] = phase[d] /\ cstatus'[d] = cstatus[d] /\ assigned'[d] = assigned[d]
    BY <1>1, <1>7, <1>8, <1>11, Ranks DEF Still, CoordSame, coordVars
  <2> QED
    BY <1>2, <2>1, TalkFrame
<1>12. ASSUME NEW d \in Dist, NEW u \in Dist, Requested(d, u)'
       PROVE  Requested(d, u) \/ (d = n /\ u = t)
  <2>1. CASE d = n
    <3>1. Requested(n, u) \/ RequestSplit(u) = RequestSplit(t)
      BY <1>1, <1>8, <1>12, <2>1 DEF Requested, Reported
    <3> QED
      BY <2>1, <3>1, MessageKinds
  <2>2. CASE d # n
    BY <1>1, <1>8, <1>12, <2>2, Ranks DEF Requested, Reported
  <2> QED
    BY <2>1, <2>2
<1>13. \A d \in Dist : ~Requested(d, t)
  BY <1>2, <1>3, <1>4 DEF TargetsApart
<1>14. TargetsApart'
  <2> SUFFICES ASSUME NEW d \in Dist, NEW u \in Dist, Requested(d, u)'
               PROVE  /\ cstatus'[u] = "idle" /\ ~Contains(idle', u)
                      /\ \A e \in Dist : Requested(e, u)' => e = d
    BY DEF TargetsApart
  <2>1. CASE u = t
    BY <1>3, <1>5, <1>7, <1>12, <1>13, <2>1
  <2>2. CASE u # t
    <3>1. Requested(d, u) /\ cstatus[u] = "idle" /\ ~Contains(idle, u)
          /\ \A e \in Dist : Requested(e, u) => e = d
      BY <1>2, <1>12, <2>2 DEF TargetsApart
    <3> QED
      BY <1>4, <1>5, <1>7, <1>12, <2>2, <3>1
  <2> QED
    BY <2>1, <2>2
<1>15. IdleApart'
  BY <1>3, <1>5, <1>7 DEF IdleApart
<1>16. RequestsBounded'
  <2> DEFINE A == RequestTargets
             B == RequestTargets'
  <2>1. IsFiniteSet(A)
    BY <1>1, TargetsFinite
  <2>2. B \subseteq A \union {t}
    BY <1>4, <1>5, <1>7 DEF RequestTargets
  <2>3. numTasks + Cardinality(A) < MaxTasks
    BY DEF MayRequest
  <2> HIDE DEF A, B
  <2>4. IsFiniteSet(A \union {t}) /\ Cardinality(A \union {t}) <= Cardinality(A) + 1
        /\ Cardinality(A) \in Nat /\ Cardinality(A \union {t}) \in Nat
    <3>1. /\ IsFiniteSet(A \union {t})
          /\ Cardinality(A \union {t}) = IF t \in A THEN Cardinality(A) ELSE Cardinality(A) + 1
      BY <2>1, FS_AddElement
    <3>2. Cardinality(A) \in Nat
      BY <2>1, FS_CardinalityType
    <3> QED
      BY <3>1, <3>2
  <2>5. Cardinality(B) <= Cardinality(A \union {t}) /\ Cardinality(B) \in Nat
    BY <2>2, <2>4, FS_Subset, FS_CardinalityType
  <2>6. numTasks \in Nat /\ MaxTasks \in Nat
    BY <1>1, Tasks DEF TypeOK, TaskTypeOK
  <2>7. numTasks + Cardinality(B) <= MaxTasks
    BY <2>3, <2>4, <2>5, <2>6
  <2>8. numTasks' = numTasks
    BY <1>1 DEF taskVars
  <2> QED
    BY <2>7, <2>8 DEF RequestsBounded, B
<1>17. OpenTasks'
  <2>1. \A d \in Dist : cstatus'[d] = "idle" <=> cstatus[d] = "idle"
    BY <1>5, <1>7
  <2> QED
    BY <1>1, <1>2, <2>1 DEF OpenTasks, taskVars
<1>18. Chains' /\ ChainsMeet' /\ UnsatBelow'
  BY <1>1, <1>2 DEF Chains, ChainsMeet, UnsatBelow, Upward, taskVars
<1>19. l2c'[Iso] = l2c[Iso] /\ c2l'[Iso] = c2l[Iso] /\ at' = "loop"
       /\ UNCHANGED <<verdict, decision>>
  BY <1>1, <1>8, Ranks DEF taskVars
<1> QED
  BY <1>1, <1>10, <1>11, <1>14, <1>15, <1>16, <1>17, <1>18, <1>19, LoopKeeps

\* AssignIdle keeps the invariant.
LEMMA AssignStep ==
  ASSUME TabuCovers, DInv, AssignIdle
  PROVE  DInv'
BY RotateStep, RequestStep DEF AssignIdle

\* The tree has one task more, under p.
LEMMA TreeGrown ==
  ASSUME TypeOK, NEW p \in 0 .. (numTasks - 1), NEW z \in Task, z = numTasks,
         SplitTasks(<<p>>)
  PROVE  /\ numTasks' = z + 1 /\ parent'[z] = p
         /\ above'[z] = Upward(p)
         /\ \A n \in Task : n # z => parent'[n] = parent[n] /\ above'[n] = above[n]
         /\ \A n \in Task : n # z => Upward(n)' = Upward(n)
         /\ Upward(z)' = Upward(p) \union {z}
         /\ p \in Task /\ p # z
<1>1. Len(<<p>>) = 1 /\ <<p>>[1] = p /\ z \in Nat /\ MaxTasks \in Nat
  BY Tasks
<1>2. p \in Task /\ p # z
  BY <1>1 DEF Task
<1>3. numTasks .. (numTasks + Len(<<p>>) - 1) = {z}
  BY <1>1
<1>4. /\ numTasks' = z + 1
      /\ parent' = [n \in Task |-> IF n \in {z} THEN <<p>>[n - z + 1] ELSE parent[n]]
      /\ above' = [n \in Task |-> IF n \in {z}
                                  THEN above[<<p>>[n - z + 1]] \union {<<p>>[n - z + 1]}
                                  ELSE above[n]]
  BY <1>1, <1>3 DEF SplitTasks
<1>5. z - z + 1 = 1
  BY <1>1
<1>6. /\ parent'[z] = p /\ above'[z] = above[p] \union {p}
      /\ \A n \in Task : n # z => parent'[n] = parent[n] /\ above'[n] = above[n]
  BY <1>1, <1>4, <1>5
<1> QED
  BY <1>2, <1>4, <1>6 DEF Upward

\* What is above a task is a task.
LEMMA Above ==
  ASSUME TypeOK, Chains, NEW n \in 0 .. (numTasks - 1)
  PROVE  above[n] \subseteq 0 .. (n - 1) /\ Upward(n) \subseteq 0 .. (numTasks - 1)
         /\ n \in Task /\ numTasks \in Nat
<1>1. numTasks \in Nat /\ numTasks <= MaxTasks /\ n \in Nat /\ MaxTasks \in Nat
  BY Tasks DEF TypeOK, TaskTypeOK
<1>2. above[n] \subseteq 0 .. (n - 1)
  BY <1>1 DEF Chains, RootTask
<1> QED
  BY <1>1, <1>2 DEF Upward, Task

\* A split puts two tasks under a leaf and keeps the chains.
LEMMA TreeGrows ==
  ASSUME TypeOK, Chains, ChainsMeet, UnsatBelow, NEW p \in 0 .. (numTasks - 1),
         numTasks \in Task, partial[p] = "unsolved",
         SplitTasks(<<p>>), UNCHANGED <<partial, whole>>
  PROVE  Chains' /\ ChainsMeet' /\ UnsatBelow'
<1>0. PICK z \in Task : z = numTasks
  OBVIOUS
<1>1. /\ numTasks' = z + 1 /\ parent'[z] = p
      /\ above'[z] = Upward(p)
      /\ \A n \in Task : n # z => parent'[n] = parent[n] /\ above'[n] = above[n]
      /\ \A n \in Task : n # z => Upward(n)' = Upward(n)
      /\ Upward(z)' = Upward(p) \union {z}
      /\ p \in Task /\ p # z
  BY <1>0, TreeGrown
<1>2. z \in Nat /\ z > 0 /\ MaxTasks \in Nat /\ p \in 0 .. (z - 1) /\ RootTask = 0
  BY <1>0, Tasks DEF RootTask, Chains
<1>3. ASSUME NEW n \in 0 .. z
      PROVE  n \in 0 .. (z - 1) \/ n = z
  BY <1>2
<1>4. ASSUME NEW n \in 0 .. (z - 1)
      PROVE  /\ n \in Task /\ n # z /\ n \in Nat /\ above[n] \subseteq 0 .. (n - 1)
             /\ Upward(n) \subseteq 0 .. (z - 1)
             /\ Upward(n)' = Upward(n) /\ above'[n] = above[n] /\ parent'[n] = parent[n]
  <2>1. n \in Task /\ n # z /\ n \in Nat
    BY <1>2, <1>4, Tasks DEF Task
  <2>2. above[n] \subseteq 0 .. (n - 1) /\ Upward(n) \subseteq 0 .. (z - 1)
    BY <1>0, Above
  <2> QED
    BY <1>1, <2>1, <2>2
<1>5. numTasks' - 1 = z
  BY <1>1, <1>2
<1>6. Chains'
  <2>1. numTasks' > 0 /\ above'[RootTask] = {}
    BY <1>1, <1>2, <1>4 DEF Chains
  <2>2. ASSUME NEW n \in 1 .. z
        PROVE  /\ parent'[n] < n
               /\ above'[n] = Upward(parent[n])' \/ n = z
               /\ above'[n] \subseteq 0 .. (n - 1)
               /\ RootTask \in above'[n]
    <3>1. CASE n = z
      <4>1. Upward(p) \subseteq 0 .. (z - 1) /\ RootTask \in Upward(p)
        BY <1>0, <1>2, <1>4 DEF Chains, Upward
      <4> QED
        BY <1>1, <1>2, <3>1, <4>1
    <3>2. CASE n # z
      <4>1. n \in 0 .. (z - 1) /\ n \in 1 .. (z - 1)
        BY <1>2, <3>2
      <4>2. /\ parent[n] < n /\ above[n] = Upward(parent[n])
            /\ above[n] \subseteq 0 .. (n - 1) /\ RootTask \in above[n]
        BY <1>0, <4>1 DEF Chains
      <4>3. /\ above'[n] = above[n] /\ parent'[n] = parent[n] /\ n \in Task
        BY <1>4, <4>1
      <4>4. parent[n] \in Task /\ parent[n] # z
        <5>1. parent[n] \in Task
          BY <4>3 DEF TypeOK, TaskTypeOK
        <5> QED
          BY <1>2, <4>1, <4>2, <5>1, Tasks
      <4>5. Upward(parent[n])' = Upward(parent[n])
        BY <1>1, <4>3, <4>4 DEF Upward
      <4> QED
        BY <4>2, <4>3, <4>5
    <3> QED
      BY <3>1, <3>2
  <2>3. above'[z] = Upward(parent[z])'
    <3>1. Upward(p)' = Upward(p)
      BY <1>1
    <3> QED
      BY <1>1, <3>1 DEF Upward
  <2>4. \A n \in Task : n >= numTasks' => partial'[n] = "unsolved" /\ whole'[n] = "unsolved"
    <3>1. \A n \in Task : n >= z + 1 => n >= z
      BY <1>2, Tasks
    <3> QED
      BY <1>0, <1>1, <3>1 DEF Chains
  <2> QED
    BY <1>5, <2>1, <2>2, <2>3, <2>4 DEF Chains
<1>7. ChainsMeet'
  <2>1. ASSUME NEW n \in 0 .. z, NEW a \in above'[n]
        PROVE  above'[a] \subseteq above'[n]
    <3>1. CASE n = z
      <4>1. a \in Upward(p) /\ a \in 0 .. (z - 1)
        BY <1>1, <1>2, <1>4, <2>1, <3>1
      <4>2. above[a] \subseteq Upward(p)
        BY <1>0, <1>2, <4>1 DEF ChainsMeet, Upward
      <4> QED
        BY <1>1, <1>4, <3>1, <4>1, <4>2
    <3>2. CASE n \in 0 .. (z - 1)
      <4>1. a \in above[n] /\ a \in Upward(n) /\ a \in 0 .. (z - 1)
        BY <1>4, <2>1, <3>2 DEF Upward
      <4>2. above[a] \subseteq above[n]
        BY <1>0, <3>2, <4>1 DEF ChainsMeet
      <4> QED
        BY <1>4, <3>2, <4>1, <4>2
    <3> QED
      BY <1>3, <3>1, <3>2
  <2>2. ASSUME NEW n \in 0 .. z, NEW a \in Upward(n)', NEW b \in Upward(n)'
        PROVE  a \in Upward(b)' \/ b \in Upward(a)'
    <3>1. CASE n = z
      <4>1. a \in Upward(p) \union {z} /\ b \in Upward(p) \union {z}
        BY <1>1, <2>2, <3>1
      <4>2. CASE a = z
        BY <1>1, <4>1, <4>2
      <4>3. CASE b = z
        BY <1>1, <4>1, <4>3
      <4>4. CASE a \in Upward(p) /\ b \in Upward(p)
        <5>1. a \in 0 .. (z - 1) /\ b \in 0 .. (z - 1)
          BY <1>2, <1>4, <4>4
        <5>2. a \in Upward(b) \/ b \in Upward(a)
          BY <1>0, <1>2, <4>4 DEF ChainsMeet
        <5> QED
          BY <1>4, <5>1, <5>2
      <4> QED
        BY <4>1, <4>2, <4>3, <4>4
    <3>2. CASE n \in 0 .. (z - 1)
      <4>1. a \in Upward(n) /\ b \in Upward(n) /\ a \in 0 .. (z - 1) /\ b \in 0 .. (z - 1)
        BY <1>4, <2>2, <3>2
      <4>2. a \in Upward(b) \/ b \in Upward(a)
        BY <1>0, <3>2, <4>1 DEF ChainsMeet
      <4> QED
        BY <1>4, <4>1, <4>2
    <3> QED
      BY <1>3, <3>1, <3>2
  <2>3. ASSUME NEW m \in 0 .. z, NEW n \in 0 .. z, m \notin Upward(n)'
        PROVE  \E c \in Upward(m)' :
                 c \notin Upward(n)' /\ c # RootTask /\ parent'[c] \in Upward(n)'
    <3>1. CASE m = z /\ n = z
      BY <1>1, <2>3, <3>1
    <3>2. CASE m = z /\ n \in 0 .. (z - 1)
      <4>1. CASE p \in Upward(n)
        <5>1. z \notin Upward(n)' /\ p \in Upward(n)'
          BY <1>4, <2>3, <3>2, <4>1
        <5> QED
          BY <1>1, <1>2, <3>2, <5>1
      <4>2. CASE p \notin Upward(n)
        <5>1. PICK c \in Upward(p) :
                c \notin Upward(n) /\ c # RootTask /\ parent[c] \in Upward(n)
          BY <1>0, <1>2, <3>2, <4>2 DEF ChainsMeet
        <5>2. c \in 0 .. (z - 1)
          BY <1>2, <1>4
        <5>3. c \in Upward(m)' /\ c \notin Upward(n)' /\ parent'[c] \in Upward(n)'
          BY <1>1, <1>4, <3>2, <5>1, <5>2
        <5> QED
          BY <5>1, <5>3
      <4> QED
        BY <4>1, <4>2
    <3>3. CASE m \in 0 .. (z - 1) /\ n = z
      <4>1. m \notin Upward(p)
        BY <1>1, <2>3, <3>3
      <4>2. PICK c \in Upward(m) :
              c \notin Upward(p) /\ c # RootTask /\ parent[c] \in Upward(p)
        BY <1>0, <1>2, <3>3, <4>1 DEF ChainsMeet
      <4>3. c \in 0 .. (z - 1) /\ c # z
        BY <1>2, <1>4, <3>3
      <4>4. c \in Upward(m)' /\ c \notin Upward(n)' /\ parent'[c] \in Upward(n)'
        BY <1>1, <1>4, <3>3, <4>2, <4>3
      <4> QED
        BY <4>2, <4>4
    <3>4. CASE m \in 0 .. (z - 1) /\ n \in 0 .. (z - 1)
      <4>1. m \notin Upward(n)
        BY <1>4, <2>3, <3>4
      <4>2. PICK c \in Upward(m) :
              c \notin Upward(n) /\ c # RootTask /\ parent[c] \in Upward(n)
        BY <1>0, <3>4, <4>1 DEF ChainsMeet
      <4>3. c \in 0 .. (z - 1)
        BY <1>4, <3>4
      <4>4. c \in Upward(m)' /\ c \notin Upward(n)' /\ parent'[c] \in Upward(n)'
        BY <1>4, <3>4, <4>2, <4>3
      <4> QED
        BY <4>2, <4>4
    <3> QED
      BY <1>3, <3>1, <3>2, <3>3, <3>4
  <2> QED
    BY <1>5, <2>1, <2>2, <2>3 DEF ChainsMeet
<1>8. UnsatBelow'
  <2> SUFFICES ASSUME NEW a \in 0 .. z, NEW n \in 0 .. z, whole'[a] = "unsat",
                      a \in Upward(n)'
               PROVE  partial'[n] = "unsat"
    BY <1>5 DEF UnsatBelow
  <2>1. whole[z] = "unsolved"
    BY <1>0, <1>2 DEF Chains
  <2>2. a \in 0 .. (z - 1)
    BY <1>3, <2>1
  <2>3. CASE n = z
    <3>1. a \in Upward(p)
      BY <1>1, <1>2, <2>2, <2>3
    <3>2. partial[p] = "unsat"
      BY <1>0, <1>2, <2>2, <3>1 DEF UnsatBelow
    <3> QED
      BY <3>2
  <2>4. CASE n \in 0 .. (z - 1)
    BY <1>0, <1>4, <2>2, <2>4 DEF UnsatBelow
  <2> QED
    BY <1>3, <2>3, <2>4
<1> QED
  BY <1>6, <1>7, <1>8

\* A split that is reported keeps the invariant.
LEMMA SucceedStep ==
  ASSUME DInv, NEW c \in Rank, GetSplitSucceed(c)
  PROVE  DInv'
<1>0. PICK t \in Dist : t = Head(c2l[c]).rank
  BY SucceedFacts
<1>1. /\ c \in Dist /\ t # c /\ at = "loop"
      /\ Requested(c, t) /\ Sent(c2l, c, "split_succeed")
      /\ SplitExpected(c, t) /\ t \in RequestTargets
      /\ assigned[c] \in 0 .. (numTasks - 1)
      /\ numTasks \in Task /\ numTasks < MaxTasks
      /\ l2c' = SplitMessages(c, t)
      /\ SplitTasks(<<assigned[c]>>)
      /\ assigned' = [assigned EXCEPT ![t] = numTasks]
      /\ cstatus' = [cstatus EXCEPT ![t] = "solving", ![c] = "solving"]
      /\ UNCHANGED <<at, verdict, idle, nextSplit>>
  BY <1>0, SucceedFacts
<1>2. /\ TypeOK /\ CoordSame /\ Next /\ Heard(c, "split_succeed")
      /\ UNCHANGED <<partial, whole, decision>>
  BY DEF DInv, GetSplitSucceed, Next, LeaderHears
<1>3. /\ \A d \in Dist : Talk(d)
      /\ TargetsApart /\ IdleApart /\ Chains /\ ChainsMeet /\ UnsatBelow
      /\ OpenTasks /\ RequestsBounded /\ idle \in Seq(Dist)
      /\ cstatus \in [Dist -> {"idle", "solving", "splitting"}]
      /\ assigned \in [Dist -> Task \union {NoTask}]
  BY <1>1 DEF DInv, Talk, TypeOK
<1>4. /\ cstatus[t] = "idle" /\ cstatus[c] = "splitting" /\ assigned[c] # NoTask
      /\ assigned[t] = NoTask /\ ~Contains(idle, t)
  BY <1>1, <1>3 DEF SplitExpected, Talk, InStep, RequestTargets
<1>5. /\ cstatus'[t] = "solving" /\ cstatus'[c] = "solving"
      /\ assigned'[t] = numTasks /\ assigned'[c] = assigned[c]
      /\ \A d \in Dist : d \notin {c, t} => cstatus'[d] = cstatus[d]
      /\ \A d \in Dist : d # t => assigned'[d] = assigned[d]
  BY <1>1, <1>3
<1>6. Lost(c2l, c) /\ Head(c2l[c]).type = "split_succeed" /\ Answering(Head(c2l[c]))
  BY <1>2, HeardFacts DEF Answering
<1>7. /\ \A type : Sent(c2l', c, type) => Sent(c2l, c, type)
      /\ \A m : Reported(c, m)' => Reported(c, m)
      /\ \A d \in Rank : d # c => c2l'[d] = c2l[d]
  BY <1>6, UpLost
<1>8. /\ l2c'[c] = Append(l2c[c], TransferNode(t))
      /\ l2c'[t] = Append(l2c[t], AssignNode(c))
      /\ \A d \in Rank : d \notin {c, t} => l2c'[d] = l2c[d]
  BY <1>1, <1>2, SplitMessagesFacts
<1>9. /\ l2c[c] \in Seq(Message) /\ l2c[t] \in Seq(Message) /\ t \in Rank
      /\ TransferNode(t) \in Message /\ AssignNode(c) \in Message
  BY <1>1, <1>2, Ranks, MessageTypes DEF TypeOK
<1>10. UNCHANGED phase
  BY <1>2 DEF CoordSame, coordVars
\* The one that transfers the task.
<1>11. /\ OneSplit(c)' /\ InOrder(c)'
       /\ ~Sent(c2l', c, "split_succeed") /\ ~Sent(c2l', c, "split_failed")
       /\ \A type : Sent(l2c', c, type) => Sent(l2c, c, type) \/ type = "transfer_node"
       /\ ~Sent(l2c', c, "request_split") /\ ~Sent(l2c', c, "assign_node")
       /\ ~Sent(l2c', c, "terminate")
  <2> DEFINE m == TransferNode(t)
  <2>1. /\ m \in Message /\ m.type = "transfer_node" /\ Asking(m)
        /\ l2c'[c] = Append(l2c[c], m)
    BY <1>8, <1>9, MessageKinds
  <2> HIDE DEF m
  <2>2. /\ Len(l2c[c]) \in Nat /\ Len(l2c'[c]) = Len(l2c[c]) + 1
        /\ \A i \in 1 .. Len(l2c[c]) : l2c'[c][i] = l2c[c][i]
        /\ l2c'[c][Len(l2c[c]) + 1] = m
    BY <1>9, <2>1, Added
  <2>3. ~Sent(l2c, c, "assign_node") /\ ~Sent(l2c, c, "terminate")
    BY <1>1, <1>3 DEF Talk, InStep
  <2>4. OneSplit(c) /\ InOrder(c)
    BY <1>1, <1>3 DEF Talk
  <2>5. /\ ~Sent(c2l', c, "split_succeed") /\ ~Sent(c2l', c, "split_failed")
        /\ ~Sent(l2c, c, "request_split") /\ ~Sent(l2c, c, "transfer_node")
    BY <1>6, <2>4, AnswerHeard
  <2>6. /\ OneSplit(c)' /\ InOrder(c)'
    BY <1>6, <2>1, <2>2, <2>3, <2>4, OrderTransfer
  <2>7. 1 .. Len(l2c'[c]) = (1 .. Len(l2c[c])) \union {Len(l2c[c]) + 1}
    BY <2>2
  <2>8. \A type : Sent(l2c', c, type) => Sent(l2c, c, type) \/ type = "transfer_node"
    BY <2>1, <2>2, <2>7 DEF Sent
  <2>9. /\ ~Sent(l2c', c, "request_split") /\ ~Sent(l2c', c, "assign_node")
        /\ ~Sent(l2c', c, "terminate")
    BY <2>3, <2>5, <2>8
  <2> QED
    BY <2>5, <2>6, <2>8, <2>9
<1>12. Talk(c)'
  <2>1. InStep(c)'
    BY <1>1, <1>3, <1>4, <1>5, <1>7, <1>10, <1>11 DEF InStep, Talk
  <2> QED
    BY <1>11, <2>1 DEF Talk
\* The one that receives it.
<1>13. /\ phase[t] \in {"idle", "crashed"} /\ ~Sent(l2c, t, "assign_node") /\ ~Sent(c2l, t, "result")
       /\ ~Sent(c2l, t, "split_succeed") /\ ~Sent(l2c, t, "terminate")
  BY <1>3, <1>4 DEF Talk, InStep
<1>14. OneSplit(t)' /\ InOrder(t)' /\ ~Sent(l2c', t, "terminate")
       /\ \A u \in Dist : Contains(l2c'[t], RequestSplit(u)) => Contains(l2c[t], RequestSplit(u))
  <2> DEFINE m == AssignNode(c)
  <2>1. m \in Message /\ m.type = "assign_node" /\ ~Asking(m) /\ l2c'[t] = Append(l2c[t], m)
    BY <1>8, <1>9, MessageKinds
  <2>2. \A u : RequestSplit(u) # m
    BY MessageKinds
  <2> HIDE DEF m
  <2>3. /\ Len(l2c[t]) \in Nat /\ Len(l2c'[t]) = Len(l2c[t]) + 1
        /\ \A i \in 1 .. Len(l2c[t]) : l2c'[t][i] = l2c[t][i]
        /\ l2c'[t][Len(l2c[t]) + 1] = m
    BY <1>9, <2>1, Added
  <2>4. 1 .. Len(l2c'[t]) = (1 .. Len(l2c[t])) \union {Len(l2c[t]) + 1}
    BY <2>3
  <2>5. c2l'[t] = c2l[t] /\ OneSplit(t) /\ InOrder(t)
    BY <1>1, <1>3, <1>7, <1>9 DEF Talk
  <2>6. OneSplit(t)'
    BY <2>1, <2>3, <2>4, <2>5 DEF OneSplit
  <2>7. ASSUME NEW i \in 1 .. Len(l2c'[t]), l2c'[t][i].type = "assign_node"
        PROVE  i = Len(l2c'[t])
    BY <1>13, <2>3, <2>4, <2>7 DEF Sent
  <2>8. InOrder(t)'
    BY <2>5, <2>7 DEF InOrder
  <2>9. ~Sent(l2c', t, "terminate")
    BY <1>13, <2>1, <2>3, <2>4 DEF Sent
  <2>10. \A u \in Dist : Contains(l2c'[t], RequestSplit(u)) => Contains(l2c[t], RequestSplit(u))
    BY <2>2, <2>3, <2>4 DEF Contains
  <2> QED
    BY <2>6, <2>8, <2>9, <2>10
<1>15. Talk(t)'
  <2>1. numTasks # NoTask
    BY <1>1, Tasks
  <2>2. c2l'[t] = c2l[t]
    BY <1>1, <1>7, <1>9
  <2>3. \A type : Sent(c2l', t, type) <=> Sent(c2l, t, type)
    BY <2>2 DEF Sent
  <2>4. InStep(t)'
    BY <1>3, <1>5, <1>10, <1>13, <1>14, <2>1, <2>3 DEF InStep, Talk
  <2> QED
    BY <1>14, <2>4 DEF Talk
<1>16. ASSUME NEW d \in Dist, d \notin {c, t}
       PROVE  Talk(d)'
  <2>1. Still(d) /\ phase'[d] = phase[d] /\ cstatus'[d] = cstatus[d] /\ assigned'[d] = assigned[d]
    BY <1>5, <1>7, <1>8, <1>10, <1>16, Ranks DEF Still
  <2> QED
    BY <1>3, <2>1, TalkFrame
<1>17. ASSUME NEW d \in Dist, NEW u \in Dist, Requested(d, u)'
       PROVE  Requested(d, u) /\ u # t /\ d # c
  <2>1. d # c
    BY <1>11, <1>17, MessageKinds DEF Requested, Reported, Contains, Sent
  <2>2. Requested(d, u)
    <3>1. CASE d = t
      BY <1>1, <1>7, <1>9, <1>14, <1>17, <3>1 DEF Requested, Reported
    <3>2. CASE d # t
      BY <1>7, <1>8, <1>17, <2>1, <3>2, Ranks DEF Requested, Reported
    <3> QED
      BY <3>1, <3>2
  <2> QED
    BY <1>1, <1>3, <2>1, <2>2 DEF TargetsApart
<1>18. TargetsApart'
  BY <1>1, <1>3, <1>4, <1>5, <1>17 DEF TargetsApart
<1>19. IdleApart'
  <2>1. \A i \in 1 .. Len(idle) : idle[i] \in Dist /\ idle[i] # t
    BY <1>3, <1>4, ElementOfSeq DEF Contains
  <2>2. \A i \in 1 .. Len(idle) : cstatus'[idle[i]] = "idle"
    BY <1>3, <1>4, <1>5, <2>1 DEF IdleApart
  <2> QED
    BY <1>1, <1>3, <2>2 DEF IdleApart
<1>20. numTasks' = numTasks + 1 /\ numTasks \in Nat /\ MaxTasks \in Nat
  BY <1>0, <1>1, <1>2, TreeGrown, Tasks
<1>21. RequestsBounded'
  <2> DEFINE A == RequestTargets
             B == RequestTargets'
  <2>1. IsFiniteSet(A) /\ t \in A
    BY <1>1, <1>2, TargetsFinite
  <2>2. B \subseteq A \ {t}
    BY <1>1, <1>4, <1>5 DEF RequestTargets
  <2>3. numTasks + Cardinality(A) <= MaxTasks
    BY <1>3 DEF RequestsBounded
  <2> HIDE DEF A, B
  <2>4. IsFiniteSet(A \ {t}) /\ Cardinality(A \ {t}) = Cardinality(A) - 1
    BY <2>1, FS_RemoveElement
  <2>5. Cardinality(B) <= Cardinality(A \ {t}) /\ Cardinality(B) \in Nat /\ Cardinality(A) \in Nat
    BY <2>1, <2>2, <2>4, FS_Subset, FS_CardinalityType
  <2>6. numTasks' + Cardinality(B) <= MaxTasks
    BY <1>20, <2>3, <2>4, <2>5
  <2> QED
    BY <2>6 DEF RequestsBounded, B
<1>22. partial[assigned[c]] = "unsolved" /\ partial[numTasks] = "unsolved"
  <2>1. assigned[c] \in {assigned[d] : d \in Dist} \ {NoTask}
    BY <1>1, <1>4
  <2>2. assigned[c] \in {n \in 0 .. (numTasks - 1) : partial[n] = "unsolved"}
    BY <1>1, <1>3, <2>1 DEF OpenTasks
  <2> QED
    BY <1>1, <1>3, <1>20, <2>2 DEF Chains
<1>23. Chains' /\ ChainsMeet' /\ UnsatBelow'
  BY <1>1, <1>2, <1>3, <1>22, TreeGrows
<1>24. OpenTasks'
  <2>1. \A d \in Dist : assigned[d] # numTasks
    <3>1. ASSUME NEW d \in Dist, assigned[d] = numTasks
          PROVE  FALSE
      <4>1. assigned[d] \in {assigned[e] : e \in Dist} \ {NoTask}
        BY <1>1, <3>1, Tasks
      <4>2. assigned[d] \in 0 .. (numTasks - 1)
        BY <1>1, <1>3, <4>1 DEF OpenTasks
      <4> QED
        BY <1>20, <3>1, <4>2
    <3> QED
      BY <3>1
  <2>2. ASSUME NEW d \in Dist, NEW e \in Dist, assigned'[d] = assigned'[e], d # e
        PROVE  assigned'[d] = NoTask
    BY <1>1, <1>3, <1>5, <2>1, <2>2 DEF OpenTasks
  <2>3. \A d \in Dist : (assigned'[d] # NoTask) <=> (cstatus'[d] # "idle")
    <3>1. assigned'[t] # NoTask /\ assigned'[c] # NoTask
      BY <1>1, <1>4, <1>5, Tasks
    <3> QED
      BY <1>1, <1>3, <1>5, <3>1 DEF OpenTasks
  <2>4. {n \in 0 .. numTasks : partial[n] = "unsolved"} =
          {n \in 0 .. (numTasks - 1) : partial[n] = "unsolved"} \union {numTasks}
    BY <1>20, <1>22
  <2>5. {assigned'[d] : d \in Dist} \ {NoTask} =
          ({assigned[d] : d \in Dist} \ {NoTask}) \union {numTasks}
    <3>1. ASSUME NEW d \in Dist, d # t
          PROVE  assigned'[d] = assigned[d]
      BY <1>5, <3>1
    <3>2. assigned'[t] = numTasks /\ numTasks # NoTask /\ assigned[t] = NoTask
      BY <1>1, <1>4, <1>5, Tasks
    <3> QED
      BY <3>1, <3>2
  <2>6. numTasks' - 1 = numTasks
    BY <1>20
  <2>7. {n \in 0 .. (numTasks - 1) : partial[n] = "unsolved"} =
          {assigned[d] : d \in Dist} \ {NoTask}
    BY <1>1, <1>3 DEF OpenTasks
  <2>8. {n \in 0 .. (numTasks' - 1) : partial'[n] = "unsolved"} =
          {assigned'[d] : d \in Dist} \ {NoTask}
    <3>1. partial' = partial
      BY <1>2
    <3> QED
      BY <2>4, <2>5, <2>6, <2>7, <3>1
  <2> QED
    BY <2>2, <2>3, <2>8 DEF OpenTasks
<1>25. /\ at' = "loop" /\ UNCHANGED <<verdict, decision>>
       /\ l2c'[Iso] = l2c[Iso] /\ c2l'[Iso] = c2l[Iso]
  BY <1>1, <1>2, <1>7, <1>8, Ranks
<1> QED
  BY <1>1, <1>2, <1>12, <1>15, <1>16, <1>18, <1>19, <1>21, <1>23, <1>24, <1>25, LoopKeeps

\* The first tasks are split from the root one by one.
LEMMA FirstTree ==
  ASSUME DInv, GetPrePartition, NEW k \in 1 .. N, k = First
  PROVE  /\ Chains' /\ ChainsMeet' /\ UnsatBelow'
         /\ numTasks' = k + 1 /\ k < MaxTasks
         /\ partial'[RootTask] = "unsat"
         /\ \A n \in 1 .. k : n \in Task /\ partial'[n] = "unsolved"
<1>1. /\ TypeOK /\ NothingYet /\ Chains /\ UnsatBelow
      /\ SplitTasks([i \in 1 .. k |-> RootTask])
      /\ partial' = [partial EXCEPT ![RootTask] = "unsat"] /\ whole' = whole
  BY FirstFacts DEF DInv, GetPrePartition
<1>2. /\ k \in Nat /\ k > 0 /\ k < MaxTasks /\ numTasks = 1 /\ RootTask = 0 /\ 0 \in Task
      /\ MaxTasks \in Nat
      /\ above[0] = {} /\ partial[0] = "unsolved"
  BY <1>1, Ranks, NAssumption, Tasks DEF NothingYet, Chains, RootTask
<1> DEFINE ps == [i \in 1 .. k |-> RootTask]
<1>3. Len(ps) = k /\ \A n \in 1 .. k : ps[n] = 0
  BY <1>2
<1>4. /\ 1 .. (1 + k - 1) = 1 .. k /\ \A n \in 1 .. k : n - 1 + 1 = n
  BY <1>2
<1>5. /\ numTasks' = k + 1
      /\ parent' = [n \in Task |-> IF n \in 1 .. k THEN ps[n - 1 + 1] ELSE parent[n]]
      /\ above' = [n \in Task |-> IF n \in 1 .. k
                                  THEN above[ps[n - 1 + 1]] \union {ps[n - 1 + 1]}
                                  ELSE above[n]]
  <2> HIDE DEF ps
  <2> SUFFICES SplitTasks(ps)
    BY <1>2, <1>3, <1>4 DEF SplitTasks
  <2> QED
    BY <1>1 DEF ps
<1> HIDE DEF ps
<1>6. \A n \in 1 .. k : n \in Task /\ n \in Nat /\ n # 0
  BY <1>2 DEF Task
<1>7. /\ \A n \in 1 .. k : parent'[n] = 0 /\ above'[n] = {0}
      /\ above'[0] = {}
  BY <1>2, <1>3, <1>4, <1>5, <1>6
<1>8. numTasks' - 1 = k /\ \A n \in 0 .. k : n = 0 \/ n \in 1 .. k
  BY <1>2, <1>5
<1>9. /\ \A n \in 1 .. k : Upward(n)' = {0, n}
      /\ Upward(0)' = {0}
  BY <1>7 DEF Upward
<1>10. /\ partial'[0] = "unsat"
       /\ \A n \in Task : n # 0 => partial'[n] = "unsolved" /\ whole[n] = "unsolved"
  <2>1. \A n \in Task : n # 0 => n >= 1
    BY <1>2 DEF Task
  <2> QED
    BY <1>1, <1>2, <2>1 DEF Chains, TypeOK, TaskTypeOK
<1>11. Chains'
  <2>1. numTasks' > 0 /\ above'[RootTask] = {}
    BY <1>2, <1>5, <1>7
  <2>2. ASSUME NEW n \in 1 .. k
        PROVE  /\ parent'[n] < n /\ above'[n] = Upward(parent[n])'
               /\ above'[n] \subseteq 0 .. (n - 1) /\ RootTask \in above'[n]
    <3>1. parent'[n] = 0 /\ above'[n] = {0} /\ n \in Nat /\ n > 0
      BY <1>6, <1>7
    <3>2. Upward(parent[n])' = {0}
      BY <1>7, <3>1 DEF Upward
    <3> QED
      BY <1>2, <3>1, <3>2
  <2>3. ASSUME NEW n \in Task, n >= numTasks'
        PROVE  partial'[n] = "unsolved" /\ whole'[n] = "unsolved"
    <3>1. n # 0
      BY <1>2, <1>5, <2>3
    <3> QED
      BY <1>1, <1>10, <3>1
  <2> QED
    BY <1>8, <2>1, <2>2, <2>3 DEF Chains
<1>12. ChainsMeet'
  <2>1. ASSUME NEW n \in 0 .. k, NEW a \in above'[n]
        PROVE  above'[a] \subseteq above'[n]
    BY <1>7, <1>8, <2>1
  <2>2. ASSUME NEW n \in 0 .. k, NEW a \in Upward(n)', NEW b \in Upward(n)'
        PROVE  a \in Upward(b)' \/ b \in Upward(a)'
    BY <1>8, <1>9, <2>2
  <2>3. ASSUME NEW m \in 0 .. k, NEW n \in 0 .. k, m \notin Upward(n)'
        PROVE  \E c \in Upward(m)' :
                 c \notin Upward(n)' /\ c # RootTask /\ parent'[c] \in Upward(n)'
    <3>1. m \in 1 .. k
      BY <1>8, <1>9, <2>3
    <3>2. m \in Upward(m)' /\ m # RootTask /\ parent'[m] \in Upward(n)'
      BY <1>2, <1>6, <1>7, <1>8, <1>9, <3>1
    <3> QED
      BY <2>3, <3>2
  <2> QED
    BY <1>8, <2>1, <2>2, <2>3 DEF ChainsMeet
<1>13. \A a \in 0 .. k : whole'[a] # "unsat"
  <2>1. whole[0] # "unsat"
    <3>1. 0 \in 0 .. (numTasks - 1) /\ 0 \in Upward(0)
      BY <1>2 DEF Upward
    <3> QED
      BY <1>1, <1>2, <3>1 DEF UnsatBelow
  <2> QED
    BY <1>1, <1>6, <1>8, <1>10, <2>1
<1>14. UnsatBelow'
  BY <1>8, <1>13 DEF UnsatBelow
<1> QED
  BY <1>2, <1>5, <1>6, <1>10, <1>11, <1>12, <1>14

\* Taking the first tasks keeps the invariant.
LEMMA FirstStep ==
  ASSUME DInv, GetPrePartition
  PROVE  DInv'
<1>0. PICK k \in 1 .. N : k = First
  BY FirstFacts
<1>1. /\ at = "init" /\ phase[Iso] = "waiting" /\ NothingYet
      /\ Len(c2l'[Iso]) = 0
      /\ \A c \in Dist : c2l'[c] = c2l[c]
      /\ cstatus' = [c \in Dist |-> IF c < k THEN "solving" ELSE "idle"]
      /\ assigned' = [c \in Dist |-> IF c < k THEN c + 1 ELSE NoTask]
      /\ idle' = [i \in 1 .. (N - k) |-> k + i - 1]
  BY <1>0, FirstFacts
<1>2. /\ \A c \in Dist : IF c < k THEN l2c'[c] = <<AssignNode(Iso)>> ELSE l2c'[c] = <<>>
      /\ l2c'[Iso] = <<AssignNode(Iso)>>
  BY <1>0, FirstMessages
<1>3. /\ TypeOK' /\ PartsInOrder' /\ PhasesApart' /\ CoordSame /\ at' = "loop"
      /\ verdict' = "none" /\ decision' = "unsolved"
  <2>1. Next /\ CoordSame /\ at' = "loop" /\ UNCHANGED <<verdict, decision>>
    BY DEF Next, GetPrePartition
  <2>2. verdict = "none" /\ decision = "unsolved"
    BY <1>1 DEF DInv
  <2> QED
    BY <2>1, <2>2, NextType, NextParts DEF DInv
<1>4. /\ Chains' /\ ChainsMeet' /\ UnsatBelow'
      /\ numTasks' = k + 1 /\ k < MaxTasks
      /\ partial'[RootTask] = "unsat"
      /\ \A n \in 1 .. k : n \in Task /\ partial'[n] = "unsolved"
  BY <1>0, FirstTree
<1>5. /\ N \in Nat /\ k \in Nat /\ k > 0 /\ k <= N /\ MaxTasks \in Nat
      /\ \A c \in Dist : c \in Nat /\ c < N
  BY <1>4, Ranks, Tasks DEF Dist
<1>6. ASSUME NEW c \in Dist
      PROVE  /\ phase'[c] \in {"idle", "crashed"} /\ Len(c2l'[c]) \in {0, 1}
             /\ \A i \in 1 .. Len(c2l'[c]) :
                  i = 1 /\ Len(c2l'[c]) = 1 /\ c2l'[c][i] = NotifyError /\ phase'[c] = "crashed"
  <2>1. Unused(c) /\ phase'[c] = phase[c] /\ c2l'[c] = c2l[c]
    BY <1>1, <1>3 DEF NothingYet, CoordSame, coordVars
  <2>2. CASE phase[c] = "idle"
    BY <2>1, <2>2 DEF Unused
  <2>3. CASE phase[c] # "idle"
    <3>1. c2l'[c] = <<NotifyError>> /\ phase'[c] = "crashed"
      BY <2>1, <2>3 DEF Unused
    <3>2. Len(c2l'[c]) = 1 /\ c2l'[c][1] = NotifyError
      BY <3>1
    <3> QED
      BY <3>1, <3>2
  <2> QED
    BY <2>2, <2>3
<1>7. /\ AssignNode(Iso).type = "assign_node" /\ ~Asking(AssignNode(Iso))
      /\ \A u : RequestSplit(u) # AssignNode(Iso)
  BY MessageKinds
<1>8. ASSUME NEW c \in Dist
      PROVE  /\ Len(l2c'[c]) \in {0, 1}
             /\ \A i \in 1 .. Len(l2c'[c]) :
                  l2c'[c][i] = AssignNode(Iso) /\ i = 1 /\ Len(l2c'[c]) = 1 /\ c < k
  <2>1. CASE c < k
    <3>1. l2c'[c] = <<AssignNode(Iso)>>
      BY <1>2, <2>1
    <3>2. Len(l2c'[c]) = 1 /\ l2c'[c][1] = AssignNode(Iso)
      BY <3>1
    <3> QED
      BY <2>1, <3>2
  <2>2. CASE ~(c < k)
    BY <1>2, <2>2
  <2> QED
    BY <2>1, <2>2
<1>9. ASSUME NEW c \in Dist
      PROVE  Talk(c)'
  <2>1. /\ \A i \in 1 .. Len(c2l'[c]) : c2l'[c][i].type = "error" /\ ~Answering(c2l'[c][i])
        /\ \A i \in 1 .. Len(c2l'[c]) : phase'[c] = "crashed"
    BY <1>6, MessageKinds
  <2>2. OneSplit(c)' /\ InOrder(c)'
    BY <1>7, <1>8, <2>1 DEF OneSplit, InOrder
  <2>3. /\ \A type : Sent(c2l', c, type) => type = "error" /\ phase'[c] = "crashed"
        /\ \A type : Sent(l2c', c, type) => type = "assign_node" /\ c < k
    BY <1>7, <1>8, <2>1 DEF Sent
  <2>4. assigned'[c] = NoTask <=> ~(c < k)
    <3>1. c + 1 # NoTask \/ ~(c < k)
      BY <1>4, <1>5 DEF NoTask
    <3> QED
      BY <1>1, <3>1
  <2>5. cstatus'[c] = "idle" <=> ~(c < k)
    BY <1>1
  <2>6. /\ ~Sent(l2c', c, "request_split") /\ ~Sent(l2c', c, "terminate")
        /\ ~(c < k) => ~Sent(l2c', c, "assign_node")
    BY <2>3
  <2>7. /\ ~Sent(c2l', c, "result") /\ ~Sent(c2l', c, "split_succeed")
        /\ ~Sent(c2l', c, "pre_partition_done") /\ ~Sent(c2l', c, "memory_out")
    BY <2>3
  <2>8. InStep(c)'
    BY <1>6, <2>3, <2>4, <2>5, <2>6, <2>7 DEF InStep
  <2> QED
    BY <2>2, <2>8 DEF Talk
<1>10. \A c, u \in Dist : ~Requested(c, u)'
  <2>1. ASSUME NEW c \in Dist, NEW u \in Dist
        PROVE  ~Requested(c, u)'
    <3>1. ~Contains(l2c'[c], RequestSplit(u))
      BY <1>7, <1>8 DEF Contains
    <3>2. \A m : Contains(c2l'[c], m) => m = NotifyError
      BY <1>6 DEF Contains
    <3> QED
      BY <3>1, <3>2, MessageKinds DEF Requested, Reported
  <2> QED
    BY <2>1
<1>11. TargetsApart'
  BY <1>10 DEF TargetsApart
<1>12. /\ Len(idle') = N - k /\ N - k \in Nat
       /\ \A i \in 1 .. (N - k) : idle'[i] = k + i - 1 /\ k + i - 1 \in Dist
  <2>1. N - k \in Nat /\ \A i \in 1 .. (N - k) : k + i - 1 \in Dist
    BY <1>5 DEF Dist
  <2> QED
    BY <1>1, <2>1
<1>13. IdleApart'
  <2>1. \A i \in 1 .. (N - k) : cstatus'[idle'[i]] = "idle"
    <3>1. \A i \in 1 .. (N - k) : ~(k + i - 1 < k)
      BY <1>5
    <3> QED
      BY <1>1, <1>12, <3>1
  <2>2. ASSUME NEW i \in 1 .. (N - k), NEW j \in 1 .. (N - k), idle'[i] = idle'[j]
        PROVE  i = j
    BY <1>5, <1>12, <2>2
  <2> QED
    BY <1>12, <2>1, <2>2 DEF IdleApart
<1>14. RequestTargets' = {}
  <2> SUFFICES ASSUME NEW c \in Dist, cstatus'[c] = "idle"
               PROVE  Contains(idle', c)
    BY DEF RequestTargets
  <2>1. ~(c < k)
    BY <1>1
  <2>2. c - k + 1 \in 1 .. (N - k) /\ k + (c - k + 1) - 1 = c
    BY <1>5, <2>1
  <2>3. idle'[c - k + 1] = c
    BY <1>12, <2>2
  <2> QED
    BY <1>12, <2>2, <2>3 DEF Contains
<1>15. RequestsBounded'
  <2>1. Cardinality(RequestTargets') = 0
    BY <1>14, FS_EmptySet
  <2> QED
    BY <1>4, <1>5, <2>1 DEF RequestsBounded
<1>16. OpenTasks'
  <2>1. \A c \in Dist : c < k => c + 1 \in 1 .. k /\ c + 1 # NoTask
    BY <1>4, <1>5 DEF NoTask
  <2>2. ASSUME NEW c \in Dist, NEW d \in Dist, assigned'[c] = assigned'[d], c # d
        PROVE  assigned'[c] = NoTask
    BY <1>1, <1>5, <2>1, <2>2
  <2>3. \A c \in Dist : (assigned'[c] # NoTask) <=> (cstatus'[c] # "idle")
    BY <1>1, <2>1
  <2>4. {assigned'[c] : c \in Dist} \ {NoTask} = 1 .. k
    <3>1. ASSUME NEW n \in 1 .. k
          PROVE  n - 1 \in Dist /\ assigned'[n - 1] = n /\ n # NoTask
      <4>1. n - 1 \in Dist /\ n - 1 < k /\ n - 1 + 1 = n
        BY <1>5 DEF Dist
      <4> QED
        BY <1>1, <2>1, <4>1
    <3>2. ASSUME NEW c \in Dist, assigned'[c] # NoTask
          PROVE  assigned'[c] \in 1 .. k
      BY <1>1, <2>1, <3>2
    <3> QED
      BY <3>1, <3>2
  <2>5. {n \in 0 .. k : partial'[n] = "unsolved"} = 1 .. k
    <3>1. \A n \in 0 .. k : n = RootTask \/ n \in 1 .. k
      BY <1>5 DEF RootTask
    <3>2. 1 .. k \subseteq 0 .. k
      BY <1>5
    <3>3. RootTask \notin 1 .. k
      BY <1>5 DEF RootTask
    <3> QED
      BY <1>4, <3>1, <3>2, <3>3
  <2>6. numTasks' - 1 = k
    BY <1>4, <1>5
  <2> QED
    BY <2>2, <2>3, <2>4, <2>5, <2>6 DEF OpenTasks
<1>17. IsoInStep'
  <2>1. phase'[Iso] = "waiting"
    BY <1>1, <1>3 DEF CoordSame, coordVars
  <2>2. ~Sent(l2c', Iso, "terminate")
    BY <1>2, <1>7 DEF Sent
  <2> QED
    BY <1>1, <2>1, <2>2 DEF IsoInStep, Sent
<1> QED
  BY <1>3, <1>4, <1>9, <1>11, <1>13, <1>15, <1>16, <1>17 DEF DInv, Talk

\* unsat_push_up marks no task with something left to solve below it.
LEMMA WalkUp ==
  ASSUME TypeOK, Chains, ChainsMeet, UnsatBelow, NEW n \in 0 .. (numTasks - 1),
         NEW a \in UnsatUpFrom(n), NEW m \in 0 .. (numTasks - 1), a \in Upward(m)
  PROVE  m = n \/ partial[m] = "unsat"
<1>1. /\ a \in Upward(n)
      /\ \A b \in Upward(n) : b = a \/ a \in above[b] => CanReasonUnsat(b, n)
  BY DEF UnsatUpFrom, Upward
<1>2. /\ Upward(n) \subseteq 0 .. (numTasks - 1) /\ Upward(m) \subseteq 0 .. (numTasks - 1)
      /\ numTasks \in Nat
  BY Above
<1>3. CASE m \in Upward(n)
  <2>1. CanReasonUnsat(m, n)
    BY <1>1, <1>3 DEF Upward
  <2> QED
    BY <2>1 DEF CanReasonUnsat
<1>4. CASE m \notin Upward(n)
  <2>1. PICK c \in Upward(m) : c \notin Upward(n) /\ c # RootTask /\ parent[c] \in Upward(n)
    BY <1>4 DEF ChainsMeet
  <2>2. c \in 1 .. (numTasks - 1) /\ a \in 0 .. (numTasks - 1)
    BY <1>1, <1>2, <2>1 DEF RootTask
  <2> DEFINE b == parent[c]
  <2>3. above[c] = Upward(b) /\ c \in SubTasks(b)
    BY <2>2 DEF Chains, SubTasks
  \* a is above c: it is on the chain of n, and c is not.
  <2>4. a \in Upward(c)
    <3>1. a \in Upward(c) \/ c \in Upward(a)
      BY <2>1 DEF ChainsMeet
    <3>2. c \notin Upward(a)
      <4>1. above[a] \subseteq above[n] \/ a = n
        BY <1>1 DEF ChainsMeet, Upward
      <4> QED
        BY <1>1, <2>1, <4>1 DEF Upward
    <3> QED
      BY <3>1, <3>2
  <2>5. a \in Upward(b)
    BY <1>1, <2>1, <2>3, <2>4 DEF Upward
  <2>6. CanReasonUnsat(b, n)
    BY <1>1, <2>1, <2>5 DEF Upward
  <2>7. whole[c] = "unsat"
    BY <2>1, <2>3, <2>6 DEF CanReasonUnsat, Upward
  <2> QED
    BY <2>1, <2>2, <2>7 DEF UnsatBelow
<1> QED
  BY <1>3, <1>4

\* A result comes from a coordinator with an open task.
LEMMA ResultFacts ==
  ASSUME DInv, NEW c \in Rank, GetResult(c)
  PROVE  /\ c \in Dist /\ at = "loop" /\ ResultExpected(c)
         /\ phase[c] \in {"idle", "crashed"} /\ cstatus[c] # "idle"
         /\ assigned[c] \in 0 .. (numTasks - 1) /\ partial[assigned[c]] = "unsolved"
         /\ Lost(c2l, c) /\ Head(c2l[c]) = NotifyResult(Head(c2l[c]).value)
         /\ Head(c2l[c]).value \in {"sat", "unsat"}
         /\ Reported(c, Head(c2l[c]))
         /\ PartialSolved(assigned[c], Head(c2l[c]).value)
<1>1. /\ TypeOK /\ c \in Dist /\ Heard(c, "result") /\ c2l[c] # <<>> /\ at = "loop"
  BY Ranks DEF DInv, GetResult, Heard, Pending
<1>2. /\ Lost(c2l, c) /\ Head(c2l[c]) = NotifyResult(Head(c2l[c]).value)
      /\ Head(c2l[c]).value \in {"sat", "unsat"}
      /\ Reported(c, Head(c2l[c])) /\ Sent(c2l, c, "result")
  BY <1>1, HeardFacts, MessageFields, HeadSent
<1>3. InStep(c) /\ OpenTasks /\ UnsatBelow /\ Chains
  BY <1>1 DEF DInv
<1>4. phase[c] \in {"idle", "crashed"} /\ cstatus[c] # "idle" /\ assigned[c] # NoTask
  BY <1>2, <1>3 DEF InStep
<1>5. assigned[c] \in 0 .. (numTasks - 1) /\ partial[assigned[c]] = "unsolved"
  <2>1. assigned[c] \in {assigned[d] : d \in Dist} \ {NoTask}
    BY <1>1, <1>4
  <2> QED
    BY <1>1, <1>3, <2>1 DEF OpenTasks
<1>6. ~PushUpAsserts(assigned[c])
  <2> DEFINE n == assigned[c]
  <2> SUFFICES ASSUME NEW a \in Upward(n), whole[a] = "unsat"
               PROVE  FALSE
    BY DEF PushUpAsserts, Upward
  <2>1. a \in 0 .. (numTasks - 1) /\ n \in 0 .. (numTasks - 1)
    BY <1>1, <1>3, <1>5, Above
  <2> QED
    BY <1>3, <1>5, <2>1 DEF UnsatBelow
<1>7. ResultExpected(c)
  BY <1>4, <1>6 DEF ResultExpected
<1>8. PartialSolved(assigned[c], Head(c2l[c]).value)
  BY <1>7 DEF GetResult
<1> QED
  BY <1>1, <1>2, <1>4, <1>5, <1>7, <1>8

\* A result marks the chain above it as far as it is unsat.
LEMMA ResultTree ==
  ASSUME TypeOK, Chains, ChainsMeet, UnsatBelow, NEW n \in 0 .. (numTasks - 1),
         partial[n] = "unsolved", PartialSolved(n, "unsat"),
         UNCHANGED <<numTasks, above, parent>>
  PROVE  /\ Chains' /\ ChainsMeet' /\ UnsatBelow'
         /\ partial'[n] = "unsat"
         /\ \A m \in Task : m # n => partial'[m] = partial[m]
<1>1. /\ UnsatUpFrom(n) \subseteq Upward(n) /\ Upward(n) \subseteq 0 .. (numTasks - 1)
      /\ n \in Task /\ numTasks \in Nat
  BY Above DEF UnsatUpFrom, Upward
<1>2. /\ partial' = [partial EXCEPT ![n] = "unsat"]
      /\ whole' = [m \in Task |-> IF m \in UnsatUpFrom(n) THEN "unsat" ELSE whole[m]]
  BY DEF PartialSolved
<1>3. partial'[n] = "unsat" /\ \A m \in Task : m # n => partial'[m] = partial[m]
  BY <1>1, <1>2 DEF TypeOK, TaskTypeOK
<1>4. Chains'
  <2>1. ASSUME NEW m \in Task, m >= numTasks
        PROVE  partial'[m] = "unsolved" /\ whole'[m] = "unsolved"
    <3>1. m # n /\ m \notin UnsatUpFrom(n)
      BY <1>1, <2>1, Tasks
    <3> QED
      BY <1>2, <1>3, <2>1, <3>1 DEF Chains
  <2> QED
    BY <2>1 DEF Chains, Upward
<1>5. ChainsMeet'
  BY DEF ChainsMeet, Upward
<1>6. UnsatBelow'
  <2> SUFFICES ASSUME NEW a \in 0 .. (numTasks - 1), NEW m \in 0 .. (numTasks - 1),
                      whole'[a] = "unsat", a \in Upward(m)
               PROVE  partial'[m] = "unsat"
    BY DEF UnsatBelow, Upward
  <2>1. a \in Task /\ m \in Task
    BY Above
  <2>2. CASE a \in UnsatUpFrom(n)
    BY <1>3, <2>1, <2>2, WalkUp
  <2>3. CASE a \notin UnsatUpFrom(n)
    <3>1. whole[a] = "unsat"
      BY <1>2, <2>1, <2>3
    <3>2. partial[m] = "unsat"
      BY <3>1 DEF UnsatBelow
    <3> QED
      BY <1>3, <2>1, <3>2
  <2> QED
    BY <2>2, <2>3
<1> QED
  BY <1>3, <1>4, <1>5, <1>6

\* The result of a coordinator that does not decide the formula.
LEMMA ResultStep ==
  ASSUME DInv, NEW c \in Rank, GetResult(c)
  PROVE  DInv'
<1>1. /\ TypeOK /\ c \in Dist /\ at = "loop" /\ ResultExpected(c) /\ CoordSame /\ Next
      /\ phase[c] \in {"idle", "crashed"} /\ cstatus[c] # "idle"
      /\ assigned[c] \in 0 .. (numTasks - 1) /\ partial[assigned[c]] = "unsolved"
      /\ Lost(c2l, c) /\ Head(c2l[c]) = NotifyResult(Head(c2l[c]).value)
      /\ Head(c2l[c]).value \in {"sat", "unsat"}
      /\ PartialSolved(assigned[c], Head(c2l[c]).value)
      /\ UNCHANGED <<numTasks, above, parent>>
      /\ decision = "unsolved"
  BY ResultFacts DEF DInv, GetResult, Next, LeaderHears
<1>2. CASE decision' # "unsolved"
  <2>1. decision' \in {"sat", "unsat"}
    BY <1>1, <1>2 DEF PartialSolved
  <2>2. LeaderEnds(decision', l2c)
    BY <1>1, <1>2 DEF GetResult
  <2>3. at' = "ended" /\ verdict' # "Leader-Error"
    BY <2>1, <2>2 DEF LeaderEnds
  <2> QED
    BY <1>1, <2>3, EndKeeps
<1>3. CASE decision' = "unsolved"
  <2>1. /\ SetCoordinatorIdle(c) /\ UNCHANGED <<at, verdict, nextSplit, l2c>>
        /\ PartialSolved(assigned[c], "unsat")
    <3>1. Head(c2l[c]).value = "unsat"
      BY <1>1, <1>3 DEF PartialSolved
    <3> QED
      BY <1>1, <1>3, <3>1 DEF GetResult
  <2>2. /\ \A d \in Dist : Talk(d)
        /\ TargetsApart /\ IdleApart /\ Chains /\ ChainsMeet /\ UnsatBelow
        /\ OpenTasks /\ RequestsBounded /\ idle \in Seq(Dist)
        /\ cstatus \in [Dist -> {"idle", "solving", "splitting"}]
        /\ assigned \in [Dist -> Task \union {NoTask}]
    BY <1>1 DEF DInv, Talk, TypeOK
  <2>3. /\ Chains' /\ ChainsMeet' /\ UnsatBelow'
        /\ partial'[assigned[c]] = "unsat"
        /\ \A m \in Task : m # assigned[c] => partial'[m] = partial[m]
    BY <1>1, <2>1, <2>2, ResultTree
  <2>4. /\ cstatus'[c] = "idle" /\ \A d \in Dist : d # c => cstatus'[d] = cstatus[d]
        /\ assigned'[c] = NoTask /\ \A d \in Dist : d # c => assigned'[d] = assigned[d]
        /\ idle' = Append(idle, c)
    BY <1>1, <2>1, <2>2 DEF SetCoordinatorIdle
  <2>5. UNCHANGED phase
    BY <1>1 DEF CoordSame, coordVars
  <2>6. /\ \A type : Sent(c2l', c, type) => Sent(c2l, c, type)
        /\ \A m : Reported(c, m)' => Reported(c, m)
        /\ \A d \in Rank : d # c => c2l'[d] = c2l[d]
    BY <1>1, UpLost
  <2>7. ~Sent(c2l', c, "result") /\ ~Sent(c2l', c, "split_succeed")
    <3>1. /\ Len(c2l[c]) \in Nat /\ Len(c2l[c]) > 0
          /\ Len(c2l'[c]) = Len(c2l[c]) - 1
          /\ \A i \in 1 .. Len(c2l[c]) - 1 : c2l'[c][i] = c2l[c][i + 1]
          /\ Head(c2l[c]) = c2l[c][1]
      BY <1>1 DEF Lost
    <3>2. \A i \in 1 .. Len(c2l'[c]) :
            c2l'[c][i] = c2l[c][i + 1] /\ i + 1 \in 1 .. Len(c2l[c]) /\ 1 # i + 1 /\ 1 < i + 1
      BY <3>1
    <3>3. 1 \in 1 .. Len(c2l[c]) /\ c2l[c][1].type = "result"
      BY <1>1, <3>1, MessageKinds
    <3>4. InOrder(c)
      BY <1>1, <2>2 DEF Talk
    <3>5. \A j \in 1 .. Len(c2l[c]) : 1 # j /\ 1 < j =>
            c2l[c][j].type \notin {"result", "split_succeed"}
      BY <3>3, <3>4 DEF InOrder, Answering, Failing
    <3>6. \A i \in 1 .. Len(c2l'[c]) : c2l'[c][i].type \notin {"result", "split_succeed"}
      BY <3>2, <3>5
    <3> QED
      BY <3>6 DEF Sent
  <2>8. Talk(c)'
    <3>1. OneSplit(c)' /\ InOrder(c)'
      BY <1>1, <2>1, <2>2, OrderHeard DEF Talk
    <3>2. ~Sent(c2l', c, "pre_partition_done") /\ Sent(c2l, c, "result")
      <4>1. Sent(c2l, c, "result")
        BY <1>1, HeardFacts, HeadSent DEF GetResult, Heard, Pending
      <4> QED
        BY <1>1, <2>2, <2>6, <4>1 DEF Talk, InStep
    <3>3. ~Sent(l2c', c, "assign_node") /\ ~Sent(l2c', c, "terminate")
      BY <1>1, <2>1, <2>2, <3>2 DEF Talk, InStep
    <3>4. Sent(c2l', c, "error") \/ Sent(c2l', c, "memory_out") => phase'[c] = "crashed"
      BY <1>1, <2>2, <2>5, <2>6 DEF Talk, InStep
    <3>5. InStep(c)'
      BY <1>1, <2>4, <2>5, <2>7, <3>2, <3>3, <3>4 DEF InStep
    <3> QED
      BY <3>1, <3>5 DEF Talk
  <2>9. ASSUME NEW d \in Dist, d # c
        PROVE  Talk(d)'
    <3>1. Still(d) /\ phase'[d] = phase[d] /\ cstatus'[d] = cstatus[d]
          /\ assigned'[d] = assigned[d]
      BY <2>1, <2>4, <2>5, <2>6, <2>9, Ranks DEF Still
    <3> QED
      BY <2>2, <3>1, TalkFrame
  <2>10. \A x : Contains(idle', x) <=> Contains(idle, x) \/ x = c
    BY <1>1, <2>2, <2>4, Listed
  <2>11. TargetsApart'
    <3> SUFFICES ASSUME NEW d \in Dist, NEW u \in Dist, Requested(d, u)'
                 PROVE  /\ cstatus'[u] = "idle" /\ ~Contains(idle', u)
                        /\ \A e \in Dist : Requested(e, u)' => e = d
      BY DEF TargetsApart
    <3>1. \A e \in Dist : Requested(e, u)' => Requested(e, u)
      BY <2>1, <2>6, Ranks DEF Requested, Reported
    <3>2. /\ cstatus[u] = "idle" /\ ~Contains(idle, u)
          /\ \A e \in Dist : Requested(e, u) => e = d
      BY <2>2, <3>1 DEF TargetsApart
    <3> QED
      BY <1>1, <2>4, <2>10, <3>1, <3>2
  <2>12. ~Contains(idle, c)
    BY <1>1, <2>2 DEF Contains, IdleApart
  <2>13. IdleApart'
    BY <1>1, <2>2, <2>4, <2>12, IdleAdded
  <2>14. RequestsBounded'
    <3>1. RequestTargets' \subseteq RequestTargets
      BY <2>4, <2>10 DEF RequestTargets
    <3> QED
      BY <1>1, <2>2, <3>1, FewerTargets
  <2>15. OpenTasks'
    <3> DEFINE n == assigned[c]
               Open == {m \in 0 .. (numTasks - 1) : partial[m] = "unsolved"}
               Held == {assigned[d] : d \in Dist} \ {NoTask}
    <3>1. /\ \A d, e \in Dist : assigned[d] = assigned[e] /\ d # e => assigned[d] = NoTask
          /\ \A d \in Dist : (assigned[d] # NoTask) <=> (cstatus[d] # "idle")
          /\ Open = Held
      BY <1>1, <2>2 DEF OpenTasks
    <3>2. n # NoTask
      BY <1>1, <3>1
    <3>3. \A d, e \in Dist : assigned'[d] = assigned'[e] /\ d # e => assigned'[d] = NoTask
      BY <2>4, <3>1
    <3>4. \A d \in Dist : (assigned'[d] # NoTask) <=> (cstatus'[d] # "idle")
      BY <2>4, <3>1
    <3>5. {assigned'[d] : d \in Dist} \ {NoTask} = Held \ {n}
      <4>1. \A d \in Dist : d # c => assigned[d] # n
        BY <1>1, <3>1, <3>2
      <4> QED
        BY <1>1, <2>4, <4>1
    <3>6. {m \in 0 .. (numTasks - 1) : partial'[m] = "unsolved"} = Open \ {n}
      <4>1. \A m \in 0 .. (numTasks - 1) : m \in Task
        BY <1>1, <2>2, Above
      <4> QED
        BY <2>3, <4>1
    <3>7. {m \in 0 .. (numTasks' - 1) : partial'[m] = "unsolved"} =
             {assigned'[d] : d \in Dist} \ {NoTask}
      BY <1>1, <3>1, <3>5, <3>6
    <3> QED
      BY <3>3, <3>4, <3>7 DEF OpenTasks
  <2>16. /\ at' = "loop" /\ UNCHANGED <<verdict, decision>>
         /\ l2c'[Iso] = l2c[Iso] /\ c2l'[Iso] = c2l[Iso]
    BY <1>1, <1>3, <2>1, <2>6, Ranks
  <2> QED
    BY <1>1, <2>3, <2>8, <2>9, <2>11, <2>13, <2>14, <2>15, <2>16, LoopKeeps
<1> QED
  BY <1>2, <1>3

\* The other verdicts.
LEMMA EndStep ==
  ASSUME DInv, (\E c \in Rank : GetFailure(c)) \/ LeaderTimeout \/ GetIsoResult
  PROVE  DInv'
<1>1. ASSUME NEW v, v # "Leader-Error", LeaderEnds(v, l2c)
      PROVE  at' = "ended" /\ verdict' # "Leader-Error"
  BY <1>1 DEF LeaderEnds
<1>2. Next
  BY DEF Next, LeaderHears
<1>3. CASE (\E c \in Rank : GetFailure(c)) \/ LeaderTimeout
  BY <1>1, <1>2, <1>3, EndKeeps DEF GetFailure, LeaderTimeout
<1>4. CASE GetIsoResult
  <2>1. Head(c2l[Iso]).value \in {"sat", "unsat"}
    BY <1>4, HeardFacts, MessageFields, Ranks DEF DInv, GetIsoResult
  <2>2. LeaderEnds(decision', l2c) /\ decision' # "Leader-Error"
    BY <1>4, <2>1 DEF GetIsoResult, OriginalSolved
  <2> QED
    BY <1>1, <1>2, <2>2, EndKeeps
<1> QED
  BY <1>3, <1>4

-----------------------------------------------------------------------------
(* The theorems.                                                           *)

LEMMA InitDInv == Init => DInv
<1> SUFFICES ASSUME Init PROVE DInv
  OBVIOUS
<1>1. /\ Iso \in Rank /\ Iso \notin Dist /\ Dist \subseteq Rank /\ N \in Nat /\ N > 0
      /\ 0 \in Dist /\ MaxTasks \in Nat /\ MaxTasks > 1 /\ RootTask \in Task /\ RootTask = 0
      /\ Task \subseteq Nat /\ \A n \in Task : n >= 1 => n # 0
  BY Ranks, Tasks DEF RootTask
<1>2. TypeOK
  <2>1. TaskTypeOK
    BY <1>1 DEF Init, OnlyRoot, TaskTypeOK, Answer
  <2>2. phase \in [Rank -> Phase]
    BY DEF Init, Phase
  <2>3. /\ l2c \in [Rank -> Seq(Message)] /\ c2l \in [Rank -> Seq(Report)]
        /\ data \in [Rank -> [Dist -> Seq(SUBSET Models)]]
        /\ idle \in Seq(Dist) /\ parts \in Seq(SUBSET Models)
    BY DEF Init
  <2>4. /\ task \in [Rank -> SUBSET Models] /\ owed \in [Rank -> SUBSET Models]
        /\ split \in [Rank -> SUBSET Models] /\ answer \in [Rank -> {"none", "sat", "unsat"}]
        /\ from \in [Dist -> Rank] /\ handed \in 0 .. N /\ given \in SUBSET Models
    BY <1>1 DEF Init
  <2> QED
    BY <1>1, <2>1, <2>2, <2>3, <2>4 DEF Init, TypeOK
<1>3. PartsInOrder /\ PhasesApart
  BY <1>1 DEF Init, PartsInOrder, PhasesApart
<1>4. \A c \in Rank : l2c[c] = <<>> /\ c2l[c] = <<>>
  BY DEF Init
<1>5. ASSUME NEW c \in Dist
      PROVE  OneSplit(c) /\ InOrder(c) /\ InStep(c)
  BY <1>1, <1>4 DEF Init, OneSplit, InOrder, InStep, Sent
<1>6. TargetsApart /\ IdleApart
  <2>1. \A c, t \in Dist : ~Requested(c, t)
    BY <1>1, <1>4 DEF Requested, Reported, Contains
  <2> QED
    BY <2>1 DEF TargetsApart, IdleApart, Init
<1>7. Chains /\ ChainsMeet /\ UnsatBelow
  <2>1. numTasks = 1 /\ (\A n \in 0 .. (numTasks - 1) : n = 0) /\ 1 .. (numTasks - 1) = {}
    BY DEF Init, OnlyRoot
  <2>2. /\ above[0] = {}
        /\ \A n \in Task : partial[n] = "unsolved" /\ whole[n] = "unsolved"
    BY <1>1 DEF Init, OnlyRoot
  <2>3. Upward(0) = {0}
    BY <2>2 DEF Upward
  <2>4. Chains
    BY <1>1, <2>1, <2>2 DEF Chains
  <2>5. ChainsMeet
    BY <2>1, <2>2, <2>3 DEF ChainsMeet
  <2>6. UnsatBelow
    BY <1>1, <2>1, <2>2 DEF UnsatBelow
  <2> QED
    BY <2>4, <2>5, <2>6
<1>8. IsoInStep /\ NothingYet
  BY <1>1, <1>4 DEF Init, OnlyRoot, IsoInStep, NothingYet, Unused, Sent
<1> QED
  BY <1>2, <1>3, <1>5, <1>6, <1>7, <1>8 DEF DInv, Init, OnlyRoot

\* Every step keeps the invariant.
LEMMA NextDInv ==
  ASSUME TabuCovers, DInv, [Next]_vars
  PROVE  DInv'
<1>1. CASE UNCHANGED vars
  <2>1. LeaderSame /\ (\A d \in Dist : Still(d) /\ phase'[d] = phase[d])
    BY <1>1 DEF vars, LeaderSame, Still, coordVars, channels
  <2>2. TypeOK' /\ PartsInOrder' /\ PhasesApart'
    BY NextType, NextParts DEF DInv
  <2>3. at # "ended" => IsoInStep'
    BY <1>1 DEF DInv, IsoInStep, Sent, vars, leaderVars, coordVars, channels
  <2>4. at = "init" => NothingYet'
    BY <1>1 DEF DInv, NothingYet, Unused, Sent, vars, leaderVars, coordVars, channels, taskVars
  <2> QED
    BY <2>1, <2>2, <2>3, <2>4, IsoKeeps
<1>2. ASSUME NEW c \in Rank, CoordStep(c)
      PROVE  DInv'
  BY <1>2, DistStep, IsoStep, Ranks
<1>3. ASSUME NEW c \in Rank, LeaderHears(c)
      PROVE  DInv'
  BY <1>3, SucceedStep, FailedStep, ResultStep, EndStep DEF LeaderHears
<1> QED
  BY <1>1, <1>2, <1>3, FirstStep, EndStep, AssignStep, PrePartitionStep, HandsOutStep
     DEF Next, CoordStep, Stopped

\* The invariant holds throughout.
LEMMA Protocol == TabuCovers /\ Spec => []DInv
<1>1. TabuCovers /\ DInv /\ [Next]_vars => DInv'
  BY NextDInv
<1>2. CASE TabuCovers
  BY <1>1, <1>2, InitDInv, PTL DEF Spec
<1> QED
  BY <1>2

(***************************************************************************)
(* The messages and the leader's table stay what they are declared to be:  *)
(* no rank, task or message turns up that the handlers do not expect.      *)
(***************************************************************************)
THEOREM WellTyped == TabuCovers /\ Spec => []TypeOK
<1>1. DInv => TypeOK
  BY DEF DInv
<1> QED
  BY <1>1, Protocol, PTL

(***************************************************************************)
(* The leader's tree and its table of coordinators agree: the open tasks   *)
(* are those of the coordinators that are solving, one for each            *)
(* (split_node and set_coordinator_idle of src/src/leader.py).             *)
(***************************************************************************)
THEOREM TasksAgree == TabuCovers /\ Spec => []OpenTasks
<1>1. DInv => OpenTasks
  BY DEF DInv, OpenTasks, TypeOK
<1> QED
  BY <1>1, Protocol, PTL

(***************************************************************************)
(* No assertion of the leader fails: a split is reported by a coordinator  *)
(* that was asked for one, for a target that is still idle, a result comes *)
(* from a coordinator with a task, and unsat_push_up never meets a node    *)
(* that is unsat already.                                                  *)
(***************************************************************************)
THEOREM AssertionsHold == TabuCovers /\ Spec => []NoLeaderError
<1>1. DInv => NoLeaderError
  BY DEF DInv, NoLeaderError
<1> QED
  BY <1>1, Protocol, PTL

-----------------------------------------------------------------------------
(***************************************************************************)
(* Theorems about module Distributed: no model of the input gets lost      *)
(* between the coordinators, the verdict of the leader is right, and no    *)
(* rank falls out of the idle ones.                                        *)
(***************************************************************************)

\* The input does not change.
LEMMA InputSame ==
  ASSUME [Next]_vars
  PROVE  formula' = formula
<1>1. CASE UNCHANGED vars
  BY <1>1 DEF vars, input
<1>2. CASE LeaderStep
  BY <1>2, LeaderStepFrame DEF CoordSame, input
<1>3. ASSUME NEW c \in Rank, CoordStep(c)
      PROVE  formula' = formula
  BY <1>3 DEF CoordStep, Reacts, SplitRefused, SplitGranted, SplitCrashes, Transfer, AcceptNode,
         ReceiveNode, Terminated, DropMessage, Solves, SolveTask, Crash, LeaderSame, input
<1>4. ASSUME NEW ps \in PrePartitionTasks, NEW k \in 0 .. N + 1, PrePartition(ps, k)
      PROVE  formula' = formula
  BY <1>4 DEF PrePartition, LeaderSame, input
<1>5. CASE IsoHandsOut
  BY <1>5 DEF IsoHandsOut, StartHandingOut, HandOut, LeaderSame, input
<1> QED
  BY <1>1, <1>2, <1>3, <1>4, <1>5 DEF Next, LeaderStep, CoordStep, Stopped

\* The elements of a sequence of task files.
LEMMA Files ==
  ASSUME NEW S, NEW s \in Seq(S), NEW x \in S
  PROVE  /\ ToSet(Append(s, x)) = ToSet(s) \union {x}
         /\ s # <<>> => ToSet(s) = ToSet(Tail(s)) \union {Head(s)}
<1>1. ToSet(Append(s, x)) = ToSet(s) \union {x}
  <2> DEFINE r == Append(s, x)
  <2>1. /\ Len(s) \in Nat /\ Len(r) = Len(s) + 1 /\ r[Len(s) + 1] = x
        /\ \A i \in 1 .. Len(s) : r[i] = s[i]
        /\ r \in Seq(S)
    BY Added
  <2>2. DOMAIN r = (DOMAIN s) \union {Len(s) + 1} /\ DOMAIN s = 1 .. Len(s)
    BY <2>1, LenProperties
  <2> HIDE DEF r
  <2>3. ToSet(r) = ToSet(s) \union {x}
    BY <2>1, <2>2 DEF ToSet
  <2> QED
    BY <2>3 DEF r
<1>2. ASSUME s # <<>>
      PROVE  ToSet(s) = ToSet(Tail(s)) \union {Head(s)}
  <2> DEFINE r == Tail(s)
  <2>1. /\ Len(s) \in Nat /\ Len(s) > 0 /\ Head(s) = s[1] /\ Len(r) = Len(s) - 1
        /\ r \in Seq(S)
        /\ \A i \in 1 .. Len(s) - 1 : r[i] = s[i + 1]
    BY <1>2, Taken
  <2>2. DOMAIN r = 1 .. Len(r) /\ DOMAIN s = 1 .. Len(s)
    BY <2>1, LenProperties
  <2> HIDE DEF r
  <2>3. \A i \in 1 .. Len(r) : r[i] = s[i + 1] /\ i + 1 \in 1 .. Len(s)
    BY <2>1
  <2>4. \A i \in 1 .. Len(s) : i = 1 \/ (i - 1 \in 1 .. Len(r) /\ r[i - 1] = s[i])
    BY <2>1
  <2>5. 1 \in 1 .. Len(s)
    BY <2>1
  <2>6. \A i \in 1 .. Len(s) : s[i] = Head(s) \/ \E j \in 1 .. Len(r) : r[j] = s[i]
    BY <2>1, <2>4
  <2>7. \A j \in 1 .. Len(r) : \E i \in 1 .. Len(s) : s[i] = r[j]
    BY <2>3
  <2>8. \E i \in 1 .. Len(s) : s[i] = Head(s)
    BY <2>1, <2>5
  <2>9. ToSet(s) = {s[i] : i \in 1 .. Len(s)} /\ ToSet(r) = {r[j] : j \in 1 .. Len(r)}
    BY <2>2 DEF ToSet
  <2>10. ToSet(s) = ToSet(r) \union {Head(s)}
    BY <2>6, <2>7, <2>8, <2>9
  <2> QED
    BY <2>10 DEF r
<1> QED
  BY <1>1, <1>2

\* The empty sequence has no elements.
LEMMA NoFiles == ToSet(<<>>) = {}
<1>1. <<>> \in Seq({}) /\ Len(<<>>) = 0
  BY EmptySeq
<1>2. PICK e \in Seq({}) : e = <<>> /\ Len(e) = 0
  BY <1>1
<1>3. DOMAIN e = 1 .. 0
  BY <1>2, LenProperties
<1>4. DOMAIN e = {}
  BY <1>3
<1>5. ToSet(e) = {}
  BY <1>4 DEF ToSet
<1> QED
  BY <1>2, <1>5

\* The files q with x behind them; the provers need not look into it.
WithFile(q, x) == Append(q, x)

\* One file more.
LEMMA OneFileMore ==
  ASSUME NEW q \in Seq(SUBSET Models), NEW x \in SUBSET Models
  PROVE  /\ WithFile(q, x) \in Seq(SUBSET Models)
         /\ ToSet(WithFile(q, x)) = ToSet(q) \union {x}
         /\ q = <<>> => Len(WithFile(q, x)) = 1
         /\ WithFile(q, x) # <<>>
<1>1. /\ Append(q, x) \in Seq(SUBSET Models)
      /\ Len(Append(q, x)) = Len(q) + 1 /\ Len(q) \in Nat
  BY Added
<1>2. ToSet(Append(q, x)) = ToSet(q) \union {x}
  BY Files
<1>3. Append(q, x) # <<>> /\ (q = <<>> => Len(Append(q, x)) = 1)
  BY <1>1, EmptySeq
<1> QED
  BY <1>1, <1>2, <1>3 DEF WithFile

\* The step sends the file x from s to t, or t takes one from s.
SendsFile(s, t, x) == data' = [data EXCEPT ![s][t] = WithFile(data[s][t], x)]
TakesFile(s, t) == data' = [data EXCEPT ![s][t] = Tail(@)]

\* The task files of a step that sends one.
LEMMA FileSent ==
  ASSUME TypeOK, NEW s \in Rank, NEW t \in Dist, NEW x \in SUBSET Models, SendsFile(s, t, x)
  PROVE  /\ data'[s][t] = WithFile(data[s][t], x)
         /\ ToSet(data'[s][t]) = ToSet(data[s][t]) \union {x}
         /\ \A r \in Rank, u \in Dist : r # s \/ u # t => data'[r][u] = data[r][u]
<1>1. data \in [Rank -> [Dist -> Seq(SUBSET Models)]] /\ data[s][t] \in Seq(SUBSET Models)
  BY DEF TypeOK
<1>2. data' = [data EXCEPT ![s] = [data[s] EXCEPT ![t] = WithFile(data[s][t], x)]]
  BY DEF SendsFile
<1>3. /\ data'[s][t] = WithFile(data[s][t], x)
      /\ \A r \in Rank, u \in Dist : r # s \/ u # t => data'[r][u] = data[r][u]
  BY <1>1, <1>2
<1> QED
  BY <1>1, <1>3, OneFileMore

\* The task files of a step that receives one.
LEMMA FileReceived ==
  ASSUME TypeOK, NEW s \in Rank, NEW t \in Dist, data[s][t] # <<>>,
         TakesFile(s, t)
  PROVE  /\ data'[s][t] = Tail(data[s][t]) /\ data[s][t] \in Seq(SUBSET Models)
         /\ ToSet(data[s][t]) = ToSet(data'[s][t]) \union {Head(data[s][t])}
         /\ \A r \in Rank, u \in Dist : r # s \/ u # t => data'[r][u] = data[r][u]
<1>1. data \in [Rank -> [Dist -> Seq(SUBSET Models)]] /\ data[s][t] \in Seq(SUBSET Models)
  BY DEF TypeOK
<1> DEFINE y == Tail(data[s][t])
<1>2. data' = [data EXCEPT ![s] = [data[s] EXCEPT ![t] = y]]
  BY <1>1 DEF TakesFile
<1> HIDE DEF y
<1>3. /\ data'[s][t] = y
      /\ \A r \in Rank, u \in Dist : r # s \/ u # t => data'[r][u] = data[r][u]
  BY <1>1, <1>2
<1>4. ToSet(data[s][t]) = ToSet(Tail(data[s][t])) \union {Head(data[s][t])}
  BY <1>1, Files
<1> QED
  BY <1>1, <1>3, <1>4 DEF y

\* The next of the first tasks.
LEMMA NextPart ==
  ASSUME TypeOK, PartsInOrder, phase[Iso] = "handing"
  PROVE  /\ handed + 1 \in 1 .. Len(parts) /\ Len(parts) <= N + 1
         /\ parts[handed + 1] \in ToSet(parts) /\ parts[handed + 1] \in SUBSET Models
         /\ Len(parts) \in Nat /\ handed \in Nat /\ N \in Nat
         /\ handed \in Dist <=> handed < N
<1>1. handed < Len(parts) /\ Len(parts) <= N + 1 /\ Len(parts) \in Nat /\ handed \in Nat
      /\ parts \in Seq(SUBSET Models) /\ DOMAIN parts = 1 .. Len(parts) /\ handed \in 0 .. N
  BY LenProperties, EmptySeq DEF PartsInOrder, TypeOK
<1>2. handed + 1 \in 1 .. Len(parts) /\ N \in Nat /\ (handed \in Dist <=> handed < N)
  BY <1>1, Ranks DEF Dist
<1>3. parts[handed + 1] \in ToSet(parts)
  BY <1>1, <1>2 DEF ToSet
<1> QED
  BY <1>1, <1>2, <1>3, ElementOfSeq
-----------------------------------------------------------------------------
(* Nobody works on anything but a part of the formula.                     *)

LEMMA PartsKept ==
  ASSUME TypeOK, PartsInOrder, PartsOfFormula, [Next]_vars
  PROVE  PartsOfFormula'
<1>0. formula' = formula
  BY InputSame
<1>1. CASE UNCHANGED <<task, split, data, parts>>
  BY <1>0, <1>1 DEF PartsOfFormula
<1>2. CASE LeaderStep
  BY <1>1, <1>2, LeaderStepFrame DEF CoordSame, coordVars
<1>3. ASSUME NEW c \in Rank, NEW s \in SUBSET Models, SplitGranted(c, s)
      PROVE  PartsOfFormula'
  BY <1>0, <1>3 DEF SplitGranted, PartsOfFormula, TypeOK
<1>4. ASSUME NEW c \in Rank, Transfer(c)
      PROVE  PartsOfFormula'
  <2>0. /\ Head(l2c[c]).type = "transfer_node" /\ l2c[c] # <<>> /\ Takes(c)
        /\ UNCHANGED <<task, split, parts>>
    BY <1>4 DEF Transfer, Pending, coordVars
  <2>1. PICK t \in Dist : t = Head(l2c[c]).rank
    BY <2>0, TakesFacts, MessageFields
  <2>2. PICK x \in SUBSET Models : x = split[c]
    BY DEF TypeOK
  <2>5. SendsFile(c, t, x)
    BY <1>4, <2>1, <2>2 DEF Transfer, WithFile, SendsFile
  <2>3. /\ ToSet(data'[c][t]) = ToSet(data[c][t]) \union {x}
        /\ \A r \in Rank, u \in Dist : r # c \/ u # t => data'[r][u] = data[r][u]
    BY <2>5, FileSent
  <2>4. \A r \in Rank, u \in Dist : \A y \in ToSet(data'[r][u]) : y \subseteq formula
    BY <2>2, <2>3 DEF PartsOfFormula
  <2> QED
    BY <1>0, <2>0, <2>4 DEF PartsOfFormula
<1>5. ASSUME NEW c \in Rank, ReceiveNode(c)
      PROVE  PartsOfFormula'
  <2>1. c \in Dist /\ data[from[c]][c] # <<>> /\ UNCHANGED <<split, parts>>
    BY <1>5 DEF ReceiveNode
  <2>2. PICK s \in Rank : s = from[c]
    BY <2>1 DEF TypeOK
  <2>3. /\ TakesFile(s, c) /\ data[s][c] # <<>>
        /\ task' = [task EXCEPT ![c] = Head(data[s][c])]
    BY <1>5, <2>2 DEF ReceiveNode, TakesFile
  <2>4. /\ ToSet(data[s][c]) = ToSet(data'[s][c]) \union {Head(data[s][c])}
        /\ \A r \in Rank, u \in Dist : r # s \/ u # c => data'[r][u] = data[r][u]
    BY <2>1, <2>3, FileReceived
  <2>5. \A r \in Rank, u \in Dist : \A x \in ToSet(data'[r][u]) : x \subseteq formula
    BY <2>4 DEF PartsOfFormula
  <2>6. \A d \in Rank : task'[d] \subseteq formula
    BY <2>1, <2>3, <2>4 DEF PartsOfFormula, TypeOK
  <2> QED
    BY <1>0, <2>1, <2>5, <2>6 DEF PartsOfFormula
<1>6. ASSUME NEW c \in Rank,
             \/ SplitRefused(c) \/ SplitCrashes(c) \/ AcceptNode(c) \/ DropMessage(c)
             \/ \E report \in {NotifyMemoryOut, NotifyError} : Crash(c, report)
      PROVE  PartsOfFormula'
  BY <1>1, <1>6 DEF SplitRefused, SplitCrashes, AcceptNode, DropMessage, Crash, coordVars
<1>7. ASSUME NEW c \in Rank, Terminated(c) \/ Solves(c)
      PROVE  PartsOfFormula'
  <2>1. task' = [task EXCEPT ![c] = {}] /\ UNCHANGED <<split, data, parts>>
    BY <1>7 DEF Terminated, Solves, SolveTask
  <2> QED
    BY <1>0, <2>1 DEF PartsOfFormula, TypeOK
<1>8. ASSUME NEW ps \in PrePartitionTasks, NEW k \in 0 .. N + 1, PrePartition(ps, k)
      PROVE  PartsOfFormula'
  <2>2. \A x \in ToSet(ps) : x \subseteq formula
    BY FoundTasks, ElementOfSeq DEF ToSet
  <2>3. parts' = ps /\ UNCHANGED <<task, split, data>>
    BY <1>8 DEF PrePartition
  <2> QED
    BY <1>0, <2>2, <2>3 DEF PartsOfFormula
<1>9. CASE StartHandingOut
  BY <1>1, <1>9 DEF StartHandingOut
<1>10. CASE HandOut
  <2>1. /\ parts[handed + 1] \in ToSet(parts)
        /\ parts[handed + 1] \in SUBSET Models
    BY <1>10, NextPart DEF HandOut
  <2>3. UNCHANGED <<task, split>> /\ parts' \in {parts, <<>>}
    BY <1>10 DEF HandOut
  <2>5. \A r \in Rank, u \in Dist : \A y \in ToSet(data'[r][u]) : y \subseteq formula
    <3>1. CASE handed \notin Dist
      BY <1>10, <3>1 DEF HandOut, PartsOfFormula
    <3>2. CASE handed \in Dist
      <4>1. PICK s \in Rank, t \in Dist, x \in SUBSET Models :
              s = Iso /\ t = handed /\ x = parts[handed + 1]
        BY <2>1, <3>2, Ranks
      <4>2. SendsFile(s, t, x)
        BY <1>10, <3>2, <4>1 DEF HandOut, WithFile, SendsFile
      <4>3. /\ ToSet(data'[s][t]) = ToSet(data[s][t]) \union {x}
            /\ \A r \in Rank, u \in Dist : r # s \/ u # t => data'[r][u] = data[r][u]
        BY <4>2, FileSent
      <4> QED
        BY <2>1, <4>1, <4>3 DEF PartsOfFormula
    <3> QED
      BY <3>1, <3>2
  <2>6. \A y \in ToSet(parts') : y \subseteq formula
    <3>1. CASE parts' = parts
      BY <3>1 DEF PartsOfFormula
    <3>2. CASE parts' = <<>>
      BY <3>2, NoFiles
    <3> QED
      BY <2>3, <3>1, <3>2
  <2> QED
    BY <1>0, <2>3, <2>5, <2>6 DEF PartsOfFormula
<1>11. CASE UNCHANGED vars
  BY <1>1, <1>11 DEF vars, coordVars, channels
<1> QED
  BY <1>2, <1>3, <1>4, <1>5, <1>6, <1>7, <1>8, <1>9, <1>10, <1>11
     DEF Next, LeaderStep, Reacts, IsoHandsOut, Stopped
-----------------------------------------------------------------------------
(* Where messages come from, and where they go.                            *)

\* The reports of a step that a coordinator takes.
LEMMA StepReports ==
  ASSUME TypeOK, NEW c \in Rank, CoordStep(c), NEW m, Reported(c, m)', ~Reported(c, m)
  PROVE  \/ \E r \in {"sat", "unsat"} : m = NotifyResult(r) /\ SolveTask(c, r)
         \/ m = NotifyError \/ m = NotifyMemoryOut
         \/ SplitRefused(c) /\ m.type = "split_failed"
         \/ /\ \/ SplitCrashes(c)
               \/ \E s \in SUBSET Models : SplitGranted(c, s)
            /\ m = SplitSucceed(Head(l2c[c]).rank)
<1>1. CASE c2l' = c2l
  BY <1>1 DEF Reported
<1>2. CASE Transfer(c) \/ ReceiveNode(c) \/ Terminated(c) \/ DropMessage(c)
  BY <1>1, <1>2 DEF Transfer, ReceiveNode, Terminated, DropMessage
<1>3. l2c[c] # <<>> /\ Head(l2c[c]).type = "request_split" /\ Takes(c) =>
        /\ Head(l2c[c]).rank \in Dist
        /\ SplitFailed(Head(l2c[c]).rank) \in Report
        /\ SplitSucceed(Head(l2c[c]).rank) \in Report
  BY TakesFacts, MessageFields, MessageTypes
<1>4. ASSUME SplitRefused(c)
      PROVE  m.type = "split_failed"
  <2>1. PICK x \in Report : x = SplitFailed(Head(l2c[c]).rank)
    BY <1>3, <1>4 DEF SplitRefused, Pending
  <2>2. Reports(c, <<x>>)
    BY <1>4, <2>1 DEF SplitRefused
  <2>3. m = x
    BY <2>2, ReportsFacts, UpGot
  <2> QED
    BY <2>1, <2>3, MessageKinds
<1>5. ASSUME NEW s \in SUBSET Models, SplitGranted(c, s)
      PROVE  m = SplitSucceed(Head(l2c[c]).rank)
  <2>1. PICK x \in Report : x = SplitSucceed(Head(l2c[c]).rank)
    BY <1>3, <1>5 DEF SplitGranted, Pending
  <2>2. Reports(c, <<x>>)
    BY <1>5, <2>1 DEF SplitGranted
  <2> QED
    BY <2>1, <2>2, ReportsFacts, UpGot
<1>6. ASSUME SplitCrashes(c)
      PROVE  m = SplitSucceed(Head(l2c[c]).rank) \/ m = NotifyError
  <2>1. PICK x \in Report, y \in Report :
          x = SplitSucceed(Head(l2c[c]).rank) /\ y = NotifyError
    BY <1>3, <1>6, MessageTypes DEF SplitCrashes, Pending
  <2>2. Reports(c, <<x, y>>)
    BY <1>6, <2>1 DEF SplitCrashes
  <2>3. c2l[c] \in Seq(Report) /\ c2l \in [Rank -> Seq(Report)]
    BY DEF TypeOK
  <2>4. c2l'[c] = c2l[c] \o <<x, y>>
    BY <2>2, <2>3 DEF Reports
  <2>5. c2l'[c] = Append(Append(c2l[c], x), y) /\ Append(c2l[c], x) \in Seq(Report)
    BY <2>3, <2>4, AddedTwo, Added
  <2>6. PICK q \in Seq(Report) : q = Append(c2l[c], x)
    BY <2>5
  <2>7. Contains(Append(q, y), m) => Contains(q, m) \/ m = y
    BY Listed
  <2>8. Contains(q, m) => Contains(c2l[c], m) \/ m = x
    BY <2>3, <2>6, Listed
  <2>9. c2l'[c] = Append(q, y)
    BY <2>5, <2>6
  <2>10. Contains(c2l'[c], m) /\ ~Contains(c2l[c], m)
    BY DEF Reported
  <2> QED
    BY <2>1, <2>7, <2>8, <2>9, <2>10
<1>7. ASSUME NEW r \in {"sat", "unsat"}, SolveTask(c, r)
      PROVE  m = NotifyResult(r)
  <2>1. PICK x \in Report : x = NotifyResult(r)
    BY MessageTypes
  <2>2. Reports(c, <<x>>)
    BY <1>7, <2>1 DEF SolveTask
  <2> QED
    BY <2>1, <2>2, ReportsFacts, UpGot
<1>8. ASSUME NEW x \in {NotifyMemoryOut, NotifyError}, Crash(c, x)
      PROVE  m = x
  <2>1. Reports(c, <<x>>) /\ x \in Report
    BY <1>8, MessageTypes DEF Crash
  <2> QED
    BY <2>1, ReportsFacts, UpGot
<1>9. ASSUME AcceptNode(c)
      PROVE  m = NotifyError
  <2>1. CASE c2l' = c2l
    BY <1>1, <2>1 DEF Reported
  <2>2. PICK x \in Report : x = NotifyError
    BY MessageTypes
  <2>3. CASE Reports(c, <<x>>)
    BY <2>2, <2>3, ReportsFacts, UpGot
  <2> QED
    BY <1>9, <2>1, <2>2, <2>3 DEF AcceptNode
<1> QED
  BY <1>2, <1>4, <1>5, <1>6, <1>7, <1>8, <1>9 DEF CoordStep, Reacts, Solves

\* A report that is new was made by the coordinator.
LEMMA NewReport ==
  ASSUME TypeOK, [Next]_vars, NEW c \in Rank, NEW m, Reported(c, m)', ~Reported(c, m)
  PROVE  \/ \E r \in {"sat", "unsat"} : m = NotifyResult(r) /\ SolveTask(c, r)
         \/ m = NotifyError \/ m = NotifyMemoryOut
         \/ SplitRefused(c) /\ m.type = "split_failed"
         \/ /\ \/ SplitCrashes(c)
               \/ \E s \in SUBSET Models : SplitGranted(c, s)
            /\ m = SplitSucceed(Head(l2c[c]).rank)
         \/ m.type = "pre_partition_done"
<1>1. c2l'[c] # c2l[c]
  BY DEF Reported
<1>2. CASE LeaderStep
  <2>1. CASE c2l' = c2l
    BY <1>1, <2>1
  <2>2. ASSUME NEW d \in Rank, NEW type, Heard(d, type)
        PROVE  FALSE
    <3>1. Lost(c2l, d)
      BY <2>2, HeardFacts
    <3>2. c = d
      BY <1>1, <3>1 DEF Lost
    <3> QED
      BY <3>1, <3>2, UpLost
  <2>3. ASSUME NEW d \in Rank, LeaderHears(d)
        PROVE  FALSE
    BY <2>2, <2>3 DEF LeaderHears, GetSplitSucceed, GetSplitFailed, GetResult, GetFailure
  <2>4. CASE GetPrePartition \/ GetIsoResult
    BY <2>2, <2>4, Ranks DEF GetPrePartition, GetIsoResult
  <2>5. CASE LeaderTimeout \/ AssignIdle
    BY <2>1, <2>5 DEF LeaderTimeout, AssignIdle
  <2> QED
    BY <1>2, <2>3, <2>4, <2>5 DEF LeaderStep
<1>3. ASSUME NEW d \in Rank, CoordStep(d)
      PROVE  d = c
  BY <1>1, <1>3, QueueFrame DEF Still
<1>4. ASSUME NEW ps \in PrePartitionTasks, NEW k \in 0 .. N + 1, PrePartition(ps, k)
      PROVE  m.type = "pre_partition_done"
  <2>1. PICK x \in Report : x = PrePartitionDone(k)
    BY MessageTypes
  <2>2. Reports(Iso, <<x>>)
    BY <1>4, <2>1 DEF PrePartition
  <2>3. Got(c2l, Iso, x)
    BY <2>2, ReportsFacts, Ranks
  <2>4. c = Iso
    BY <1>1, <2>3 DEF Got
  <2>5. m = x
    BY <2>3, <2>4, UpGot
  <2> QED
    BY <2>1, <2>5 DEF PrePartitionDone
<1>5. CASE IsoHandsOut
  BY <1>1, <1>5 DEF IsoHandsOut, StartHandingOut, HandOut
<1>6. CASE UNCHANGED vars
  BY <1>1, <1>6 DEF vars, channels
<1>7. CASE \E d \in Rank : CoordStep(d)
  BY <1>3, <1>7, StepReports
<1> QED
  BY <1>2, <1>4, <1>5, <1>6, <1>7 DEF Next, LeaderStep, CoordStep, Stopped

\* A report that is gone was read by the leader.
LEMMA LostReport ==
  ASSUME TypeOK, [Next]_vars, NEW c \in Rank, NEW m, Reported(c, m), ~Reported(c, m)'
  PROVE  /\ Head(c2l[c]) = m /\ Lost(c2l, c)
         /\ m.type = "result" /\ c \in Dist => GetResult(c)
         /\ m.type = "split_succeed" => GetSplitSucceed(c)
         /\ m.type = "split_failed" => GetSplitFailed(c)
<1>1. c2l'[c] # c2l[c]
  BY DEF Reported
<1>2. ASSUME NEW d \in Rank, NEW type, Heard(d, type)
      PROVE  /\ d = c /\ Lost(c2l, c)
             /\ Head(c2l[c]) = m /\ m.type = type
  <2>1. Lost(c2l, d) /\ Head(c2l[d]).type = type
    BY <1>2, HeardFacts
  <2>2. c = d
    BY <1>1, <2>1 DEF Lost
  <2> QED
    BY <2>1, <2>2, UpLost
<1>3. ASSUME NEW d \in Rank, LeaderHears(d)
      PROVE  /\ Head(c2l[c]) = m /\ Lost(c2l, c)
             /\ m.type = "result" /\ c \in Dist => GetResult(c)
             /\ m.type = "split_succeed" => GetSplitSucceed(c)
             /\ m.type = "split_failed" => GetSplitFailed(c)
  <2>1. CASE GetSplitSucceed(d)
    BY <1>2, <2>1 DEF GetSplitSucceed
  <2>2. CASE GetSplitFailed(d)
    <3>1. Heard(d, "split_failed")
      BY <2>2 DEF GetSplitFailed
    <3>2. d = c /\ Lost(c2l, c) /\ Head(c2l[c]) = m /\ m.type = "split_failed"
      BY <1>2, <3>1
    <3> QED
      BY <2>2, <3>2
  <2>3. CASE GetResult(d)
    <3>1. Heard(d, "result")
      BY <2>3 DEF GetResult
    <3>2. d = c /\ Lost(c2l, c) /\ Head(c2l[c]) = m /\ m.type = "result"
      BY <1>2, <3>1
    <3> QED
      BY <2>3, <3>2
  <2>4. CASE GetFailure(d)
    BY <1>2, <2>4 DEF GetFailure
  <2> QED
    BY <1>3, <2>1, <2>2, <2>3, <2>4 DEF LeaderHears
<1>4. CASE GetPrePartition
  BY <1>2, <1>4, Ranks DEF GetPrePartition
<1>5. CASE GetIsoResult
  BY <1>2, <1>5, Ranks DEF GetIsoResult
<1>6. CASE c2l' = c2l
  BY <1>1, <1>6
<1>7. ASSUME NEW d \in Rank, CoordStep(d)
      PROVE  FALSE
  <2>1. d = c
    BY <1>1, <1>7, QueueFrame DEF Still
  <2>2. CASE c2l' = c2l
    BY <1>1, <2>2
  <2>3. c2l[c] \in Seq(Report) /\ c2l \in [Rank -> Seq(Report)]
    BY DEF TypeOK
  <2>4. ASSUME NEW ms, Reports(c, ms), ms \in Seq(Report)
        PROVE  FALSE
    <3>1. c2l'[c] = c2l[c] \o ms
      BY <2>3, <2>4 DEF Reports
    <3>2. /\ Len(c2l[c]) \in Nat /\ Len(ms) \in Nat
          /\ Len(c2l'[c]) = Len(c2l[c]) + Len(ms)
          /\ \A i \in 1 .. Len(c2l[c]) : c2l'[c][i] = c2l[c][i]
      BY <2>3, <2>4, <3>1, ConcatProperties, LenProperties
    <3> QED
      BY <3>2 DEF Reported, Contains
  <2>5. ASSUME NEW x \in Report
        PROVE  <<x>> \in Seq(Report)
    OBVIOUS
  <2>6. l2c[c] # <<>> /\ Head(l2c[c]).type = "request_split" /\ Takes(c) =>
          /\ SplitFailed(Head(l2c[c]).rank) \in Report
          /\ SplitSucceed(Head(l2c[c]).rank) \in Report
    BY TakesFacts, MessageFields, MessageTypes
  <2>7. CASE SplitRefused(c)
    BY <2>4, <2>5, <2>6, <2>7 DEF SplitRefused, Pending
  <2>8. ASSUME NEW s \in SUBSET Models, SplitGranted(c, s)
        PROVE  FALSE
    BY <2>4, <2>5, <2>6, <2>8 DEF SplitGranted, Pending
  <2>9. CASE SplitCrashes(c)
    <3>1. PICK x \in Report, y \in Report : Reports(c, <<x, y>>)
      BY <2>6, <2>9, MessageTypes DEF SplitCrashes, Pending
    <3>2. <<x, y>> \in Seq(Report)
      OBVIOUS
    <3> QED
      BY <2>4, <3>1, <3>2
  <2>10. CASE Transfer(c) \/ ReceiveNode(c) \/ Terminated(c) \/ DropMessage(c)
    BY <2>2, <2>10 DEF Transfer, ReceiveNode, Terminated, DropMessage
  <2>13. CASE AcceptNode(c)
    <3>1. CASE c2l' = c2l
      BY <2>2, <3>1
    <3>2. CASE Reports(c, <<NotifyError>>)
      BY <2>4, <2>5, <3>2, MessageTypes
    <3> QED
      BY <2>13, <3>1, <3>2 DEF AcceptNode
  <2>11. ASSUME NEW r \in {"sat", "unsat"}, SolveTask(c, r)
         PROVE  FALSE
    BY <2>4, <2>5, <2>11, MessageTypes DEF SolveTask
  <2>12. ASSUME NEW x \in {NotifyMemoryOut, NotifyError}, Crash(c, x)
         PROVE  FALSE
    BY <2>4, <2>5, <2>12, MessageTypes DEF Crash
  <2> QED
    BY <1>7, <2>1, <2>7, <2>8, <2>9, <2>10, <2>11, <2>12, <2>13 DEF CoordStep, Reacts, Solves
<1>8. ASSUME NEW ps \in PrePartitionTasks, NEW k \in 0 .. N + 1, PrePartition(ps, k)
      PROVE  FALSE
  <2>1. PICK x \in Report : x = PrePartitionDone(k)
    BY MessageTypes
  <2>2. Reports(Iso, <<x>>)
    BY <1>8, <2>1 DEF PrePartition
  <2>3. Got(c2l, Iso, x)
    BY <2>2, ReportsFacts, Ranks
  <2>4. c = Iso
    BY <1>1, <2>3 DEF Got
  <2> QED
    BY <2>3, <2>4, UpGot
<1>9. CASE IsoHandsOut \/ LeaderTimeout \/ AssignIdle \/ UNCHANGED vars
  BY <1>6, <1>9 DEF IsoHandsOut, StartHandingOut, HandOut, LeaderTimeout, AssignIdle, vars, channels
<1> QED
  BY <1>3, <1>4, <1>5, <1>7, <1>8, <1>9 DEF Next, CoordStep, Stopped

\* A message that is new was sent with the first tasks, a split or a request.
LEMMA NewMessage ==
  ASSUME DInv, [Next]_vars, at' # "ended", NEW c \in Rank, NEW m,
         Contains(l2c'[c], m), ~Contains(l2c[c], m)
  PROVE  \/ GetPrePartition
         \/ \E d, t \in Dist : /\ GetSplitSucceed(d) /\ t = Head(c2l[d]).rank /\ t # d
                               /\ \/ c = d /\ m = TransferNode(t)
                                  \/ c = t /\ m = AssignNode(d)
         \/ AssignIdle /\ m.type = "request_split"
<1>1. TypeOK /\ l2c'[c] # l2c[c]
  BY DEF DInv
<1>2. ASSUME NEW d \in Rank, GetSplitSucceed(d)
      PROVE  \E t \in Dist : /\ d \in Dist /\ t = Head(c2l[d]).rank /\ t # d
                             /\ \/ c = d /\ m = TransferNode(t)
                                \/ c = t /\ m = AssignNode(d)
  <2>1. PICK t \in Dist : t = Head(c2l[d]).rank
    BY <1>2, SucceedFacts
  <2>2. d \in Dist /\ t # d /\ l2c' = SplitMessages(d, t)
    BY <1>2, <2>1, SucceedFacts
  <2>3. /\ l2c'[d] = Append(l2c[d], TransferNode(t))
        /\ l2c'[t] = Append(l2c[t], AssignNode(d))
        /\ \A e \in Rank : e \notin {d, t} => l2c'[e] = l2c[e]
    BY <1>1, <2>2, SplitMessagesFacts
  <2>4. c = d \/ c = t
    BY <1>1, <2>3
  <2>5. PICK x \in Message, y \in Message : x = TransferNode(t) /\ y = AssignNode(d)
    BY <2>2, MessageTypes, Ranks
  <2>6. PICK q \in Seq(Message) : q = l2c[c]
    BY <1>1 DEF TypeOK
  <2>7. ASSUME c = d
        PROVE  m = x
    <3>1. Contains(Append(q, x), m) => Contains(q, m) \/ m = x
      BY Listed
    <3>2. l2c'[c] = Append(q, x)
      BY <2>3, <2>5, <2>6, <2>7
    <3> QED
      BY <2>6, <3>1, <3>2
  <2>8. ASSUME c = t
        PROVE  m = y
    <3>1. Contains(Append(q, y), m) => Contains(q, m) \/ m = y
      BY Listed
    <3>2. l2c'[c] = Append(q, y)
      BY <2>3, <2>5, <2>6, <2>8
    <3> QED
      BY <2>6, <3>1, <3>2
  <2> QED
    BY <2>1, <2>2, <2>4, <2>5, <2>7, <2>8
<1>3. CASE AssignIdle
  <2>1. Head(idle) \in Dist /\ nextSplit \in Rank
    BY <1>3, AssignFacts, Ranks
  <2>2. l2c' = [l2c EXCEPT ![nextSplit] = Append(@, RequestSplit(Head(idle)))]
    BY <1>1, <1>3 DEF AssignIdle
  <2>3. PICK x \in Message : x = RequestSplit(Head(idle))
    BY <2>1, MessageTypes
  <2>4. PICK d \in Rank : d = nextSplit
    BY <2>1
  <2>5. Got(l2c, d, x)
    BY <1>1, <2>2, <2>3, <2>4, SendsFacts
  <2>6. c = d
    BY <1>1, <2>5 DEF Got
  <2> QED
    BY <1>3, <2>3, <2>5, <2>6, DownGot, MessageKinds
<1>4. ASSUME Lost(l2c, c)
      PROVE  FALSE
  BY <1>4, DownLost
<1>5. ASSUME NEW d \in Rank, CoordStep(d)
      PROVE  FALSE
  <2>1. d = c
    BY <1>1, <1>5, QueueFrame DEF Still
  <2>2. l2c[c] # <<>> /\ Takes(c)
    BY <1>1, <1>5, <2>1 DEF CoordStep, Reacts, SplitRefused, SplitGranted, SplitCrashes,
       Transfer, AcceptNode, ReceiveNode, Terminated, DropMessage, Solves, SolveTask, Crash, Pending
  <2> QED
    BY <1>1, <1>4, <2>2, TakesFacts
<1>6. CASE StartHandingOut
  <2>1. l2c[Iso] # <<>> /\ Takes(Iso)
    BY <1>6 DEF StartHandingOut, Pending
  <2>2. Lost(l2c, Iso)
    BY <1>1, <2>1, TakesFacts, Ranks
  <2> QED
    BY <1>1, <1>4, <2>2 DEF Lost
<1>7. ASSUME NEW ps \in PrePartitionTasks, NEW k \in 0 .. N + 1, PrePartition(ps, k)
      PROVE  FALSE
  BY <1>1, <1>7 DEF PrePartition
<1>8. ASSUME NEW d \in Rank, GetSplitFailed(d) \/ GetResult(d) \/ GetFailure(d)
      PROVE  FALSE
  BY <1>1, <1>8 DEF GetSplitFailed, GetResult, GetFailure, LeaderEnds
<1>9. CASE HandOut \/ GetIsoResult \/ LeaderTimeout \/ UNCHANGED vars
  BY <1>1, <1>9 DEF HandOut, GetIsoResult, LeaderTimeout, LeaderEnds, vars, channels
<1> QED
  BY <1>2, <1>3, <1>5, <1>6, <1>7, <1>8, <1>9
     DEF Next, CoordStep, Stopped, LeaderHears, IsoHandsOut

\* The answers to a request to split.
SplitStep(c) ==
  \/ SplitRefused(c) \/ SplitCrashes(c)
  \/ \E s \in SUBSET Models : SplitGranted(c, s)

\* A message that is gone was taken by its receiver.
LEMMA LostMessage ==
  ASSUME DInv, [Next]_vars, at' # "ended", NEW c \in Dist, NEW m,
         Contains(l2c[c], m), ~Contains(l2c'[c], m)
  PROVE  /\ Head(l2c[c]) = m /\ Lost(l2c, c)
         /\ m.type = "transfer_node" => Transfer(c) \/ DropMessage(c)
         /\ m.type = "assign_node" => AcceptNode(c) \/ DropMessage(c)
         /\ m.type = "request_split" => SplitStep(c) \/ DropMessage(c)
<1>1. TypeOK /\ l2c'[c] # l2c[c] /\ c \in Rank
  BY Ranks DEF DInv
<1>2. ASSUME NEW x, Got(l2c, c, x)
      PROVE  FALSE
  BY <1>1, <1>2, DownGot
<1>3. ASSUME NEW d \in Rank, GetSplitSucceed(d)
      PROVE  FALSE
  <2>1. PICK t \in Dist : t = Head(c2l[d]).rank
    BY <1>3, SucceedFacts
  <2>2. d \in Dist /\ t # d /\ l2c' = SplitMessages(d, t)
    BY <1>3, <2>1, SucceedFacts
  <2>3. /\ l2c'[d] = Append(l2c[d], TransferNode(t))
        /\ l2c'[t] = Append(l2c[t], AssignNode(d))
        /\ \A e \in Rank : e \notin {d, t} => l2c'[e] = l2c[e]
    BY <1>1, <2>2, SplitMessagesFacts
  <2>4. c = d \/ c = t
    BY <1>1, <2>3
  <2>5. PICK x \in Message : l2c'[c] = Append(l2c[c], x)
    BY <2>2, <2>3, <2>4, MessageTypes, Ranks
  <2>6. PICK q \in Seq(Message) : q = l2c[c]
    BY <1>1 DEF TypeOK
  <2>7. Contains(Append(q, x), m) <=> Contains(q, m) \/ m = x
    BY Listed
  <2> QED
    BY <2>5, <2>6, <2>7
<1>4. CASE AssignIdle
  <2>1. Head(idle) \in Dist /\ nextSplit \in Rank
    BY <1>4, AssignFacts, Ranks
  <2>2. l2c' = [l2c EXCEPT ![nextSplit] = Append(@, RequestSplit(Head(idle)))]
    BY <1>1, <1>4 DEF AssignIdle
  <2>3. PICK x \in Message : x = RequestSplit(Head(idle))
    BY <2>1, MessageTypes
  <2>4. PICK d \in Rank : d = nextSplit
    BY <2>1
  <2>5. Got(l2c, d, x)
    BY <1>1, <2>2, <2>3, <2>4, SendsFacts
  <2>6. c = d
    BY <1>1, <2>5 DEF Got
  <2> QED
    BY <1>2, <2>5, <2>6
<1>5. ASSUME NEW d \in Rank, CoordStep(d)
      PROVE  /\ Head(l2c[c]) = m /\ Lost(l2c, c)
             /\ m.type = "transfer_node" => Transfer(c) \/ DropMessage(c)
             /\ m.type = "assign_node" => AcceptNode(c) \/ DropMessage(c)
             /\ m.type = "request_split" => SplitStep(c) \/ DropMessage(c)
  <2>1. d = c
    BY <1>1, <1>5, QueueFrame DEF Still
  <2>2. /\ l2c[c] # <<>> /\ Takes(c)
        /\ \/ Head(l2c[c]).type = "terminate"
           \/ SplitStep(c) /\ Head(l2c[c]).type = "request_split"
           \/ Transfer(c) /\ Head(l2c[c]).type = "transfer_node"
           \/ AcceptNode(c) /\ Head(l2c[c]).type = "assign_node"
           \/ DropMessage(c)
    BY <1>1, <1>5, <2>1 DEF CoordStep, Reacts, SplitRefused, SplitGranted, SplitCrashes,
       Transfer, AcceptNode, ReceiveNode, Terminated, DropMessage, Solves, SolveTask, Crash, Pending, SplitStep
  <2>3. Lost(l2c, c)
    BY <1>1, <2>2, TakesFacts
  <2>4. Head(l2c[c]) = m
    BY <1>1, <2>3, DownLost
  <2> QED
    BY <2>2, <2>3, <2>4
<1>6. CASE StartHandingOut
  <2>1. l2c[Iso] # <<>> /\ Takes(Iso)
    BY <1>6 DEF StartHandingOut, Pending
  <2>2. Lost(l2c, Iso)
    BY <1>1, <2>1, TakesFacts, Ranks
  <2> QED
    BY <1>1, <2>2, Ranks DEF Lost
<1>7. ASSUME NEW ps \in PrePartitionTasks, NEW k \in 0 .. N + 1, PrePartition(ps, k)
      PROVE  FALSE
  BY <1>1, <1>7 DEF PrePartition
<1>8. ASSUME NEW d \in Rank, GetSplitFailed(d) \/ GetResult(d) \/ GetFailure(d)
      PROVE  FALSE
  BY <1>1, <1>8 DEF GetSplitFailed, GetResult, GetFailure, LeaderEnds
<1>9. CASE HandOut \/ GetIsoResult \/ LeaderTimeout \/ UNCHANGED vars
  BY <1>1, <1>9 DEF HandOut, GetIsoResult, LeaderTimeout, LeaderEnds, vars, channels
<1>10. CASE GetPrePartition
  <2>1. l2c[c] = <<>>
    BY <1>10, FirstFacts DEF NothingYet, Unused
  <2> QED
    BY <2>1, EmptySeq DEF Contains
<1> QED
  BY <1>3, <1>4, <1>5, <1>6, <1>7, <1>8, <1>9, <1>10
     DEF Next, CoordStep, Stopped, LeaderHears, IsoHandsOut
-----------------------------------------------------------------------------
(* Who changes what.                                                       *)

\* The leader ends the run, or has not ended it yet.
LEMMA StillOpen ==
  ASSUME [Next]_vars, at' # "ended"
  PROVE  /\ at # "ended"
         /\ at' = "init" => at = "init"
         /\ at' = "loop" /\ at = "init" => GetPrePartition
<1>1. CASE at' = at
  BY <1>1
<1>2. ASSUME NEW c \in Rank, LeaderHears(c)
      PROVE  at' = at
  BY <1>2 DEF LeaderHears, GetSplitSucceed, GetSplitFailed, GetResult, GetFailure, LeaderEnds
<1>3. CASE GetPrePartition
  BY <1>3 DEF GetPrePartition, Heard
<1>4. CASE GetIsoResult \/ LeaderTimeout \/ AssignIdle
  BY <1>1, <1>4 DEF GetIsoResult, LeaderTimeout, AssignIdle, LeaderEnds
<1>5. ASSUME NEW c \in Rank, CoordStep(c)
      PROVE  at' = at
  BY <1>5 DEF CoordStep, Reacts, SplitRefused, SplitGranted, SplitCrashes, Transfer, AcceptNode,
         ReceiveNode, Terminated, DropMessage, Solves, SolveTask, Crash, LeaderSame, leaderVars
<1>6. ASSUME NEW ps \in PrePartitionTasks, NEW k \in 0 .. N + 1, PrePartition(ps, k)
      PROVE  at' = at
  BY <1>6 DEF PrePartition, LeaderSame, leaderVars
<1>7. CASE IsoHandsOut
  BY <1>1, <1>7 DEF IsoHandsOut, StartHandingOut, HandOut, LeaderSame, leaderVars
<1>8. CASE UNCHANGED vars
  BY <1>1, <1>8 DEF vars, leaderVars
<1> QED
  BY <1>1, <1>2, <1>3, <1>4, <1>5, <1>6, <1>7, <1>8 DEF Next, CoordStep, Stopped

\* While the leader is at work it tells nobody to stop.
LEMMA NotStopped ==
  ASSUME DInv, at # "ended", NEW c \in Rank
  PROVE  ~Terminated(c)
<1>1. ~Sent(l2c, c, "terminate") /\ TypeOK
  BY Ranks DEF DInv, InStep, IsoInStep
<1> QED
  BY <1>1, HeadSent DEF Terminated, Pending

\* What a coordinator answers for, and what it has split away.
LEMMA OwedSteps ==
  ASSUME DInv, [Next]_vars, at # "ended", NEW c \in Rank
  PROVE  /\ \/ owed'[c] = owed[c]
            \/ \E s \in SUBSET Models : /\ SplitGranted(c, s)
                                        /\ owed'[c] = owed[c] \ s /\ split'[c] = s
            \/ ReceiveNode(c)
            \/ \E r \in {"sat", "unsat"} : SolveTask(c, r) /\ owed'[c] = {}
         /\ \/ split'[c] = split[c]
            \/ \E s \in SUBSET Models : SplitGranted(c, s)
<1>0. TypeOK
  BY DEF DInv
<1>1. CASE UNCHANGED <<owed, split>>
  BY <1>1
<1>2. CASE LeaderStep
  BY <1>1, <1>2, LeaderStepFrame DEF CoordSame, coordVars
<1>3. ASSUME NEW d \in Rank, NEW s \in SUBSET Models, SplitGranted(d, s)
      PROVE  /\ d # c => owed'[c] = owed[c] /\ split'[c] = split[c]
             /\ d = c => owed'[c] = owed[c] \ s /\ split'[c] = s
  BY <1>0, <1>3 DEF SplitGranted, GiveAway, TypeOK
<1>4. ASSUME NEW d \in Rank, ReceiveNode(d)
      PROVE  split' = split /\ (d # c => owed'[c] = owed[c])
  BY <1>0, <1>4 DEF ReceiveNode, TypeOK
<1>5. ASSUME NEW d \in Rank, NEW r \in {"sat", "unsat"}, SolveTask(d, r)
      PROVE  split' = split /\ (d # c => owed'[c] = owed[c]) /\ (d = c => owed'[c] = {})
  BY <1>0, <1>5 DEF SolveTask, TypeOK
<1>6. ASSUME NEW d \in Rank,
             \/ SplitRefused(d) \/ SplitCrashes(d) \/ Transfer(d) \/ AcceptNode(d)
             \/ DropMessage(d)
             \/ \E report \in {NotifyMemoryOut, NotifyError} : Crash(d, report)
      PROVE  UNCHANGED <<owed, split>>
  BY <1>6 DEF SplitRefused, SplitCrashes, Transfer, AcceptNode, DropMessage, Crash, coordVars
<1>7. ASSUME NEW ps \in PrePartitionTasks, NEW k \in 0 .. N + 1, PrePartition(ps, k)
      PROVE  UNCHANGED <<owed, split>>
  BY <1>7 DEF PrePartition
<1>8. CASE IsoHandsOut
  BY <1>1, <1>8 DEF IsoHandsOut, StartHandingOut, HandOut
<1>9. CASE UNCHANGED vars
  BY <1>1, <1>9 DEF vars, coordVars
<1>10. ASSUME NEW d \in Rank, CoordStep(d)
       PROVE  /\ \/ owed'[c] = owed[c]
                 \/ \E s \in SUBSET Models : /\ SplitGranted(c, s)
                                             /\ owed'[c] = owed[c] \ s /\ split'[c] = s
                 \/ ReceiveNode(c)
                 \/ \E r \in {"sat", "unsat"} : SolveTask(c, r) /\ owed'[c] = {}
              /\ \/ split'[c] = split[c]
                 \/ \E s \in SUBSET Models : SplitGranted(c, s)
  <2>1. ~Terminated(d)
    BY NotStopped
  <2>2. CASE \E s \in SUBSET Models : SplitGranted(d, s)
    BY <1>3, <2>2
  <2>3. CASE ReceiveNode(d)
    BY <1>4, <2>3
  <2>4. CASE Solves(d)
    BY <1>5, <2>4 DEF Solves
  <2> QED
    BY <1>1, <1>6, <1>10, <2>1, <2>2, <2>3, <2>4 DEF CoordStep, Reacts
<1> QED
  BY <1>1, <1>2, <1>7, <1>8, <1>9, <1>10 DEF Next, LeaderStep, CoordStep, Stopped

\* The task files between two coordinators.
LEMMA DataSteps ==
  ASSUME TypeOK, PartsInOrder, [Next]_vars, NEW s \in Rank, NEW t \in Dist
  PROVE  \/ data'[s][t] = data[s][t]
         \/ /\ Transfer(s) /\ s \in Dist /\ Head(l2c[s]) = TransferNode(t)
            /\ data'[s][t] = WithFile(data[s][t], split[s])
            /\ ToSet(data'[s][t]) = ToSet(data[s][t]) \union {split[s]}
         \/ /\ ReceiveNode(t) /\ from[t] = s /\ data[s][t] # <<>>
            /\ data'[s][t] = Tail(data[s][t])
            /\ ToSet(data[s][t]) = ToSet(data'[s][t]) \union {owed'[t]}
         \/ /\ HandOut /\ s = Iso /\ t = handed /\ handed \in Dist
            /\ data'[s][t] = WithFile(data[s][t], parts[t + 1])
            /\ ToSet(data'[s][t]) = ToSet(data[s][t]) \union {parts[t + 1]}
<1>1. CASE data' = data
  BY <1>1
<1>2. CASE LeaderStep
  BY <1>1, <1>2, LeaderStepFrame DEF CoordSame
<1>3. ASSUME NEW c \in Rank, Transfer(c), data'[s][t] # data[s][t]
      PROVE  /\ Transfer(s) /\ s \in Dist /\ Head(l2c[s]) = TransferNode(t)
             /\ data'[s][t] = WithFile(data[s][t], split[s])
             /\ ToSet(data'[s][t]) = ToSet(data[s][t]) \union {split[s]}
  <2>1. /\ Head(l2c[c]).type = "transfer_node" /\ l2c[c] # <<>> /\ Takes(c) /\ c \in Dist
    BY <1>3 DEF Transfer, Pending, Looping
  <2>2. PICK u \in Dist : u = Head(l2c[c]).rank /\ Head(l2c[c]) = TransferNode(u)
    BY <2>1, TakesFacts, MessageFields
  <2>3. PICK x \in SUBSET Models : x = split[c]
    BY DEF TypeOK
  <2>4. SendsFile(c, u, x)
    BY <1>3, <2>2, <2>3 DEF Transfer, WithFile, SendsFile
  <2>5. /\ data'[c][u] = WithFile(data[c][u], x)
        /\ ToSet(data'[c][u]) = ToSet(data[c][u]) \union {x}
        /\ \A r \in Rank, v \in Dist : r # c \/ v # u => data'[r][v] = data[r][v]
    BY <2>4, FileSent
  <2>6. c = s /\ u = t
    BY <1>3, <2>5
  <2> QED
    BY <1>3, <2>1, <2>2, <2>3, <2>5, <2>6
<1>4. ASSUME NEW c \in Rank, ReceiveNode(c), data'[s][t] # data[s][t]
      PROVE  /\ ReceiveNode(t) /\ from[t] = s /\ data[s][t] # <<>>
             /\ data'[s][t] = Tail(data[s][t])
             /\ ToSet(data[s][t]) = ToSet(data'[s][t]) \union {owed'[t]}
  <2>1. c \in Dist /\ data[from[c]][c] # <<>> /\ owed \in [Rank -> SUBSET Models]
    BY <1>4 DEF ReceiveNode, TypeOK
  <2>2. PICK r \in Rank : r = from[c]
    BY <2>1 DEF TypeOK
  <2>3. /\ TakesFile(r, c) /\ data[r][c] # <<>>
        /\ owed'[c] = Head(data[r][c])
    BY <1>4, <2>1, <2>2 DEF ReceiveNode, TakesFile
  <2>4. /\ data'[r][c] = Tail(data[r][c])
        /\ ToSet(data[r][c]) = ToSet(data'[r][c]) \union {Head(data[r][c])}
        /\ \A q \in Rank, u \in Dist : q # r \/ u # c => data'[q][u] = data[q][u]
    BY <2>1, <2>3, FileReceived
  <2>5. r = s /\ c = t
    BY <1>4, <2>1, <2>4
  <2> QED
    BY <1>4, <2>2, <2>3, <2>4, <2>5
<1>5. ASSUME HandOut, data'[s][t] # data[s][t]
      PROVE  /\ s = Iso /\ t = handed
             /\ data'[s][t] = WithFile(data[s][t], parts[t + 1])
             /\ ToSet(data'[s][t]) = ToSet(data[s][t]) \union {parts[t + 1]}
  <2>1. /\ handed \in Dist /\ parts[handed + 1] \in SUBSET Models
    BY <1>5, NextPart DEF HandOut
  <2>2. PICK u \in Dist, x \in SUBSET Models : u = handed /\ x = parts[handed + 1]
    BY <2>1
  <2>3. PICK r \in Rank : r = Iso
    BY Ranks
  <2>4. SendsFile(r, u, x)
    BY <1>5, <2>1, <2>2, <2>3 DEF HandOut, WithFile, SendsFile
  <2>5. /\ data'[r][u] = WithFile(data[r][u], x)
        /\ ToSet(data'[r][u]) = ToSet(data[r][u]) \union {x}
        /\ \A q \in Rank, v \in Dist : q # r \/ v # u => data'[q][v] = data[q][v]
    BY <2>4, FileSent
  <2>6. r = s /\ u = t
    BY <1>5, <2>5
  <2> QED
    BY <2>2, <2>3, <2>5, <2>6
<1>6. ASSUME NEW c \in Rank,
             \/ SplitRefused(c) \/ SplitCrashes(c) \/ AcceptNode(c) \/ Terminated(c)
             \/ DropMessage(c) \/ Solves(c)
             \/ \E x \in SUBSET Models : SplitGranted(c, x)
             \/ \E report \in {NotifyMemoryOut, NotifyError} : Crash(c, report)
      PROVE  data' = data
  BY <1>6 DEF SplitRefused, SplitCrashes, AcceptNode, Terminated, DropMessage, Solves, SolveTask,
         SplitGranted, Crash
<1>7. ASSUME NEW ps \in PrePartitionTasks, NEW k \in 0 .. N + 1, PrePartition(ps, k)
      PROVE  data' = data
  BY <1>7 DEF PrePartition
<1>8. CASE StartHandingOut \/ UNCHANGED vars
  BY <1>1, <1>8 DEF StartHandingOut, vars, channels
<1>9. CASE HandOut
  BY <1>5, <1>9
<1>10. CASE \E c \in Rank : CoordStep(c)
  BY <1>1, <1>3, <1>4, <1>6, <1>10 DEF CoordStep, Reacts
<1> QED
  BY <1>1, <1>2, <1>7, <1>8, <1>9, <1>10 DEF Next, LeaderStep, CoordStep, Stopped, IsoHandsOut

\* What a distributed coordinator is doing.
LEMMA PhaseSteps ==
  ASSUME DInv, [Next]_vars, at # "ended", NEW c \in Dist
  PROVE  \/ phase'[c] = phase[c] /\ from'[c] = from[c]
         \/ /\ AcceptNode(c) /\ phase[c] = "idle" /\ phase'[c] = "receiving"
            /\ from'[c] = Head(l2c[c]).rank
         \/ ReceiveNode(c) /\ phase[c] = "receiving" /\ phase'[c] = "solving"
         \/ /\ phase[c] \in {"idle", "receiving", "solving"} /\ phase'[c] = "crashed"
            /\ from'[c] = from[c]
         \/ /\ phase[c] = "solving" /\ phase'[c] = "idle"
            /\ \E r \in {"sat", "unsat"} : SolveTask(c, r)
<1>0. TypeOK /\ c \in Rank /\ PhasesApart /\ c # Iso
  BY Ranks DEF DInv
<1>1. CASE UNCHANGED <<phase, from>>
  BY <1>1
<1>2. CASE LeaderStep
  BY <1>1, <1>2, LeaderStepFrame DEF CoordSame, coordVars
<1>3. ASSUME NEW d \in Rank, CoordStep(d), d # c
      PROVE  phase'[c] = phase[c] /\ from'[c] = from[c]
  <2>1. phase'[c] = phase[c]
    BY <1>0, <1>3, PhaseFrame DEF CoordStep
  <2>2. CASE from' = from
    BY <2>1, <2>2
  <2>3. CASE AcceptNode(d)
    BY <1>0, <1>3, <2>1, <2>3 DEF AcceptNode, TypeOK
  <2>4. CASE \E s \in SUBSET Models : SplitGranted(d, s)
    BY <2>2, <2>4 DEF SplitGranted
  <2> QED
    BY <1>3, <2>2, <2>3, <2>4 DEF CoordStep, Reacts, SplitRefused, SplitCrashes, Transfer,
       ReceiveNode, Terminated, DropMessage, Solves, SolveTask, Crash, coordVars
<1>4. CASE AcceptNode(c)
  <2>1. phase[c] \in {"idle", "solving"}
    BY <1>4 DEF AcceptNode, Looping
  <2> QED
    BY <1>0, <1>4, <2>1 DEF AcceptNode, TypeOK
<1>5. CASE ReceiveNode(c)
  BY <1>0, <1>5 DEF ReceiveNode, TypeOK
<1>6. CASE SplitCrashes(c)
  BY <1>0, <1>6 DEF SplitCrashes, TypeOK
<1>7. CASE Solves(c)
  BY <1>0, <1>7 DEF Solves, SolveTask, Working, PhasesApart, TypeOK
<1>8. ASSUME NEW report \in {NotifyMemoryOut, NotifyError}, Crash(c, report)
      PROVE  /\ phase[c] \in {"idle", "receiving", "solving"} /\ phase'[c] = "crashed"
             /\ from' = from
  BY <1>0, <1>8 DEF Crash, Working, PhasesApart, TypeOK
<1>9. ASSUME \/ SplitRefused(c) \/ Transfer(c) \/ DropMessage(c)
             \/ \E s \in SUBSET Models : SplitGranted(c, s)
      PROVE  UNCHANGED <<phase, from>>
  BY <1>9 DEF SplitRefused, Transfer, DropMessage, SplitGranted, coordVars
<1>10. CASE CoordStep(c)
  <2>1. ~Terminated(c)
    BY <1>0, NotStopped
  <2> QED
    BY <1>1, <1>4, <1>5, <1>6, <1>7, <1>8, <1>9, <1>10, <2>1 DEF CoordStep, Reacts
<1>11. ASSUME NEW ps \in PrePartitionTasks, NEW k \in 0 .. N + 1, PrePartition(ps, k)
       PROVE  phase'[c] = phase[c] /\ from'[c] = from[c]
  BY <1>0, <1>11 DEF PrePartition
<1>12. CASE IsoHandsOut
  <2>1. from' = from
    BY <1>12 DEF IsoHandsOut, StartHandingOut, HandOut
  <2>2. phase' = phase \/ \E p \in {"handing", "solving", "stuck"} : phase' = [phase EXCEPT ![Iso] = p]
    BY <1>12 DEF IsoHandsOut, StartHandingOut, HandOut
  <2>3. phase'[c] = phase[c]
    BY <1>0, <2>2 DEF TypeOK
  <2> QED
    BY <2>1, <2>3
<1>13. CASE UNCHANGED vars
  BY <1>1, <1>13 DEF vars, coordVars
<1>14. CASE \E d \in Rank : CoordStep(d)
  BY <1>3, <1>10, <1>14
<1> QED
  BY <1>2, <1>11, <1>12, <1>13, <1>14 DEF Next, LeaderStep, CoordStep, Stopped

\* The first tasks, and what the isolated coordinator is doing.
LEMMA IsoSteps ==
  ASSUME DInv, [Next]_vars, at # "ended"
  PROVE  /\ \/ UNCHANGED <<parts, handed>>
            \/ HandOut
            \/ \E ps \in PrePartitionTasks, k \in 0 .. N + 1 : PrePartition(ps, k)
         /\ \/ phase'[Iso] = phase[Iso]
            \/ phase[Iso] = "waiting" /\ phase'[Iso] = "handing"
            \/ HandOut
            \/ \E ps \in PrePartitionTasks, k \in 0 .. N + 1 : PrePartition(ps, k)
            \/ /\ phase[Iso] \in {"prepartition", "solving"}
               /\ phase'[Iso] = "idle"
            \/ /\ phase[Iso] \in {"prepartition", "handing", "idle", "solving"}
               /\ phase'[Iso] = "crashed"
<1>0. TypeOK /\ PhasesApart /\ Iso \in Rank /\ Iso \notin Dist
  BY Ranks DEF DInv
<1>1. CASE UNCHANGED <<phase, parts, handed>>
  BY <1>1
<1>2. CASE LeaderStep
  BY <1>1, <1>2, LeaderStepFrame DEF CoordSame, coordVars
<1>3. ASSUME NEW c \in Rank, CoordStep(c)
      PROVE  /\ UNCHANGED <<parts, handed>>
             /\ \/ phase'[Iso] = phase[Iso]
                \/ /\ phase[Iso] \in {"prepartition", "solving"}
                   /\ phase'[Iso] = "idle"
                \/ /\ phase[Iso] \in {"prepartition", "handing", "idle", "solving"}
                   /\ phase'[Iso] = "crashed"
  <2>1. UNCHANGED <<parts, handed>> /\ (c # Iso => phase'[Iso] = phase[Iso])
    BY <1>0, <1>3, PhaseFrame DEF CoordStep
  <2>2. CASE c = Iso
    <3>1. ~Terminated(Iso)
      BY <1>0, NotStopped
    <3>2. CASE Solves(Iso)
      BY <1>0, <3>2 DEF Solves, SolveTask, Working, TypeOK
    <3>3. ASSUME NEW report \in {NotifyMemoryOut, NotifyError}, Crash(Iso, report)
          PROVE  /\ phase[Iso] \in {"prepartition", "handing", "idle", "solving"}
                 /\ phase'[Iso] = "crashed"
      BY <1>0, <3>3 DEF Crash, Working, PhasesApart, TypeOK
    <3>4. CASE DropMessage(Iso)
      BY <3>4 DEF DropMessage, coordVars
    <3>5. CASE Reacts(Iso)
      BY <1>0, <3>1, <3>4, <3>5 DEF Reacts, SplitRefused, SplitGranted, SplitCrashes, Transfer,
         AcceptNode, ReceiveNode, Looping, coordVars
    <3> QED
      BY <1>3, <2>1, <2>2, <3>2, <3>3, <3>5 DEF CoordStep
  <2> QED
    BY <2>1, <2>2
<1>4. CASE StartHandingOut
  BY <1>0, <1>4 DEF StartHandingOut, TypeOK
<1>5. CASE UNCHANGED vars
  BY <1>1, <1>5 DEF vars, coordVars
<1>6. CASE \E c \in Rank : CoordStep(c)
  BY <1>3, <1>6
<1>7. CASE HandOut \/ \E ps \in PrePartitionTasks, k \in 0 .. N + 1 : PrePartition(ps, k)
  BY <1>7
<1> QED
  BY <1>2, <1>4, <1>5, <1>6, <1>7 DEF Next, LeaderStep, CoordStep, Stopped, IsoHandsOut

\* One turn of the loop over the first tasks.
LEMMA HandOutFacts ==
  ASSUME TypeOK, PartsInOrder, HandOut
  PROVE  /\ handed \in Nat /\ Len(parts) \in Nat /\ handed < Len(parts) /\ Len(parts) <= N + 1
         /\ N \in Nat /\ (handed \in Dist <=> handed < N)
         /\ phase[Iso] = "handing" /\ phase'[Iso] \in {"handing", "solving", "stuck"}
         /\ \/ handed' = handed + 1 /\ parts' = parts
            \/ handed' = 0 /\ Len(parts') = 0 /\ handed + 1 = Len(parts)
         /\ UNCHANGED <<owed, split, l2c, c2l>>
<1>1. /\ handed \in Nat /\ Len(parts) \in Nat /\ handed + 1 \in 1 .. Len(parts)
      /\ Len(parts) <= N + 1 /\ N \in Nat /\ (handed \in Dist <=> handed < N)
  BY NextPart DEF HandOut
<1>2. \/ handed' = handed + 1 /\ parts' = parts /\ phase' = phase
      \/ /\ handed' = 0 /\ parts' = <<>> /\ ~(handed + 1 < Len(parts))
         /\ \E p \in {"solving", "stuck"} : phase' = [phase EXCEPT ![Iso] = p]
  BY DEF HandOut
<1>3. phase[Iso] = "handing" /\ UNCHANGED <<owed, split, l2c, c2l>>
  BY DEF HandOut
<1>4. phase'[Iso] \in {"handing", "solving", "stuck"}
  BY <1>2, <1>3, Ranks DEF TypeOK
<1> QED
  BY <1>1, <1>2, <1>3, <1>4, EmptySeq

\* Before the first tasks are handed out there are none.
LEMMA PrePartitionFacts ==
  ASSUME TypeOK, NEW ps \in PrePartitionTasks, NEW k \in 0 .. N + 1, PrePartition(ps, k)
  PROVE  /\ phase[Iso] = "prepartition" /\ phase'[Iso] = "waiting"
         /\ parts' = ps /\ given' \subseteq formula
         /\ given' = UNION {parts'[i] : i \in 1 .. KnownTasks(Len(parts'))}
         /\ N <= 2 => given' = formula
         /\ UNCHANGED <<owed, split, data, l2c, verdict>>
<1>1. /\ phase[Iso] = "prepartition" /\ phase'[Iso] = "waiting" /\ parts' = ps
      /\ given' = UNION {ps[i] : i \in 1 .. KnownTasks(Len(ps))}
      /\ UNCHANGED <<owed, split, data, l2c, verdict>>
  BY Ranks DEF PrePartition, TypeOK, LeaderSame, leaderVars
<1>2. /\ Len(ps) \in 1 .. N + 1 /\ N \in Nat /\ DOMAIN ps = 1 .. Len(ps)
      /\ N <= 2 => Len(ps) <= N /\ Covering(ps)
      /\ \A i \in 1 .. Len(ps) : ps[i] \subseteq formula
  BY FoundTasks, ElementOfSeq, Ranks
<1>3. 1 .. KnownTasks(Len(ps)) \subseteq 1 .. Len(ps)
  BY <1>2 DEF KnownTasks
<1>4. given' \subseteq formula
  BY <1>1, <1>2, <1>3
<1>5. ASSUME N <= 2
      PROVE  given' = formula
  <2>1. KnownTasks(Len(ps)) = Len(ps)
    BY <1>2, <1>5 DEF KnownTasks
  <2> QED
    BY <1>1, <1>2, <1>5, <2>1 DEF Covering
<1> QED
  BY <1>1, <1>4, <1>5

\* The first tasks are what pre_partition found.
LEMMA GivenSteps ==
  ASSUME [Next]_vars
  PROVE  \/ given' = given
         \/ \E ps \in PrePartitionTasks, k \in 0 .. N + 1 : PrePartition(ps, k)
<1>1. CASE UNCHANGED vars
  BY <1>1 DEF vars, coordVars
<1>2. CASE LeaderStep
  BY <1>2, LeaderStepFrame DEF CoordSame, coordVars
<1>3. ASSUME NEW c \in Rank, CoordStep(c)
      PROVE  given' = given
  BY <1>3 DEF CoordStep, Reacts, SplitRefused, SplitGranted, SplitCrashes, Transfer, AcceptNode,
         ReceiveNode, Terminated, DropMessage, Solves, SolveTask, Crash, coordVars
<1>4. CASE IsoHandsOut
  BY <1>4 DEF IsoHandsOut, StartHandingOut, HandOut
<1> QED
  BY <1>1, <1>2, <1>3, <1>4 DEF Next, LeaderStep, CoordStep, Stopped

\* A result comes from the coordinator that has solved its task.
LEMMA ResultSteps ==
  ASSUME TypeOK, [Next]_vars, NEW c \in Dist, Sent(c2l', c, "result")
  PROVE  Sent(c2l, c, "result") \/ \E r \in {"sat", "unsat"} : SolveTask(c, r)
<1>1. PICK i \in 1 .. Len(c2l'[c]) : c2l'[c][i].type = "result"
  BY DEF Sent
<1>2. PICK m : m = c2l'[c][i] /\ m.type = "result"
  BY <1>1
<1>3. Reported(c, m)' /\ c \in Rank
  BY <1>2, Ranks DEF Reported, Contains
<1>4. CASE Reported(c, m)
  BY <1>2, <1>4 DEF Reported, Contains, Sent
<1>5. CASE ~Reported(c, m)
  <2>1. /\ m # NotifyError /\ m # NotifyMemoryOut /\ \A t : m # SplitSucceed(t)
        /\ m.type # "split_failed" /\ m.type # "pre_partition_done"
    BY <1>2, MessageKinds DEF NotifyError, NotifyMemoryOut
  <2> QED
    BY <1>3, <1>5, <2>1, NewReport
<1> QED
  BY <1>4, <1>5

\* A coordinator has no task any more when its result is read.
LEMMA StatusSteps ==
  ASSUME DInv, [Next]_vars, at' # "ended", NEW c \in Dist, cstatus'[c] = "idle"
  PROVE  cstatus[c] = "idle" \/ Sent(c2l, c, "result")
<1>0. TypeOK /\ c \in Rank /\ (at = "init" => NothingYet)
  BY Ranks DEF DInv
<1>1. CASE cstatus' = cstatus
  BY <1>1
<1>2. CASE GetPrePartition
  BY <1>2, FirstFacts DEF NothingYet, Unused
<1>3. ASSUME NEW d \in Rank, GetSplitSucceed(d)
      PROVE  cstatus[c] = "idle"
  <2>1. PICK t \in Dist : t = Head(c2l[d]).rank
    BY <1>3, SucceedFacts
  <2>2. cstatus' = [cstatus EXCEPT ![t] = "solving", ![d] = "solving"]
    BY <1>3, <2>1, SucceedFacts
  <2> QED
    BY <1>0, <2>2 DEF TypeOK
<1>4. ASSUME NEW d \in Rank, GetSplitFailed(d)
      PROVE  cstatus[c] = "idle"
  <2>1. cstatus' = [cstatus EXCEPT ![d] = IF @ = "splitting" THEN "solving" ELSE @]
    BY <1>4 DEF GetSplitFailed
  <2> QED
    BY <1>0, <2>1 DEF TypeOK
<1>5. ASSUME NEW d \in Rank, GetResult(d)
      PROVE  cstatus[c] = "idle" \/ Sent(c2l, c, "result")
  <2>1. d \in Dist /\ ResultExpected(d) /\ Heard(d, "result")
    BY <1>5, ResultFacts DEF GetResult
  <2>2. cstatus' = [cstatus EXCEPT ![d] = "idle"] \/ cstatus' = cstatus
    BY <1>5, <2>1 DEF GetResult, SetCoordinatorIdle, LeaderEnds
  <2>3. CASE d = c
    BY <1>0, <2>1, <2>3, HeadSent DEF Heard, Pending
  <2> QED
    BY <1>0, <1>1, <2>2, <2>3 DEF TypeOK
<1>6. CASE AssignIdle
  <2>1. cstatus' = cstatus \/ cstatus' = [cstatus EXCEPT ![nextSplit] = "splitting"]
    BY <1>6 DEF AssignIdle
  <2> QED
    BY <1>0, <2>1 DEF TypeOK
<1>7. ASSUME NEW d \in Rank, GetFailure(d)
      PROVE  cstatus' = cstatus
  BY <1>7 DEF GetFailure, LeaderEnds
<1>8. ASSUME NEW d \in Rank, CoordStep(d)
      PROVE  cstatus' = cstatus
  BY <1>8 DEF CoordStep, Reacts, SplitRefused, SplitGranted, SplitCrashes, Transfer, AcceptNode,
         ReceiveNode, Terminated, DropMessage, Solves, SolveTask, Crash, LeaderSame, leaderVars
<1>9. ASSUME NEW ps \in PrePartitionTasks, NEW k \in 0 .. N + 1, PrePartition(ps, k)
      PROVE  cstatus' = cstatus
  BY <1>9 DEF PrePartition, LeaderSame, leaderVars
<1>10. CASE IsoHandsOut \/ GetIsoResult \/ LeaderTimeout \/ UNCHANGED vars
  BY <1>10 DEF IsoHandsOut, StartHandingOut, HandOut, GetIsoResult, LeaderTimeout, LeaderEnds,
          LeaderSame, leaderVars, vars
<1> QED
  BY <1>1, <1>2, <1>3, <1>4, <1>5, <1>6, <1>7, <1>8, <1>9, <1>10
     DEF Next, CoordStep, Stopped, LeaderHears

\* The coordinators that failed with a task: the leader still counts on them.
LEMMA SilentKept ==
  ASSUME DInv, [Next]_vars, at # "ended", at' # "ended", NEW c \in Dist
  PROVE  /\ phase[c] = "crashed" => phase'[c] = "crashed"
         /\ Silent(c) => Silent(c)'
         /\ phase[c] \in {"receiving", "solving"} /\ phase'[c] = "crashed" => Silent(c)'
<1>0. TypeOK /\ c \in Rank
  BY Ranks DEF DInv
<1>1. phase[c] = "crashed" => phase'[c] = "crashed"
  BY PhaseSteps
<1>2. ASSUME phase'[c] = "crashed", cstatus[c] # "idle", ~Sent(c2l, c, "result")
      PROVE  Silent(c)'
  <2>1. cstatus'[c] # "idle"
    BY <1>2, StatusSteps
  <2>2. ~\E r \in {"sat", "unsat"} : SolveTask(c, r)
    BY <1>0, <1>2 DEF SolveTask, TypeOK
  <2>3. ~Sent(c2l', c, "result")
    BY <1>0, <1>2, <2>2, ResultSteps
  <2> QED
    BY <1>2, <2>1, <2>3 DEF Silent
<1>3. phase[c] \in {"receiving", "solving"} => cstatus[c] # "idle" /\ ~Sent(c2l, c, "result")
  BY DEF DInv, InStep
<1> QED
  BY <1>1, <1>2, <1>3 DEF Silent
-----------------------------------------------------------------------------
(* What the answers rest on.                                               *)

\* The parts of MInv that hold from the beginning.
Grounds == PartsOfFormula /\ IsoOwesAll /\ SatIsTrue /\ OwesNothing

LEMMA GroundsKept ==
  ASSUME DInv, Grounds, [Next]_vars, at # "ended", at' # "ended"
  PROVE  Grounds'
<1>0. /\ TypeOK /\ PartsInOrder /\ PartsOfFormula /\ IsoOwesAll /\ SatIsTrue /\ OwesNothing
      /\ Dist \subseteq Rank /\ Iso \in Rank /\ Iso \notin Dist
      /\ formula' = formula
  BY Ranks, InputSame DEF DInv, Grounds
<1>1. PartsOfFormula'
  BY <1>0, PartsKept
<1>2. ASSUME NEW c \in Rank, NEW r \in {"sat", "unsat"}, Reported(c, NotifyResult(r))'
      PROVE  Reported(c, NotifyResult(r)) \/ SolveTask(c, r)
  <2>1. /\ NotifyResult(r).type = "result" /\ NotifyResult(r).value = r
        /\ NotifyResult(r) # NotifyError /\ NotifyResult(r) # NotifyMemoryOut
        /\ \A t : NotifyResult(r) # SplitSucceed(t)
        /\ \A x : NotifyResult(r) = NotifyResult(x) => x = r
    BY MessageKinds
  <2>2. PICK m : m = NotifyResult(r)
    OBVIOUS
  <2> QED
    BY <1>0, <1>2, <2>1, <2>2, NewReport
<1>3. SatIsTrue'
  <2> SUFFICES ASSUME NEW c \in Rank, Reported(c, NotifyResult("sat"))'
               PROVE  formula # {}
    BY <1>0 DEF SatIsTrue
  <2>1. CASE Reported(c, NotifyResult("sat"))
    BY <1>0, <2>1 DEF SatIsTrue
  <2>2. CASE SolveTask(c, "sat")
    BY <1>0, <2>2 DEF SolveTask, Justified, PartsOfFormula
  <2> QED
    BY <1>2, <2>1, <2>2
<1>4. IsoOwesAll'
  <2>1. ASSUME phase'[Iso] \in {"prepartition", "waiting", "handing", "solving"}
        PROVE  owed'[Iso] = formula
    <3>1. phase[Iso] \in {"prepartition", "waiting", "handing", "solving"}
      BY <1>0, <2>1, IsoSteps, HandOutFacts, PrePartitionFacts
    <3>2. ~\E r \in {"sat", "unsat"} : SolveTask(Iso, r)
      BY <1>0, <2>1 DEF SolveTask, TypeOK
    <3>3. /\ ~ReceiveNode(Iso)
          /\ ~\E s \in SUBSET Models : SplitGranted(Iso, s)
      BY <1>0 DEF ReceiveNode, SplitGranted, Looping
    <3>4. owed'[Iso] = owed[Iso]
      BY <1>0, <3>2, <3>3, OwedSteps
    <3> QED
      BY <1>0, <3>1, <3>4 DEF IsoOwesAll
  <2>2. ASSUME Reported(Iso, NotifyResult("unsat"))'
        PROVE  formula = {}
    <3>1. CASE Reported(Iso, NotifyResult("unsat"))
      BY <1>0, <3>1 DEF IsoOwesAll
    <3>2. CASE SolveTask(Iso, "unsat")
      BY <1>0, <3>2 DEF SolveTask, Justified, Working, IsoOwesAll
    <3> QED
      BY <1>0, <1>2, <2>2, <3>1, <3>2
  <2> QED
    BY <1>0, <2>1, <2>2 DEF IsoOwesAll
<1>5. OwesNothing'
  <2> SUFFICES ASSUME NEW c \in Dist,
                      \/ phase'[c] \in {"idle", "receiving"}
                      \/ /\ phase'[c] = "crashed"
                         /\ cstatus'[c] = "idle" \/ Sent(c2l', c, "result")
               PROVE  owed'[c] = {}
    BY DEF OwesNothing
  <2>1. CASE \E r \in {"sat", "unsat"} : SolveTask(c, r)
    BY <1>0, <2>1 DEF SolveTask, TypeOK
  <2>2. ASSUME ~\E r \in {"sat", "unsat"} : SolveTask(c, r)
        PROVE  owed[c] = {} /\ phase[c] # "solving" /\ ~ReceiveNode(c)
    <3>1. ~ReceiveNode(c)
      BY <1>0 DEF ReceiveNode, TypeOK
    <3>2. ~Silent(c)'
      BY DEF Silent
    <3>3. phase[c] \in {"idle", "receiving"} \/ (phase[c] = "crashed" /\ ~Silent(c))
      BY <2>2, <3>1, <3>2, PhaseSteps, SilentKept
    <3> QED
      BY <1>0, <3>1, <3>3 DEF OwesNothing, Silent
  <2>3. ASSUME phase[c] # "solving"
        PROVE  ~\E s \in SUBSET Models : SplitGranted(c, s)
    BY <2>3 DEF SplitGranted
  <2> QED
    BY <1>0, <2>1, <2>2, <2>3, OwedSteps
<1> QED
  BY <1>1, <1>3, <1>4, <1>5 DEF Grounds

\* Before the leader knows of the first tasks none is under way.
NothingMoves ==
  /\ \A s \in Rank, t \in Dist : data[s][t] = <<>>
  /\ phase[Iso] = "waiting" =>
       given = UNION {parts[i] : i \in 1 .. KnownTasks(Len(parts))} /\ GivenAll

LEMMA StartKept ==
  ASSUME DInv, NothingMoves, [Next]_vars, at = "init"
  PROVE  NothingMoves'
<1>0. /\ TypeOK /\ PartsInOrder /\ NothingYet /\ formula' = formula
      /\ Dist \subseteq Rank /\ Iso \in Rank
  BY Ranks, InputSame DEF DInv
<1>1. ~HandOut
  BY <1>0 DEF HandOut, NothingYet
<1>2. \A c \in Dist : ~Transfer(c) /\ ~ReceiveNode(c)
  BY <1>0 DEF Transfer, Pending, ReceiveNode, NothingYet, Unused
<1>3. \A s \in Rank, t \in Dist : data'[s][t] = <<>>
  <2> SUFFICES ASSUME NEW s \in Rank, NEW t \in Dist
               PROVE  data'[s][t] = <<>>
    OBVIOUS
  <2>1. ~ReceiveNode(t) /\ (s \in Dist => ~Transfer(s))
    BY <1>2
  <2>2. data'[s][t] = data[s][t]
    BY <1>0, <1>1, <2>1, DataSteps
  <2> QED
    BY <2>2 DEF NothingMoves
<1>4. ASSUME phase'[Iso] = "waiting"
      PROVE  given' = UNION {parts'[i] : i \in 1 .. KnownTasks(Len(parts'))} /\ GivenAll'
  <2>1. CASE \E ps \in PrePartitionTasks, k \in 0 .. N + 1 : PrePartition(ps, k)
    BY <1>0, <2>1, PrePartitionFacts DEF GivenAll
  <2>2. CASE ~\E ps \in PrePartitionTasks, k \in 0 .. N + 1 : PrePartition(ps, k)
    <3>1. phase[Iso] = "waiting"
      BY <1>1, <1>4, <2>2, IsoSteps
    <3>2. parts' = parts /\ given' = given
      BY <1>1, <2>2, IsoSteps, GivenSteps
    <3> QED
      BY <1>0, <3>1, <3>2 DEF NothingMoves, GivenAll
  <2> QED
    BY <2>1, <2>2
<1> QED
  BY <1>0, <1>3, <1>4 DEF NothingMoves

\* One message of a split excludes another.
LEMMA SplitAlone ==
  ASSUME TypeOK, NEW c \in Dist, OneSplit(c), l2c[c] # <<>>, Asking(Head(l2c[c]))
  PROVE  /\ \A t : Head(l2c[c]) # TransferNode(t) => ~Contains(l2c[c], TransferNode(t))
         /\ \A t : ~Reported(c, SplitSucceed(t))
         /\ Lost(l2c, c) => \A t : ~Contains(l2c'[c], TransferNode(t))
<1>1. l2c[c] \in Seq(Message) /\ c \in Rank
  BY Ranks DEF TypeOK
<1>2. Len(l2c[c]) \in Nat /\ 1 \in 1 .. Len(l2c[c]) /\ Head(l2c[c]) = l2c[c][1]
  BY <1>1, Taken
<1>3. ASSUME NEW t, Contains(l2c[c], TransferNode(t))
      PROVE  Head(l2c[c]) = TransferNode(t)
  <2>1. PICK i \in 1 .. Len(l2c[c]) : l2c[c][i] = TransferNode(t)
    BY <1>3 DEF Contains
  <2>2. i = 1
    BY <1>2, <2>1, MessageKinds DEF OneSplit
  <2> QED
    BY <1>2, <2>1, <2>2
<1>4. ASSUME NEW t, Reported(c, SplitSucceed(t))
      PROVE  FALSE
  <2>1. PICK j \in 1 .. Len(c2l[c]) : c2l[c][j] = SplitSucceed(t)
    BY <1>4 DEF Reported, Contains
  <2> QED
    BY <1>2, <2>1, MessageKinds DEF OneSplit
<1>5. ASSUME Lost(l2c, c), NEW t, Contains(l2c'[c], TransferNode(t))
      PROVE  FALSE
  <2>1. PICK i \in 1 .. Len(l2c'[c]) : l2c'[c][i] = TransferNode(t)
    BY <1>5 DEF Contains
  <2>2. i + 1 \in 1 .. Len(l2c[c]) /\ l2c[c][i + 1] = TransferNode(t) /\ i \in Nat /\ i > 0
    BY <1>5, <2>1 DEF Lost
  <2>3. i + 1 = 1
    BY <1>2, <2>2, MessageKinds DEF OneSplit
  <2> QED
    BY <2>2, <2>3
<1> QED
  BY <1>3, <1>4, <1>5

\* The facts of DInv about a distributed coordinator that the following needs.
LEMMA Contact ==
  ASSUME DInv, at # "ended", NEW t \in Dist
  PROVE  /\ OneSplit(t) /\ InOrder(t) /\ InStep(t)
         /\ \A s : Contains(l2c[t], AssignNode(s)) => Sent(l2c, t, "assign_node")
         /\ \A s : Contains(l2c[t], AssignNode(s)) =>
                   phase[t] \in {"idle", "crashed"} /\ ~Sent(c2l, t, "result")
         /\ \A s : Reported(t, SplitSucceed(s)) => Sent(c2l, t, "split_succeed")
         /\ \A r : Reported(t, NotifyResult(r)) => Sent(c2l, t, "result")
         /\ cstatus[t] = "idle" => \A s : ~Awaits(t, s)
<1>1. OneSplit(t) /\ InOrder(t) /\ InStep(t)
  BY DEF DInv
<1>2. \A s : Contains(l2c[t], AssignNode(s)) => Sent(l2c, t, "assign_node")
  BY MessageKinds DEF Contains, Sent
<1>3. /\ \A s : Reported(t, SplitSucceed(s)) => Sent(c2l, t, "split_succeed")
      /\ \A r : Reported(t, NotifyResult(r)) => Sent(c2l, t, "result")
  BY MessageKinds DEF Contains, Reported, Sent
<1>4. \A s : Contains(l2c[t], AssignNode(s)) =>
        phase[t] \in {"idle", "crashed"} /\ ~Sent(c2l, t, "result")
  BY <1>1, <1>2 DEF InStep
<1>5. cstatus[t] = "idle" => \A s : ~Awaits(t, s)
  BY <1>1, <1>2 DEF InStep, Awaits
<1> QED
  BY <1>1, <1>2, <1>3, <1>4, <1>5
-----------------------------------------------------------------------------
(* Each task comes to a coordinator that waits for it, or has failed.      *)

\* A task that is on its way was on its way, unless it is split off just now.
LEMMA ComingSteps ==
  ASSUME DInv, ComesOnce, [Next]_vars, at = "loop", at' # "ended",
         NEW s \in Rank, NEW t \in Dist, Coming(s, t)'
  PROVE  \/ Coming(s, t)
         \/ Contains(l2c'[t], AssignNode(s)) /\ cstatus[t] = "idle"
<1>0. TypeOK /\ PartsInOrder /\ IsoInStep
  BY DEF DInv
<1>1. CASE Contains(l2c'[s], TransferNode(t))
  <2>1. CASE Contains(l2c[s], TransferNode(t))
    BY <2>1 DEF Coming
  <2>2. CASE ~Contains(l2c[s], TransferNode(t))
    <3>1. ~GetPrePartition
      BY FirstFacts
    <3>2. PICK m : m = TransferNode(t)
      OBVIOUS
    <3>3. m.type # "request_split" /\ (\A d : m # AssignNode(d))
          /\ (\A u : m = TransferNode(u) => u = t)
      BY <3>2, MessageKinds
    <3>4. GetSplitSucceed(s) /\ s \in Dist /\ t = Head(c2l[s]).rank /\ t # s
      BY <1>1, <2>2, <3>1, <3>2, <3>3, NewMessage
    <3>5. l2c' = SplitMessages(s, t)
      BY <3>4, SucceedFacts
    <3>6. l2c'[t] = Append(l2c[t], AssignNode(s))
      BY <1>0, <3>4, <3>5, SplitMessagesFacts
    <3>7. PICK q \in Seq(Message), x \in Message : q = l2c[t] /\ x = AssignNode(s)
      BY <1>0, MessageTypes, Ranks DEF TypeOK
    <3>8. Contains(Append(q, x), x)
      BY Listed
    <3>9. cstatus[t] = "idle"
      BY <3>4, SucceedFacts DEF SplitExpected
    <3> QED
      BY <3>6, <3>7, <3>8, <3>9
  <2> QED
    BY <2>1, <2>2
<1>2. CASE data'[s][t] # <<>>
  <2>1. CASE data'[s][t] = data[s][t]
    BY <1>2, <2>1 DEF Coming
  <2>2. CASE s \in Dist /\ Transfer(s) /\ Head(l2c[s]) = TransferNode(t)
    BY <1>0, <2>2, HeadSent DEF Transfer, Pending, Coming
  <2>3. CASE data[s][t] # <<>>
    BY <2>3 DEF Coming
  <2>4. CASE HandOut /\ s = Iso /\ t = handed
    <3>1. handed \in Nat /\ Len(parts) \in Nat /\ handed < Len(parts)
      BY <1>0, <2>4, HandOutFacts
    <3> QED
      BY <2>4, <3>1 DEF Coming
  <2> QED
    BY <1>0, <2>1, <2>2, <2>3, <2>4, DataSteps
<1>3. CASE s = Iso /\ t \in handed' .. (Len(parts') - 1)
  <2>1. CASE UNCHANGED <<parts, handed>>
    BY <1>3, <2>1 DEF Coming
  <2>2. CASE HandOut
    <3>1. /\ handed \in Nat /\ Len(parts) \in Nat
          /\ \/ handed' = handed + 1 /\ parts' = parts
             \/ handed' = 0 /\ Len(parts') = 0
      BY <1>0, <2>2, HandOutFacts
    <3>2. t \in handed .. (Len(parts) - 1)
      BY <1>3, <3>1
    <3> QED
      BY <1>3, <3>2 DEF Coming
  <2>3. ~\E ps \in PrePartitionTasks, k \in 0 .. N + 1 : PrePartition(ps, k)
    BY <1>0, PrePartitionFacts DEF IsoInStep
  <2> QED
    BY <2>1, <2>2, <2>3, IsoSteps
<1> QED
  BY <1>1, <1>2, <1>3 DEF Coming

\* A coordinator waits until its task has come, or it fails.
LEMMA AwaitsSteps ==
  ASSUME DInv, [Next]_vars, at = "loop", at' # "ended", NEW s \in Rank, NEW t \in Dist,
         Awaits(t, s)
  PROVE  Awaits(t, s)' \/ (ReceiveNode(t) /\ from[t] = s) \/ Silent(t)'
<1>0. TypeOK /\ t \in Rank
  BY Ranks DEF DInv
<1>1. CASE Contains(l2c[t], AssignNode(s))
  <2>1. CASE Contains(l2c'[t], AssignNode(s))
    BY <2>1 DEF Awaits
  <2>2. CASE ~Contains(l2c'[t], AssignNode(s))
    <3>1. PICK m : m = AssignNode(s)
      OBVIOUS
    <3>2. m.type = "assign_node" /\ m.rank = s
      BY <3>1, MessageKinds
    <3>3. Head(l2c[t]) = m /\ (AcceptNode(t) \/ DropMessage(t))
      BY <1>1, <2>2, <3>1, <3>2, LostMessage
    <3>4. phase[t] \in {"idle", "crashed"} /\ ~Sent(c2l, t, "result")
      BY <1>1, Contact
    <3>5. CASE phase[t] = "idle"
      <4>1. AcceptNode(t)
        BY <3>3, <3>5 DEF DropMessage
      <4>2. phase'[t] = "receiving" /\ from'[t] = s
        BY <1>0, <3>2, <3>3, <3>5, <4>1 DEF AcceptNode, TypeOK
      <4> QED
        BY <4>2 DEF Awaits
    <3>6. CASE phase[t] = "crashed"
      <4>1. cstatus[t] # "idle"
        BY Contact
      <4> QED
        BY <3>4, <3>6, <4>1, SilentKept DEF Silent
    <3> QED
      BY <3>4, <3>5, <3>6
  <2> QED
    BY <2>1, <2>2
<1>2. CASE phase[t] = "receiving" /\ from[t] = s
  <2>1. Awaits(t, s)' \/ ReceiveNode(t) \/ phase'[t] = "crashed"
    BY <1>2, PhaseSteps DEF Awaits
  <2> QED
    BY <1>2, <2>1, SilentKept
<1> QED
  BY <1>1, <1>2 DEF Awaits

\* Of one file nothing is left when it is taken.
LEMMA OneFile ==
  ASSUME NEW q \in Seq(SUBSET Models), Len(q) <= 1, q # <<>>
  PROVE  Tail(q) = <<>> /\ Len(Tail(q)) = 0
<1>1. Len(q) \in Nat /\ Len(q) > 0 /\ Len(Tail(q)) = Len(q) - 1 /\ Tail(q) \in Seq(SUBSET Models)
  BY Taken
<1>2. PICK r \in Seq(SUBSET Models) : r = Tail(q)
  BY <1>1
<1>3. Len(r) = 0
  BY <1>1, <1>2
<1>4. r = <<>>
  BY <1>3, EmptySeq
<1> QED
  BY <1>2, <1>3, <1>4

\* Each task comes to a coordinator that waits for it or has failed, and comes
\* once.
LEMMA ComesOnceKept ==
  ASSUME DInv, ComesOnce, [Next]_vars, at = "loop", at' # "ended"
  PROVE  ComesOnce'
<1>0. TypeOK /\ PartsInOrder /\ IsoInStep /\ Iso \in Rank /\ Iso \notin Dist /\ Dist \subseteq Rank
  BY Ranks DEF DInv
<1> SUFFICES ASSUME NEW s \in Rank, NEW t \in Dist
             PROVE  /\ Coming(s, t)' => Awaits(t, s)' \/ Silent(t)'
                    /\ Len(data'[s][t]) <= 1
                    /\ data'[s][t] # <<>> =>
                         /\ ~Contains(l2c'[s], TransferNode(t))
                         /\ s = Iso => t \notin handed' .. (Len(parts') - 1)
                    /\ ~Contains(l2c'[Iso], TransferNode(t))
  BY DEF ComesOnce
<1>1. /\ Coming(s, t) => Awaits(t, s) \/ Silent(t)
      /\ Len(data[s][t]) <= 1
      /\ data[s][t] # <<>> => /\ ~Contains(l2c[s], TransferNode(t))
                              /\ s = Iso => t \notin handed .. (Len(parts) - 1)
      /\ ~Contains(l2c[Iso], TransferNode(t))
  BY DEF ComesOnce
<1>8. data[s][t] \in Seq(SUBSET Models)
  <2>1. data \in [Rank -> [Dist -> Seq(SUBSET Models)]]
    BY <1>0 DEF TypeOK
  <2> QED
    BY <2>1
<1>2. ASSUME NEW c \in Rank, Contains(l2c'[c], TransferNode(t)), ~Contains(l2c[c], TransferNode(t))
      PROVE  c \in Dist /\ ~Silent(t) /\ \A d : ~Awaits(t, d)
  <2>1. ~GetPrePartition
    BY FirstFacts
  <2>2. PICK m : m = TransferNode(t)
    OBVIOUS
  <2>3. m.type # "request_split" /\ (\A d : m # AssignNode(d))
        /\ (\A u : m = TransferNode(u) => u = t)
    BY <2>2, MessageKinds
  <2>4. GetSplitSucceed(c) /\ c \in Dist /\ t = Head(c2l[c]).rank
    BY <1>2, <2>1, <2>2, <2>3, NewMessage
  <2>5. cstatus[t] = "idle"
    BY <2>4, SucceedFacts DEF SplitExpected
  <2> QED
    BY <2>4, <2>5, Contact DEF Silent
<1>3. ~Contains(l2c'[Iso], TransferNode(t))
  BY <1>0, <1>1, <1>2
<1>4. CASE data'[s][t] = data[s][t]
  <2>1. ~(ReceiveNode(t) /\ from[t] = s)
    <3> SUFFICES ASSUME ReceiveNode(t), from[t] = s
                 PROVE  FALSE
      OBVIOUS
    <3>1. data[s][t] # <<>> /\ TakesFile(s, t)
      BY DEF ReceiveNode, TakesFile
    <3>2. data'[s][t] = Tail(data[s][t])
      BY <1>0, <3>1, FileReceived
    <3> QED
      <4>1. PICK q \in Seq(SUBSET Models) : q = data[s][t]
        BY <1>8
      <4>2. Len(q) <= 1 /\ q # <<>>
        BY <1>1, <3>1, <4>1
      <4>3. Tail(q) = <<>>
        BY <4>2, OneFile
      <4> QED
        BY <1>4, <3>1, <3>2, <4>1, <4>3
  <2>2. Coming(s, t)' => Awaits(t, s)' \/ Silent(t)'
    <3>1. CASE Contains(l2c'[t], AssignNode(s))
      BY <3>1 DEF Awaits
    <3>2. CASE Coming(s, t)
      BY <1>1, <2>1, <3>2, AwaitsSteps, SilentKept
    <3> QED
      BY <3>1, <3>2, ComingSteps
  <2>3. ASSUME data'[s][t] # <<>>
        PROVE  /\ ~Contains(l2c'[s], TransferNode(t))
               /\ s = Iso => t \notin handed' .. (Len(parts') - 1)
    <3>1. Coming(s, t) /\ data[s][t] # <<>>
      BY <1>4, <2>3 DEF Coming
    <3>2. ~Contains(l2c'[s], TransferNode(t))
      BY <1>1, <1>2, <3>1
    <3>3. ASSUME s = Iso
          PROVE  t \notin handed' .. (Len(parts') - 1)
      <4>1. t \notin handed .. (Len(parts) - 1)
        BY <1>1, <3>1, <3>3
      <4>2. CASE UNCHANGED <<parts, handed>>
        BY <4>1, <4>2
      <4>3. CASE HandOut
        <5>1. /\ handed \in Nat /\ Len(parts) \in Nat
              /\ \/ handed' = handed + 1 /\ parts' = parts
                 \/ handed' = 0 /\ Len(parts') = 0
          BY <1>0, <4>3, HandOutFacts
        <5> QED
          BY <4>1, <5>1
      <4>4. ~\E ps \in PrePartitionTasks, k \in 0 .. N + 1 : PrePartition(ps, k)
        BY <1>0, PrePartitionFacts DEF IsoInStep
      <4> QED
        BY <4>2, <4>3, <4>4, IsoSteps
    <3> QED
      BY <3>2, <3>3
  <2> QED
    BY <1>1, <1>3, <1>4, <2>2, <2>3
<1>5. CASE /\ Transfer(s) /\ s \in Dist /\ Head(l2c[s]) = TransferNode(t)
           /\ data'[s][t] = WithFile(data[s][t], split[s])
  <2>1. l2c[s] # <<>> /\ Takes(s) /\ UNCHANGED <<phase, from, parts, handed>> /\ Contains(l2c[s], TransferNode(t))
    BY <1>0, <1>5, HeadSent DEF Transfer, Pending, coordVars
  <2>2. data[s][t] = <<>> /\ Coming(s, t)
    BY <1>1, <2>1 DEF Coming
  <2>3. Len(data'[s][t]) = 1
    <3>1. PICK q \in Seq(SUBSET Models), x \in SUBSET Models : q = data[s][t] /\ x = split[s]
      <4>1. split \in [Rank -> SUBSET Models]
        BY <1>0 DEF TypeOK
      <4> QED
        BY <1>8, <4>1
    <3>2. q = <<>> => Len(WithFile(q, x)) = 1
      BY OneFileMore
    <3> QED
      BY <1>5, <2>2, <3>1, <3>2
  <2>4. Lost(l2c, s) /\ OneSplit(s) /\ Asking(Head(l2c[s]))
    BY <1>0, <1>5, <2>1, TakesFacts, MessageKinds, Contact
  <2>5. ~Contains(l2c'[s], TransferNode(t))
    BY <1>0, <1>5, <2>1, <2>4, SplitAlone
  <2>6. (Awaits(t, s)' \/ Silent(t)') /\ s # Iso
    <3>1. ~ReceiveNode(t)
      <4>1. ASSUME ReceiveNode(t)
            PROVE  FALSE
        <5>1. phase[t] = "receiving" /\ phase'[t] = "solving"
          BY <1>0, <4>1 DEF ReceiveNode, TypeOK
        <5> QED
          BY <2>1, <5>1
      <4> QED
        BY <4>1
    <3> QED
      BY <1>0, <1>1, <1>5, <2>2, <3>1, AwaitsSteps, SilentKept
  <2> QED
    BY <1>3, <2>3, <2>5, <2>6
<1>6. CASE /\ ReceiveNode(t) /\ from[t] = s /\ data[s][t] # <<>>
           /\ data'[s][t] = Tail(data[s][t])
  <2>1. data'[s][t] = <<>> /\ Len(data'[s][t]) = 0
    <3>1. PICK q \in Seq(SUBSET Models) : q = data[s][t]
      BY <1>8
    <3>2. Len(q) <= 1 /\ q # <<>>
      BY <1>1, <1>6, <3>1
    <3>3. Tail(q) = <<>> /\ Len(Tail(q)) = 0
      BY <3>2, OneFile
    <3> QED
      BY <1>6, <3>1, <3>3
  <2>2. UNCHANGED <<l2c, parts, handed>>
    BY <1>6 DEF ReceiveNode
  <2>3. ~Coming(s, t)'
    BY <1>1, <1>6, <2>1, <2>2 DEF Coming
  <2> QED
    BY <1>3, <2>1, <2>3
<1>7. CASE HandOut /\ s = Iso /\ t = handed /\ data'[s][t] = WithFile(data[s][t], parts[t + 1])
  <2>1. /\ handed \in Nat /\ Len(parts) \in Nat /\ handed < Len(parts)
        /\ \/ handed' = handed + 1 /\ parts' = parts
           \/ handed' = 0 /\ Len(parts') = 0
        /\ l2c' = l2c
    BY <1>0, <1>7, HandOutFacts
  <2>2. t \in handed .. (Len(parts) - 1) /\ t \notin handed' .. (Len(parts') - 1)
    BY <1>7, <2>1
  <2>3. Coming(s, t) /\ data[s][t] = <<>>
    BY <1>1, <1>7, <2>2 DEF Coming
  <2>4. Len(data'[s][t]) = 1
    <3>1. parts[handed + 1] \in SUBSET Models
      BY <1>0, <1>7, NextPart DEF HandOut
    <3>2. PICK x \in SUBSET Models : x = parts[t + 1]
      BY <1>7, <3>1
    <3>3. PICK q \in Seq(SUBSET Models) : q = data[s][t]
      BY <1>8
    <3>4. q = <<>> => Len(WithFile(q, x)) = 1
      BY OneFileMore
    <3> QED
      BY <1>7, <2>3, <3>2, <3>3, <3>4
  <2>5. Awaits(t, s)' \/ Silent(t)'
    <3>1. ~ReceiveNode(t)
      <4>1. ASSUME ReceiveNode(t)
            PROVE  FALSE
        <5>1. phase[t] = "receiving" /\ phase'[t] = "solving"
          BY <1>0, <4>1 DEF ReceiveNode, TypeOK
        <5>2. UNCHANGED <<parts, handed>>
          BY <4>1 DEF ReceiveNode
        <5> QED
          BY <2>1, <5>2
      <4> QED
        BY <4>1
    <3> QED
      BY <1>1, <2>3, <3>1, AwaitsSteps, SilentKept
  <2> QED
    BY <1>3, <1>7, <2>2, <2>4, <2>5
<1> QED
  BY <1>0, <1>4, <1>5, <1>6, <1>7, DataSteps

\* The first tasks come to the coordinators that are told of them.
LEMMA FirstHandedOut ==
  ASSUME DInv, NothingMoves, GetPrePartition
  PROVE  ComesOnce' /\ Covered' /\ GivenAll'
<1>0. /\ TypeOK /\ PartsInOrder /\ phase[Iso] = "waiting"
      /\ First \in 1 .. N /\ First <= Len(parts) /\ Len(parts) \in Nat /\ N \in Nat
      /\ UNCHANGED <<parts, handed, given, data, formula>> /\ Iso \in Rank
  BY FirstFacts, Ranks DEF DInv, GetPrePartition, CoordSame, coordVars, input
<1>1. handed' = 0 /\ handed = 0
  BY <1>0 DEF PartsInOrder
<1>2. \A s \in Rank, t \in Dist : data'[s][t] = <<>>
  BY <1>0 DEF NothingMoves
<1>3. PICK m \in Message : m = AssignNode(Iso) /\ \A t : m # TransferNode(t)
  BY MessageTypes, MessageKinds, Ranks
<1>4. \A x : (Contains(<<m>>, x) <=> x = m) /\ ~Contains(<<>>, x)
  BY DEF Contains
<1>5. \A c \in Rank : l2c'[c] = <<m>> \/ l2c'[c] = <<>>
  BY <1>3, FirstMessages, Ranks
<1>6. \A c \in Rank, t \in Dist : ~Contains(l2c'[c], TransferNode(t))
  <2> SUFFICES ASSUME NEW c \in Rank, NEW t \in Dist
               PROVE  ~Contains(l2c'[c], TransferNode(t))
    OBVIOUS
  <2>1. CASE l2c'[c] = <<m>>
    BY <1>3, <1>4, <2>1
  <2>2. CASE l2c'[c] = <<>>
    BY <1>4, <2>2
  <2> QED
    BY <1>5, <2>1, <2>2
<1>7. Len(<<>>) = 0
  OBVIOUS
<1>8. ASSUME NEW s \in Rank, NEW t \in Dist, Coming(s, t)'
      PROVE  Awaits(t, s)'
  <2>1. s = Iso /\ t \in handed' .. (Len(parts') - 1)
    BY <1>2, <1>6, <1>8 DEF Coming
  <2>2. t < First
    BY <1>0, <1>1, <2>1, Ranks DEF First, KnownTasks, Dist
  <2>3. l2c'[t] = <<m>>
    BY <1>3, <2>2, FirstMessages
  <2>4. Contains(l2c'[t], m)
    BY <1>4, <2>3
  <2> QED
    BY <1>3, <2>1, <2>4 DEF Awaits
<1>9. ComesOnce'
  BY <1>0, <1>2, <1>6, <1>7, <1>8 DEF ComesOnce
<1>10. given = UNION {parts[i] : i \in 1 .. KnownTasks(Len(parts))} /\ GivenAll'
  BY <1>0 DEF NothingMoves, GivenAll
<1>11. Covered'
  <2>1. given' \subseteq UNION {parts'[i] : i \in handed' + 1 .. KnownTasks(Len(parts'))}
    BY <1>0, <1>1, <1>10
  <2> QED
    BY <2>1 DEF Covered, Accounted, NotHandedOut
<1> QED
  BY <1>9, <1>10, <1>11
-----------------------------------------------------------------------------
(* No model gets lost.                                                     *)

\* Somebody answers for the model x.
Holds(x) ==
  \/ \E c \in Dist : x \in owed[c]
  \/ \E c \in Dist : /\ x \in split[c]
                     /\ \E t \in Dist : \/ Reported(c, SplitSucceed(t))
                                        \/ Contains(l2c[c], TransferNode(t))
  \/ \E s \in Rank, t \in Dist : \E f \in ToSet(data[s][t]) : x \in f
  \/ \E i \in handed + 1 .. KnownTasks(Len(parts)) : x \in parts[i]

\* The models that are accounted for.
LEMMA Held ==
  ASSUME NEW x
  PROVE  /\ x \in Accounted <=> Holds(x)
         /\ x \in Accounted' <=> Holds(x)'
<1>1. x \in Accounted <=> Holds(x)
  <2>1. x \in UNION InTransit <=> \E s \in Rank, t \in Dist : \E f \in ToSet(data[s][t]) : x \in f
    BY DEF InTransit
  <2>2. x \in UNION {owed[c] \union Promised(c) : c \in Dist} <=>
          \E c \in Dist : x \in owed[c] \/ x \in Promised(c)
    OBVIOUS
  <2>3. \A c \in Dist : x \in Promised(c) <=>
          /\ x \in split[c]
          /\ \E t \in Dist : \/ Reported(c, SplitSucceed(t))
                             \/ Contains(l2c[c], TransferNode(t))
    BY DEF Promised
  <2>4. x \in UNION NotHandedOut <=>
          \E i \in handed + 1 .. KnownTasks(Len(parts)) : x \in parts[i]
    BY DEF NotHandedOut
  <2> QED
    BY <2>1, <2>2, <2>3, <2>4 DEF Accounted, Holds
<1>2. x \in Accounted' <=> Holds(x)'
  <2>1. x \in UNION InTransit' <=> \E s \in Rank, t \in Dist : \E f \in ToSet(data'[s][t]) : x \in f
    BY DEF InTransit
  <2>2. x \in UNION {owed'[c] \union Promised(c)' : c \in Dist} <=>
          \E c \in Dist : x \in owed'[c] \/ x \in Promised(c)'
    OBVIOUS
  <2>3. \A c \in Dist : x \in Promised(c)' <=>
          /\ x \in split'[c]
          /\ \E t \in Dist : \/ Reported(c, SplitSucceed(t))'
                             \/ Contains(l2c'[c], TransferNode(t))
    BY DEF Promised
  <2>4. x \in UNION NotHandedOut' <=>
          \E i \in handed' + 1 .. KnownTasks(Len(parts')) : x \in parts'[i]
    BY DEF NotHandedOut
  <2> QED
    BY <2>1, <2>2, <2>3, <2>4 DEF Accounted, Holds
<1> QED
  BY <1>1, <1>2

\* What the leader will not hear of, it will not hear of later.
LEMMA UnansweringKept ==
  ASSUME DInv, ComesOnce, [Next]_vars, at = "loop", at' # "ended", NEW t \in Dist,
         Unanswering(t)
  PROVE  Unanswering(t)'
<1>0. TypeOK
  BY DEF DInv
<1>1. CASE Silent(t)
  BY <1>1, SilentKept DEF Unanswering
<1>2. ASSUME NEW s \in Rank, Awaits(t, s), phase[s] = "crashed", ~Coming(s, t)
      PROVE  Unanswering(t)'
  <2>1. ~ReceiveNode(t) \/ from[t] # s
    BY <1>2 DEF ReceiveNode, Coming
  <2>2. phase'[s] = "crashed"
    <3>1. CASE s \in Dist
      BY <1>2, <3>1, SilentKept
    <3>2. CASE s = Iso
      BY <1>0, <1>2, <3>2, IsoSteps, PrePartitionFacts DEF HandOut
    <3> QED
      BY <3>1, <3>2, Ranks
  <2>3. ~Coming(s, t)'
    BY <1>2, ComingSteps, Contact
  <2>4. Awaits(t, s)' \/ Silent(t)'
    BY <1>2, <2>1, AwaitsSteps
  <2> QED
    BY <2>2, <2>3, <2>4 DEF Unanswering
<1> QED
  BY <1>1, <1>2 DEF Unanswering

\* A task that a failed coordinator does not send keeps its receiver waiting.
LEMMA TransferDropped ==
  ASSUME DInv, ComesOnce, [Next]_vars, at = "loop", at' # "ended", NEW c \in Dist, NEW t \in Dist,
         Contains(l2c[c], TransferNode(t)), ~Contains(l2c'[c], TransferNode(t)),
         DropMessage(c)
  PROVE  Unanswering(t)'
<1>0. TypeOK /\ c \in Rank /\ c # Iso
  BY Ranks DEF DInv
<1>1. Coming(c, t) /\ data[c][t] = <<>>
  BY <1>0 DEF Coming, ComesOnce
<1>2. /\ phase[c] = "crashed" /\ UNCHANGED <<phase, data>>
      /\ ~ReceiveNode(t)
  BY DEF DropMessage, ReceiveNode, coordVars
<1>3. Awaits(t, c)' \/ Silent(t)'
  BY <1>0, <1>1, <1>2, AwaitsSteps, SilentKept DEF ComesOnce
<1>4. ~Coming(c, t)'
  BY <1>0, <1>1, <1>2 DEF Coming
<1> QED
  BY <1>0, <1>2, <1>3, <1>4 DEF Unanswering

\* What a coordinator answers for, somebody answers for in the next state.
LEMMA OwedHeld ==
  ASSUME DInv, Grounds, [Next]_vars, at # "ended", NEW c \in Dist, NEW x \in owed[c],
         ~Reported(c, NotifyResult("sat"))'
  PROVE  Holds(x)'
<1>0. TypeOK /\ OwesNothing /\ c \in Rank
  BY Ranks DEF DInv, Grounds
<1>1. CASE owed'[c] = owed[c]
  BY <1>1 DEF Holds
<1>2. ASSUME NEW s \in SUBSET Models, SplitGranted(c, s), owed'[c] = owed[c] \ s, split'[c] = s
      PROVE  Holds(x)'
  <2>1. PICK t \in Dist : t = Head(l2c[c]).rank
    BY <1>0, <1>2, TakesFacts, MessageFields DEF SplitGranted, Pending
  <2>2. PICK m \in Report : m = SplitSucceed(t)
    BY MessageTypes
  <2>3. Reports(c, <<m>>)
    BY <1>2, <2>1, <2>2 DEF SplitGranted
  <2>4. Reported(c, SplitSucceed(t))'
    BY <1>0, <2>2, <2>3, ReportsFacts, UpGot
  <2>5. x \in owed'[c] \/ x \in split'[c]
    BY <1>2
  <2> QED
    BY <2>4, <2>5 DEF Holds
<1>3. CASE ReceiveNode(c)
  BY <1>0, <1>3 DEF ReceiveNode, OwesNothing
<1>4. ASSUME NEW r \in {"sat", "unsat"}, SolveTask(c, r)
      PROVE  FALSE
  <2>1. r = "sat"
    BY <1>4 DEF SolveTask, Justified
  <2>2. PICK m \in Report : m = NotifyResult("sat")
    BY MessageTypes
  <2>3. Reports(c, <<m>>)
    BY <1>4, <2>1, <2>2 DEF SolveTask
  <2>4. Reported(c, NotifyResult("sat"))'
    BY <1>0, <2>2, <2>3, ReportsFacts, UpGot
  <2> QED
    BY <2>4
<1> QED
  BY <1>0, <1>1, <1>2, <1>3, <1>4, OwedSteps

\* What was split away is split away still, or has been sent.
LEMMA PromiseHeld ==
  ASSUME DInv, ComesOnce, [Next]_vars, at = "loop", at' # "ended", NEW c \in Dist,
         NEW x \in split[c], NEW t \in Dist,
         Reported(c, SplitSucceed(t)) \/ Contains(l2c[c], TransferNode(t)),
         ~Unanswering(t)'
  PROVE  Holds(x)'
<1>0. TypeOK /\ c \in Rank /\ OneSplit(c)
  BY Ranks DEF DInv
<1>1. split'[c] = split[c]
  <2> SUFFICES ASSUME NEW s \in SUBSET Models, SplitGranted(c, s)
               PROVE  FALSE
    BY <1>0, OwedSteps
  <2>1. l2c[c] # <<>> /\ Head(l2c[c]).type = "request_split"
    BY DEF SplitGranted, Pending
  <2>2. Asking(Head(l2c[c])) /\ Head(l2c[c]) # TransferNode(t)
    BY <2>1, MessageKinds DEF Asking
  <2> QED
    BY <1>0, <2>1, <2>2, SplitAlone
<1>2. CASE Reported(c, SplitSucceed(t))
  <2>1. CASE Reported(c, SplitSucceed(t))'
    BY <1>1, <2>1 DEF Holds
  <2>2. CASE ~Reported(c, SplitSucceed(t))'
    <3>1. PICK m : m = SplitSucceed(t) /\ m.type = "split_succeed" /\ m.rank = t
      BY MessageKinds
    <3>2. GetSplitSucceed(c) /\ Head(c2l[c]) = m
      BY <1>0, <1>2, <2>2, <3>1, LostReport
    <3>3. t # c /\ l2c' = SplitMessages(c, t)
      BY <1>0, <3>1, <3>2, SucceedFacts
    <3>4. l2c'[c] = Append(l2c[c], TransferNode(t))
      BY <1>0, <3>3, SplitMessagesFacts
    <3>5. PICK q \in Seq(Message), y \in Message : q = l2c[c] /\ y = TransferNode(t)
      BY <1>0, MessageTypes DEF TypeOK
    <3>6. Contains(Append(q, y), y)
      BY Listed
    <3>7. Contains(l2c'[c], TransferNode(t))
      BY <3>4, <3>5, <3>6
    <3> QED
      BY <1>1, <3>7 DEF Holds
  <2> QED
    BY <2>1, <2>2
<1>3. CASE Contains(l2c[c], TransferNode(t))
  <2>1. CASE Contains(l2c'[c], TransferNode(t))
    BY <1>1, <2>1 DEF Holds
  <2>2. CASE ~Contains(l2c'[c], TransferNode(t))
    <3>1. PICK m : m = TransferNode(t) /\ m.type = "transfer_node" /\ m.rank = t
      BY MessageKinds
    <3>2. Head(l2c[c]) = m /\ (Transfer(c) \/ DropMessage(c))
      BY <1>3, <2>2, <3>1, LostMessage
    <3>3. Transfer(c)
      BY <1>3, <2>2, <3>2, TransferDropped
    <3>4. PICK y \in SUBSET Models : y = split[c]
      BY <1>0 DEF TypeOK
    <3>5. SendsFile(c, t, y)
      BY <3>1, <3>2, <3>3, <3>4 DEF Transfer, WithFile, SendsFile
    <3>6. ToSet(data'[c][t]) = ToSet(data[c][t]) \union {y}
      BY <1>0, <3>5, FileSent
    <3> QED
      BY <1>0, <3>4, <3>6 DEF Holds
  <2> QED
    BY <2>1, <2>2
<1> QED
  BY <1>2, <1>3

\* A task file is still there, or has become the task of its receiver.
LEMMA FileHeld ==
  ASSUME DInv, [Next]_vars, NEW s \in Rank, NEW t \in Dist, NEW f \in ToSet(data[s][t]),
         NEW x \in f
  PROVE  Holds(x)'
<1>0. TypeOK /\ PartsInOrder
  BY DEF DInv
<1>1. \/ data'[s][t] = data[s][t]
      \/ \E y : ToSet(data'[s][t]) = ToSet(data[s][t]) \union {y}
      \/ ToSet(data[s][t]) = ToSet(data'[s][t]) \union {owed'[t]}
  BY <1>0, DataSteps
<1>2. f \in ToSet(data'[s][t]) \/ f = owed'[t]
  BY <1>1
<1> QED
  BY <1>2 DEF Holds

\* The task that is handed out is among the task files.
LEMMA HandedOut ==
  ASSUME TypeOK, PartsInOrder, HandOut, handed \in Dist
  PROVE  parts[handed + 1] \in ToSet(data'[Iso][handed])
<1>1. handed \in Dist /\ parts[handed + 1] \in SUBSET Models
  BY NextPart DEF HandOut
<1>2. PICK t \in Dist, x \in SUBSET Models : t = handed /\ x = parts[handed + 1]
  BY <1>1
<1>3. PICK s \in Rank : s = Iso
  BY Ranks
<1>4. data' = [data EXCEPT ![Iso][t] = Append(@, x)]
  BY <1>2 DEF HandOut
<1>5. SendsFile(s, t, x)
  BY <1>3, <1>4 DEF WithFile, SendsFile
<1>6. /\ data'[s][t] = WithFile(data[s][t], x)
      /\ ToSet(data'[s][t]) = ToSet(data[s][t]) \union {x}
      /\ \A r \in Rank, u \in Dist : r # s \/ u # t => data'[r][u] = data[r][u]
  BY <1>5, FileSent
<1> QED
  BY <1>2, <1>3, <1>6

\* The first tasks are still there, or one of them has been sent.
LEMMA PartHeld ==
  ASSUME DInv, [Next]_vars, at = "loop", NEW i \in handed + 1 .. KnownTasks(Len(parts)),
         NEW x \in parts[i]
  PROVE  Holds(x)'
<1>0. TypeOK /\ PartsInOrder /\ IsoInStep /\ Iso \in Rank
  BY Ranks DEF DInv
<1>1. CASE UNCHANGED <<parts, handed>>
  BY <1>1 DEF Holds
<1>2. CASE HandOut
  <2>1. /\ handed \in Nat /\ Len(parts) \in Nat /\ handed < Len(parts)
        /\ N \in Nat /\ (handed \in Dist <=> handed < N)
        /\ \/ handed' = handed + 1 /\ parts' = parts
           \/ handed' = 0 /\ Len(parts') = 0 /\ handed + 1 = Len(parts)
    BY <1>0, <1>2, HandOutFacts
  <2>4. i <= N /\ i <= Len(parts) /\ i \in Nat /\ handed < i
    BY <2>1 DEF KnownTasks
  <2>2. CASE i = handed + 1
    <3>1. handed \in Dist /\ parts[i] \in ToSet(data'[Iso][handed])
      BY <1>0, <1>2, <2>1, <2>2, <2>4, HandedOut
    <3> QED
      BY <1>0, <3>1 DEF Holds
  <2>3. CASE i # handed + 1
    <3>1. i \in handed' + 1 .. KnownTasks(Len(parts')) /\ parts'[i] = parts[i]
      BY <2>1, <2>3, <2>4
    <3> QED
      BY <3>1 DEF Holds
  <2> QED
    BY <2>2, <2>3
<1>3. ~\E ps \in PrePartitionTasks, k \in 0 .. N + 1 : PrePartition(ps, k)
  BY <1>0, PrePartitionFacts DEF IsoInStep
<1> QED
  BY <1>1, <1>2, <1>3, IsoSteps

\* A report of "sat" ends the run when it is read.
LEMMA SatHeard ==
  ASSUME DInv, [Next]_vars, at' # "ended", NEW c \in Dist, Reported(c, NotifyResult("sat"))
  PROVE  Reported(c, NotifyResult("sat"))'
<1> SUFFICES ASSUME ~Reported(c, NotifyResult("sat"))'
             PROVE  FALSE
  OBVIOUS
<1>0. TypeOK /\ c \in Rank
  BY Ranks DEF DInv
<1>1. PICK m : m = NotifyResult("sat") /\ m.type = "result" /\ m.value = "sat"
  BY MessageKinds
<1>2. GetResult(c) /\ Head(c2l[c]) = m
  BY <1>0, <1>1, LostReport
<1>3. ResultExpected(c)
  BY <1>0, <1>2, ResultFacts
<1>4. decision' = "sat"
  BY <1>1, <1>2, <1>3 DEF GetResult, PartialSolved
<1> QED
  BY <1>2, <1>3, <1>4 DEF GetResult, LeaderEnds

\* Each model stays accounted for.
LEMMA CoveredKept ==
  ASSUME DInv, Grounds, ComesOnce, Covered, [Next]_vars, at = "loop", at' # "ended"
  PROVE  Covered'
<1>0. TypeOK /\ given' = given
  <2>1. TypeOK /\ IsoInStep
    BY DEF DInv
  <2> QED
    BY <2>1, GivenSteps, PrePartitionFacts DEF IsoInStep
<1> SUFFICES ASSUME \A c \in Dist : ~Unanswering(c)' /\ ~Reported(c, NotifyResult("sat"))',
                    NEW x \in given
             PROVE  Holds(x)'
  BY <1>0, Held DEF Covered
<1>1. \A c \in Dist : ~Unanswering(c)
  BY UnansweringKept
<1>2. \A c \in Dist : ~Reported(c, NotifyResult("sat"))
  BY SatHeard
<1>3. Holds(x)
  BY <1>1, <1>2, Held DEF Covered
<1>4. CASE \E c \in Dist : x \in owed[c]
  BY <1>4, OwedHeld
<1>5. CASE \E c \in Dist : /\ x \in split[c]
                           /\ \E t \in Dist : \/ Reported(c, SplitSucceed(t))
                                              \/ Contains(l2c[c], TransferNode(t))
  BY <1>5, PromiseHeld
<1>6. CASE \E s \in Rank, t \in Dist : \E f \in ToSet(data[s][t]) : x \in f
  BY <1>6, FileHeld
<1>7. CASE \E i \in handed + 1 .. KnownTasks(Len(parts)) : x \in parts[i]
  BY <1>7, PartHeld
<1> QED
  BY <1>3, <1>4, <1>5, <1>6, <1>7 DEF Holds

\* The invariant is kept.
LEMMA NextMInv ==
  ASSUME DInv, MInv, [Next]_vars
  PROVE  MInv'
<1>0. given' \subseteq formula'
  <2>1. formula' = formula /\ given \subseteq formula /\ TypeOK
    BY InputSame DEF MInv, DInv
  <2> QED
    BY <2>1, GivenSteps, PrePartitionFacts
<1>1. CASE at' = "ended"
  BY <1>0, <1>1 DEF MInv
<1>2. CASE at' # "ended"
  <2>1. /\ at # "ended"
        /\ at' = "init" => at = "init"
        /\ at' = "loop" /\ at = "init" => GetPrePartition
        /\ at \in {"init", "loop"}
    BY <1>2, StillOpen DEF DInv, TypeOK
  <2>2. Grounds
    BY <2>1 DEF MInv, Grounds
  <2>3. Grounds'
    BY <1>2, <2>1, <2>2, GroundsKept
  <2>4. at = "init" => NothingMoves
    BY DEF MInv, NothingMoves
  <2>5. at' = "init" => NothingMoves'
    BY <2>1, <2>4, StartKept
  <2>6. ASSUME at' = "loop"
        PROVE  ComesOnce' /\ Covered' /\ GivenAll'
    <3>1. CASE at = "init"
      BY <2>1, <2>4, <2>6, <3>1, FirstHandedOut
    <3>2. CASE at = "loop"
      <4>1. formula' = formula /\ given' = given
        <5>1. TypeOK /\ IsoInStep
          BY <3>2 DEF DInv
        <5> QED
          BY <3>2, <5>1, InputSame, GivenSteps, PrePartitionFacts DEF IsoInStep
      <4>2. GivenAll'
        BY <3>2, <4>1 DEF MInv, GivenAll
      <4> QED
        BY <1>2, <2>2, <3>2, <4>2, ComesOnceKept, CoveredKept DEF MInv
    <3> QED
      BY <2>1, <3>1, <3>2
  <2> QED
    BY <1>0, <2>3, <2>5, <2>6 DEF MInv, Grounds, NothingMoves
<1> QED
  BY <1>1, <1>2

\* The invariant holds at the start.
LEMMA InitMInv == Init => MInv
<1> SUFFICES ASSUME Init
             PROVE  MInv
  OBVIOUS
<1>0. Dist \subseteq Rank /\ Iso \in Rank /\ Iso \notin Dist
  BY Ranks
<1>1. /\ at = "init" /\ parts = <<>> /\ given = {}
      /\ \A c \in Rank : task[c] \subseteq formula /\ split[c] \subseteq formula
      /\ task[Iso] = formula /\ owed = task
      /\ \A c \in Dist : task[c] = {}
      /\ \A s \in Rank, t \in Dist : data[s][t] = <<>>
      /\ phase[Iso] = "prepartition"
      /\ \A c \in Rank : c2l[c] = <<>>
      /\ \A c \in Dist : phase[c] # "crashed"
  BY <1>0 DEF Init
<1>2. \A c \in Rank : \A m : ~Reported(c, m)
  BY <1>1 DEF Reported, Contains
<1>3. PartsOfFormula
  BY <1>1, NoFiles DEF PartsOfFormula
<1>4. IsoOwesAll /\ SatIsTrue /\ OwesNothing
  BY <1>0, <1>1, <1>2 DEF IsoOwesAll, SatIsTrue, OwesNothing
<1> QED
  BY <1>1, <1>3, <1>4 DEF MInv

\* The two invariants hold throughout.
LEMMA Accounts ==
  TabuCovers /\ Spec => [](DInv /\ MInv)
<1>1. DInv /\ MInv /\ [Next]_vars => MInv'
  BY NextMInv
<1> QED
  BY <1>1, InitMInv, Protocol, PTL DEF Spec

(***************************************************************************)
(* As long as nothing is decided and nobody has failed, each model of the  *)
(* first tasks is a model of a task that some distributed coordinator      *)
(* still answers for, or of a task on its way to one                       *)
(* (process_split_message and process_transfer_message of                  *)
(* src/src/coordinator.py, split_node of src/src/leader.py).  Whether the  *)
(* first tasks make up the formula is another matter: module PrePartition. *)
(***************************************************************************)
THEOREM NothingForgotten == TabuCovers /\ Spec => []NoModelLost
<1>1. DInv /\ MInv => NoModelLost
  <2> SUFFICES ASSUME DInv, MInv, at = "loop", Healthy,
                      \A c \in Rank : ~Reported(c, NotifyResult("sat"))
               PROVE  given \subseteq Accounted
    BY DEF NoModelLost, Accounted
  <2>1. \A c \in Dist : ~Unanswering(c)
    BY Ranks DEF Healthy, Unanswering, Silent
  <2> QED
    BY <2>1, Ranks DEF MInv, Covered
<1> QED
  BY <1>1, Accounts, PTL
-----------------------------------------------------------------------------
(* The verdict.                                                            *)

\* When the walk up reaches the root, only the one who answered had a task.
LEMMA LastAnswer ==
  ASSUME DInv, at = "loop", NEW c \in Dist, assigned[c] \in 0 .. (numTasks - 1),
         RootTask \in UnsatUpFrom(assigned[c]), NEW d \in Dist, d # c
  PROVE  assigned[d] = NoTask
<1>0. TypeOK /\ Chains /\ ChainsMeet /\ UnsatBelow /\ OpenTasks
  BY DEF DInv
<1> SUFFICES ASSUME assigned[d] # NoTask
             PROVE  FALSE
  OBVIOUS
<1>1. assigned[d] \in 0 .. (numTasks - 1) /\ partial[assigned[d]] = "unsolved"
  <2>1. assigned[d] \in {assigned[e] : e \in Dist} \ {NoTask}
    OBVIOUS
  <2> QED
    BY <1>0, <2>1 DEF OpenTasks
<1>2. assigned[d] # assigned[c]
  BY <1>0 DEF OpenTasks
<1>3. RootTask \in Upward(assigned[d])
  <2>1. PICK m \in 0 .. (numTasks - 1) : m = assigned[d]
    BY <1>1
  <2>2. CASE m = 0
    BY <2>1, <2>2 DEF Upward, RootTask
  <2>3. CASE m # 0
    <3>1. m \in 1 .. (numTasks - 1)
      BY <2>3
    <3> QED
      BY <1>0, <2>1, <3>1 DEF Chains, Upward
  <2> QED
    BY <2>2, <2>3
<1> QED
  BY <1>0, <1>1, <1>2, <1>3, WalkUp

\* If nobody else has a task, "unsat" from the last one leaves no model.
LEMMA NothingLeft ==
  ASSUME DInv, MInv, at = "loop", NEW c \in Dist,
         c2l[c] # <<>>, Head(c2l[c]) = NotifyResult("unsat"),
         \A d \in Dist : d # c => assigned[d] = NoTask
  PROVE  given = {}
<1>0. /\ TypeOK /\ PartsInOrder /\ ComesOnce /\ Covered /\ OwesNothing
      /\ Dist \subseteq Rank /\ Iso \in Rank
  BY Ranks DEF DInv, MInv
<1>1. \A d \in Dist : InStep(d) /\ InOrder(d)
  BY Contact
<1>2. /\ 1 \in 1 .. Len(c2l[c]) /\ c2l[c][1] = NotifyResult("unsat")
      /\ \A i \in 1 .. Len(c2l[c]) : i # 1 => 1 < i
  <2>1. c2l[c] \in Seq(Report)
    BY <1>0 DEF TypeOK
  <2>2. Len(c2l[c]) \in Nat /\ Len(c2l[c]) > 0 /\ Head(c2l[c]) = c2l[c][1]
    BY <2>1, Taken
  <2> QED
    BY <2>2
<1>3. /\ c2l[c][1].type = "result" /\ c2l[c][1].value = "unsat"
      /\ NotifyResult("sat").type = "result" /\ NotifyResult("sat").value = "sat"
      /\ \A t : SplitSucceed(t).type = "split_succeed"
  BY <1>2, MessageKinds
<1>4. Sent(c2l, c, "result")
  BY <1>2, <1>3 DEF Sent
<1>5. \A d \in Dist : /\ phase[d] \in {"idle", "crashed"} /\ ~Sent(l2c, d, "assign_node")
                      /\ cstatus[d] = "idle" \/ Sent(c2l, d, "result")
  BY <1>1, <1>4 DEF InStep
<1>6. /\ \A s \in Rank, t \in Dist : ~Coming(s, t)
      /\ \A t \in Dist : ~Unanswering(t)
  <2>1. \A s \in Rank, t \in Dist : ~Awaits(t, s) /\ ~Silent(t)
    BY <1>5, Contact DEF Awaits, Silent
  <2> QED
    BY <1>0, <2>1 DEF ComesOnce, Unanswering
<1>7. ASSUME NEW i \in 1 .. Len(c2l[c])
      PROVE  /\ c2l[c][i] # NotifyResult("sat")
             /\ \A t : c2l[c][i] # SplitSucceed(t)
  <2>1. CASE i = 1
    BY <1>3, <2>1
  <2>2. CASE i # 1
    <3>1. c2l[c][i].type \in {"split_failed", "error", "memory_out"}
      BY <1>1, <1>2, <1>3, <2>2 DEF InOrder, Answering, Failing
    <3> QED
      BY <1>3, <3>1
  <2> QED
    BY <2>1, <2>2
<1>8. /\ ~Reported(c, NotifyResult("sat")) /\ \A t : ~Reported(c, SplitSucceed(t))
  BY <1>7 DEF Reported, Contains
<1>9. \A d \in Dist : /\ ~Reported(d, NotifyResult("sat"))
                      /\ \A t : ~Reported(d, SplitSucceed(t))
  <2> SUFFICES ASSUME NEW d \in Dist, d # c
               PROVE  /\ ~Reported(d, NotifyResult("sat"))
                      /\ \A t : ~Reported(d, SplitSucceed(t))
    BY <1>8
  <2>1. ~Sent(c2l, d, "result") /\ ~Sent(c2l, d, "split_succeed")
    BY <1>1 DEF InStep
  <2> QED
    BY <2>1, Contact
<1>10. ASSUME NEW x \in given
       PROVE  FALSE
  <2>1. Holds(x)
    BY <1>0, <1>6, <1>9, Held DEF Covered
  <2>2. \A d \in Dist : owed[d] = {}
    BY <1>0, <1>5 DEF OwesNothing
  <2>3. \A d \in Dist, t \in Dist : ~Reported(d, SplitSucceed(t)) /\ ~Contains(l2c[d], TransferNode(t))
    BY <1>0, <1>6, <1>9 DEF Coming
  <2>4. \A s \in Rank, t \in Dist : ToSet(data[s][t]) = {}
    BY <1>6, NoFiles DEF Coming
  <2>5. PICK i \in handed + 1 .. KnownTasks(Len(parts)) : x \in parts[i]
    BY <2>1, <2>2, <2>3, <2>4 DEF Holds
  <2>6. /\ handed \in Nat /\ Len(parts) \in Nat /\ N \in Nat
        /\ KnownTasks(Len(parts)) \in Nat
        /\ KnownTasks(Len(parts)) <= Len(parts) /\ KnownTasks(Len(parts)) <= N
    BY <1>0, LenProperties, Ranks DEF TypeOK, KnownTasks
  <2>7. PICK t : t = i - 1
    OBVIOUS
  <2>8. t \in handed .. (Len(parts) - 1) /\ t \in Dist
    BY <2>5, <2>6, <2>7, Ranks DEF Dist
  <2> QED
    BY <1>0, <1>6, <2>8 DEF Coming
<1> QED
  BY <1>10

\* What the leader prints: once, and "unsat" if no first task has a model.
LEMMA VerdictStep ==
  ASSUME DInv, MInv, [Next]_vars
  PROVE  \/ verdict' = verdict
         \/ /\ verdict = "none" /\ verdict' \in {"sat", "unsat"} \union Undecided
            /\ phase'[Iso] = phase[Iso] /\ given' = given
            /\ verdict' = "sat" => formula # {}
            /\ verdict' = "unsat" =>
                 formula = {} \/ (given = {} /\ GivenAll /\ phase[Iso] # "prepartition")
<1>0. TypeOK /\ Iso \in Rank
  BY Ranks DEF DInv
<1>1. CASE verdict' = verdict
  BY <1>1
<1>2. ASSUME LeaderStep, at # "ended"
      PROVE  verdict = "none" /\ phase'[Iso] = phase[Iso] /\ given' = given
  BY <1>2, LeaderStepFrame DEF CoordSame, coordVars, DInv
<1>3. ASSUME NEW c \in Rank, GetResult(c), verdict' # verdict
      PROVE  /\ at # "ended" /\ verdict' \in {"sat", "unsat"}
             /\ verdict' = "sat" => formula # {}
             /\ verdict' = "unsat" => given = {} /\ GivenAll /\ phase[Iso] # "prepartition"
  <2>1. PICK r \in {"sat", "unsat"} : r = Head(c2l[c]).value
    BY <1>3, ResultFacts
  <2>2. /\ c \in Dist /\ at = "loop" /\ ResultExpected(c) /\ PartialSolved(assigned[c], r)
        /\ Head(c2l[c]) = NotifyResult(r) /\ Reported(c, NotifyResult(r))
        /\ assigned[c] \in 0 .. (numTasks - 1) /\ c2l[c] # <<>>
    BY <1>3, <2>1, ResultFacts DEF Lost
  <2>3. decision' # "unsolved" /\ verdict' = decision'
    BY <1>3, <2>2 DEF GetResult, LeaderEnds
  <2>4. CASE r = "sat"
    <3>1. verdict' = "sat"
      BY <2>2, <2>3, <2>4 DEF PartialSolved
    <3>2. formula # {}
      BY <2>2, <2>4 DEF MInv, SatIsTrue
    <3> QED
      BY <2>2, <3>1, <3>2
  <2>5. CASE r = "unsat"
    <3>1. RootTask \in UnsatUpFrom(assigned[c]) /\ decision' = "unsat"
      BY <2>2, <2>3, <2>5 DEF PartialSolved, DInv
    <3>2. \A d \in Dist : d # c => assigned[d] = NoTask
      BY <2>2, <3>1, LastAnswer
    <3>3. given = {}
      BY <2>2, <2>5, <3>2, NothingLeft
    <3> QED
      BY <2>2, <2>3, <3>1, <3>3 DEF MInv, DInv, IsoInStep
  <2> QED
    BY <2>4, <2>5
<1>4. ASSUME GetIsoResult
      PROVE  /\ at # "ended" /\ verdict' \in {"sat", "unsat"}
             /\ verdict' = "sat" => formula # {}
             /\ verdict' = "unsat" => formula = {}
  <2>1. /\ Heard(Iso, "result") /\ OriginalSolved(Head(c2l[Iso]).value)
        /\ verdict' = decision' /\ at # "ended" /\ c2l[Iso] # <<>>
    BY <1>0, <1>4, HeardFacts DEF GetIsoResult, LeaderEnds, Lost
  <2>2. /\ Head(c2l[Iso]) \in Report /\ Head(c2l[Iso]).type = "result"
        /\ Reported(Iso, Head(c2l[Iso]))
    BY <1>0, <2>1, HeardFacts, HeadSent
  <2>3. PICK r \in {"sat", "unsat"} : r = Head(c2l[Iso]).value /\ Head(c2l[Iso]) = NotifyResult(r)
    BY <2>2, MessageFields
  <2>4. verdict' = r
    BY <2>1, <2>3 DEF OriginalSolved
  <2>5. r = "sat" => formula # {}
    BY <1>0, <2>1, <2>2, <2>3 DEF MInv, SatIsTrue
  <2>6. r = "unsat" => formula = {}
    BY <2>1, <2>2, <2>3 DEF MInv, IsoOwesAll
  <2> QED
    BY <2>1, <2>4, <2>5, <2>6
<1>5. ASSUME (\E c \in Rank : GetFailure(c)) \/ LeaderTimeout
      PROVE  at # "ended" /\ verdict' \in Undecided /\ verdict' \notin {"sat", "unsat"}
  BY <1>5 DEF GetFailure, LeaderTimeout, LeaderEnds, Heard, Undecided
<1>6. ASSUME NEW c \in Rank, GetSplitSucceed(c)
      PROVE  verdict' = verdict
  BY <1>6, SucceedFacts DEF GetSplitSucceed
<1>7. ASSUME NEW c \in Rank, GetSplitFailed(c)
      PROVE  verdict' = verdict
  BY <1>7 DEF GetSplitFailed
<1>8. CASE GetPrePartition \/ AssignIdle
  BY <1>1, <1>8 DEF GetPrePartition, AssignIdle
<1>9. ASSUME NEW c \in Rank, CoordStep(c)
      PROVE  verdict' = verdict
  BY <1>9 DEF CoordStep, Reacts, SplitRefused, SplitGranted, SplitCrashes, Transfer, AcceptNode,
         ReceiveNode, Terminated, DropMessage, Solves, SolveTask, Crash, LeaderSame, leaderVars
<1>10. ASSUME NEW ps \in PrePartitionTasks, NEW k \in 0 .. N + 1, PrePartition(ps, k)
       PROVE  verdict' = verdict
  BY <1>10 DEF PrePartition, LeaderSame, leaderVars
<1>11. CASE IsoHandsOut
  BY <1>1, <1>11 DEF IsoHandsOut, StartHandingOut, HandOut, LeaderSame, leaderVars
<1>12. CASE UNCHANGED vars
  BY <1>1, <1>12 DEF vars, leaderVars
<1>13. ASSUME NEW c \in Rank, LeaderHears(c), verdict' # verdict
       PROVE  GetResult(c) \/ GetFailure(c)
  BY <1>6, <1>7, <1>13 DEF LeaderHears
<1>14. CASE LeaderStep
  BY <1>1, <1>2, <1>3, <1>4, <1>5, <1>8, <1>13, <1>14 DEF LeaderStep
<1> QED
  BY <1>1, <1>9, <1>10, <1>11, <1>12, <1>14 DEF Next, LeaderStep, CoordStep, Stopped

\* The isolated coordinator does not look for first tasks again.
LEMMA PrePartitionedOnce ==
  ASSUME DInv, [Next]_vars, phase'[Iso] = "prepartition"
  PROVE  phase[Iso] = "prepartition"
<1>0. TypeOK /\ PhasesApart /\ Iso \in Rank
  BY Ranks DEF DInv
<1>1. CASE UNCHANGED phase
  BY <1>1
<1>2. CASE LeaderStep
  BY <1>1, <1>2, LeaderStepFrame DEF CoordSame, coordVars
<1>3. ASSUME NEW c \in Rank, CoordStep(c)
      PROVE  phase[Iso] = "prepartition"
  BY <1>0, <1>3, PhaseFrame DEF CoordStep
<1>4. ASSUME NEW ps \in PrePartitionTasks, NEW k \in 0 .. N + 1, PrePartition(ps, k)
      PROVE  phase[Iso] = "prepartition"
  BY <1>4 DEF PrePartition
<1>5. CASE IsoHandsOut
  BY <1>0, <1>5 DEF IsoHandsOut, StartHandingOut, HandOut, TypeOK
<1>6. CASE UNCHANGED vars
  BY <1>1, <1>6 DEF vars, coordVars
<1> QED
  BY <1>2, <1>3, <1>4, <1>5, <1>6 DEF Next, LeaderStep, CoordStep, Stopped

\* The verdict, and that the first tasks it is about are not looked for again.
VerdictStays ==
  /\ VerdictOfTasks
  /\ verdict = "unsat" => formula = {} \/ phase[Iso] # "prepartition"

(***************************************************************************)
(* "unsat" is what the leader's tree comes to only when no coordinator has *)
(* anything left to answer for, of whatever tasks it was told, and "sat"   *)
(* comes with a model (process_notified_result of src/src/leader.py).      *)
(***************************************************************************)
THEOREM VerdictAboutTasks == TabuCovers /\ Spec => []VerdictOfTasks
<1>1. Init => VerdictStays
  BY DEF Init, VerdictStays, VerdictOfTasks
<1>2. ASSUME DInv, MInv, VerdictStays, [Next]_vars
      PROVE  VerdictStays'
  <2>1. /\ formula' = formula /\ given \subseteq formula
        /\ phase[Iso] # "prepartition" => phase'[Iso] # "prepartition" /\ given' = given
    BY <1>2, InputSame, PrePartitionedOnce, GivenSteps DEF MInv, PrePartition
  <2>2. given' \subseteq formula'
    BY <1>2, NextMInv DEF MInv
  <2>3. CASE verdict' = verdict
    BY <1>2, <2>1, <2>2, <2>3 DEF VerdictStays, VerdictOfTasks
  <2>4. CASE verdict' # verdict
    BY <1>2, <2>1, <2>4, VerdictStep DEF VerdictStays, VerdictOfTasks
  <2> QED
    BY <2>3, <2>4
<1>3. DInv /\ MInv /\ VerdictStays /\ [Next]_vars => VerdictStays'
  BY <1>2
<1>4. VerdictStays => VerdictOfTasks
  BY DEF VerdictStays
<1> QED
  BY <1>1, <1>3, <1>4, Accounts, PTL DEF Spec

(***************************************************************************)
(* With one or two distributed coordinators the first tasks make up the    *)
(* formula, so what is printed is right, and it is printed once.           *)
(***************************************************************************)
THEOREM VerdictIsRight == N <= 2 /\ TabuCovers /\ Spec => ImplementsVerdict
<1>1. Init => V!Init
  BY DEF Init, V!Init
<1>2. ASSUME N <= 2, DInv, MInv, [Next]_vars
      PROVE  [V!Next]_(V!vars)
  <2>0. formula' = formula
    BY <1>2, InputSame
  <2>1. CASE verdict' = verdict
    BY <2>0, <2>1 DEF V!vars
  <2>2. CASE verdict' # verdict
    <3>1. PICK v \in {"sat", "unsat"} \union Undecided : v = verdict'
      BY <1>2, <2>2, VerdictStep
    <3>2. /\ verdict = "none" /\ (v = "sat" => formula # {})
          /\ v = "unsat" => formula = {}
      BY <1>2, <2>2, <3>1, VerdictStep DEF GivenAll
    <3>3. V!Announce(v)
      BY <2>0, <3>1, <3>2 DEF V!Announce
    <3> QED
      BY <3>3 DEF V!Next
  <2> QED
    BY <2>1, <2>2
<1>3. N <= 2 /\ DInv /\ MInv /\ [Next]_vars => [V!Next]_(V!vars)
  BY <1>2
<1>4. CASE N <= 2
  BY <1>1, <1>3, <1>4, Accounts, PTL DEF Spec, ImplementsVerdict, V!Spec
<1> QED
  BY <1>4
-----------------------------------------------------------------------------
(* The ranks without a task.                                               *)

\* What the leader does to its list of idle ranks.
LEMMA IdleSteps ==
  ASSUME DInv, Next, at = "loop", at' = "loop"
  PROVE  \/ UNCHANGED <<idle, cstatus>>
         \/ \E c \in Rank : GetSplitSucceed(c) \/ GetSplitFailed(c)
         \/ \E c \in Dist : /\ GetResult(c) /\ idle' = Append(idle, c)
                            /\ cstatus' = [cstatus EXCEPT ![c] = "idle"]
         \/ AssignIdle
<1>1. ASSUME NEW c \in Rank, CoordStep(c)
      PROVE  UNCHANGED <<idle, cstatus>>
  BY <1>1, QueueFrame DEF DInv, LeaderSame, leaderVars
<1>2. ASSUME NEW c \in Rank, GetResult(c)
      PROVE  /\ c \in Dist /\ idle' = Append(idle, c)
             /\ cstatus' = [cstatus EXCEPT ![c] = "idle"]
  <2>1. c \in Dist /\ ResultExpected(c)
    BY <1>2, ResultFacts
  <2>2. decision' = "unsolved"
    BY <1>2, <2>1 DEF GetResult, LeaderEnds
  <2> QED
    BY <1>2, <2>1, <2>2 DEF GetResult, SetCoordinatorIdle
<1>3. ASSUME NEW c \in Rank, LeaderHears(c)
      PROVE  GetSplitSucceed(c) \/ GetSplitFailed(c) \/ GetResult(c)
  BY <1>3 DEF LeaderHears, GetFailure, LeaderEnds
<1>4. CASE \/ \E ps \in PrePartitionTasks, k \in 0 .. N + 1 : PrePartition(ps, k)
           \/ IsoHandsOut \/ Stopped
  BY <1>4 DEF PrePartition, IsoHandsOut, StartHandingOut, HandOut, LeaderSame, leaderVars,
              Stopped, vars
<1>5. ~GetPrePartition /\ ~GetIsoResult /\ ~LeaderTimeout
  BY FirstFacts DEF GetIsoResult, LeaderTimeout, LeaderEnds
<1> QED
  BY <1>1, <1>2, <1>3, <1>4, <1>5 DEF Next, CoordStep

\* A request that is settled has brought its target a task, or back to the list.
LEMMA RequestSettled ==
  ASSUME DInv, Next, at = "loop", at' = "loop", NEW c \in Dist, NEW t \in Dist,
         phase[c] # "crashed", phase'[c] # "crashed", cstatus'[t] = "idle",
         Requested(c, t), ~Requested(c, t)'
  PROVE  Contains(idle', t)
<1>0. TypeOK /\ c \in Rank
  BY Ranks DEF DInv
<1>1. CASE Contains(l2c[c], RequestSplit(t))
  <2>1. ~Contains(l2c'[c], RequestSplit(t))
    BY DEF Requested
  <2>2. /\ Head(l2c[c]) = RequestSplit(t) /\ RequestSplit(t).type = "request_split"
        /\ Head(l2c[c]).rank = t
    BY <1>1, <2>1, LostMessage, MessageKinds
  <2>3. SplitStep(c) \/ DropMessage(c)
    BY <1>1, <2>1, <2>2, LostMessage
  <2>4. ASSUME NEW x \in Report, x \in {SplitFailed(t), SplitSucceed(t)}, Reports(c, <<x>>)
        PROVE  FALSE
    <3>1. Reported(c, x)'
      BY <1>0, <2>4, ReportsFacts, UpGot
    <3> QED
      BY <2>4, <3>1 DEF Requested
  <2>5. CASE SplitRefused(c)
    BY <2>2, <2>4, <2>5, MessageTypes DEF SplitRefused
  <2>6. ASSUME NEW s \in SUBSET Models, SplitGranted(c, s)
        PROVE  FALSE
    BY <2>2, <2>4, <2>6, MessageTypes DEF SplitGranted
  <2>7. CASE SplitCrashes(c) \/ DropMessage(c)
    BY <1>0, <2>7 DEF SplitCrashes, DropMessage, TypeOK
  <2> QED
    BY <2>3, <2>5, <2>6, <2>7 DEF SplitStep
<1>2. CASE Reported(c, SplitSucceed(t))
  <2>1. ~Reported(c, SplitSucceed(t))'
    BY DEF Requested
  <2>2. /\ Head(c2l[c]) = SplitSucceed(t) /\ GetSplitSucceed(c)
        /\ Head(c2l[c]).rank = t
    BY <1>0, <1>2, <2>1, LostReport, MessageKinds
  <2>3. cstatus' = [cstatus EXCEPT ![t] = "solving", ![c] = "solving"]
    <3>1. PICK u \in Dist : u = Head(c2l[c]).rank /\ u = t
      BY <2>2
    <3>2. cstatus' = [cstatus EXCEPT ![u] = "solving", ![c] = "solving"]
      BY <1>0, <2>2, <3>1, SucceedFacts
    <3> QED
      BY <3>1, <3>2
  <2> QED
    BY <1>0, <2>3 DEF TypeOK
<1>3. CASE Reported(c, SplitFailed(t))
  <2>1. ~Reported(c, SplitFailed(t))'
    BY DEF Requested
  <2>2. GetSplitFailed(c) /\ Head(c2l[c]).rank = t
    BY <1>0, <1>3, <2>1, LostReport, MessageKinds
  <2>3. idle' = Append(idle, t) /\ idle \in Seq(Dist)
    BY <1>0, <2>2 DEF GetSplitFailed, BackToIdle, TypeOK
  <2> QED
    BY <2>3, Listed
<1> QED
  BY <1>1, <1>2, <1>3 DEF Requested

\* A rank that leaves the list is the target of a request from then on.
LEMMA IdleKept ==
  ASSUME DInv, Next, at = "loop", at' = "loop", NEW t \in Dist, Contains(idle, t)
  PROVE  Contains(idle', t) \/ \E c \in Dist : Requested(c, t)'
<1>0. TypeOK /\ idle \in Seq(Dist)
  BY DEF DInv, TypeOK
<1>1. ASSUME NEW x \in Dist, idle' = Append(idle, x)
      PROVE  Contains(idle', t)
  BY <1>0, <1>1, Listed
<1>2. ASSUME NEW c \in Rank, GetSplitFailed(c)
      PROVE  Contains(idle', t)
  <2>1. Head(c2l[c]).rank \in Dist
    BY <1>2, FailedFacts
  <2> QED
    BY <1>1, <1>2, <2>1 DEF GetSplitFailed, BackToIdle
<1>3. ASSUME NEW c \in Rank, GetSplitSucceed(c)
      PROVE  Contains(idle', t)
  BY <1>3, SucceedFacts
<1>4. CASE AssignIdle
  <2>1. /\ idle # <<>> /\ Head(idle) \in Dist /\ Tail(idle) \in Seq(Dist)
        /\ nextSplit \in Dist /\ nextSplit \in Rank
    BY <1>4, AssignFacts, Ranks
  <2>2. Contains(Tail(idle), t) \/ t = Head(idle)
    BY <1>0, <2>1, Listed
  <2>3. CASE idle' = Append(Tail(idle), Head(idle))
    <3>1. PICK r \in Seq(Dist), h \in Dist : r = Tail(idle) /\ h = Head(idle)
      BY <2>1
    <3>2. Contains(Append(r, h), t)
      BY <2>2, <3>1, Listed
    <3> QED
      BY <2>3, <3>1, <3>2
  <2>4. CASE /\ idle' = Tail(idle)
             /\ l2c' = [l2c EXCEPT ![nextSplit] = Append(@, RequestSplit(Head(idle)))]
    <3>1. PICK x \in Message : x = RequestSplit(Head(idle))
      BY <2>1, MessageTypes
    <3>2. PICK n \in Rank : n = nextSplit
      BY <2>1
    <3>3. Contains(l2c'[n], x)
      BY <1>0, <2>4, <3>1, <3>2, SendsFacts, DownGot
    <3>4. t = Head(idle) => Requested(n, t)'
      BY <3>1, <3>3 DEF Requested
    <3> QED
      BY <2>1, <2>2, <2>4, <3>2, <3>4
  <2> QED
    BY <1>4, <2>3, <2>4 DEF AssignIdle
<1> QED
  BY <1>1, <1>2, <1>3, <1>4, IdleSteps

\* A rank that gets idle joins the list.
LEMMA IdleJoins ==
  ASSUME DInv, Next, at = "loop", at' = "loop", NEW t \in Dist,
         cstatus[t] # "idle", cstatus'[t] = "idle"
  PROVE  Contains(idle', t)
<1>0. TypeOK /\ idle \in Seq(Dist) /\ cstatus \in [Dist -> {"idle", "solving", "splitting"}]
  BY DEF DInv, TypeOK
<1>1. ASSUME NEW c \in Rank, GetSplitFailed(c)
      PROVE  FALSE
  <2>1. c \in Dist
    BY <1>1, FailedFacts
  <2> QED
    BY <1>0, <1>1, <2>1 DEF GetSplitFailed
<1>2. ASSUME NEW c \in Rank, GetSplitSucceed(c)
      PROVE  FALSE
  <2>1. PICK u \in Dist : u = Head(c2l[c]).rank
    BY <1>2, SucceedFacts
  <2>2. c \in Dist /\ cstatus' = [cstatus EXCEPT ![u] = "solving", ![c] = "solving"]
    BY <1>2, <2>1, SucceedFacts
  <2> QED
    BY <1>0, <2>2
<1>3. CASE AssignIdle
  <2>1. nextSplit \in Dist
    BY <1>3, AssignFacts
  <2> QED
    BY <1>0, <1>3, <2>1 DEF AssignIdle
<1>4. ASSUME NEW c \in Dist, idle' = Append(idle, c), cstatus' = [cstatus EXCEPT ![c] = "idle"]
      PROVE  Contains(idle', t)
  <2>1. c = t
    BY <1>0, <1>4
  <2> QED
    BY <1>0, <1>4, <2>1, Listed
<1> QED
  BY <1>1, <1>2, <1>3, <1>4, IdleSteps

\* At the start the ranks without a first task are listed.
LEMMA FirstListed ==
  ASSUME DInv, GetPrePartition, NEW t \in Dist, cstatus'[t] = "idle"
  PROVE  Contains(idle', t)
<1>1. PICK k \in 1 .. N : k = First
  BY FirstFacts
<1>2. /\ cstatus' = [c \in Dist |-> IF c < k THEN "solving" ELSE "idle"]
      /\ idle' = [i \in 1 .. (N - k) |-> k + i - 1]
  BY <1>1, FirstFacts
<1>3. t \in Nat /\ t < N /\ N \in Nat /\ ~(t < k)
  BY <1>2, Ranks DEF Dist
<1>4. t - k + 1 \in 1 .. (N - k) /\ idle'[t - k + 1] = t
  BY <1>2, <1>3
<1>5. idle' \in Seq(Int) /\ Len(idle') = N - k
  BY <1>2, <1>3
<1> QED
  BY <1>4, <1>5 DEF Contains

LEMMA NextListed ==
  ASSUME DInv, IdleListed, [Next]_vars
  PROVE  IdleListed'
<1> SUFFICES ASSUME at' = "loop", \A c \in Dist : phase'[c] # "crashed",
                    NEW t \in Dist, cstatus'[t] = "idle"
             PROVE  Contains(idle', t) \/ \E c \in Dist : Requested(c, t)'
  BY DEF IdleListed
<1>1. CASE GetPrePartition
  BY <1>1, FirstListed
<1>2. CASE at = "loop"
  <2>1. \A c \in Dist : phase[c] # "crashed"
    BY <1>2, PhaseSteps
  <2>2. CASE UNCHANGED vars
    BY <1>2, <2>1, <2>2
       DEF IdleListed, Requested, Reported, vars, leaderVars, coordVars, channels
  <2>3. CASE Next /\ cstatus[t] # "idle"
    BY <1>2, <2>3, IdleJoins
  <2>4. CASE Next /\ Contains(idle, t)
    BY <1>2, <2>4, IdleKept
  <2>5. ASSUME Next, NEW c \in Dist, Requested(c, t)
        PROVE  Contains(idle', t) \/ Requested(c, t)'
    BY <1>2, <2>1, <2>5, RequestSettled
  <2> QED
    BY <1>2, <2>1, <2>2, <2>3, <2>4, <2>5 DEF IdleListed
<1> QED
  BY <1>1, <1>2, StillOpen DEF DInv, TypeOK

\* Where a rank can be listed at all.
LEMMA Listing ==
  ASSUME NEW t \in Dist
  PROVE  /\ \A p \in Listings(t) :
              \/ \E i \in 1 .. Len(idle) : p = <<"idle", t, i>> /\ idle[i] = t
              \/ \E c \in Dist : \E i \in 1 .. Len(l2c[c]) :
                   p = <<"request", c, i>> /\ l2c[c][i] = RequestSplit(t)
              \/ \E c \in Dist : \E i \in 1 .. Len(c2l[c]) :
                   p = <<"answer", c, i>> /\ c2l[c][i] \in {SplitSucceed(t), SplitFailed(t)}
         /\ \A i \in 1 .. Len(idle) : idle[i] = t => <<"idle", t, i>> \in Listings(t)
         /\ \A c \in Dist : \A i \in 1 .. Len(l2c[c]) :
              l2c[c][i] = RequestSplit(t) => <<"request", c, i>> \in Listings(t)
         /\ \A c \in Dist : \A i \in 1 .. Len(c2l[c]) :
              c2l[c][i] \in {SplitSucceed(t), SplitFailed(t)} =>
                <<"answer", c, i>> \in Listings(t)
<1> DEFINE A == {<<"idle", t, i>> : i \in Positions(idle, {t})}
           B(c) == {<<"request", c, i>> : i \in Positions(l2c[c], {RequestSplit(t)})}
           C(c) == {<<"answer", c, i>> :
                      i \in Positions(c2l[c], {SplitSucceed(t), SplitFailed(t)})}
<1>1. Listings(t) = A \union (UNION {B(c) \union C(c) : c \in Dist})
  BY DEF Listings
<1>2. \A p : p \in A <=> \E i \in 1 .. Len(idle) : p = <<"idle", t, i>> /\ idle[i] = t
  BY DEF Positions
<1>3. ASSUME NEW c \in Dist
      PROVE  \A p : p \in B(c) <=> \E i \in 1 .. Len(l2c[c]) :
                                    p = <<"request", c, i>> /\ l2c[c][i] = RequestSplit(t)
  BY DEF Positions
<1>4. ASSUME NEW c \in Dist
      PROVE  \A p : p \in C(c) <=> \E i \in 1 .. Len(c2l[c]) :
               p = <<"answer", c, i>> /\ c2l[c][i] \in {SplitSucceed(t), SplitFailed(t)}
  BY DEF Positions
<1> HIDE DEF A, B, C
<1>5. \A p : p \in Listings(t) <=> p \in A \/ \E c \in Dist : p \in B(c) \/ p \in C(c)
  <2>1. PICK U : U = UNION {B(c) \union C(c) : c \in Dist}
    OBVIOUS
  <2>2. \A p : p \in U <=> \E c \in Dist : p \in B(c) \/ p \in C(c)
    BY <2>1
  <2>3. Listings(t) = A \union U
    BY <1>1, <2>1
  <2> QED
    BY <2>2, <2>3, Zenon
<1>6. ASSUME NEW p \in Listings(t)
      PROVE  \/ \E i \in 1 .. Len(idle) : p = <<"idle", t, i>> /\ idle[i] = t
             \/ \E c \in Dist : \E i \in 1 .. Len(l2c[c]) :
                  p = <<"request", c, i>> /\ l2c[c][i] = RequestSplit(t)
             \/ \E c \in Dist : \E i \in 1 .. Len(c2l[c]) :
                  p = <<"answer", c, i>> /\ c2l[c][i] \in {SplitSucceed(t), SplitFailed(t)}
  <2>1. CASE p \in A
    BY <1>2, <2>1
  <2>2. ASSUME NEW c \in Dist, p \in B(c)
        PROVE  \E i \in 1 .. Len(l2c[c]) : p = <<"request", c, i>> /\ l2c[c][i] = RequestSplit(t)
    BY <1>3, <2>2
  <2>3. ASSUME NEW c \in Dist, p \in C(c)
        PROVE  \E i \in 1 .. Len(c2l[c]) :
                 p = <<"answer", c, i>> /\ c2l[c][i] \in {SplitSucceed(t), SplitFailed(t)}
    BY <1>4, <2>3
  <2>4. p \in A \/ \E c \in Dist : p \in B(c) \/ p \in C(c)
    BY <1>5, Zenon
  <2> QED
    BY <2>1, <2>2, <2>3, <2>4, Zenon
<1>7. ASSUME NEW i \in 1 .. Len(idle), idle[i] = t
      PROVE  <<"idle", t, i>> \in Listings(t)
  BY <1>2, <1>5, <1>7, Zenon
<1>8. ASSUME NEW c \in Dist, NEW i \in 1 .. Len(l2c[c]), l2c[c][i] = RequestSplit(t)
      PROVE  <<"request", c, i>> \in Listings(t)
  BY <1>3, <1>5, <1>8, Zenon
<1>9. ASSUME NEW c \in Dist, NEW i \in 1 .. Len(c2l[c]),
             c2l[c][i] \in {SplitSucceed(t), SplitFailed(t)}
      PROVE  <<"answer", c, i>> \in Listings(t)
  BY <1>4, <1>5, <1>9, Zenon
<1> QED
  BY <1>6, <1>7, <1>8, <1>9

\* There are no two places for one rank.
LEMMA ListedOnce ==
  ASSUME DInv, at = "loop", NEW t \in Dist, NEW p \in Listings(t), NEW q \in Listings(t)
  PROVE  p = q
<1>0. /\ TypeOK /\ TargetsApart /\ IdleApart
      /\ \A c \in Dist : OneSplit(c)
  BY DEF DInv
<1>1. ASSUME NEW i \in 1 .. Len(idle), NEW j \in 1 .. Len(idle), idle[i] = t, idle[j] = t
      PROVE  i = j
  BY <1>0, <1>1 DEF IdleApart
<1>2. ASSUME NEW c \in Dist, NEW i \in 1 .. Len(l2c[c]), l2c[c][i] = RequestSplit(t)
      PROVE  Requested(c, t) /\ Asking(l2c[c][i])
  BY <1>2, MessageKinds DEF Requested, Contains
<1>3. ASSUME NEW c \in Dist, NEW i \in 1 .. Len(c2l[c]),
             c2l[c][i] \in {SplitSucceed(t), SplitFailed(t)}
      PROVE  Requested(c, t) /\ Answering(c2l[c][i])
  BY <1>3, MessageKinds DEF Requested, Reported, Contains
<1>4. ASSUME NEW c \in Dist, Requested(c, t), NEW i \in 1 .. Len(idle), idle[i] = t
      PROVE  FALSE
  BY <1>0, <1>4 DEF TargetsApart, Contains
<1>5. \A c, d \in Dist : Requested(c, t) /\ Requested(d, t) => c = d
  BY <1>0 DEF TargetsApart
<1>6. ASSUME NEW i \in 1 .. Len(idle), p = <<"idle", t, i>>, idle[i] = t
      PROVE  p = q
  BY <1>1, <1>2, <1>3, <1>4, <1>6, Listing
<1>7. ASSUME NEW c \in Dist, NEW i \in 1 .. Len(l2c[c]),
             p = <<"request", c, i>>, l2c[c][i] = RequestSplit(t)
      PROVE  p = q
  <2>1. Requested(c, t) /\ Asking(l2c[c][i]) /\ OneSplit(c)
    BY <1>0, <1>2, <1>7
  <2>2. ASSUME NEW d \in Dist, NEW j \in 1 .. Len(l2c[d]),
               q = <<"request", d, j>>, l2c[d][j] = RequestSplit(t)
        PROVE  p = q
    <3>1. c = d /\ Asking(l2c[d][j])
      BY <1>2, <1>5, <2>1, <2>2
    <3> QED
      BY <1>7, <2>1, <2>2, <3>1 DEF OneSplit
  <2>3. ASSUME NEW d \in Dist, NEW j \in 1 .. Len(c2l[d]),
               c2l[d][j] \in {SplitSucceed(t), SplitFailed(t)}
        PROVE  FALSE
    <3>1. c = d /\ Answering(c2l[d][j])
      BY <1>3, <1>5, <2>1, <2>3
    <3> QED
      BY <2>1, <3>1 DEF OneSplit
  <2> QED
    BY <1>4, <2>1, <2>2, <2>3, Listing
<1>8. ASSUME NEW c \in Dist, NEW i \in 1 .. Len(c2l[c]),
             p = <<"answer", c, i>>, c2l[c][i] \in {SplitSucceed(t), SplitFailed(t)}
      PROVE  p = q
  <2>1. Requested(c, t) /\ Answering(c2l[c][i]) /\ OneSplit(c)
    BY <1>0, <1>3, <1>8
  <2>2. ASSUME NEW d \in Dist, NEW j \in 1 .. Len(c2l[d]),
               q = <<"answer", d, j>>, c2l[d][j] \in {SplitSucceed(t), SplitFailed(t)}
        PROVE  p = q
    <3>1. c = d /\ Answering(c2l[d][j])
      BY <1>3, <1>5, <2>1, <2>2
    <3> QED
      BY <1>8, <2>1, <2>2, <3>1 DEF OneSplit
  <2>3. ASSUME NEW d \in Dist, NEW j \in 1 .. Len(l2c[d]), l2c[d][j] = RequestSplit(t)
        PROVE  FALSE
    <3>1. c = d /\ Asking(l2c[d][j])
      BY <1>2, <1>5, <2>1, <2>3
    <3> QED
      BY <2>1, <3>1 DEF OneSplit
  <2> QED
    BY <1>4, <2>1, <2>2, <2>3, Listing
<1> QED
  BY <1>6, <1>7, <1>8, Listing

LEMMA Counted ==
  ASSUME DInv, IdleListed
  PROVE  RankAccounted
<1> SUFFICES ASSUME at = "loop", Healthy, NEW t \in Dist
             PROVE  Cardinality(Listings(t)) = IF cstatus[t] = "idle" THEN 1 ELSE 0
  BY DEF RankAccounted
<1>1. CASE cstatus[t] = "idle"
  <2>1. Contains(idle, t) \/ \E c \in Dist : Requested(c, t)
    BY <1>1, Ranks DEF IdleListed, Healthy
  <2>2. PICK p : p \in Listings(t)
    <3>1. CASE Contains(idle, t)
      <4>1. PICK i \in 1 .. Len(idle) : idle[i] = t
        BY <3>1 DEF Contains
      <4>2. <<"idle", t, i>> \in Listings(t)
        BY <4>1, Listing
      <4> QED
        BY <4>2
    <3>2. ASSUME NEW c \in Dist, Requested(c, t)
          PROVE  Listings(t) # {}
      BY <3>2, Listing DEF Requested, Reported, Contains
    <3> QED
      BY <2>1, <3>1, <3>2
  <2>3. Listings(t) = {p}
    BY <2>2, ListedOnce
  <2> QED
    BY <1>1, <2>3, FS_Singleton
<1>2. CASE cstatus[t] # "idle"
  <2>1. TargetsApart /\ IdleApart
    BY DEF DInv
  <2>2. \A c \in Dist : ~Requested(c, t)
    BY <1>2, <2>1 DEF TargetsApart
  <2>3. \A i \in 1 .. Len(idle) : idle[i] # t
    BY <1>2, <2>1 DEF IdleApart
  <2>4. Listings(t) = {}
    BY <2>2, <2>3, Listing DEF Requested, Reported, Contains
  <2> QED
    BY <1>2, <2>4, FS_EmptySet
<1> QED
  BY <1>1, <1>2

(***************************************************************************)
(* As long as nobody has failed, each coordinator without a task is listed *)
(* in exactly one place, in idle_coordinators or as the target of one      *)
(* request, and one with a task in none: no rank falls out of the run, and *)
(* none is given two tasks (assign_node_to_idle_coordinator and the        *)
(* answers to a split in check_coordinators of src/src/leader.py).         *)
(***************************************************************************)
THEOREM RanksAreListed == TabuCovers /\ Spec => []RankAccounted
<1>1. Init => IdleListed
  BY DEF Init, IdleListed
<1>2. DInv /\ IdleListed /\ [Next]_vars => IdleListed'
  BY NextListed
<1>3. DInv /\ IdleListed => RankAccounted
  BY Counted
<1> QED
  BY <1>1, <1>2, <1>3, Protocol, PTL DEF Spec
-----------------------------------------------------------------------------
(* A coordinator gets one task at a time.                                  *)

\* While the leader is at work, a task is the last thing that is sent.
LEMMA AssignedLast ==
  ASSUME DInv, at # "ended"
  PROVE  AssignedOnce
<1>1. AssignedWhenIdle
  BY DEF DInv, InStep, AssignedWhenIdle
<1> QED
  BY <1>1 DEF DInv, InOrder, AssignedOnce

\* After the verdict nothing but the end of the run is sent.
LEMMA AssignedSteps ==
  ASSUME DInv, DInv', [Next]_vars, at' = "ended", NEW c \in Dist
  PROVE  \/ l2c'[c] = l2c[c] /\ phase'[c] = phase[c]
         \/ l2c'[c] = Append(l2c[c], TerminateCoordinator) /\ phase'[c] = phase[c]
         \/ Lost(l2c, c) /\ phase'[c] \notin {"receiving", "solving"}
         \/ Lost(l2c, c) /\ phase'[c] = phase[c]
         \/ Lost(l2c, c) /\ Head(l2c[c]).type = "assign_node" /\ l2c[c] # <<>>
         \/ l2c'[c] = l2c[c] /\ phase[c] = "receiving"
         \/ l2c'[c] = l2c[c] /\ phase'[c] \notin {"receiving", "solving"}
<1>0. TypeOK /\ PhasesApart /\ c \in Rank /\ c # Iso
  BY Ranks DEF DInv
<1>1. CASE UNCHANGED vars
  BY <1>1 DEF vars, coordVars, channels
<1>2. CASE LeaderStep
  <2>1. phase' = phase
    BY <1>2, LeaderStepFrame DEF CoordSame, coordVars
  <2>2. CASE at = "ended"
    BY <1>2, <2>2 DEF LeaderStep, LeaderHears, GetSplitSucceed, GetSplitFailed, GetResult,
       GetFailure, GetPrePartition, GetIsoResult, LeaderTimeout, AssignIdle, Heard
  <2>3. ASSUME at # "ended", NEW v, LeaderEnds(v, l2c)
        PROVE  l2c'[c] = Append(l2c[c], TerminateCoordinator)
    BY <1>0, <2>3 DEF LeaderEnds, ToldToStop
  <2>4. ASSUME NEW d \in Rank, GetSplitSucceed(d)
        PROVE  at' # "ended"
    BY <2>4, SucceedFacts DEF GetSplitSucceed, Heard
  <2>5. ASSUME NEW d \in Rank, GetResult(d), at # "ended"
        PROVE  l2c'[c] = Append(l2c[c], TerminateCoordinator)
    BY <2>3, <2>5 DEF GetResult
  <2>6. ASSUME at # "ended"
        PROVE  l2c'[c] = Append(l2c[c], TerminateCoordinator)
    BY <1>2, <2>3, <2>4, <2>5, <2>6 DEF LeaderStep, LeaderHears, GetSplitFailed, GetFailure,
       GetPrePartition, GetIsoResult, LeaderTimeout, AssignIdle
  <2> QED
    BY <2>1, <2>2, <2>6
<1>3. ASSUME NEW d \in Rank, CoordStep(d), d # c
      PROVE  l2c'[c] = l2c[c] /\ phase'[c] = phase[c]
  BY <1>0, <1>3, QueueFrame, PhaseFrame DEF CoordStep, Still
<1>4. ASSUME Takes(c), l2c[c] # <<>>
      PROVE  Lost(l2c, c)
  BY <1>0, <1>4, TakesFacts
<1>5. CASE \/ SplitRefused(c) \/ Transfer(c) \/ DropMessage(c)
           \/ \E s \in SUBSET Models : SplitGranted(c, s)
  <2>1. Takes(c) /\ l2c[c] # <<>> /\ phase' = phase
    BY <1>5 DEF SplitRefused, Transfer, DropMessage, SplitGranted, Pending, coordVars
  <2> QED
    BY <1>4, <2>1
<1>6. CASE AcceptNode(c)
  BY <1>4, <1>6 DEF AcceptNode, Pending
<1>7. CASE SplitCrashes(c) \/ Terminated(c)
  <2>1. /\ Takes(c) /\ l2c[c] # <<>>
        /\ \E p \in {"crashed", "ended"} : phase' = [phase EXCEPT ![c] = p]
    BY <1>7 DEF SplitCrashes, Terminated, Pending
  <2>2. phase'[c] \notin {"receiving", "solving"}
    BY <1>0, <2>1 DEF TypeOK
  <2> QED
    BY <1>4, <2>1, <2>2
<1>8. CASE ReceiveNode(c)
  BY <1>8 DEF ReceiveNode
<1>9. CASE Solves(c) \/ \E report \in {NotifyMemoryOut, NotifyError} : Crash(c, report)
  <2>1. l2c' = l2c /\ \E p \in {"crashed", "idle"} : phase' = [phase EXCEPT ![c] = p]
    BY <1>9 DEF Solves, SolveTask, Crash
  <2>2. phase'[c] \notin {"receiving", "solving"}
    BY <1>0, <2>1 DEF TypeOK
  <2> QED
    BY <2>1, <2>2
<1>10. CASE CoordStep(c)
  BY <1>5, <1>6, <1>7, <1>8, <1>9, <1>10 DEF CoordStep, Reacts
<1>11. ASSUME NEW ps \in PrePartitionTasks, NEW k \in 0 .. N + 1, PrePartition(ps, k)
       PROVE  l2c'[c] = l2c[c] /\ phase'[c] = phase[c]
  BY <1>0, <1>11 DEF PrePartition
<1>12. CASE IsoHandsOut
  <2>1. /\ l2c' = l2c \/ Takes(Iso)
        /\ phase' = phase \/ \E p \in {"handing", "solving", "stuck"} : phase' = [phase EXCEPT ![Iso] = p]
    BY <1>12 DEF IsoHandsOut, StartHandingOut, HandOut
  <2> QED
    BY <1>0, <2>1 DEF Takes, TypeOK
<1>13. CASE \E d \in Rank : CoordStep(d)
  BY <1>3, <1>10, <1>13
<1> QED
  BY <1>1, <1>2, <1>11, <1>12, <1>13 DEF Next, LeaderStep, CoordStep, Stopped

LEMMA AssignedKept ==
  ASSUME DInv, DInv', AssignedOnce, [Next]_vars, at' = "ended"
  PROVE  AssignedOnce'
<1> SUFFICES ASSUME NEW c \in Dist
             PROVE  /\ phase'[c] \in {"receiving", "solving"} => ~Sent(l2c', c, "assign_node")
                    /\ \A i, j \in 1 .. Len(l2c'[c]) :
                         /\ l2c'[c][i].type = "assign_node"
                         /\ l2c'[c][j].type = "assign_node"
                         => i = j
  BY DEF AssignedOnce, AssignedWhenIdle
<1>1. /\ phase[c] \in {"receiving", "solving"} => ~Sent(l2c, c, "assign_node")
      /\ \A i, j \in 1 .. Len(l2c[c]) :
           l2c[c][i].type = "assign_node" /\ l2c[c][j].type = "assign_node" => i = j
  BY DEF AssignedOnce, AssignedWhenIdle
<1>2. l2c[c] \in Seq(Message) /\ c \in Rank
  BY Ranks DEF DInv, TypeOK
<1>3. CASE l2c'[c] = l2c[c]
  <2>1. phase'[c] \in {"receiving", "solving"} => ~Sent(l2c, c, "assign_node")
    <3>1. ~Lost(l2c, c)
      BY <1>3 DEF Lost
    <3>2. phase'[c] = phase[c] \/ phase[c] = "receiving" \/ phase'[c] \notin {"receiving", "solving"}
      BY <3>1, AssignedSteps
    <3> QED
      BY <1>1, <3>2
  <2> QED
    BY <1>1, <1>3, <2>1 DEF Sent
<1>4. CASE Lost(l2c, c)
  <2>1. ~(l2c'[c] = l2c[c]) /\ l2c'[c] # Append(l2c[c], TerminateCoordinator)
    <3>1. Len(Append(l2c[c], TerminateCoordinator)) = Len(l2c[c]) + 1
      BY <1>2, MessageTypes, Added
    <3> QED
      BY <1>4, <3>1 DEF Lost
  <2>2. /\ Len(l2c[c]) \in Nat /\ Len(l2c[c]) > 0 /\ Head(l2c[c]) = l2c[c][1]
        /\ Len(l2c'[c]) = Len(l2c[c]) - 1
        /\ \A i \in 1 .. Len(l2c[c]) - 1 : l2c'[c][i] = l2c[c][i + 1]
    BY <1>4 DEF Lost
  <2>3. \A i \in 1 .. Len(l2c'[c]) : i + 1 \in 1 .. Len(l2c[c]) /\ l2c'[c][i] = l2c[c][i + 1] /\ i + 1 # 1
    BY <2>2
  <2>4. \A i, j \in 1 .. Len(l2c'[c]) :
          l2c'[c][i].type = "assign_node" /\ l2c'[c][j].type = "assign_node" => i = j
    <3> SUFFICES ASSUME NEW i \in 1 .. Len(l2c'[c]), NEW j \in 1 .. Len(l2c'[c]),
                        l2c'[c][i].type = "assign_node", l2c'[c][j].type = "assign_node"
                 PROVE  i = j
      OBVIOUS
    <3>1. i + 1 = j + 1
      BY <1>1, <2>3
    <3> QED
      BY <2>2, <3>1
  <2>5. ASSUME phase'[c] \in {"receiving", "solving"}, Sent(l2c', c, "assign_node")
        PROVE  FALSE
    <3>1. phase'[c] = phase[c] \/ Head(l2c[c]).type = "assign_node"
      BY <1>4, <2>1, <2>5, AssignedSteps
    <3>2. Sent(l2c, c, "assign_node")
      BY <1>2, <1>4, <2>5, DownLost
    <3>3. CASE phase'[c] = phase[c]
      BY <1>1, <2>5, <3>2, <3>3
    <3>4. CASE Head(l2c[c]).type = "assign_node"
      <4>1. PICK i \in 1 .. Len(l2c'[c]) : l2c'[c][i].type = "assign_node"
        BY <2>5 DEF Sent
      <4>2. i + 1 \in 1 .. Len(l2c[c]) /\ l2c[c][i + 1].type = "assign_node" /\ i + 1 # 1
        BY <2>3, <4>1
      <4>3. 1 \in 1 .. Len(l2c[c]) /\ l2c[c][1].type = "assign_node"
        BY <2>2, <3>4
      <4> QED
        BY <1>1, <4>2, <4>3
    <3> QED
      BY <3>1, <3>3, <3>4
  <2> QED
    BY <2>4, <2>5
<1>5. CASE l2c'[c] = Append(l2c[c], TerminateCoordinator)
  <2>1. /\ Len(l2c[c]) \in Nat /\ Len(l2c'[c]) = Len(l2c[c]) + 1
        /\ \A i \in 1 .. Len(l2c[c]) : l2c'[c][i] = l2c[c][i]
        /\ l2c'[c][Len(l2c[c]) + 1] = TerminateCoordinator
        /\ Append(l2c[c], TerminateCoordinator) # l2c[c]
    BY <1>2, <1>5, MessageTypes, Added
  <2>2. TerminateCoordinator.type # "assign_node"
    BY DEF TerminateCoordinator
  <2>3. \A i \in 1 .. Len(l2c'[c]) : l2c'[c][i].type = "assign_node" =>
          i \in 1 .. Len(l2c[c]) /\ l2c[c][i].type = "assign_node"
    BY <2>1, <2>2
  <2>4. ~Lost(l2c, c) /\ l2c'[c] # l2c[c]
    BY <1>5, <2>1 DEF Lost
  <2>5. phase'[c] = phase[c]
    BY <2>4, AssignedSteps
  <2> QED
    BY <1>1, <2>3, <2>5 DEF Sent
<1> QED
  BY <1>3, <1>4, <1>5, AssignedSteps

\* The leader has its verdict.
Over == at = "ended"

(***************************************************************************)
(* A coordinator that is solving has no second task under way, also when   *)
(* the verdict overtakes it: the result of a round and the leader's        *)
(* message do not cross, and the assertion of receive_message_from_leader  *)
(* (src/src/coordinator.py) does not fail.                                 *)
(***************************************************************************)
THEOREM AssignedToIdle == TabuCovers /\ Spec => []AssignedWhenIdle
<1>1. DInv /\ ~Over => AssignedOnce
  BY AssignedLast DEF Over
<1>2. DInv /\ DInv' /\ AssignedOnce /\ [Next]_vars /\ Over' => AssignedOnce'
  BY AssignedKept DEF Over
<1>3. Init => ~Over
  BY DEF Init, Over
<1>4. AssignedOnce => AssignedWhenIdle
  BY DEF AssignedOnce
<1>5. CASE TabuCovers
  BY <1>1, <1>2, <1>3, <1>4, <1>5, InitDInv, Protocol, PTL DEF Spec
<1> QED
  BY <1>5
=============================================================================
