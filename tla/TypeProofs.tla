----------------------------- MODULE TypeProofs -----------------------------
(* Proofs about Supervisor, for every configuration: type correctness.     *)
EXTENDS Supervisor, FiniteSetTheorems, WellFoundedInduction, TLAPS

\* reserve_task_ids gives every task to one job.
LEMMA JobOfTask ==
    ASSUME NEW t \in Task
    PROVE  JobOf(t) \in Job /\ t \in TasksOf(JobOf(t))
BY DEF Task, JobOf

\* The blocks of ids two jobs are given are disjoint.
LEMMA OneJobPerTask ==
    ASSUME NEW j \in Job, NEW k \in Job, NEW t \in TasksOf(j), t \in TasksOf(k)
    PROVE  j = k /\ JobOf(t) = j
<1>1. \A i \in Job : t \in TasksOf(i) => i = j
    <2> SUFFICES ASSUME NEW i \in Job, t \in TasksOf(i), i # j PROVE FALSE
        OBVIOUS
    <2>1. i < j \/ j < i
        BY ConfigAssumption DEF Job
    <2>2. /\ FirstTask[i] \in Nat /\ TaskCount[i] \in Nat
          /\ FirstTask[j] \in Nat /\ TaskCount[j] \in Nat
        BY AllocationAssumption
    <2>3. \/ FirstTask[i] + TaskCount[i] <= FirstTask[j]
          \/ FirstTask[j] + TaskCount[j] <= FirstTask[i]
        BY <2>1, AllocationAssumption
    <2> QED
        BY <2>2, <2>3 DEF TasksOf
<1> QED
    BY <1>1 DEF JobOf

\* A nonempty set of naturals has a least element.
LEMMA LeastNat ==
    ASSUME NEW S \in SUBSET Nat, S # {}
    PROVE  \E x \in S : \A y \in S : x <= y
<1>1. \E x \in S : \A y \in S : ~ (<<y, x>> \in OpToRel(<, Nat))
    BY Zenon, NatLessThanWellFounded, WFMin
<1>2. PICK x \in S : \A y \in S : ~ (<<y, x>> \in OpToRel(<, Nat))
    BY Zenon, <1>1
<1>3. \A y \in S : ~ (y < x)
    BY Zenon, <1>2 DEF OpToRel
<1> QED
    BY <1>3

\* An election yields a node, or nobody.
LEMMA LowestNode ==
    ASSUME NEW S \in SUBSET Node
    PROVE  Lowest(S) \in Node \cup {NoNode}
<1>1. CASE S = {}
    BY <1>1 DEF Lowest
<1>2. CASE S # {}
    <2>1. S \in SUBSET Nat
        BY ConfigAssumption DEF Node
    <2>2. \E n \in S : \A m \in S : n <= m
        BY <1>2, <2>1, LeastNat
    <2> QED
        BY <1>2, <2>2 DEF Lowest
<1> QED
    BY <1>1, <1>2

\* The choice of requeue_tasks_of is defined: it takes a task that is pending.
LEMMA FirstPendingIsPending ==
    ASSUME TypeOK, pending # {}
    PROVE  FirstPending \in pending
<1> DEFINE holders == {tasks[t].node : t \in pending}
<1>0. \A t \in pending : t \in Nat /\ tasks[t].node \in Nat
    <2> SUFFICES ASSUME NEW t \in pending PROVE t \in Nat /\ tasks[t].node \in Nat
        OBVIOUS
    <2>1. t \in Task /\ tasks[t] \in TaskRecord
        BY DEF TypeOK
    <2>2. PICK j \in Job : t \in TasksOf(j)
        BY <2>1 DEF Task
    <2>3. t \in Nat
        BY <2>2, AllocationAssumption DEF TasksOf
    <2> QED
        BY <2>1, <2>3, ConfigAssumption DEF TaskRecord, Node, NoNode
<1>1. holders \in SUBSET Nat /\ holders # {}
    BY <1>0
<1>2. PICK n \in holders : \A m \in holders : n <= m
    BY Zenon, <1>1, LeastNat
<1> DEFINE mine == {t \in pending : tasks[t].node = n}
<1>3. mine \in SUBSET Nat /\ mine # {}
    BY <1>0, <1>2
<1>4. PICK t \in mine : \A u \in mine : t <= u
    BY Zenon, <1>3, LeastNat
<1>5. \A u \in pending : \/ tasks[t].node < tasks[u].node
                         \/ tasks[t].node = tasks[u].node /\ t <= u
    <2> SUFFICES ASSUME NEW u \in pending
                 PROVE  \/ tasks[t].node < tasks[u].node
                        \/ tasks[t].node = tasks[u].node /\ t <= u
        OBVIOUS
    <2>1. n <= tasks[u].node /\ n \in Nat /\ tasks[u].node \in Nat
        BY <1>1, <1>2
    <2> QED
        BY <2>1, <1>4
<1> QED
    BY <1>4, <1>5 DEF FirstPending
-----------------------------------------------------------------------------
(* Type correctness.                                                       *)

\* settle_job changes the state of a job and leaves its counters.
LEMMA SettledType ==
    ASSUME NEW j \in Job, NEW job \in JobRecord
    PROVE  /\ Settled(j, job) \in JobRecord
           /\ Settled(j, job).completed = job.completed
           /\ Settled(j, job).failed = job.failed
BY DEF Settled, JobRecord, JobStates

\* Counting the end of a task keeps the job table well typed.
LEMMA CountTaskType ==
    ASSUME TypeOK, NEW j \in Job, NEW c \in Nat, NEW f \in Nat, CountTask(j, c, f)
    PROVE  jobs' \in [Job -> JobRecord]
<1> DEFINE counted == Counted(jobs[j], c, f)
<1>1. counted \in JobRecord
    BY DEF TypeOK, JobRecord, Counted
<1>2. Settled(j, counted) \in JobRecord
    BY <1>1, SettledType
<1>3. jobs' = IF jobs[j].state = "none" THEN jobs
              ELSE [jobs EXCEPT ![j] = Settled(j, counted)]
    BY DEF CountTask
<1> QED
    BY <1>2, <1>3 DEF TypeOK

\* retry_or_give_up keeps the three tables it writes well typed.
LEMMA RetryType ==
    ASSUME TypeOK, NEW t \in Task, RetryOrGiveUp(t)
    PROVE  /\ tasks' \in [Task -> TaskRecord]
           /\ queue' \in Seq(Task)
           /\ jobs' \in [Job -> JobRecord]
<1>1. JobOf(t) \in Job
    BY JobOfTask
<1>2. /\ Requeued(tasks[t]) \in TaskRecord
      /\ With(tasks[t], "failed") \in TaskRecord
    BY Zenon DEF TypeOK, Requeued, With, TaskRecord, TaskStates
<1>3. CASE UNCHANGED <<tasks, queue, jobs>>
    BY <1>3 DEF TypeOK
<1>4. CASE /\ tasks' = [tasks EXCEPT ![t] = Requeued(@)]
           /\ queue' = Append(queue, t)
           /\ UNCHANGED jobs
    BY <1>4, <1>2 DEF TypeOK
<1>5. CASE /\ tasks' = [tasks EXCEPT ![t] = With(@, "failed")]
           /\ CountTask(JobOf(t), 0, 1)
           /\ UNCHANGED queue
    <2>1. jobs' \in [Job -> JobRecord]
        BY <1>5, <1>1, CountTaskType
    <2> QED
        BY <1>5, <1>2, <2>1 DEF TypeOK
<1> QED
    BY <1>3, <1>4, <1>5 DEF RetryOrGiveUp

\* Task::assign and Task::requeue keep a task well typed: attempts saturate.
LEMMA AssignedType ==
    ASSUME NEW task \in TaskRecord, NEW n \in Node
    PROVE  Assigned(task, n) \in TaskRecord /\ Requeued(Assigned(task, n)) \in TaskRecord
BY ConfigAssumption DEF Assigned, Requeued, Plus1, TaskRecord, TaskStates

\* refresh_leadership stores node ids, or nobody.
LEMMA LeadersType == Elected \in Node \cup {NoNode} /\ Gateway \in Node \cup {NoNode}
<1> DEFINE healthy == {n \in Node : AcceptsWork(n)}
           eligible == {n \in healthy : "coordinator" \in nodes[n].roles}
           candidates == IF eligible # {} THEN eligible ELSE healthy
           doors == {n \in Node : AcceptsWork(n) /\ "gateway" \in nodes[n].roles}
<1>1. candidates \in SUBSET Node /\ doors \in SUBSET Node
    OBVIOUS
<1>2. Lowest(candidates) \in Node \cup {NoNode} /\ Lowest(doors) \in Node \cup {NoNode}
    BY ONLY <1>1, LowestNode
<1> QED
    BY <1>2 DEF Elected, Gateway

\* What a handler does to a registry entry keeps it well typed.
LEMMA EntryType ==
    ASSUME NEW e \in Entry, NEW role \in Role, NEW enabled \in BOOLEAN
    PROVE  /\ Stopped(e) \in Entry
           /\ Started(e) \in Entry
           /\ Judged(e) \in Entry
           /\ WithRole(e, role, enabled) \in Entry
           /\ AtAge(e, 0) \in Entry
           /\ e.age < 2 => AtAge(e, e.age + 1) \in Entry
           /\ e.gen < MaxGen => Attached(e) \in Entry
           /\ NoEntry \in Entry
<1>1. Stopped(e) \in Entry /\ Started(e) \in Entry
    <2>1. Stopped(e) \in Entry
        BY Zenon DEF Entry, Stopped, NodeStatuses
    <2>2. Started(e) \in Entry
        BY DEF Entry, Started, NodeStatuses
    <2> QED
        BY <2>1, <2>2
<1>2. Judged(e) \in Entry
    BY DEF Entry, Judged, Classify, NodeStatuses
<1>3. WithRole(e, role, enabled) \in Entry
    <2>1. (IF enabled THEN e.roles \cup {role} ELSE e.roles \ {role}) \in SUBSET Role
        BY DEF Entry
    <2> QED
        BY <2>1 DEF Entry, WithRole
<1>4. AtAge(e, 0) \in Entry /\ (e.age < 2 => AtAge(e, e.age + 1) \in Entry)
    BY DEF Entry, AtAge
<1>5. e.gen < MaxGen => Attached(e) \in Entry
    <2>1. (IF e.present THEN e.roles ELSE {"compute"}) \in SUBSET Role
        BY DEF Entry, Role
    <2>2. e.gen < MaxGen => e.gen + 1 \in 0 .. MaxGen
        BY ConfigAssumption DEF Entry
    <2> QED
        BY <2>1, <2>2 DEF Entry, Attached, NodeStatuses
<1>6. NoEntry \in Entry
    BY ConfigAssumption DEF Entry, NoEntry, NodeStatuses
<1> QED
    BY <1>1, <1>2, <1>3, <1>4, <1>5, <1>6

\* The state bootstrap leaves is well typed.
LEMMA InitTypeOK == Init => TypeOK
<1> SUFFICES ASSUME Init PROVE TypeOK
    OBVIOUS
<1>1. NoJob \in JobRecord /\ NoTask \in TaskRecord
    BY ConfigAssumption DEF NoJob, NoTask, JobRecord, TaskRecord
<1>2. nodes \in [Node -> Entry]
    <2>1. ASSUME NEW n \in Node
          PROVE  [present |-> TRUE,
                  status |-> IF n \in Simulated THEN "healthy" ELSE "offline",
                  age |-> 0, up |-> n \in Simulated,
                  roles |-> InitRoles[n], gen |-> 0] \in Entry
        <3>1. InitRoles[n] \in SUBSET Role /\ (n \in Simulated) \in BOOLEAN
            BY ConfigAssumption
        <3> QED
            BY <3>1, ConfigAssumption DEF Entry, NodeStatuses
    <2>2. NoEntry \in Entry
        BY ConfigAssumption DEF Entry, NoEntry, NodeStatuses
    <2> QED
        BY <2>1, <2>2 DEF Init, InitialNodes
<1>3. issued \in 0 .. MaxJob /\ queue \in Seq(Task)
    BY ConfigAssumption DEF Init
<1>4. jobs \in [Job -> JobRecord] /\ tasks \in [Task -> TaskRecord] /\ failures \in [Task -> Nat]
    BY <1>1 DEF Init
<1>5. Elected \in Node \cup {NoNode} /\ Gateway \in Node \cup {NoNode}
    BY LeadersType
<1> QED
    BY <1>2, <1>3, <1>4, <1>5 DEF Init, TypeOK

\* Every step of every handler keeps the tables well typed.
LEMMA NextTypeOK == TypeOK /\ [Next]_vars => TypeOK'
<1> SUFFICES ASSUME TypeOK, [Next]_vars PROVE TypeOK'
    OBVIOUS
<1> USE DEF registryVars, tableVars
<1>1. CASE RequeueTask
    <2>1. FirstPending \in pending /\ FirstPending \in Task
        BY <1>1, FirstPendingIsPending DEF RequeueTask, TypeOK
    <2>2. RetryOrGiveUp(FirstPending) /\ RecordFailure(FirstPending)
        BY <1>1 DEF RequeueTask
    <2>3. failures' \in [Task -> Nat]
        BY <2>1, <2>2 DEF RecordFailure, TypeOK
    <2> QED
        BY <1>1, <2>1, <2>2, <2>3, RetryType DEF RequeueTask, TypeOK
<1>2. CASE RefreshLeadership
    BY <1>2, LeadersType DEF RefreshLeadership, TypeOK
<1>3. CASE DispatchDone
    <2>1. queue # <<>> => Tail(queue) \in Seq(Task)
        BY DEF TypeOK
    <2>2. queue' = queue \/ (queue # <<>> /\ queue' = Tail(queue))
        BY <1>3 DEF DispatchDone
    <2>3. queue' \in Seq(Task)
        BY Zenon, <2>1, <2>2 DEF TypeOK
    <2>4. todo' = todo \/ todo' = todo \ {"dispatch"}
        BY <1>3 DEF DispatchDone
    <2> QED
        BY Zenon, <1>3, <2>3, <2>4 DEF DispatchDone, TypeOK
<1>4. ASSUME NEW n \in Node, DispatchSent(n) PROVE TypeOK'
    <2>1. Head(queue) \in Task /\ Tail(queue) \in Seq(Task) /\ queue # <<>>
        BY <1>4 DEF DispatchSent, TypeOK
    <2>2. Assigned(tasks[Head(queue)], n) \in TaskRecord
        BY <2>1, AssignedType DEF TypeOK
    <2>3. \A j \in Job : [jobs[j] EXCEPT !.state = "running"] \in JobRecord
        BY Zenon DEF TypeOK, JobRecord, JobStates
    <2>4. JobOf(Head(queue)) \in Job
        BY <2>1, JobOfTask
    <2>5. tasks' \in [Task -> TaskRecord]
        BY Zenon, <1>4, <2>1, <2>2 DEF DispatchSent, TypeOK
    <2>6. jobs' \in [Job -> JobRecord]
        BY Zenon, <1>4, <2>3, <2>4 DEF DispatchSent, TypeOK
    <2> QED
        BY <1>4, <2>1, <2>5, <2>6 DEF DispatchSent, TypeOK
<1>5. ASSUME NEW n \in Node, DispatchUnsent(n) PROVE TypeOK'
    <2>1. Head(queue) \in Task /\ Tail(queue) \in Seq(Task) /\ queue # <<>>
        BY <1>5 DEF DispatchUnsent, TypeOK
    <2>2. Requeued(Assigned(tasks[Head(queue)], n)) \in TaskRecord
        BY <2>1, AssignedType DEF TypeOK
    <2>3. queue' \in Seq(Task)
        BY <1>5, <2>1 DEF DispatchUnsent, TypeOK
    <2> QED
        BY <1>5, <2>1, <2>2, <2>3 DEF DispatchUnsent, TypeOK
<1>6. CASE PruneMemory
    <2>1. NoJob \in JobRecord /\ NoTask \in TaskRecord
        BY ConfigAssumption DEF NoJob, NoTask, JobRecord, TaskRecord
    <2> QED
        BY <1>6, <2>1 DEF PruneMemory, TypeOK
<1>7. CASE Tick
    <2>1. nodes' \in [Node -> Entry]
        BY Zenon, <1>7, EntryType DEF Tick, TypeOK, Role
    <2> QED
        BY <1>7, <2>1 DEF Tick, TypeOK, AffectedBy
<1>8. ASSUME NEW n \in Node, Silence(n) PROVE TypeOK'
    <2>1. AtAge(nodes[n], nodes[n].age + 1) \in Entry
        BY Zenon, <1>8, EntryType DEF Silence, TypeOK, Role
    <2> QED
        BY <1>8, <2>1 DEF Silence, TypeOK
<1>9. ASSUME NEW n \in Node, HeartbeatReport(n) PROVE TypeOK'
    <2>1. AtAge(nodes[n], 0) \in Entry
        BY Zenon, EntryType DEF TypeOK, Role
    <2> QED
        BY <1>9, <2>1 DEF HeartbeatReport, TypeOK
<1>10. ASSUME NEW n \in Node, NEW t \in Task, TaskStarted(n, t) PROVE TypeOK'
    <2>1. With(tasks[t], "running") \in TaskRecord
        BY Zenon DEF TypeOK, With, TaskRecord, TaskStates
    <2> QED
        BY <1>10, <2>1 DEF TaskStarted, TypeOK
<1>11. ASSUME NEW n \in Node, NEW t \in Task, TaskCompleted(n, t) PROVE TypeOK'
    <2>1. With(tasks[t], "completed") \in TaskRecord
        BY Zenon DEF TypeOK, With, TaskRecord, TaskStates
    <2>2. tasks' \in [Task -> TaskRecord]
        BY <1>11, <2>1 DEF TaskCompleted, TypeOK
    <2>3. jobs' \in [Job -> JobRecord]
        BY <1>11, JobOfTask, CountTaskType DEF TaskCompleted, TypeOK
    <2> QED
        BY <1>11, <2>2, <2>3 DEF TaskCompleted, TypeOK
<1>12. ASSUME NEW n \in Node, NEW t \in Task, TaskFailed(n, t) PROVE TypeOK'
    <2>1. CASE Late(n, t)
        BY <1>12, <2>1 DEF TaskFailed, TypeOK
    <2>2. CASE ~ Late(n, t)
        <3>1. RecordFailure(t) /\ RetryOrGiveUp(t)
            BY <1>12, <2>2 DEF TaskFailed
        <3>2. failures' \in [Task -> Nat]
            BY <3>1 DEF RecordFailure, TypeOK
        <3> QED
            BY <1>12, <3>1, <3>2, RetryType DEF TaskFailed, TypeOK
    <2> QED
        BY <2>1, <2>2
<1>13. ASSUME NEW stored \in BOOLEAN, SubmitJob(stored) PROVE TypeOK'
    <2> DEFINE j == issued + 1
    <2>1. j \in Job /\ issued' \in 0 .. MaxJob
        BY <1>13, ConfigAssumption DEF SubmitJob, TypeOK, Job
    <2>2. NewJob \in JobRecord /\ NewTask \in TaskRecord
        BY ConfigAssumption DEF NewJob, NewTask, JobRecord, TaskRecord, JobStates, TaskStates
    <2>3. [i \in 1 .. TaskCount[j] |-> FirstTask[j] + i - 1] \in Seq(Task)
        <3>1. \A i \in 1 .. TaskCount[j] : FirstTask[j] + i - 1 \in TasksOf(j)
            BY <2>1, AllocationAssumption DEF TasksOf
        <3>2. TasksOf(j) \subseteq Task
            BY <2>1 DEF Task
        <3>3. TaskCount[j] \in Nat
            BY <2>1, AllocationAssumption
        <3> QED
            BY <3>1, <3>2, <3>3
    <2>4. jobs' \in [Job -> JobRecord] /\ tasks' \in [Task -> TaskRecord]
        BY Zenon, <1>13, <2>1, <2>2 DEF SubmitJob, TypeOK
    <2>5. queue' \in Seq(Task)
        <3> DEFINE block == [i \in 1 .. TaskCount[j] |-> FirstTask[j] + i - 1]
        <3>1. queue' = queue \/ queue' = queue \o block
            BY Zenon, <1>13 DEF SubmitJob
        <3> HIDE DEF block
        <3>2. queue \o block \in Seq(Task)
            BY <2>3 DEF TypeOK, block
        <3> QED
            BY Zenon, <3>1, <3>2 DEF TypeOK
    <2> QED
        BY Zenon, <1>13, <2>1, <2>4, <2>5 DEF SubmitJob, TypeOK
<1>14. ASSUME NEW n \in Node, NEW role \in Role, NEW enabled \in BOOLEAN, SetRole(n, role, enabled)
       PROVE  TypeOK'
    <2>1. WithRole(nodes[n], role, enabled) \in Entry
        BY Zenon, EntryType DEF TypeOK
    <2> QED
        BY <1>14, <2>1 DEF SetRole, TypeOK
<1>15. ASSUME NEW n \in Node, StopNode(n) PROVE TypeOK'
    <2>1. Stopped(nodes[n]) \in Entry
        BY Zenon, EntryType DEF TypeOK, Role
    <2> QED
        BY <1>15, <2>1 DEF StopNode, TypeOK, AffectedBy
<1>16. ASSUME NEW n \in Node, AttachRemote(n) PROVE TypeOK'
    <2>1. Attached(nodes[n]) \in Entry
        BY Zenon, <1>16, EntryType DEF AttachRemote, TypeOK, Role
    <2> QED
        BY <1>16, <2>1 DEF AttachRemote, TypeOK
<1>17. ASSUME NEW n \in Node, StartNode(n) PROVE TypeOK'
    <2>1. Started(nodes[n]) \in Entry
        BY Zenon, EntryType DEF TypeOK, Role
    <2> QED
        BY <1>17, <2>1 DEF StartNode, TypeOK
<1>18. ASSUME NEW n \in Node, NEW gen \in 1 .. MaxGen, DetachRemote(n, gen) PROVE TypeOK'
    <2>1. Stopped(nodes[n]) \in Entry /\ NoEntry \in Entry
        BY Zenon, EntryType DEF TypeOK, Role
    <2> QED
        BY <1>18, <2>1 DEF DetachRemote, TypeOK, AffectedBy
<1>19. CASE UNCHANGED vars
    BY <1>19 DEF vars, TypeOK
<1> QED
    BY Zenon, <1>1, <1>2, <1>3, <1>4, <1>5, <1>6, <1>7, <1>8, <1>9, <1>10, <1>11, <1>12, <1>13,
       <1>14, <1>15, <1>16, <1>17, <1>18, <1>19, ConfigAssumption DEF Next, HandlerStep

\* Every table keeps the type its Rust declaration gives it, saturation of the
\* attempt counter and the bounds on ids included.
THEOREM TypeCorrect == Spec => []TypeOK
<1>1. Init => TypeOK
    BY InitTypeOK
<1>2. TypeOK /\ [Next]_vars => TypeOK'
    BY NextTypeOK
<1> QED
    BY <1>1, <1>2, PTL DEF Spec
=============================================================================
