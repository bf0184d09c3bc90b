---------------------------- MODULE EffectProofs ----------------------------
(* How the tables fit together, and the few things a step does to them.    *)
EXTENDS TypeProofs

\* A task has a node exactly when it was placed, what requeue_tasks_of has to go
\* through is held by a node, tasks are in memory exactly when their job is, and
\* an id that was not issued is not in memory.
Structure ==
    /\ \A t \in Task : tasks[t].state \in {"none", "queued"} <=> tasks[t].node = NoNode
    /\ \A t \in pending : Active(t)
    /\ \A t \in Task : tasks[t].state = "none" <=> jobs[JobOf(t)].state = "none"
    /\ \A j \in Job : issued < j => jobs[j].state = "none"
    /\ \A j \in Job : jobs[j].state # "cancelled"

Unmoved == UNCHANGED <<issued, jobs, tasks, queue>>

Place(t, n) ==
    /\ queue # <<>> /\ t = Head(queue) /\ tasks[t].state = "queued" /\ n \in Candidates
    /\ tasks' = [tasks EXCEPT ![t] = Assigned(@, n)]
    /\ queue' = Tail(queue)
    /\ jobs' = IF jobs[JobOf(t)].state = "queued"
               THEN [jobs EXCEPT ![JobOf(t)] = [jobs[JobOf(t)] EXCEPT !.state = "running"]] ELSE jobs
    /\ UNCHANGED issued

Bounce(t, n) ==
    /\ queue # <<>> /\ t = Head(queue) /\ tasks[t].state = "queued"
    /\ tasks' = [tasks EXCEPT ![t] = Requeued(Assigned(@, n))]
    /\ queue' = <<t>> \o Tail(queue)
    /\ UNCHANGED <<issued, jobs>>

Begin(t) ==
    /\ tasks[t].state = "assigned"
    /\ tasks' = [tasks EXCEPT ![t] = With(@, "running")]
    /\ UNCHANGED <<issued, jobs, queue>>

Retry(t) ==
    /\ Active(t)
    /\ tasks' = [tasks EXCEPT ![t] = Requeued(@)]
    /\ queue' = Append(queue, t)
    /\ UNCHANGED <<issued, jobs>>

End(t, s, c, f) ==
    /\ Active(t)
    /\ tasks' = [tasks EXCEPT ![t] = With(@, s)]
    /\ CountTask(JobOf(t), c, f)
    /\ UNCHANGED <<issued, queue>>

Create(stored) ==
    /\ issued < MaxJob
    /\ issued' = issued + 1
    /\ LET j == issued + 1
       IN IF stored
          THEN /\ jobs' = [jobs EXCEPT ![j] = NewJob]
               /\ tasks' = [t \in Task |-> IF t \in TasksOf(j) THEN NewTask ELSE tasks[t]]
               /\ queue' = queue \o [i \in 1 .. TaskCount[j] |-> FirstTask[j] + i - 1]
          ELSE UNCHANGED <<jobs, tasks, queue>>

Drop(S) ==
    /\ \A j \in S : JobTerminal(jobs[j].state)
    /\ jobs' = [j \in Job |-> IF j \in S THEN NoJob ELSE jobs[j]]
    /\ tasks' = [t \in Task |-> IF JobOf(t) \in S THEN NoTask ELSE tasks[t]]
    /\ UNCHANGED <<issued, queue>>

\* A held task may be requeued or failed, whichever retry_or_give_up picks.
LEMMA ActiveTask ==
    ASSUME TypeOK, NEW t \in Task
    PROVE  /\ tasks[t] \in TaskRecord /\ tasks[t].attempt \in Nat
           /\ Active(t) <=> tasks[t].state \in {"assigned", "running"}
           /\ Active(t) => \A next \in {"queued", "failed"} : TaskCanBecome(tasks[t].state, next)
BY ConfigAssumption DEF TypeOK, TaskRecord, Active, TaskCanBecome

\* On a held task retry_or_give_up never takes its early return: it requeues
\* the task or ends it.
LEMMA RetryEffect ==
    ASSUME TypeOK, NEW t \in Task, Active(t), RetryOrGiveUp(t), UNCHANGED issued
    PROVE  Retry(t) \/ End(t, "failed", 0, 1)
<1>1. TaskCanBecome(tasks[t].state, IF tasks[t].attempt < MaxTaskAttempts THEN "queued" ELSE "failed")
    BY ActiveTask
<1> QED
    BY <1>1 DEF RetryOrGiveUp, Retry, End

\* Everything a step may do to the tables.
Effect ==
    \/ Unmoved
    \/ \E t \in Task, n \in Node : Place(t, n) \/ Bounce(t, n)
    \/ \E t \in Task : Begin(t) \/ Retry(t)
    \/ \E t \in Task : End(t, "completed", 1, 0) /\ tasks[t].state = "running"
    \/ \E t \in Task : End(t, "failed", 0, 1)
    \/ \E stored \in BOOLEAN : Create(stored)
    \/ Drop(Removable)

\* Every step of the specification is one of the effects: the tables never see
\* which handler, node or report it came from.
LEMMA StepEffect ==
    ASSUME TypeOK, Structure, QueueExact, [Next]_vars
    PROVE  Effect
<1> USE DEF registryVars, tableVars
<1>h. queue # <<>> => /\ Head(queue) \in Task
                      /\ tasks[Head(queue)].state = "queued"
    <2> SUFFICES ASSUME queue # <<>>
                 PROVE  Head(queue) \in Task /\ tasks[Head(queue)].state = "queued"
        OBVIOUS
    <2>1. Head(queue) \in Task /\ Head(queue) = queue[1] /\ 1 \in 1 .. Len(queue)
        BY DEF TypeOK
    <2> QED
        BY <2>1 DEF QueueExact
<1>1. CASE RequeueTask
    <2>1. FirstPending \in Task /\ Active(FirstPending)
        BY <1>1, FirstPendingIsPending DEF RequeueTask, TypeOK, Structure
    <2> QED
        BY <1>1, <2>1, RetryEffect DEF RequeueTask, Effect
<1>2. CASE RefreshLeadership
    BY <1>2 DEF RefreshLeadership, Effect, Unmoved
<1>3. CASE DispatchDone
    BY <1>3, <1>h DEF DispatchDone, Effect, Unmoved
<1>4. ASSUME NEW n \in Node, DispatchSent(n) PROVE Effect
    <2>1. Place(Head(queue), n)
        BY <1>4, <1>h DEF DispatchSent, Place, Placeable, TaskCanBecome
    <2> QED
        BY <1>4, <2>1, <1>h DEF Effect, DispatchSent
<1>5. ASSUME NEW n \in Node, DispatchUnsent(n) PROVE Effect
    <2>1. Bounce(Head(queue), n)
        BY <1>5, <1>h DEF DispatchUnsent, Bounce
    <2> QED
        BY <1>5, <2>1, <1>h DEF Effect, DispatchUnsent
<1>6. CASE PruneMemory
    BY <1>6 DEF PruneMemory, Effect, Drop, Removable
<1>7. CASE Tick
    BY <1>7 DEF Tick, Effect, Unmoved
<1>8. ASSUME NEW n \in Node, \/ Silence(n) \/ HeartbeatReport(n) \/ StopNode(n)
                             \/ AttachRemote(n) \/ StartNode(n)
      PROVE  Effect
    BY <1>8 DEF Silence, HeartbeatReport, StopNode, AttachRemote, StartNode, Effect, Unmoved
<1>9. ASSUME NEW n \in Node, NEW t \in Task, TaskStarted(n, t) PROVE Effect
    <2>1. UNCHANGED tasks \/ Begin(t)
        BY <1>9 DEF TaskStarted, Begin, TaskCanBecome
    <2> QED
        BY <1>9, <2>1 DEF Effect, Unmoved, TaskStarted
<1>10. ASSUME NEW n \in Node, NEW t \in Task, TaskCompleted(n, t) PROVE Effect
    <2>1. CASE Late(n, t) \/ ~ TaskCanBecome(tasks[t].state, "completed")
        BY <1>10, <2>1 DEF TaskCompleted, Effect, Unmoved
    <2>2. CASE ~ Late(n, t) /\ TaskCanBecome(tasks[t].state, "completed")
        <3>1. tasks[t].state = "running"
            BY <2>2 DEF TaskCanBecome
        <3>2. End(t, "completed", 1, 0)
            BY <1>10, <2>2, <3>1 DEF TaskCompleted, End, Active
        <3> QED
            BY <3>1, <3>2 DEF Effect
    <2> QED
        BY <2>1, <2>2
<1>11. ASSUME NEW n \in Node, NEW t \in Task, TaskFailed(n, t) PROVE Effect
    <2>1. CASE Late(n, t)
        BY <1>11, <2>1 DEF TaskFailed, Effect, Unmoved
    <2>2. CASE ~ Late(n, t)
        <3>1. n # NoNode /\ tasks[t] \in TaskRecord
            BY ConfigAssumption DEF Node, NoNode, TypeOK
        <3>2. tasks[t].state \notin {"none", "queued", "completed", "failed"}
            BY <2>2, <3>1 DEF Late, TaskTerminal, Structure
        <3>3. Active(t)
            BY <3>1, <3>2 DEF Active, TaskRecord, TaskStates
        <3>4. Retry(t) \/ End(t, "failed", 0, 1)
            BY <1>11, <2>2, <3>3, RetryEffect DEF TaskFailed
        <3> QED
            BY <3>4 DEF Effect
    <2> QED
        BY <2>1, <2>2
<1>12. ASSUME NEW stored \in BOOLEAN, SubmitJob(stored) PROVE Effect
    <2>1. Create(stored)
        BY Zenon, <1>12 DEF SubmitJob, Create
    <2> QED
        BY <2>1 DEF Effect
<1>13. ASSUME NEW n \in Node, NEW role \in Role, NEW enabled \in BOOLEAN, SetRole(n, role, enabled)
       PROVE  Effect
    BY <1>13 DEF SetRole, Effect, Unmoved
<1>14. ASSUME NEW n \in Node, NEW gen \in 1 .. MaxGen, DetachRemote(n, gen) PROVE Effect
    BY <1>14 DEF DetachRemote, Effect, Unmoved
<1>15. CASE UNCHANGED vars
    BY <1>15 DEF vars, Effect, Unmoved
<1> QED
    BY Zenon, <1>1, <1>2, <1>3, <1>4, <1>5, <1>6, <1>7, <1>8, <1>9, <1>10, <1>11, <1>12, <1>13,
       <1>14, <1>15, ConfigAssumption DEF Next, HandlerStep

\* Counting a task of job j touches job j only, and never makes it appear,
\* disappear or be cancelled.
LEMMA CountTaskFrame ==
    ASSUME TypeOK, NEW j \in Job, NEW c \in Nat, NEW f \in Nat, CountTask(j, c, f)
    PROVE  /\ \A k \in Job \ {j} : jobs'[k] = jobs[k]
           /\ jobs[j].state = "none" => jobs' = jobs
           /\ jobs[j].state # "none" => jobs'[j] = Settled(j, Counted(jobs[j], c, f))
           /\ jobs'[j].state = "none" <=> jobs[j].state = "none"
           /\ jobs'[j].state = "cancelled" => jobs[j].state = "cancelled"
<1>1. /\ \A k \in Job \ {j} : jobs'[k] = jobs[k]
      /\ jobs[j].state = "none" => jobs' = jobs
      /\ jobs[j].state # "none" => jobs'[j] = Settled(j, Counted(jobs[j], c, f))
    BY DEF CountTask, TypeOK
<1>2. Counted(jobs[j], c, f) \in JobRecord /\ Counted(jobs[j], c, f).state = jobs[j].state
    BY DEF Counted, JobRecord, TypeOK
<1>3. \/ Settled(j, Counted(jobs[j], c, f)).state = jobs[j].state
      \/ Settled(j, Counted(jobs[j], c, f)).state \in {"completed", "failed"}
    BY <1>2 DEF Settled, JobRecord
<1> QED
    BY <1>1, <1>3

\* An effect keeps the tables in step: a task is held by a node exactly when it
\* has left the queue, and is in memory exactly when its job is.
LEMMA EffectStructure ==
    ASSUME TypeOK, TypeOK', Structure, Effect
    PROVE  /\ \A t \in Task : tasks'[t].state \in {"none", "queued"} <=> tasks'[t].node = NoNode
           /\ \A t \in Task : tasks'[t].state = "none" <=> jobs'[JobOf(t)].state = "none"
           /\ \A j \in Job : issued' < j => jobs'[j].state = "none"
           /\ \A j \in Job : jobs'[j].state # "cancelled"
<1> DEFINE Goal == /\ \A t \in Task : tasks'[t].state \in {"none", "queued"} <=> tasks'[t].node = NoNode
                   /\ \A t \in Task : tasks'[t].state = "none" <=> jobs'[JobOf(t)].state = "none"
                   /\ \A j \in Job : issued' < j => jobs'[j].state = "none"
                   /\ \A j \in Job : jobs'[j].state # "cancelled"
<1>n. NoNode \notin Node
    BY ConfigAssumption DEF Node, NoNode
<1>j. \A t \in Task : JobOf(t) \in Job /\ t \in TasksOf(JobOf(t))
    BY JobOfTask
<1>t. tasks \in [Task -> TaskRecord] /\ jobs \in [Job -> JobRecord] /\ issued \in Nat
    BY ConfigAssumption DEF TypeOK
<1>s. \A j \in Job : /\ [jobs[j] EXCEPT !.state = "running"].state = "running"
    BY <1>t DEF JobRecord
<1>1. CASE Unmoved
    BY <1>1 DEF Unmoved, Structure
<1>2. ASSUME NEW t \in Task, NEW n \in Node, Place(t, n) PROVE Goal
    <2>1. tasks'[t].state = "assigned" /\ tasks'[t].node = n /\ \A u \in Task \ {t} : tasks'[u] = tasks[u]
        BY <1>2, <1>t DEF Place, Assigned
    <2>2. \A j \in Job : jobs'[j] = jobs[j] \/ (jobs[j].state = "queued" /\ jobs'[j].state = "running")
        BY <1>2, <1>t, <1>j, <1>s DEF Place
    <2>3. tasks[t].state = "queued" /\ issued' = issued
        BY <1>2 DEF Place
    <2> QED
        BY <2>1, <2>2, <2>3, <1>n, <1>j DEF Structure
<1>3. ASSUME NEW t \in Task, NEW n \in Node, Bounce(t, n) PROVE Goal
    <2>1. tasks'[t].state = "queued" /\ tasks'[t].node = NoNode /\ \A u \in Task \ {t} : tasks'[u] = tasks[u]
        BY <1>3, <1>t DEF Bounce, Assigned, Requeued
    <2> QED
        BY <1>3, <2>1, <1>j DEF Structure, Bounce
<1>4. ASSUME NEW t \in Task, Begin(t) PROVE Goal
    <2>1. tasks'[t].state = "running" /\ tasks'[t].node = tasks[t].node /\ \A u \in Task \ {t} : tasks'[u] = tasks[u]
        BY <1>4, <1>t DEF Begin, With, TaskRecord
    <2> QED
        BY <1>4, <2>1, <1>j DEF Structure, Begin
<1>5. ASSUME NEW t \in Task, Retry(t) PROVE Goal
    <2>1. tasks'[t].state = "queued" /\ tasks'[t].node = NoNode /\ \A u \in Task \ {t} : tasks'[u] = tasks[u]
        BY <1>5, <1>t DEF Retry, Requeued
    <2> QED
        BY <1>5, <2>1, <1>j DEF Structure, Retry, Active
<1>6. ASSUME NEW t \in Task, NEW s \in {"completed", "failed"}, NEW c \in Nat, NEW f \in Nat, End(t, s, c, f)
      PROVE  Goal
    <2>1. tasks'[t].state = s /\ tasks'[t].node = tasks[t].node /\ \A u \in Task \ {t} : tasks'[u] = tasks[u]
        BY <1>6, <1>t DEF End, With, TaskRecord
    <2>2. \A j \in Job : /\ jobs'[j].state = "none" <=> jobs[j].state = "none"
                         /\ jobs'[j].state = "cancelled" => jobs[j].state = "cancelled"
        BY <1>6, <1>j, CountTaskFrame DEF End
    <2> QED
        BY <1>6, <2>1, <2>2, <1>j DEF Structure, End, Active
<1>7. ASSUME NEW stored \in BOOLEAN, Create(stored) PROVE Goal
    <2> DEFINE j == issued + 1
    <2>1. j \in Job /\ issued < j /\ issued' = j
        BY <1>7, <1>t, ConfigAssumption DEF Create, Job
    <2>2. CASE ~ stored
        BY <1>7, <2>1, <2>2, <1>t DEF Create, Structure, Job
    <2>3. CASE stored
        <3>1. jobs'[j].state = "queued" /\ \A k \in Job \ {j} : jobs'[k] = jobs[k]
            BY <1>7, <2>1, <2>3, <1>t DEF Create, NewJob
        <3>2. \A t \in Task : IF JobOf(t) = j
                              THEN tasks'[t].state = "queued" /\ tasks'[t].node = NoNode
                              ELSE tasks'[t] = tasks[t]
            BY <1>7, <2>1, <2>3, <1>j, OneJobPerTask DEF Create, NewTask
        <3> QED
            BY <2>1, <3>1, <3>2, <1>j, <1>t DEF Structure, Job
    <2> QED
        BY <2>2, <2>3
<1>8. CASE Drop(Removable)
    <2>1. \A k \in Job : IF k \in Removable THEN jobs'[k].state = "none" ELSE jobs'[k] = jobs[k]
        BY <1>8 DEF Drop, NoJob
    <2>2. \A t \in Task : IF JobOf(t) \in Removable
                          THEN tasks'[t].state = "none" /\ tasks'[t].node = NoNode
                          ELSE tasks'[t] = tasks[t]
        BY <1>8 DEF Drop, NoTask
    <2> QED
        BY <1>8, <2>1, <2>2, <1>j DEF Structure, Drop
<1> QED
    BY <1>1, <1>2, <1>3, <1>4, <1>5, <1>6, <1>7, <1>8 DEF Effect

\* requeue_tasks_of only ever has held tasks in front of it.
LEMMA NextPending ==
    ASSUME TypeOK, TypeOK', Structure, [Next]_vars
    PROVE  \A t \in pending' : Active(t)'
<1> USE DEF registryVars, tableVars
<1> DEFINE Goal == \A t \in pending' : Active(t)'
<1>a. \A S \in SUBSET Node : \A t \in AffectedBy(S) : Active(t)
    <2> SUFFICES ASSUME NEW S \in SUBSET Node, NEW t \in AffectedBy(S) PROVE Active(t)
        OBVIOUS
    <2>1. t \in Task /\ tasks[t].node # NoNode
        BY ConfigAssumption DEF AffectedBy, Node, NoNode
    <2> QED
        BY <2>1 DEF AffectedBy, Active, TaskStates, TaskTerminal, Structure
<1>1. CASE RequeueTask
    <2>1. FirstPending \in Task
        BY <1>1, FirstPendingIsPending DEF RequeueTask, TypeOK
    <2>2. \A u \in Task \ {FirstPending} : tasks'[u] = tasks[u]
        BY <1>1, <2>1 DEF RequeueTask, RetryOrGiveUp, TypeOK
    <2>3. pending' = pending \ {FirstPending} /\ pending \subseteq Task
        BY <1>1 DEF RequeueTask, TypeOK
    <2> QED
        BY <2>2, <2>3 DEF Active, Structure
<1>2. CASE /\ tasks' = tasks
           /\ \/ pending' = pending
              \/ \E S \in SUBSET Node : pending' = AffectedBy(S)
    BY <1>2, <1>a DEF Active, Structure
<1>3. CASE pending' = {}
    BY <1>3
<1>4. CASE RefreshLeadership
    BY <1>4, <1>2 DEF RefreshLeadership
<1>5. CASE DispatchDone
    BY <1>5, <1>3 DEF DispatchDone, Dispatching
<1>6. ASSUME NEW n \in Node, DispatchSent(n) \/ DispatchUnsent(n) PROVE Goal
    BY <1>6, <1>3 DEF DispatchSent, DispatchUnsent, Dispatching
<1>7. CASE PruneMemory
    BY <1>7, <1>3 DEF PruneMemory
<1>8. CASE Tick
    BY SMTT(30), <1>8, <1>2 DEF Tick
<1>9. ASSUME NEW n \in Node, \/ Silence(n) \/ HeartbeatReport(n) \/ AttachRemote(n) \/ StartNode(n)
      PROVE  Goal
    BY <1>9, <1>3 DEF Silence, HeartbeatReport, AttachRemote, StartNode, Idle
<1>10. ASSUME NEW n \in Node, NEW t \in Task, TaskStarted(n, t) \/ TaskCompleted(n, t) \/ TaskFailed(n, t)
       PROVE  Goal
    BY <1>10, <1>3 DEF TaskStarted, TaskCompleted, TaskFailed, Idle
<1>11. ASSUME NEW stored \in BOOLEAN, SubmitJob(stored) PROVE Goal
    BY <1>11, <1>3 DEF SubmitJob, Idle
<1>12. ASSUME NEW n \in Node, NEW role \in Role, NEW enabled \in BOOLEAN, SetRole(n, role, enabled)
       PROVE  Goal
    BY <1>12, <1>3 DEF SetRole, Idle
<1>13. ASSUME NEW n \in Node, StopNode(n) PROVE Goal
    <2>1. {n} \in SUBSET Node
        OBVIOUS
    <2> QED
        BY <1>13, <1>2, <2>1 DEF StopNode
<1>14. ASSUME NEW n \in Node, NEW gen \in 1 .. MaxGen, DetachRemote(n, gen) PROVE Goal
    <2>1. {n} \in SUBSET Node
        OBVIOUS
    <2> QED
        BY <1>14, <1>2, <2>1 DEF DetachRemote
<1>15. CASE UNCHANGED vars
    BY <1>15, <1>2 DEF vars
<1> QED
    BY Zenon, <1>1, <1>4, <1>5, <1>6, <1>7, <1>8, <1>9, <1>10, <1>11, <1>12, <1>13, <1>14, <1>15,
       ConfigAssumption DEF Next, HandlerStep
=============================================================================
