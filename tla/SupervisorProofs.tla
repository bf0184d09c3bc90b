-------------------------- MODULE SupervisorProofs --------------------------
(* Proofs about Supervisor: the queue, the counters and the settling of    *)
(* jobs, for every configuration.                                          *)
EXTENDS EffectProofs

(* The queue.                                                              *)

\* Taking the head, putting it back, appending a retry, appending a new job's
\* block and forgetting settled jobs all keep the queue exact.
LEMMA EffectQueue ==
    ASSUME TypeOK, TypeOK', Structure, QueueExact, JobsSettled, Effect
    PROVE  QueueExact'
<1>t. tasks \in [Task -> TaskRecord] /\ queue \in Seq(Task) /\ queue' \in Seq(Task) /\ issued \in Nat
    BY ConfigAssumption DEF TypeOK
<1>1. CASE Unmoved
    BY <1>1 DEF Unmoved, QueueExact
<1>2. ASSUME NEW t \in Task, NEW n \in Node, Place(t, n) PROVE QueueExact'
    <2>1. tasks'[t].state = "assigned" /\ \A u \in Task \ {t} : tasks'[u] = tasks[u]
        BY <1>2, <1>t DEF Place, Assigned
    <2>2. /\ Len(queue) > 0 /\ Len(queue') = Len(queue) - 1 /\ queue[1] = t
          /\ \A i \in 1 .. Len(queue') : queue'[i] = queue[i + 1]
        BY <1>2, <1>t DEF Place
    <2>3. \A i, k \in 1 .. Len(queue') : queue'[i] = queue'[k] => i = k
        <3> SUFFICES ASSUME NEW i \in 1 .. Len(queue'), NEW k \in 1 .. Len(queue'), queue'[i] = queue'[k]
                     PROVE  i = k
            OBVIOUS
        <3>1. i + 1 \in 1 .. Len(queue) /\ k + 1 \in 1 .. Len(queue)
            BY <2>2, <1>t
        <3>2. queue[i + 1] = queue[k + 1]
            BY <2>2
        <3>3. i + 1 = k + 1
            BY <3>1, <3>2 DEF QueueExact
        <3> QED
            BY <3>3
    <2>4. \A u \in Task : tasks'[u].state = "queued" => \E i \in 1 .. Len(queue') : queue'[i] = u
        <3> SUFFICES ASSUME NEW u \in Task, tasks'[u].state = "queued"
                     PROVE  \E i \in 1 .. Len(queue') : queue'[i] = u
            OBVIOUS
        <3>1. u # t /\ tasks[u].state = "queued"
            BY <2>1
        <3>2. PICK i \in 1 .. Len(queue) : queue[i] = u
            BY <3>1 DEF QueueExact
        <3>3. i - 1 \in 1 .. Len(queue')
            BY <3>1, <3>2, <2>2, <1>t
        <3>4. queue'[i - 1] = queue[(i - 1) + 1] /\ (i - 1) + 1 = i
            BY <3>3, <2>2
        <3> QED
            BY <3>2, <3>3, <3>4
    <2>5. \A i \in 1 .. Len(queue') : tasks'[queue'[i]].state = "queued"
        <3> SUFFICES ASSUME NEW i \in 1 .. Len(queue') PROVE tasks'[queue'[i]].state = "queued"
            OBVIOUS
        <3>1. i + 1 \in 1 .. Len(queue) /\ i + 1 # 1 /\ queue'[i] = queue[i + 1] /\ 1 \in 1 .. Len(queue)
            BY <2>2, <1>t
        <3>2. queue[i + 1] \in Task /\ queue[i + 1] # queue[1]
            BY <3>1, <1>t DEF QueueExact
        <3>3. tasks[queue[i + 1]].state = "queued"
            BY <3>1, <3>2 DEF QueueExact
        <3> QED
            BY <3>1, <3>2, <3>3, <2>1, <2>2
    <2> QED
        BY <2>3, <2>4, <2>5 DEF QueueExact
<1>3. ASSUME NEW t \in Task, NEW n \in Node, Bounce(t, n) PROVE QueueExact'
    <2>1. tasks'[t].state = "queued" /\ tasks[t].state = "queued" /\ \A u \in Task \ {t} : tasks'[u] = tasks[u]
        BY <1>3, <1>t DEF Bounce, Assigned, Requeued
    <2>2. Len(queue') = Len(queue) /\ \A i \in 1 .. Len(queue) : queue'[i] = queue[i]
        BY <1>3, <1>t DEF Bounce
    <2> QED
        BY <2>1, <2>2 DEF QueueExact
<1>4. ASSUME NEW t \in Task, Begin(t) PROVE QueueExact'
    <2>1. tasks'[t].state = "running" /\ tasks[t].state # "queued" /\ \A u \in Task \ {t} : tasks'[u] = tasks[u]
        BY <1>4, <1>t DEF Begin, With, TaskRecord
    <2> QED
        BY <1>4, <2>1 DEF QueueExact, Begin
<1>5. ASSUME NEW t \in Task, Retry(t) PROVE QueueExact'
    <2>1. tasks'[t].state = "queued" /\ tasks[t].state # "queued" /\ \A u \in Task \ {t} : tasks'[u] = tasks[u]
        BY <1>5, <1>t DEF Retry, Requeued, Active
    <2>2. /\ Len(queue') = Len(queue) + 1 /\ queue'[Len(queue) + 1] = t
          /\ \A i \in 1 .. Len(queue) : queue'[i] = queue[i]
        BY <1>5, <1>t DEF Retry
    <2>3. \A i \in 1 .. Len(queue) : queue[i] # t
        BY <2>1 DEF QueueExact
    <2>4. \A i, k \in 1 .. Len(queue') : queue'[i] = queue'[k] => i = k
        BY <2>2, <2>3, <1>t DEF QueueExact
    <2>5. \A u \in Task : tasks'[u].state = "queued" <=> \E i \in 1 .. Len(queue') : queue'[i] = u
        <3>1. \A i \in 1 .. Len(queue') : i \in 1 .. Len(queue) \/ i = Len(queue) + 1
            BY <2>2, <1>t
        <3>2. \A i \in 1 .. Len(queue) : i \in 1 .. Len(queue')
            BY <2>2, <1>t
        <3>3. Len(queue) + 1 \in 1 .. Len(queue')
            BY <2>2, <1>t
        <3> QED
            BY <2>1, <2>2, <2>3, <3>1, <3>2, <3>3 DEF QueueExact
    <2> QED
        BY <2>4, <2>5 DEF QueueExact
<1>6. ASSUME NEW t \in Task, NEW s \in {"completed", "failed"}, NEW c \in Nat, NEW f \in Nat, End(t, s, c, f)
      PROVE  QueueExact'
    <2>1. tasks'[t].state = s /\ tasks[t].state # "queued" /\ \A u \in Task \ {t} : tasks'[u] = tasks[u]
        BY <1>6, <1>t DEF End, With, TaskRecord, Active
    <2> QED
        BY <1>6, <2>1 DEF QueueExact, End
<1>7. ASSUME NEW stored \in BOOLEAN, Create(stored) PROVE QueueExact'
    <2> DEFINE j == issued + 1
               block == [i \in 1 .. TaskCount[j] |-> FirstTask[j] + i - 1]
    <2>1. j \in Job /\ issued < j /\ TaskCount[j] \in Nat /\ FirstTask[j] \in Nat
        BY <1>7, <1>t, ConfigAssumption, AllocationAssumption DEF Create, Job
    <2>2. CASE ~ stored
        BY <1>7, <2>2 DEF Create, QueueExact
    <2>3. CASE stored
        <3>1. TasksOf(j) \subseteq Task
            BY <2>1 DEF Task
        <3>2. \A t \in TasksOf(j) : tasks[t].state = "none"
            BY <2>1, <3>1, OneJobPerTask DEF Structure
        <3>3. \A i \in 1 .. Len(queue) : queue[i] \in Task /\ queue[i] \notin TasksOf(j)
            BY <3>2, <1>t DEF QueueExact
        <3>4. /\ Len(block) = TaskCount[j] /\ block \in Seq(Task)
              /\ \A i \in 1 .. TaskCount[j] : block[i] = FirstTask[j] + i - 1 /\ block[i] \in TasksOf(j)
            <4>1. \A i \in 1 .. TaskCount[j] : block[i] = FirstTask[j] + i - 1 /\ block[i] \in TasksOf(j)
                BY <2>1 DEF TasksOf
            <4>2. \A i \in 1 .. TaskCount[j] : FirstTask[j] + i - 1 \in Task
                BY Zenon, <4>1, <3>1
            <4>3. [i \in 1 .. TaskCount[j] |-> FirstTask[j] + i - 1] \in Seq(Task)
                BY <4>2, <2>1
            <4>4. Len([i \in 1 .. TaskCount[j] |-> FirstTask[j] + i - 1]) = TaskCount[j]
                BY <2>1
            <4> QED
                BY Zenon, <4>1, <4>3, <4>4
        <3>5. queue' = queue \o block
            BY Zenon, <1>7, <2>3 DEF Create
        <3> HIDE DEF block
        <3>6. /\ Len(queue') = Len(queue) + TaskCount[j]
              /\ \A i \in 1 .. Len(queue) : queue'[i] = queue[i]
              /\ \A i \in 1 .. TaskCount[j] : queue'[Len(queue) + i] = block[i]
            BY <3>4, <3>5, <1>t, <2>1
        <3>7. \A i \in 1 .. Len(queue') : \/ i \in 1 .. Len(queue)
                                          \/ /\ i > Len(queue)
                                             /\ i - Len(queue) \in 1 .. TaskCount[j]
                                             /\ queue'[i] = FirstTask[j] + (i - Len(queue)) - 1
                                             /\ queue'[i] \in TasksOf(j)
            <4> SUFFICES ASSUME NEW i \in 1 .. Len(queue'), i \notin 1 .. Len(queue)
                         PROVE  /\ i > Len(queue)
                                /\ i - Len(queue) \in 1 .. TaskCount[j]
                                /\ queue'[i] = FirstTask[j] + (i - Len(queue)) - 1
                                /\ queue'[i] \in TasksOf(j)
                OBVIOUS
            <4>1. i > Len(queue) /\ i - Len(queue) \in 1 .. TaskCount[j]
                BY <3>6, <1>t, <2>1
            <4>2. Len(queue) + (i - Len(queue)) = i
                BY <1>t
            <4>3. queue'[i] = block[i - Len(queue)]
                BY <4>1, <4>2, <3>6
            <4> QED
                BY <4>1, <4>3, <3>4
        <3>8. \A i, k \in 1 .. Len(queue') : queue'[i] = queue'[k] => i = k
            <4> SUFFICES ASSUME NEW i \in 1 .. Len(queue'), NEW k \in 1 .. Len(queue'), queue'[i] = queue'[k]
                         PROVE  i = k
                OBVIOUS
            <4>1. CASE i \in 1 .. Len(queue) /\ k \in 1 .. Len(queue)
                BY <4>1, <3>6 DEF QueueExact
            <4>2. CASE i \notin 1 .. Len(queue) /\ k \notin 1 .. Len(queue)
                BY <4>2, <3>7, <2>1, <1>t
            <4>3. CASE (i \in 1 .. Len(queue)) # (k \in 1 .. Len(queue))
                BY <4>3, <3>3, <3>6, <3>7
            <4> QED
                BY <4>1, <4>2, <4>3
        <3>9. \A u \in Task : IF u \in TasksOf(j) THEN tasks'[u].state = "queued" ELSE tasks'[u] = tasks[u]
            BY <1>7, <2>3 DEF Create, NewTask
        <3>10. \A u \in TasksOf(j) : \E i \in 1 .. Len(queue') : queue'[i] = u
            <4> SUFFICES ASSUME NEW u \in TasksOf(j) PROVE \E i \in 1 .. Len(queue') : queue'[i] = u
                OBVIOUS
            <4> DEFINE i == u - FirstTask[j] + 1
            <4>1. i \in 1 .. TaskCount[j] /\ FirstTask[j] + i - 1 = u
                BY <2>1 DEF TasksOf
            <4>2. Len(queue) + i \in 1 .. Len(queue')
                BY SMTT(30), <4>1, <3>6, <1>t, <2>1
            <4>3. queue'[Len(queue) + i] = u
                BY <4>1, <3>6, <3>4
            <4> QED
                BY <4>2, <4>3
        <3>11. \A i \in 1 .. Len(queue) : i \in 1 .. Len(queue')
            BY <3>6, <1>t, <2>1
        <3>12. \A u \in Task : tasks'[u].state = "queued" <=> \E i \in 1 .. Len(queue') : queue'[i] = u
            <4> SUFFICES ASSUME NEW u \in Task
                         PROVE  tasks'[u].state = "queued" <=> \E i \in 1 .. Len(queue') : queue'[i] = u
                OBVIOUS
            <4>1. CASE u \in TasksOf(j)
                BY <4>1, <3>9, <3>10
            <4>2. CASE u \notin TasksOf(j)
                BY <4>2, <3>9, <3>7, <3>6, <3>11 DEF QueueExact
            <4> QED
                BY <4>1, <4>2
        <3> QED
            BY <3>8, <3>12 DEF QueueExact
    <2> QED
        BY <2>2, <2>3
<1>8. CASE Drop(Removable)
    <2>1. \A t \in Task : JobOf(t) \in Removable => tasks[t].state # "queued"
        BY JobOfTask DEF JobsSettled, Removable, TaskTerminal
    <2>2. \A t \in Task : IF JobOf(t) \in Removable THEN tasks'[t].state = "none" ELSE tasks'[t] = tasks[t]
        BY <1>8 DEF Drop, NoTask
    <2> QED
        BY <1>8, <2>1, <2>2 DEF Drop, QueueExact
<1> QED
    BY <1>1, <1>2, <1>3, <1>4, <1>5, <1>6, <1>7, <1>8 DEF Effect
-----------------------------------------------------------------------------
(* Counters and the settling of jobs.                                      *)

\* A job has finitely many tasks, as many as JobSpec::task_count says.
LEMMA TasksOfFinite ==
    ASSUME NEW j \in Job
    PROVE  /\ IsFiniteSet(TasksOf(j)) /\ Cardinality(TasksOf(j)) = TaskCount[j]
           /\ TaskCount[j] \in Nat \ {0} /\ TasksOf(j) # {} /\ TasksOf(j) \subseteq Task
<1>1. FirstTask[j] \in Int /\ FirstTask[j] + TaskCount[j] - 1 \in Int /\ TaskCount[j] \in Nat \ {0}
    BY AllocationAssumption
<1>2. FirstTask[j] \in TasksOf(j)
    BY <1>1 DEF TasksOf
<1>3. TasksOf(j) \subseteq Task
    BY DEF Task
<1> DEFINE a == FirstTask[j]
           b == FirstTask[j] + TaskCount[j] - 1
<1>4. IsFiniteSet(a .. b) /\ Cardinality(a .. b) = IF a > b THEN 0 ELSE b - a + 1
    BY Zenon, <1>1, FS_Interval
<1>5. ~ (a > b) /\ b - a + 1 = TaskCount[j]
    BY <1>1, AllocationAssumption
<1>6. IsFiniteSet(TasksOf(j)) /\ Cardinality(TasksOf(j)) = TaskCount[j]
    BY <1>4, <1>5 DEF TasksOf
<1> QED
    BY <1>1, <1>2, <1>3, <1>6

\* Two disjoint parts of a finite set are all of it when their sizes add up.
LEMMA PartsFill ==
    ASSUME NEW T, IsFiniteSet(T), NEW C \in SUBSET T, NEW F \in SUBSET T, C \cap F = {}
    PROVE  /\ IsFiniteSet(C) /\ Cardinality(C) \in Nat
           /\ IsFiniteSet(F) /\ Cardinality(F) \in Nat
           /\ Cardinality(C) + Cardinality(F) >= Cardinality(T) <=> C \cup F = T
           /\ Cardinality(F) > 0 <=> F # {}
<1>1. IsFiniteSet(C) /\ IsFiniteSet(F)
    BY FS_Subset
<1>2. Cardinality(C) \in Nat /\ Cardinality(F) \in Nat /\ Cardinality(T) \in Nat
    BY <1>1, FS_CardinalityType
<1>3. IsFiniteSet(C \cup F) /\ Cardinality(C \cup F) = Cardinality(C) + Cardinality(F)
    <2>1. /\ IsFiniteSet(C \cup F)
          /\ Cardinality(C \cup F) = Cardinality(C) + Cardinality(F) - Cardinality(C \cap F)
        BY <1>1, FS_Union
    <2>2. Cardinality(C \cap F) = 0
        BY FS_EmptySet
    <2> QED
        BY <1>2, <2>1, <2>2
<1>4. C \cup F \in SUBSET T
    OBVIOUS
<1>5. Cardinality(C \cup F) <= Cardinality(T) /\ (Cardinality(T) = Cardinality(C \cup F) => T = C \cup F)
    BY <1>4, FS_Subset
<1>6. Cardinality(F) = 0 <=> F = {}
    BY <1>1, FS_EmptySet
<1>7. Cardinality(C) + Cardinality(F) >= Cardinality(T) <=> C \cup F = T
    BY <1>2, <1>3, <1>5
<1>8. Cardinality(F) > 0 <=> F # {}
    BY <1>2, <1>6
<1> QED
    BY <1>1, <1>2, <1>7, <1>8

\* An effect that ends no task leaves the settling of every job as it was.
LEMMA NothingEnded ==
    ASSUME TypeOK, CountersExact, JobsSettled, NEW t \in Task,
           ~ TaskTerminal(tasks[t].state), ~ TaskTerminal(tasks'[t].state),
           \A u \in Task \ {t} : tasks'[u] = tasks[u],
           \A j \in Job : /\ jobs'[j].completed = jobs[j].completed
                          /\ jobs'[j].failed = jobs[j].failed
                          /\ \/ jobs'[j].state = jobs[j].state
                             \/ jobs[j].state = "queued" /\ jobs'[j].state = "running",
           jobs'[JobOf(t)].state = "queued" => tasks'[t].state = "queued"
    PROVE  CountersExact' /\ JobsSettled'
<1>1. \A u \in Task : /\ tasks'[u].state = "completed" <=> tasks[u].state = "completed"
                      /\ tasks'[u].state = "failed" <=> tasks[u].state = "failed"
                      /\ TaskTerminal(tasks'[u].state) <=> TaskTerminal(tasks[u].state)
    BY DEF TaskTerminal
<1>2. \A j \in Job : CompletedOf(j)' = CompletedOf(j) /\ FailedOf(j)' = FailedOf(j)
    BY <1>1, TasksOfFinite DEF CompletedOf, FailedOf
<1>3. InMemory' = InMemory /\ InMemory \subseteq Job
    BY DEF InMemory
<1>4. CountersExact'
    BY <1>2, <1>3 DEF CountersExact
<1>5. JobsSettled'
    <2> SUFFICES ASSUME NEW j \in InMemory
                 PROVE  /\ JobTerminal(jobs'[j].state) <=> \A u \in TasksOf(j) : TaskTerminal(tasks'[u].state)
                        /\ jobs'[j].state = "completed" <=> \A u \in TasksOf(j) : tasks'[u].state = "completed"
                        /\ jobs'[j].state = "queued" => \A u \in TasksOf(j) : tasks'[u].state = "queued"
        BY Zenon, <1>3 DEF JobsSettled
    <2>1. j \in Job /\ TasksOf(j) \subseteq Task
        BY Zenon, <1>3, TasksOfFinite
    <2>2. JobTerminal(jobs'[j].state) <=> JobTerminal(jobs[j].state)
        BY Zenon, <2>1 DEF JobTerminal
    <2>3. jobs'[j].state = "completed" <=> jobs[j].state = "completed"
        BY <2>1
    <2>4. ASSUME jobs'[j].state = "queued", NEW u \in TasksOf(j) PROVE tasks'[u].state = "queued"
        <3>1. jobs[j].state = "queued"
            BY <2>1, <2>4
        <3>2. tasks[u].state = "queued"
            BY <2>4, <3>1 DEF JobsSettled
        <3>3. CASE u = t
            <4>1. JobOf(t) = j
                BY <3>3, <2>1, <2>4, OneJobPerTask
            <4> QED
                BY <3>3, <4>1, <2>4
        <3> QED
            BY <3>2, <3>3, <2>1, <2>4
    <2> QED
        BY <1>1, <2>1, <2>2, <2>3, <2>4 DEF JobsSettled
<1> QED
    BY <1>4, <1>5

\* The end of a task is counted once, and settles its job exactly when it was
\* the last one.
LEMMA EndCounted ==
    ASSUME TypeOK, Structure, CountersExact, JobsSettled, NEW t \in Task,
           NEW s \in {"completed", "failed"}, NEW c \in Nat, NEW f \in Nat,
           s = "completed" => c = 1 /\ f = 0,
           s = "failed" => c = 0 /\ f = 1,
           End(t, s, c, f)
    PROVE  CountersExact' /\ JobsSettled'
<1> DEFINE j == JobOf(t)
           T == TasksOf(j)
           C == CompletedOf(j)
           F == FailedOf(j)
           CC == {u \in T : tasks'[u].state = "completed"}
           FF == {u \in T : tasks'[u].state = "failed"}
           job == Counted(jobs[j], c, f)
<1>1. j \in Job /\ t \in T /\ T \subseteq Task /\ IsFiniteSet(T) /\ Cardinality(T) = TaskCount[j]
    BY JobOfTask, TasksOfFinite
<1>2. tasks'[t].state = s /\ \A u \in Task \ {t} : tasks'[u] = tasks[u]
    BY DEF End, With, TypeOK, TaskRecord
<1>3. tasks[t].state \in {"assigned", "running"}
    BY DEF End, Active
<1>4. jobs[j] \in JobRecord /\ jobs[j].state = "running" /\ j \in InMemory
    <2>1. jobs[j] \in JobRecord /\ jobs[j].state # "none" /\ jobs[j].state # "cancelled"
        BY <1>1, <1>3 DEF TypeOK, Structure
    <2>2. j \in InMemory
        BY Zenon, <1>1, <2>1 DEF InMemory
    <2>3. ~ JobTerminal(jobs[j].state) /\ jobs[j].state # "queued"
        BY <1>1, <1>3, <2>2 DEF JobsSettled, TaskTerminal
    <2> QED
        BY <2>1, <2>2, <2>3 DEF JobRecord, JobStates, JobTerminal
<1>5. /\ CC = IF s = "completed" THEN C \cup {t} ELSE C
      /\ FF = IF s = "failed" THEN F \cup {t} ELSE F
    BY <1>1, <1>2, <1>3 DEF CompletedOf, FailedOf
<1>6. /\ C \in SUBSET T /\ F \in SUBSET T /\ C \cap F = {} /\ t \notin C /\ t \notin F
      /\ CC \in SUBSET T /\ FF \in SUBSET T /\ CC \cap FF = {}
    BY <1>3 DEF CompletedOf, FailedOf
<1>7. Cardinality(CC) = jobs[j].completed + c /\ Cardinality(FF) = jobs[j].failed + f
    <2>1. IsFiniteSet(C) /\ IsFiniteSet(F)
        BY Zenon, <1>1, <1>6, FS_Subset
    <2>2. jobs[j].completed = Cardinality(C) /\ jobs[j].failed = Cardinality(F)
        BY <1>4 DEF CountersExact
    <2>3. Cardinality(C \cup {t}) = Cardinality(C) + 1 /\ Cardinality(F \cup {t}) = Cardinality(F) + 1
        BY Zenon, <1>6, <2>1, FS_AddElement
    <2>4. Cardinality(C) \in Nat /\ Cardinality(F) \in Nat
        BY <2>1, FS_CardinalityType
    <2> HIDE DEF CC, FF, C, F
    <2>5. CASE s = "completed"
        <3>1. CC = C \cup {t} /\ FF = F /\ c = 1 /\ f = 0
            BY <2>5, <1>5
        <3> QED
            BY <3>1, <2>2, <2>3, <2>4
    <2>6. CASE s = "failed"
        <3>1. CC = C /\ FF = F \cup {t} /\ c = 0 /\ f = 1
            BY <2>6, <1>5
        <3> QED
            BY <3>1, <2>2, <2>3, <2>4
    <2> QED
        BY <2>5, <2>6
<1>8. /\ job.completed = Cardinality(CC) /\ job.failed = Cardinality(FF) /\ job.state = "running"
      /\ job \in JobRecord
    BY <1>4, <1>7 DEF Counted, JobRecord
<1>9. /\ job.completed + job.failed >= TaskCount[j] <=> CC \cup FF = T
      /\ job.failed > 0 <=> FF # {}
    BY SMTT(30), <1>1, <1>6, <1>8, PartsFill
<1>10. /\ jobs'[j] = Settled(j, job) /\ \A k \in Job \ {j} : jobs'[k] = jobs[k]
    BY Zenon, <1>1, <1>4, CountTaskFrame DEF End
<1>11. /\ jobs'[j].completed = job.completed /\ jobs'[j].failed = job.failed
    BY ZenonT(30), <1>1, <1>8, <1>10, SettledType
<1>12. jobs'[j].state = IF CC \cup FF = T THEN (IF FF # {} THEN "failed" ELSE "completed") ELSE "running"
    BY <1>8, <1>9, <1>10 DEF Settled, JobTerminal, JobCanBecome, JobRecord
<1>13. \A k \in Job \ {j} : \A u \in TasksOf(k) : u \in Task /\ tasks'[u] = tasks[u]
    BY <1>1, <1>2, OneJobPerTask, TasksOfFinite
<1>14. \A k \in Job \ {j} : CompletedOf(k)' = CompletedOf(k) /\ FailedOf(k)' = FailedOf(k)
    BY <1>13 DEF CompletedOf, FailedOf
<1>15. InMemory' = InMemory /\ InMemory \subseteq Job
    BY Zenon, <1>4, <1>10, <1>12 DEF InMemory
<1>16. CountersExact'
    <2>1. CompletedOf(j)' = CC /\ FailedOf(j)' = FF
        BY DEF CompletedOf, FailedOf
    <2>2. ASSUME NEW k \in InMemory
          PROVE  /\ jobs'[k].completed = Cardinality(CompletedOf(k)')
                 /\ jobs'[k].failed = Cardinality(FailedOf(k)')
        <3> HIDE DEF CC, FF, C, F
        <3>1. CASE k = j
            BY Zenon, <3>1, <2>1, <1>8, <1>11
        <3>2. CASE k # j
            BY <3>2, <1>10, <1>14, <1>15 DEF CountersExact
        <3> QED
            BY <3>1, <3>2
    <2> QED
        BY <2>2, <1>15 DEF CountersExact
<1>17. JobsSettled'
    <2> SUFFICES ASSUME NEW k \in InMemory
                 PROVE  /\ JobTerminal(jobs'[k].state) <=> \A u \in TasksOf(k) : TaskTerminal(tasks'[u].state)
                        /\ jobs'[k].state = "completed" <=> \A u \in TasksOf(k) : tasks'[u].state = "completed"
                        /\ jobs'[k].state = "queued" => \A u \in TasksOf(k) : tasks'[u].state = "queued"
        BY <1>15 DEF JobsSettled
    <2>1. CASE k # j
        BY <2>1, <1>10, <1>13, <1>15 DEF JobsSettled
    <2>2. CASE k = j
        <3>1. CC \cup FF = T <=> \A u \in T : TaskTerminal(tasks'[u].state)
            BY DEF TaskTerminal
        <3>2. CC \cup FF = T /\ FF = {} <=> \A u \in T : tasks'[u].state = "completed"
            OBVIOUS
        <3> HIDE DEF CC, FF, T
        <3> QED
            BY <2>2, <3>1, <3>2, <1>12 DEF JobTerminal, T
    <2> QED
        BY Zenon, <2>1, <2>2
<1> QED
    BY <1>16, <1>17

\* Every effect keeps the counters exact and the jobs settled as they should be.
LEMMA EffectJobs ==
    ASSUME TypeOK, TypeOK', Structure, CountersExact, JobsSettled, Effect
    PROVE  CountersExact' /\ JobsSettled'
<1>t. tasks \in [Task -> TaskRecord] /\ jobs \in [Job -> JobRecord] /\ issued \in Nat
    BY ConfigAssumption DEF TypeOK
<1>j. \A t \in Task : JobOf(t) \in Job /\ t \in TasksOf(JobOf(t))
    BY JobOfTask
<1>u. ASSUME UNCHANGED <<jobs, tasks>> PROVE CountersExact' /\ JobsSettled'
    <2>1. InMemory' = InMemory /\ \A j \in Job : CompletedOf(j)' = CompletedOf(j) /\ FailedOf(j)' = FailedOf(j)
        BY <1>u DEF InMemory, CompletedOf, FailedOf
    <2>2. InMemory \subseteq Job
        BY DEF InMemory
    <2>3. CountersExact'
        BY <1>u, <2>1, <2>2 DEF CountersExact
    <2>4. JobsSettled'
        BY <1>u, <2>1 DEF JobsSettled
    <2> QED
        BY <2>3, <2>4
<1>1. CASE Unmoved
    BY <1>1, <1>u DEF Unmoved
<1>2. ASSUME NEW t \in Task, NEW n \in Node, Place(t, n) PROVE CountersExact' /\ JobsSettled'
    <2>1. /\ tasks'[t].state = "assigned" /\ tasks[t].state = "queued"
          /\ \A u \in Task \ {t} : tasks'[u] = tasks[u]
        BY <1>2, <1>t DEF Place, Assigned
    <2>2. \A j \in Job : LET job == [jobs[j] EXCEPT !.state = "running"]
                         IN /\ job.state = "running" /\ job.completed = jobs[j].completed
                            /\ job.failed = jobs[j].failed
        BY <1>t DEF JobRecord
    <2>3. \A j \in Job : /\ jobs'[j].completed = jobs[j].completed
                         /\ jobs'[j].failed = jobs[j].failed
                         /\ \/ jobs'[j].state = jobs[j].state
                            \/ jobs[j].state = "queued" /\ jobs'[j].state = "running"
        BY <1>2, <1>t, <1>j, <2>2 DEF Place
    <2>4. jobs'[JobOf(t)].state # "queued"
        BY <1>2, <1>t, <1>j, <2>2 DEF Place
    <2> QED
        BY <2>1, <2>3, <2>4, NothingEnded DEF TaskTerminal
<1>3. ASSUME NEW t \in Task, NEW n \in Node, Bounce(t, n) PROVE CountersExact' /\ JobsSettled'
    <2>1. /\ tasks'[t].state = "queued" /\ tasks[t].state = "queued"
          /\ \A u \in Task \ {t} : tasks'[u] = tasks[u]
        BY <1>3, <1>t DEF Bounce, Assigned, Requeued
    <2> QED
        BY <1>3, <2>1, NothingEnded DEF Bounce, TaskTerminal
<1>a. \A t \in Task : Active(t) => jobs[JobOf(t)].state # "queued"
    <2> SUFFICES ASSUME NEW t \in Task, Active(t), jobs[JobOf(t)].state = "queued" PROVE FALSE
        OBVIOUS
    <2>1. JobOf(t) \in InMemory
        BY <1>j DEF InMemory
    <2> QED
        BY <2>1, <1>j DEF JobsSettled, Active
<1>4. ASSUME NEW t \in Task, Begin(t) PROVE CountersExact' /\ JobsSettled'
    <2>1. /\ tasks'[t].state = "running" /\ tasks[t].state = "assigned"
          /\ \A u \in Task \ {t} : tasks'[u] = tasks[u]
        BY <1>4, <1>t DEF Begin, With, TaskRecord
    <2>2. jobs'[JobOf(t)].state # "queued"
        BY <1>4, <1>a DEF Begin, Active
    <2> QED
        BY <1>4, <2>1, <2>2, NothingEnded DEF Begin, TaskTerminal
<1>5. ASSUME NEW t \in Task, Retry(t) PROVE CountersExact' /\ JobsSettled'
    <2>1. /\ tasks'[t].state = "queued" /\ tasks[t].state \in {"assigned", "running"}
          /\ \A u \in Task \ {t} : tasks'[u] = tasks[u]
        BY <1>5, <1>t DEF Retry, Requeued, Active
    <2> QED
        BY <1>5, <2>1, NothingEnded DEF Retry, TaskTerminal
<1>6. ASSUME NEW t \in Task, End(t, "completed", 1, 0) \/ End(t, "failed", 0, 1)
      PROVE  CountersExact' /\ JobsSettled'
    BY <1>6, EndCounted
<1>7. ASSUME NEW stored \in BOOLEAN, Create(stored) PROVE CountersExact' /\ JobsSettled'
    <2>1. PICK j \in Job : j = issued + 1
        BY <1>7, <1>t, ConfigAssumption DEF Create, Job
    <2>2. CASE ~ stored
        BY <1>7, <2>2, <1>u DEF Create
    <2>3. CASE stored
        <3>1. jobs'[j] = NewJob /\ \A k \in Job \ {j} : jobs'[k] = jobs[k]
            BY <1>7, <2>1, <2>3, <1>t DEF Create
        <3>2. \A u \in TasksOf(j) : u \in Task /\ tasks'[u].state = "queued"
            BY <1>7, <2>1, <2>3, TasksOfFinite DEF Create, NewTask
        <3>3. \A k \in Job \ {j} : \A u \in TasksOf(k) : u \in Task /\ tasks'[u] = tasks[u]
            BY <1>7, <2>1, <2>3, TasksOfFinite, OneJobPerTask DEF Create
        <3>4. CompletedOf(j)' = {} /\ FailedOf(j)' = {}
            BY <3>2 DEF CompletedOf, FailedOf
        <3>5. \A k \in Job \ {j} : CompletedOf(k)' = CompletedOf(k) /\ FailedOf(k)' = FailedOf(k)
            BY <3>3 DEF CompletedOf, FailedOf
        <3>6. InMemory' \subseteq Job /\ \A k \in InMemory' \ {j} : k \in InMemory
            BY <3>1 DEF InMemory
        <3>7. CountersExact'
            <4>1. ASSUME NEW k \in InMemory'
                  PROVE  /\ jobs'[k].completed = Cardinality(CompletedOf(k)')
                         /\ jobs'[k].failed = Cardinality(FailedOf(k)')
                <5>1. CASE k = j
                    BY <5>1, <3>1, <3>4, FS_EmptySet DEF NewJob
                <5>2. CASE k # j
                    BY <5>2, <3>1, <3>5, <3>6 DEF CountersExact
                <5> QED
                    BY <5>1, <5>2
            <4> QED
                BY <4>1 DEF CountersExact
        <3>8. JobsSettled'
            <4> SUFFICES ASSUME NEW k \in InMemory'
                         PROVE  /\ JobTerminal(jobs'[k].state) <=> \A u \in TasksOf(k) : TaskTerminal(tasks'[u].state)
                                /\ jobs'[k].state = "completed" <=> \A u \in TasksOf(k) : tasks'[u].state = "completed"
                                /\ jobs'[k].state = "queued" => \A u \in TasksOf(k) : tasks'[u].state = "queued"
                BY DEF JobsSettled
            <4>1. CASE k = j
                <5>1. PICK u \in TasksOf(j) : TRUE
                    BY <2>1, TasksOfFinite
                <5> QED
                    BY <4>1, <5>1, <3>1, <3>2 DEF NewJob, JobTerminal, TaskTerminal
            <4>2. CASE k # j
                BY <4>2, <3>1, <3>3, <3>6 DEF JobsSettled
            <4> QED
                BY <4>1, <4>2
        <3> QED
            BY <3>7, <3>8
    <2> QED
        BY <2>2, <2>3
<1>8. CASE Drop(Removable)
    <2>1. \A k \in Job : IF k \in Removable THEN jobs'[k].state = "none" ELSE jobs'[k] = jobs[k]
        BY <1>8 DEF Drop, NoJob
    <2>2. InMemory' \subseteq InMemory \ Removable /\ InMemory \subseteq Job
        BY <2>1 DEF InMemory
    <2>3. \A k \in InMemory' : jobs'[k] = jobs[k] /\ \A u \in TasksOf(k) : tasks'[u] = tasks[u]
        BY <1>8, <2>1, <2>2, OneJobPerTask, TasksOfFinite DEF Drop
    <2>4. \A k \in InMemory' : CompletedOf(k)' = CompletedOf(k) /\ FailedOf(k)' = FailedOf(k)
        BY <2>3 DEF CompletedOf, FailedOf
    <2>5. CountersExact'
        BY <2>2, <2>3, <2>4 DEF CountersExact
    <2>6. JobsSettled'
        BY <2>2, <2>3 DEF JobsSettled
    <2> QED
        BY <2>5, <2>6
<1> QED
    BY Zenon, <1>1, <1>2, <1>3, <1>4, <1>5, <1>6, <1>7, <1>8 DEF Effect

\* The invariant that is inductive.
TablesInv == TypeOK /\ Structure /\ QueueExact /\ CountersExact /\ JobsSettled

\* The tables bootstrap leaves satisfy the invariant.
LEMMA InitTables == Init => TablesInv
<1> SUFFICES ASSUME Init PROVE TablesInv
    OBVIOUS
<1>1. TypeOK
    BY InitTypeOK
<1>2. Structure
    BY JobOfTask DEF Init, Structure, NoTask, NoJob, NoNode
<1>3. QueueExact
    BY DEF Init, QueueExact, NoTask
<1>4. InMemory = {}
    BY DEF Init, InMemory, NoJob
<1> QED
    BY <1>1, <1>2, <1>3, <1>4 DEF TablesInv, CountersExact, JobsSettled

\* Every step keeps the invariant of the tables.
LEMMA NextTables == TablesInv /\ [Next]_vars => TablesInv'
<1> SUFFICES ASSUME TablesInv, [Next]_vars PROVE TablesInv'
    OBVIOUS
<1>1. TypeOK'
    BY NextTypeOK DEF TablesInv
<1>2. Effect
    BY StepEffect DEF TablesInv
<1>3. Structure'
    BY Zenon, <1>1, <1>2, EffectStructure, NextPending DEF TablesInv, Structure
<1>4. QueueExact'
    BY <1>1, <1>2, EffectQueue DEF TablesInv
<1>5. CountersExact' /\ JobsSettled'
    BY <1>1, <1>2, EffectJobs DEF TablesInv
<1> QED
    BY <1>1, <1>3, <1>4, <1>5 DEF TablesInv

\* The inductive invariant of the tables: the queue, the counters and the
\* settling of jobs are exact together, each needing the others.
THEOREM TablesInvariant == Spec => []TablesInv
BY InitTables, NextTables, PTL DEF Spec

\* Every queued task is in the queue exactly once and nothing else is, whatever
\* is retried, swept, bounced or pruned.
THEOREM QueueIsExact == Spec => []QueueExact
BY TablesInvariant, PTL DEF TablesInv

\* The counters settle_job reads equal the scan of the task table it avoids.
THEOREM CountersAreExact == Spec => []CountersExact
BY TablesInvariant, PTL DEF TablesInv

\* A job is settled exactly when all its tasks are, with the right outcome.
THEOREM JobsSettleExactly == Spec => []JobsSettled
BY TablesInvariant, PTL DEF TablesInv
=============================================================================
