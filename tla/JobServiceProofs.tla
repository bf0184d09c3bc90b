-------------------------- MODULE JobServiceProofs --------------------------
(* The supervisor's tables implement JobService; what no step may undo;    *)
(* attempts and recorded failures.                                         *)
EXTENDS SupervisorProofs

\* The refinement mapping.
abstractJob == [j \in Job |-> jobs[j].state]
abstractTask == [t \in Task |-> IF Active(t) THEN "held" ELSE tasks[t].state]

\* The empty tables are the empty service.
LEMMA InitRefines == Init => Service!Init
<1> SUFFICES ASSUME Init PROVE Service!Init
    OBVIOUS
<1>1. [j \in Job |-> jobs[j].state] = [j \in Job |-> "none"]
    BY DEF Init, NoJob
<1>2. [t \in Task |-> IF Active(t) THEN "held" ELSE tasks[t].state] = [t \in Task |-> "none"]
    BY DEF Init, NoTask, Active
<1>3. 1 .. issued = {}
    BY DEF Init
<1> QED
    BY <1>1, <1>2, <1>3 DEF Service!Init

\* What one changed task looks like through the mapping.
LEMMA TaskMoved ==
    ASSUME TypeOK, TypeOK', NEW t \in Task, NEW s,
           \A u \in Task \ {t} : tasks'[u] = tasks[u],
           s = IF tasks'[t].state \in {"assigned", "running"} THEN "held" ELSE tasks'[t].state
    PROVE  abstractTask' = [abstractTask EXCEPT ![t] = s]
<1>1. \A u \in Task : abstractTask'[u] = IF u = t THEN s ELSE abstractTask[u]
    BY DEF abstractTask, Active
<1> QED
    BY Zenon, <1>1 DEF abstractTask

\* Every effect on the tables is a step of the service, or none.
LEMMA EffectRefines ==
    ASSUME TablesInv, TablesInv', Effect
    PROVE  Service!Next \/ UNCHANGED <<abstractJob, abstractTask, 1 .. issued>>
<1> DEFINE Goal == Service!Next \/ UNCHANGED <<abstractJob, abstractTask, 1 .. issued>>
<1>t. /\ TypeOK /\ TypeOK' /\ tasks \in [Task -> TaskRecord] /\ jobs \in [Job -> JobRecord]
      /\ tasks' \in [Task -> TaskRecord] /\ jobs' \in [Job -> JobRecord] /\ issued \in Nat
    BY ConfigAssumption DEF TablesInv, TypeOK
<1>j. \A t \in Task : JobOf(t) \in Job /\ t \in TasksOf(JobOf(t))
    BY JobOfTask
<1>u. \A j \in Job : \A t \in TasksOf(j) : t \in Task /\ JobOf(t) = j
    BY OneJobPerTask, TasksOfFinite
<1>1. CASE Unmoved
    BY <1>1 DEF Unmoved, abstractJob, abstractTask, Active
<1>2. ASSUME NEW t \in Task, NEW n \in Node, Place(t, n) PROVE Goal
    <2>1. /\ tasks'[t].state = "assigned" /\ tasks[t].state = "queued"
          /\ \A u \in Task \ {t} : tasks'[u] = tasks[u]
        BY <1>2, <1>t DEF Place, Assigned
    <2>2. abstractTask' = [abstractTask EXCEPT ![t] = "held"]
        BY <2>1, <1>t, TaskMoved
    <2>3. abstractTask[t] = "queued"
        BY <2>1 DEF abstractTask, Active
    <2>4. \A k \in Job : jobs'[k].state = IF k = JobOf(t) /\ jobs[k].state = "queued"
                                         THEN "running" ELSE jobs[k].state
        <3>1. \A k \in Job : [jobs[k] EXCEPT !.state = "running"].state = "running"
            BY <1>t DEF JobRecord
        <3> QED
            BY <1>2, <1>t, <1>j, <3>1 DEF Place
    <2>5. abstractJob' = IF abstractJob[JobOf(t)] = "queued"
                         THEN [abstractJob EXCEPT ![JobOf(t)] = "running"] ELSE abstractJob
        BY <2>4, <1>j DEF abstractJob
    <2>6. (1 .. issued)' = 1 .. issued
        BY <1>2 DEF Place
    <2>7. Service!Take(t)
        BY <2>2, <2>3, <2>5, <2>6 DEF Service!Take, abstractJob, abstractTask
    <2> QED
        BY <2>7 DEF Service!Next
<1>3. ASSUME NEW t \in Task, NEW n \in Node, Bounce(t, n) PROVE Goal
    <2>1. /\ tasks'[t].state = "queued" /\ tasks[t].state = "queued"
          /\ \A u \in Task \ {t} : tasks'[u] = tasks[u]
        BY <1>3, <1>t DEF Bounce, Assigned, Requeued
    <2>2. abstractTask' = [abstractTask EXCEPT ![t] = "queued"]
        BY <2>1, <1>t, TaskMoved
    <2>3. abstractTask[t] = "queued" /\ abstractTask' = abstractTask
        BY <2>1, <2>2 DEF abstractTask, Active
    <2> QED
        BY <1>3, <2>3 DEF Bounce, abstractJob
<1>4. ASSUME NEW t \in Task, Begin(t) PROVE Goal
    <2>1. /\ tasks'[t].state = "running" /\ tasks[t].state = "assigned"
          /\ \A u \in Task \ {t} : tasks'[u] = tasks[u]
        BY <1>4, <1>t DEF Begin, With, TaskRecord
    <2>2. abstractTask' = [abstractTask EXCEPT ![t] = "held"]
        BY <2>1, <1>t, TaskMoved
    <2>3. abstractTask[t] = "held" /\ abstractTask' = abstractTask
        BY <2>1, <2>2 DEF abstractTask, Active
    <2> QED
        BY <1>4, <2>3 DEF Begin, abstractJob
<1>5. ASSUME NEW t \in Task, Retry(t) PROVE Goal
    <2>1. /\ tasks'[t].state = "queued" /\ tasks[t].state \in {"assigned", "running"}
          /\ \A u \in Task \ {t} : tasks'[u] = tasks[u]
        BY <1>5, <1>t DEF Retry, Requeued, Active
    <2>2. abstractTask' = [abstractTask EXCEPT ![t] = "queued"]
        BY <2>1, <1>t, TaskMoved
    <2>3. abstractTask[t] = "held"
        BY <2>1 DEF abstractTask, Active
    <2>4. UNCHANGED <<abstractJob, 1 .. issued>>
        BY <1>5 DEF Retry, abstractJob
    <2>5. Service!GiveBack(t)
        BY <2>2, <2>3, <2>4 DEF Service!GiveBack, abstractJob, abstractTask
    <2> QED
        BY <2>5 DEF Service!Next
<1>6. ASSUME NEW t \in Task, NEW s \in {"completed", "failed"}, NEW c \in Nat, NEW f \in Nat, End(t, s, c, f)
      PROVE  Goal
    <2> DEFINE j == JobOf(t)
    <2>1. /\ tasks'[t].state = s /\ tasks[t].state \in {"assigned", "running"}
          /\ \A u \in Task \ {t} : tasks'[u] = tasks[u]
        BY <1>6, <1>t DEF End, With, TaskRecord, Active
    <2>2. abstractTask' = [abstractTask EXCEPT ![t] = s]
        BY <2>1, <1>t, TaskMoved
    <2>3. abstractTask[t] = "held" /\ (1 .. issued)' = 1 .. issued
        BY <1>6, <2>1 DEF abstractTask, Active, End
    <2>4. /\ j \in Job /\ t \in TasksOf(j) /\ jobs[j].state = "running" /\ j \in InMemory /\ j \in InMemory'
          /\ jobs'[j].state \in {"running", "completed", "failed"}
          /\ \A k \in Job \ {j} : jobs'[k] = jobs[k]
        <3>1. j \in Job /\ t \in TasksOf(j) /\ jobs[j].state # "none" /\ jobs[j].state # "cancelled"
            BY <1>j, <2>1 DEF TablesInv, Structure
        <3>2. j \in InMemory
            BY <3>1 DEF InMemory
        <3>3. jobs[j].state = "running"
            BY <3>1, <3>2, <2>1, <1>t DEF TablesInv, JobsSettled, TaskTerminal, JobTerminal, JobRecord, JobStates
        <3>4. /\ \A k \in Job \ {j} : jobs'[k] = jobs[k]
              /\ jobs'[j] = Settled(j, Counted(jobs[j], c, f))
            BY <1>6, <1>t, <3>1, CountTaskFrame DEF End
        <3>5. Counted(jobs[j], c, f).state = "running"
            BY <3>3 DEF Counted
        <3>6. Counted(jobs[j], c, f) \in JobRecord
            BY <1>t, <3>1 DEF Counted, JobRecord
        <3>7. jobs'[j].state \in {"running", "completed", "failed"}
            BY <3>4, <3>5, <3>6 DEF Settled, JobRecord
        <3>8. j \in InMemory'
            BY <3>1, <3>7 DEF InMemory
        <3> QED
            BY <3>1, <3>2, <3>3, <3>4, <3>7, <3>8
    <2>5. /\ Service!TasksIn(j) = TasksOf(j)
          /\ \A u \in TasksOf(j) : u \in Task
        BY <2>4, <1>j, <1>u DEF Service!TasksIn
    <2>6. \A u \in TasksOf(j) : abstractTask'[u] \in {"completed", "failed"} <=> TaskTerminal(tasks'[u].state)
        BY <2>5 DEF abstractTask, Active, TaskTerminal
    <2>7. \A u \in TasksOf(j) : abstractTask'[u] = "failed" <=> tasks'[u].state = "failed"
        BY <2>5 DEF abstractTask, Active
    <2>8. /\ jobs'[j].state \in {"completed", "failed"} <=> \A u \in TasksOf(j) : TaskTerminal(tasks'[u].state)
          /\ jobs'[j].state = "completed" <=> \A u \in TasksOf(j) : tasks'[u].state = "completed"
        BY <2>4 DEF TablesInv, JobsSettled, JobTerminal
    <2>9. jobs'[j].state = IF \A u \in TasksOf(j) : abstractTask'[u] \in {"completed", "failed"}
                           THEN IF \E u \in TasksOf(j) : abstractTask'[u] = "failed"
                                THEN "failed" ELSE "completed"
                           ELSE "running"
        BY <2>4, <2>6, <2>7, <2>8 DEF TaskTerminal
    <2>10. abstractJob' = IF \A u \in TasksOf(j) : abstractTask'[u] \in {"completed", "failed"}
                          THEN [abstractJob EXCEPT ![j] =
                                  IF \E u \in TasksOf(j) : abstractTask'[u] = "failed"
                                  THEN "failed" ELSE "completed"]
                          ELSE abstractJob
        BY <2>4, <2>9 DEF abstractJob
    <2>11. abstractJob' = IF \A u \in Service!TasksIn(j) : Service!Ended(abstractTask'[u])
                          THEN [abstractJob EXCEPT ![j] =
                                  IF \E u \in Service!TasksIn(j) : abstractTask'[u] = "failed"
                                  THEN "failed" ELSE "completed"]
                          ELSE abstractJob
        BY <2>5, <2>10 DEF Service!Ended
    <2>12. Service!Finish(t, s) <=>
              /\ abstractTask[t] = "held"
              /\ abstractTask' = [abstractTask EXCEPT ![t] = s]
              /\ abstractJob' = IF \A u \in Service!TasksIn(JobOf(t)) : Service!Ended(abstractTask'[u])
                                THEN [abstractJob EXCEPT ![JobOf(t)] =
                                        IF \E u \in Service!TasksIn(JobOf(t)) : abstractTask'[u] = "failed"
                                        THEN "failed" ELSE "completed"]
                                ELSE abstractJob
              /\ (1 .. issued)' = 1 .. issued
        BY DEF Service!Finish, abstractJob, abstractTask
    <2>13. Service!Finish(t, s)
        BY <2>2, <2>3, <2>11, <2>12
    <2> QED
        BY <2>13 DEF Service!Next
<1>7. ASSUME NEW stored \in BOOLEAN, Create(stored) PROVE Goal
    <2>1. PICK j \in Job : j = issued + 1
        BY <1>7, <1>t, ConfigAssumption DEF Create, Job
    <2>2. j \notin 1 .. issued /\ (1 .. issued)' = (1 .. issued) \cup {j}
        BY <1>7, <2>1, <1>t DEF Create
    <2>3. abstractJob' = IF stored THEN [abstractJob EXCEPT ![j] = "queued"] ELSE abstractJob
        <3>1. \A k \in Job : jobs'[k].state = IF stored /\ k = j THEN "queued" ELSE jobs[k].state
            BY <1>7, <2>1, <1>t DEF Create, NewJob
        <3> QED
            BY <3>1 DEF abstractJob
    <2>4. \A t \in Task : t \in TasksOf(j) <=> JobOf(t) = j
        BY <1>j, <1>u
    <2>5. abstractTask' = IF stored THEN [t \in Task |-> IF JobOf(t) = j THEN "queued" ELSE abstractTask[t]]
                          ELSE abstractTask
        BY <1>7, <2>1, <2>4, <1>t DEF Create, abstractTask, NewTask, Active
    <2>6. Service!Submit(j, stored)
        BY <2>2, <2>3, <2>5 DEF Service!Submit, abstractJob, abstractTask
    <2> QED
        BY <2>6 DEF Service!Next
<1>8. CASE Drop(Removable)
    <2>1. PICK S \in SUBSET Job : S = Removable
        BY Zenon DEF Removable, InMemory
    <2>2. \A j \in S : abstractJob[j] \in {"completed", "failed"}
        BY <2>1 DEF abstractJob, Removable, JobTerminal, TablesInv, Structure
    <2>3. abstractJob' = [j \in Job |-> IF j \in S THEN "none" ELSE abstractJob[j]]
        BY <1>8, <2>1 DEF Drop, abstractJob, NoJob
    <2>4. abstractTask' = [t \in Task |-> IF JobOf(t) \in S THEN "none" ELSE abstractTask[t]]
        BY <1>8, <2>1 DEF Drop, abstractTask, NoTask, Active
    <2>5. (1 .. issued)' = 1 .. issued
        BY <1>8 DEF Drop
    <2>6. Service!Forget(S)
        BY <2>2, <2>3, <2>4, <2>5 DEF Service!Forget, Service!Ended, abstractJob, abstractTask
    <2> QED
        BY <2>6 DEF Service!Next
<1> QED
    BY <1>1, <1>2, <1>3, <1>4, <1>5, <1>6, <1>7, <1>8 DEF Effect

\* For every configuration and every interleaving of reports, sweeps, failed
\* sends and reconnections, the tables behave as the abstract job service: each
\* task ends once, and a job ends in the step that ends its last task.
THEOREM SupervisorImplementsJobService == Spec => ImplementsJobService
<1>1. Init => Service!Init
    BY InitRefines
<1>2. TablesInv /\ TablesInv' /\ [Next]_vars => [Service!Next]_(Service!serviceVars)
    <2> SUFFICES ASSUME TablesInv, TablesInv', [Next]_vars
                 PROVE  [Service!Next]_(Service!serviceVars)
        OBVIOUS
    <2>1. Effect
        BY StepEffect DEF TablesInv
    <2> QED
        BY <2>1, EffectRefines DEF Service!serviceVars, abstractJob, abstractTask
<1> QED
    BY <1>1, <1>2, TablesInvariant, PTL DEF Spec, ImplementsJobService, Service!Spec
-----------------------------------------------------------------------------
(* What no step may undo.                                                  *)

\* One step never reopens what is settled, takes back an attempt or lets go of
\* an unsettled job.
LEMMA EffectKeepsSettled ==
    ASSUME TablesInv, Effect
    PROVE  /\ \A t \in Task : TaskTerminal(tasks[t].state) =>
                 tasks'[t] = tasks[t] \/ (tasks'[t] = NoTask /\ jobs'[JobOf(t)] = NoJob)
           /\ \A t \in Task : tasks[t].state # "none" /\ tasks'[t].state # "none" =>
                 tasks'[t].attempt >= tasks[t].attempt
           /\ \A j \in Job : JobTerminal(jobs[j].state) => jobs'[j] = jobs[j] \/ jobs'[j] = NoJob
           /\ \A j \in Job : jobs[j].state # "none" /\ jobs'[j].state = "none" =>
                 JobTerminal(jobs[j].state)
<1> DEFINE TaskGoal == \A t \in Task :
              /\ TaskTerminal(tasks[t].state) =>
                    tasks'[t] = tasks[t] \/ (tasks'[t] = NoTask /\ jobs'[JobOf(t)] = NoJob)
              /\ tasks[t].state # "none" /\ tasks'[t].state # "none" =>
                    tasks'[t].attempt >= tasks[t].attempt
           JobGoal == \A j \in Job :
              /\ JobTerminal(jobs[j].state) => jobs'[j] = jobs[j] \/ jobs'[j] = NoJob
              /\ jobs[j].state # "none" /\ jobs'[j].state = "none" => JobTerminal(jobs[j].state)
           Goal == TaskGoal /\ JobGoal
<1>t. /\ TypeOK /\ tasks \in [Task -> TaskRecord] /\ jobs \in [Job -> JobRecord]
      /\ \A t \in Task : tasks[t].attempt \in 0 .. AttemptMax
    BY DEF TablesInv, TypeOK, TaskRecord
<1>j. \A t \in Task : JobOf(t) \in Job /\ t \in TasksOf(JobOf(t))
    BY JobOfTask
<1>m. ASSUME NEW t \in Task, ~ TaskTerminal(tasks[t].state), tasks'[t].attempt >= tasks[t].attempt,
             \A u \in Task \ {t} : tasks'[u] = tasks[u]
      PROVE  TaskGoal
    BY <1>m, <1>t, ConfigAssumption
<1>k. jobs' = jobs => JobGoal
    OBVIOUS
<1>p. \A a \in 0 .. AttemptMax : Plus1(a) >= a
    BY ConfigAssumption DEF Plus1
<1>1. CASE Unmoved
    <2>1. tasks' = tasks /\ jobs' = jobs
        BY <1>1 DEF Unmoved
    <2> QED
        BY <2>1, <1>t, ConfigAssumption
<1>2. ASSUME NEW t \in Task, NEW n \in Node, Place(t, n) PROVE Goal
    <2>1. /\ tasks'[t].attempt = Plus1(tasks[t].attempt) /\ ~ TaskTerminal(tasks[t].state)
          /\ \A u \in Task \ {t} : tasks'[u] = tasks[u]
        BY <1>2, <1>t DEF Place, Assigned, TaskTerminal
    <2>2. TaskGoal
        BY <2>1, <1>m, <1>p, <1>t
    <2>3. \A k \in Job : jobs'[k] = jobs[k] \/ (jobs[k].state = "queued" /\ jobs'[k].state = "running")
        <3>1. \A k \in Job : [jobs[k] EXCEPT !.state = "running"].state = "running"
            BY <1>t DEF JobRecord
        <3> QED
            BY <1>2, <1>t, <1>j, <3>1 DEF Place
    <2>4. JobGoal
        BY <2>3 DEF JobTerminal
    <2> QED
        BY <2>2, <2>4
<1>3. ASSUME NEW t \in Task, NEW n \in Node, Bounce(t, n) PROVE Goal
    <2>1. /\ tasks'[t].attempt = Plus1(tasks[t].attempt) /\ ~ TaskTerminal(tasks[t].state)
          /\ \A u \in Task \ {t} : tasks'[u] = tasks[u]
        BY <1>3, <1>t DEF Bounce, Requeued, Assigned, TaskTerminal
    <2> QED
        BY <1>3, <2>1, <1>m, <1>k, <1>p, <1>t DEF Bounce
<1>4. ASSUME NEW t \in Task, Begin(t) PROVE Goal
    <2>1. /\ tasks'[t].attempt = tasks[t].attempt /\ ~ TaskTerminal(tasks[t].state)
          /\ \A u \in Task \ {t} : tasks'[u] = tasks[u]
        BY <1>4, <1>t DEF Begin, With, TaskTerminal, TaskRecord
    <2> QED
        BY <1>4, <2>1, <1>m, <1>k, <1>t DEF Begin
<1>5. ASSUME NEW t \in Task, Retry(t) PROVE Goal
    <2>1. /\ tasks'[t].attempt = tasks[t].attempt /\ ~ TaskTerminal(tasks[t].state)
          /\ \A u \in Task \ {t} : tasks'[u] = tasks[u]
        BY <1>5, <1>t DEF Retry, Requeued, Active, TaskTerminal
    <2> QED
        BY <1>5, <2>1, <1>m, <1>k, <1>t DEF Retry
<1>6. ASSUME NEW t \in Task, NEW s \in {"completed", "failed"}, NEW c \in Nat, NEW f \in Nat, End(t, s, c, f)
      PROVE  Goal
    <2>1. /\ tasks'[t].attempt = tasks[t].attempt /\ ~ TaskTerminal(tasks[t].state)
          /\ \A u \in Task \ {t} : tasks'[u] = tasks[u]
        BY <1>6, <1>t DEF End, With, Active, TaskTerminal, TaskRecord
    <2>2. TaskGoal
        BY <2>1, <1>m, <1>t
    <2>3. JobOf(t) \in Job /\ ~ JobTerminal(jobs[JobOf(t)].state)
        <3>1. JobOf(t) \in InMemory
            BY <1>6, <1>j DEF End, Active, TablesInv, Structure, InMemory
        <3> QED
            BY <1>j, <2>1, <3>1 DEF TablesInv, JobsSettled
    <2>4. /\ \A k \in Job \ {JobOf(t)} : jobs'[k] = jobs[k]
          /\ jobs'[JobOf(t)].state = "none" <=> jobs[JobOf(t)].state = "none"
        BY <1>6, <1>t, <2>3, CountTaskFrame DEF End
    <2>5. JobGoal
        BY <2>3, <2>4
    <2> QED
        BY <2>2, <2>5
<1>7. ASSUME NEW stored \in BOOLEAN, Create(stored) PROVE Goal
    <2>1. PICK j \in Job : j = issued + 1
        BY <1>7, ConfigAssumption DEF Create, Job, TablesInv, TypeOK
    <2>2. CASE ~ stored
        <3>1. tasks' = tasks /\ jobs' = jobs
            BY <1>7, <2>2 DEF Create
        <3> QED
            BY <3>1, <1>t, ConfigAssumption
    <2>3. CASE stored
        <3>1. jobs[j].state = "none" /\ \A t \in TasksOf(j) : t \in Task /\ tasks[t].state = "none"
            <4>1. issued < j
                BY <2>1 DEF TablesInv, TypeOK
            <4> QED
                BY <4>1, <2>1, OneJobPerTask, TasksOfFinite DEF TablesInv, Structure
        <3>2. \A t \in Task : t \in TasksOf(j) \/ tasks'[t] = tasks[t]
            BY <1>7, <2>1, <2>3 DEF Create
        <3>3. \A k \in Job \ {j} : jobs'[k] = jobs[k]
            BY <1>7, <2>1, <2>3, <1>t DEF Create
        <3>4. TaskGoal
            BY <3>1, <3>2, <1>t, ConfigAssumption DEF TaskTerminal
        <3>5. JobGoal
            BY <3>1, <3>3 DEF JobTerminal
        <3> QED
            BY <3>4, <3>5
    <2> QED
        BY <2>2, <2>3
<1>8. CASE Drop(Removable)
    <2>1. \A k \in Job : IF k \in Removable THEN jobs'[k] = NoJob ELSE jobs'[k] = jobs[k]
        BY <1>8 DEF Drop
    <2>2. \A t \in Task : IF JobOf(t) \in Removable THEN tasks'[t] = NoTask ELSE tasks'[t] = tasks[t]
        BY <1>8 DEF Drop
    <2>3. TaskGoal
        BY <2>1, <2>2, <1>j, <1>t, ConfigAssumption DEF NoTask
    <2>4. JobGoal
        BY <1>8, <2>1 DEF Drop
    <2> QED
        BY <2>3, <2>4
<1>9. Goal
    BY Zenon, <1>1, <1>2, <1>3, <1>4, <1>5, <1>6, <1>7, <1>8 DEF Effect
<1> QED
    BY <1>9

\* A settled task or job stays as it is until its job leaves memory whole, and
\* only a settled job does; attempts never go back.
THEOREM SettledStaysSettled == Spec => SettledForGood
<1>1. TablesInv /\ [Next]_vars =>
        [/\ \A t \in Task : TaskTerminal(tasks[t].state) =>
               tasks'[t] = tasks[t] \/ (tasks'[t] = NoTask /\ jobs'[JobOf(t)] = NoJob)
         /\ \A t \in Task : tasks[t].state # "none" /\ tasks'[t].state # "none" =>
               tasks'[t].attempt >= tasks[t].attempt
         /\ \A j \in Job : JobTerminal(jobs[j].state) => jobs'[j] = jobs[j] \/ jobs'[j] = NoJob
         /\ \A j \in Job : jobs[j].state # "none" /\ jobs'[j].state = "none" =>
               JobTerminal(jobs[j].state)]_vars
    BY StepEffect, EffectKeepsSettled DEF TablesInv
<1> QED
    BY <1>1, TablesInvariant, PTL DEF Spec, SettledForGood
-----------------------------------------------------------------------------
(* Attempts.                                                               *)

\* AttemptsAccounted, with what makes it inductive: a task that is not settled
\* has recorded fewer failures than attempts allowed, and a task whose job was
\* not issued has recorded none.
AttemptsInv ==
    /\ AttemptsAccounted
    /\ \A t \in Task : tasks[t].state \in {"queued", "assigned", "running"} => failures[t] < Allowed
    /\ \A t \in Task : issued < JobOf(t) => failures[t] = 0

\* max_task_attempts allows one attempt at least, and the attempt counter can
\* count as many as it allows.
LEMMA AllowedAttempts ==
    Allowed \in Nat \ {0} /\ MaxTaskAttempts <= Allowed /\ Allowed <= AttemptMax
BY ConfigAssumption DEF Allowed

\* A failure is recorded against the attempt that is ending, so the records never
\* outnumber the attempts.
LEMMA RetryAttempts ==
    ASSUME TypeOK, NEW t \in Task, Active(t), AttemptsInv, RetryOrGiveUp(t), RecordFailure(t), UNCHANGED issued,
           issued >= JobOf(t)
    PROVE  AttemptsInv'
<1>1. /\ tasks[t].attempt \in Nat /\ failures[t] \in Nat /\ MaxTaskAttempts \in Nat
      /\ tasks \in [Task -> TaskRecord] /\ failures \in [Task -> Nat]
      /\ JobOf(t) \in Nat /\ issued \in Nat /\ Allowed \in Nat /\ MaxTaskAttempts <= Allowed
    BY ConfigAssumption, AllowedAttempts, JobOfTask DEF TypeOK, TaskRecord, Job
<1>2. failures'[t] = failures[t] + 1 /\ \A u \in Task \ {t} : failures'[u] = failures[u]
    BY <1>1 DEF RecordFailure
<1>3. failures[t] + 1 <= tasks[t].attempt /\ failures[t] < Allowed
    BY DEF AttemptsInv, AttemptsAccounted, Active
<1>4. /\ tasks'[t].attempt = tasks[t].attempt
      /\ \/ tasks'[t].state = "queued" /\ tasks[t].attempt < MaxTaskAttempts
         \/ tasks'[t].state = "failed" /\ ~ (tasks[t].attempt < MaxTaskAttempts)
      /\ \A u \in Task \ {t} : tasks'[u] = tasks[u]
    <2>1. Retry(t) \/ End(t, "failed", 0, 1)
        BY RetryEffect
    <2>2. TaskCanBecome(tasks[t].state, IF tasks[t].attempt < MaxTaskAttempts THEN "queued" ELSE "failed")
        BY ActiveTask
    <2> QED
        BY <1>1, <2>2 DEF RetryOrGiveUp, Requeued, With, TaskRecord
<1>5. \A u \in Task \ {t} : Active(u)' <=> Active(u)
    BY <1>4 DEF Active
<1>6. AttemptsAccounted'
    <2> SUFFICES ASSUME NEW u \in Task
                 PROVE  /\ Active(u)' \/ tasks'[u].state = "completed" => failures'[u] + 1 <= tasks'[u].attempt
                        /\ tasks'[u].state = "queued" => failures'[u] <= tasks'[u].attempt
                        /\ tasks'[u].state = "failed" => tasks'[u].attempt >= MaxTaskAttempts
                        /\ failures'[u] <= Allowed
        BY DEF AttemptsAccounted
    <2>1. CASE u = t
        BY <2>1, <1>1, <1>2, <1>3, <1>4 DEF Active
    <2>2. CASE u # t
        BY <2>2, <1>2, <1>4, <1>5 DEF AttemptsInv, AttemptsAccounted
    <2> QED
        BY <2>1, <2>2
<1>7. \A u \in Task : tasks'[u].state \in {"queued", "assigned", "running"} => failures'[u] < Allowed
    BY <1>1, <1>2, <1>3, <1>4 DEF AttemptsInv
<1>8. \A u \in Task : issued' < JobOf(u) => failures'[u] = 0
    BY <1>1, <1>2 DEF AttemptsInv
<1> QED
    BY <1>6, <1>7, <1>8 DEF AttemptsInv

\* A placement counts an attempt; nothing else that is not a failure touches
\* attempts or failures of a task that stays in memory.
LEMMA EffectAttempts ==
    ASSUME TablesInv, TypeOK', AttemptsInv, Effect, UNCHANGED failures,
           \A t \in Task : ~ End(t, "failed", 0, 1)
    PROVE  AttemptsInv'
<1>t. /\ TypeOK /\ tasks \in [Task -> TaskRecord] /\ MaxTaskAttempts \in Nat /\ AttemptMax \in Nat
      /\ Allowed \in Nat /\ Allowed <= AttemptMax /\ Allowed > 0 /\ issued \in Nat
      /\ \A t \in Task : tasks[t].attempt \in 0 .. AttemptMax /\ failures[t] \in Nat
    BY ConfigAssumption, AllowedAttempts DEF TablesInv, TypeOK, TaskRecord
<1>p. \A a \in 0 .. AttemptMax : /\ Plus1(a) >= a /\ Plus1(a) \in Nat
                                 /\ \A f \in Nat : f <= a /\ f < Allowed => f + 1 <= Plus1(a)
    BY <1>t DEF Plus1
<1> DEFINE Fine(u) == /\ tasks'[u].state \in {"assigned", "running", "completed"} => failures[u] + 1 <= tasks'[u].attempt
                      /\ tasks'[u].state = "queued" => failures[u] <= tasks'[u].attempt
                      /\ tasks'[u].state = "failed" => tasks'[u].attempt >= MaxTaskAttempts
                      /\ tasks'[u].state \in {"queued", "assigned", "running"} => failures[u] < Allowed
<1>g. ASSUME \A u \in Task : Fine(u), issued' >= issued, issued' \in Nat PROVE AttemptsInv'
    <2>1. AttemptsAccounted'
        BY <1>g DEF AttemptsInv, AttemptsAccounted, Active
    <2>2. \A u \in Task : JobOf(u) \in Nat
        BY JobOfTask DEF Job
    <2> QED
        BY <1>g, <2>1, <2>2, <1>t DEF AttemptsInv
<1>s. \A u \in Task : tasks'[u] = tasks[u] => Fine(u)
    BY DEF AttemptsInv, AttemptsAccounted, Active
<1>i. UNCHANGED issued => issued' >= issued /\ issued' \in Nat
    BY <1>t
<1>1. CASE Unmoved
    BY <1>1, <1>g, <1>s, <1>i DEF Unmoved
<1>2. ASSUME NEW t \in Task, NEW n \in Node, Place(t, n) PROVE AttemptsInv'
    <2>1. /\ tasks[t].state = "queued" /\ tasks'[t].state = "assigned"
          /\ tasks'[t].attempt = Plus1(tasks[t].attempt)
          /\ \A u \in Task \ {t} : tasks'[u] = tasks[u]
        BY <1>2, <1>t DEF Place, Assigned
    <2>2. failures[t] <= tasks[t].attempt /\ failures[t] < Allowed
        BY <2>1 DEF AttemptsInv, AttemptsAccounted
    <2>3. Fine(t)
        BY <2>1, <2>2, <1>p, <1>t
    <2> QED
        BY <1>2, <2>1, <2>3, <1>g, <1>s, <1>i DEF Place
<1>3. ASSUME NEW t \in Task, NEW n \in Node, Bounce(t, n) PROVE AttemptsInv'
    <2>1. /\ tasks[t].state = "queued" /\ tasks'[t].state = "queued"
          /\ tasks'[t].attempt = Plus1(tasks[t].attempt)
          /\ \A u \in Task \ {t} : tasks'[u] = tasks[u]
        BY <1>3, <1>t DEF Bounce, Assigned, Requeued
    <2>2. failures[t] <= tasks[t].attempt /\ failures[t] < Allowed
        BY <2>1 DEF AttemptsInv, AttemptsAccounted
    <2>3. Fine(t)
        BY <2>1, <2>2, <1>p, <1>t
    <2> QED
        BY <1>3, <2>1, <2>3, <1>g, <1>s, <1>i DEF Bounce
<1>4. ASSUME NEW t \in Task, Begin(t) PROVE AttemptsInv'
    <2>1. /\ tasks[t].state = "assigned" /\ tasks'[t].state = "running"
          /\ tasks'[t].attempt = tasks[t].attempt
          /\ \A u \in Task \ {t} : tasks'[u] = tasks[u]
        BY <1>4, <1>t DEF Begin, With, TaskRecord
    <2>3. Fine(t)
        BY <2>1 DEF AttemptsInv, AttemptsAccounted, Active
    <2> QED
        BY <1>4, <2>1, <2>3, <1>g, <1>s, <1>i DEF Begin
<1>5. ASSUME NEW t \in Task, Retry(t) PROVE AttemptsInv'
    <2>1. /\ Active(t) /\ tasks'[t].state = "queued"
          /\ tasks'[t].attempt = tasks[t].attempt
          /\ \A u \in Task \ {t} : tasks'[u] = tasks[u]
        BY <1>5, <1>t DEF Retry, Requeued
    <2>2. failures[t] + 1 <= tasks[t].attempt /\ failures[t] < Allowed
        BY <2>1 DEF AttemptsInv, AttemptsAccounted, Active
    <2>3. Fine(t)
        BY <2>1, <2>2, <1>t
    <2> QED
        BY <1>5, <2>1, <2>3, <1>g, <1>s, <1>i DEF Retry
<1>6. ASSUME NEW t \in Task, End(t, "completed", 1, 0) PROVE AttemptsInv'
    <2>1. /\ Active(t) /\ tasks'[t].state = "completed"
          /\ tasks'[t].attempt = tasks[t].attempt
          /\ \A u \in Task \ {t} : tasks'[u] = tasks[u]
        BY <1>6, <1>t DEF End, With, TaskRecord
    <2>3. Fine(t)
        BY <2>1 DEF AttemptsInv, AttemptsAccounted
    <2> QED
        BY <1>6, <2>1, <2>3, <1>g, <1>s, <1>i DEF End
<1>7. ASSUME NEW stored \in BOOLEAN, Create(stored) PROVE AttemptsInv'
    <2>1. issued' = issued + 1 /\ issued' >= issued /\ issued' \in Nat /\ issued + 1 \in Job
        BY <1>7, <1>t, ConfigAssumption DEF Create, Job
    <2>2. \A u \in Task : \/ tasks'[u] = tasks[u]
                          \/ u \in TasksOf(issued + 1) /\ tasks'[u] = NewTask
        BY <1>7 DEF Create
    <2>3. \A u \in Task : u \in TasksOf(issued + 1) => failures[u] = 0
        <3> SUFFICES ASSUME NEW u \in Task, u \in TasksOf(issued + 1) PROVE failures[u] = 0
            OBVIOUS
        <3>1. JobOf(u) = issued + 1
            BY <2>1, OneJobPerTask
        <3>2. issued < JobOf(u)
            BY <3>1, <1>t
        <3> QED
            BY <3>2 DEF AttemptsInv
    <2>4. \A u \in Task : Fine(u)
        BY <2>2, <2>3, <1>s, <1>t DEF NewTask
    <2> QED
        BY <2>1, <2>4, <1>g
<1>8. CASE Drop(Removable)
    <2>1. \A u \in Task : tasks'[u] = tasks[u] \/ tasks'[u].state = "none"
        BY <1>8 DEF Drop, NoTask
    <2>2. \A u \in Task : Fine(u)
        BY <2>1, <1>s
    <2> QED
        BY <1>8, <2>2, <1>g, <1>i DEF Drop
<1> QED
    BY <1>1, <1>2, <1>3, <1>4, <1>5, <1>6, <1>7, <1>8 DEF Effect

\* Every step keeps failures and attempts in step.
LEMMA NextAttempts ==
    ASSUME TablesInv, TypeOK', AttemptsInv, [Next]_vars
    PROVE  AttemptsInv'
<1> USE DEF registryVars, tableVars
<1>e. Effect /\ TypeOK /\ Structure
    BY StepEffect DEF TablesInv
<1>i. \A t \in Task : Active(t) => issued >= JobOf(t)
    <2> SUFFICES ASSUME NEW t \in Task, Active(t) PROVE issued >= JobOf(t)
        OBVIOUS
    <2>1. JobOf(t) \in Job /\ JobOf(t) \in Nat /\ issued \in Nat
        BY <1>e, JobOfTask DEF TypeOK, Job
    <2>2. jobs[JobOf(t)].state # "none"
        BY <1>e DEF Structure, Active
    <2> QED
        BY <2>1, <2>2, <1>e DEF Structure
<1>1. CASE RequeueTask
    <2>1. FirstPending \in Task /\ Active(FirstPending)
        BY <1>1, <1>e, FirstPendingIsPending DEF RequeueTask, TypeOK, Structure
    <2>2. RetryOrGiveUp(FirstPending) /\ RecordFailure(FirstPending) /\ UNCHANGED issued
        BY <1>1 DEF RequeueTask
    <2>3. issued >= JobOf(FirstPending)
        BY <1>i, <2>1
    <2> QED
        BY <1>e, <2>1, <2>2, <2>3, RetryAttempts
<1>2. ASSUME NEW n \in Node, NEW t \in Task, TaskFailed(n, t) PROVE AttemptsInv'
    <2>1. CASE Late(n, t)
        BY <1>2, <2>1 DEF TaskFailed, AttemptsInv, AttemptsAccounted, Active
    <2>2. CASE ~ Late(n, t)
        <3>1. RecordFailure(t) /\ RetryOrGiveUp(t) /\ UNCHANGED issued
            BY <1>2, <2>2 DEF TaskFailed
        <3>2. n # NoNode /\ tasks[t] \in TaskRecord
            BY <1>e, ConfigAssumption DEF Node, NoNode, TypeOK
        <3>3. tasks[t].state \notin {"none", "queued", "completed", "failed"}
            BY <2>2, <3>2, <1>e DEF Late, TaskTerminal, Structure
        <3>4. Active(t)
            BY <3>2, <3>3 DEF Active, TaskRecord, TaskStates
        <3> QED
            BY <1>e, <1>i, <3>1, <3>4, RetryAttempts
    <2> QED
        BY <2>1, <2>2
<1>3. ASSUME UNCHANGED failures, \A t \in Task : tasks'[t].state = "failed" => tasks[t].state = "failed"
      PROVE  AttemptsInv'
    <2>1. \A t \in Task : ~ End(t, "failed", 0, 1)
        <3> SUFFICES ASSUME NEW t \in Task, End(t, "failed", 0, 1) PROVE FALSE
            OBVIOUS
        <3>1. tasks'[t].state = "failed" /\ tasks[t].state # "failed"
            BY <1>e DEF End, Active, With, TypeOK, TaskRecord
        <3> QED
            BY <1>3, <3>1
    <2> QED
        BY <1>3, <1>e, <2>1, EffectAttempts
<1>t. tasks \in [Task -> TaskRecord]
    BY <1>e DEF TypeOK
<1>4. CASE UNCHANGED <<failures, tasks>>
    BY <1>3, <1>4
<1>5. CASE RefreshLeadership
    BY <1>5, <1>4 DEF RefreshLeadership
<1>6. CASE DispatchDone
    BY <1>6, <1>4 DEF DispatchDone
<1>7. ASSUME NEW n \in Node, DispatchSent(n) PROVE AttemptsInv'
    <2>1. \A t \in Task : tasks'[t] = tasks[t] \/ tasks'[t].state = "assigned"
        BY <1>7, <1>t DEF DispatchSent, Assigned
    <2> QED
        BY <1>7, <2>1, <1>3 DEF DispatchSent
<1>8. ASSUME NEW n \in Node, DispatchUnsent(n) PROVE AttemptsInv'
    <2>1. \A t \in Task : tasks'[t] = tasks[t] \/ tasks'[t].state = "queued"
        BY <1>8, <1>t DEF DispatchUnsent, Requeued
    <2> QED
        BY <1>8, <2>1, <1>3 DEF DispatchUnsent
<1>9. CASE PruneMemory
    <2>1. \A t \in Task : tasks'[t] = tasks[t] \/ tasks'[t].state = "none"
        BY <1>9 DEF PruneMemory, NoTask
    <2> QED
        BY <1>9, <2>1, <1>3 DEF PruneMemory
<1>10. CASE Tick
    BY <1>10, <1>4 DEF Tick
<1>11. ASSUME NEW n \in Node, \/ Silence(n) \/ HeartbeatReport(n) \/ StopNode(n)
                              \/ AttachRemote(n) \/ StartNode(n)
       PROVE  AttemptsInv'
    BY <1>11, <1>4 DEF Silence, HeartbeatReport, StopNode, AttachRemote, StartNode
<1>12. ASSUME NEW n \in Node, NEW t \in Task, TaskStarted(n, t) PROVE AttemptsInv'
    <2>1. \A u \in Task : tasks'[u] = tasks[u] \/ tasks'[u].state = "running"
        BY <1>12, <1>t DEF TaskStarted, With, TaskRecord
    <2> QED
        BY <1>12, <2>1, <1>3 DEF TaskStarted
<1>13. ASSUME NEW n \in Node, NEW t \in Task, TaskCompleted(n, t) PROVE AttemptsInv'
    <2>1. \A u \in Task : tasks'[u] = tasks[u] \/ tasks'[u].state = "completed"
        BY <1>13, <1>t DEF TaskCompleted, With, TaskRecord
    <2> QED
        BY <1>13, <2>1, <1>3 DEF TaskCompleted
<1>14. ASSUME NEW stored \in BOOLEAN, SubmitJob(stored) PROVE AttemptsInv'
    <2>1. \A u \in Task : tasks'[u] = tasks[u] \/ tasks'[u].state = "queued"
        BY <1>14 DEF SubmitJob, NewTask
    <2> QED
        BY <1>14, <2>1, <1>3 DEF SubmitJob
<1>15. ASSUME NEW n \in Node, NEW role \in Role, NEW enabled \in BOOLEAN, SetRole(n, role, enabled)
       PROVE  AttemptsInv'
    BY <1>15, <1>4 DEF SetRole
<1>16. ASSUME NEW n \in Node, NEW gen \in 1 .. MaxGen, DetachRemote(n, gen) PROVE AttemptsInv'
    BY <1>16, <1>4 DEF DetachRemote
<1>17. CASE UNCHANGED vars
    BY <1>17, <1>4 DEF vars
<1> QED
    BY Zenon, <1>1, <1>2, <1>5, <1>6, <1>7, <1>8, <1>9, <1>10, <1>11, <1>12, <1>13, <1>14, <1>15, <1>16,
       <1>17, ConfigAssumption DEF Next, HandlerStep

\* Failures and attempts add up for every task, saturation and failed sends
\* included: a task is never failed for good before its attempts are used up,
\* and never records more failures than attempts allowed.
THEOREM AttemptsAreAccounted == Spec => []AttemptsAccounted
<1>1. Init => AttemptsInv
    BY ConfigAssumption, AllowedAttempts DEF Init, AttemptsInv, AttemptsAccounted, Active, NoTask
<1>2. TablesInv /\ TablesInv' /\ AttemptsInv /\ [Next]_vars => AttemptsInv'
    BY NextAttempts DEF TablesInv
<1>3. AttemptsInv => AttemptsAccounted
    BY DEF AttemptsInv
<1> QED
    BY <1>1, <1>2, <1>3, TablesInvariant, PTL DEF Spec
=============================================================================
