------------------------------ MODULE Recovery ------------------------------
(***************************************************************************)
(* What survives a crash: the supervisor's tables, the bounded queue of    *)
(* durable writes (crates/cluster-local/src/persistence.rs), the job and   *)
(* task rows of the store, and the reload at startup (restore_jobs).       *)
(*                                                                         *)
(* Every change of a table is followed by a write of the whole record, in  *)
(* the order the handler makes them; only a submission, a failed send and  *)
(* the reload itself write to the store directly.  A crash loses the       *)
(* tables and whatever is still queued.  Any read of the reload may fail;  *)
(* writes to the store succeed.                                            *)
(***************************************************************************)
EXTENDS Supervisor, SequencesExt

CONSTANTS
    QueueDepth,  \* capacity of the write queue (1024 in the code)
    Page,        \* unfinished jobs the reload asks for at a time (200 in the code)
    MaxCrashes   \* bound on the crashes

ASSUME RecoveryAssumption ==
    QueueDepth \in Nat \ (0 .. 2) /\ Page \in Nat \ {0} /\ MaxCrashes \in Nat

VARIABLES
    writes,   \* the queue of durable writes
    rows,     \* the store: rows.jobs and rows.tasks
    up,       \* whether the process is running
    crashes,  \* crashes so far
    lossy,    \* whether a crash lost queued writes
    blind     \* whether a read of the last reload failed

storeVars == <<writes, rows>>
historyVars == <<crashes, lossy, blind>>
recoveryVars == <<vars, storeVars, up, historyVars>>

JobWrite(j, record) == [table |-> "jobs", id |-> j, row |-> record]
TaskWrite(t, record) == [table |-> "tasks", id |-> t, row |-> record]

RecoveryInit ==
    /\ Init
    /\ writes = <<>>
    /\ rows = [jobs |-> [j \in Job |-> NoJob], tasks |-> [t \in Task |-> NoTask]]
    /\ up = TRUE
    /\ crashes = 0
    /\ lossy = FALSE
    /\ blind = FALSE
-----------------------------------------------------------------------------
(* The writes a step of the supervisor makes.  It changes at most one task *)
(* and one job: the task is written first, then the job with its counter,  *)
(* then the job again if it settled.                                       *)

Written(table, new) == {x \in DOMAIN table : new[x] # table[x] /\ new[x].state # "none"}

TaskWrites == [i \in 1 .. Cardinality(Written(tasks, tasks')) |->
                 LET t == CHOOSE t \in Written(tasks, tasks') : TRUE IN TaskWrite(t, tasks'[t])]

\* Variant: a job is only written when its state changes.
JobWritesOfStates ==
    LET moved == {j \in Written(jobs, jobs') : jobs'[j].state # jobs[j].state}
    IN [i \in 1 .. Cardinality(moved) |-> LET j == CHOOSE j \in moved : TRUE IN JobWrite(j, jobs'[j])]

JobWrites ==
    IF Written(jobs, jobs') = {} THEN <<>>
    ELSE LET j == CHOOSE j \in Written(jobs, jobs') : TRUE
             counted == [jobs'[j] EXCEPT !.state = jobs[j].state]
         IN (IF counted = jobs[j] THEN <<>> ELSE <<JobWrite(j, counted)>>)
            \o (IF jobs'[j] = counted THEN <<>> ELSE <<JobWrite(j, jobs'[j])>>)

\* Variant: the job is written before the task that settles it.
EnqueueJobFirst == writes' = writes \o JobWrites \o TaskWrites

Enqueue == writes' = writes \o TaskWrites \o JobWrites

\* Handlers whose changes go through the queue; a full queue holds them up.  A
\* node is lost by StopNode: the sweep that notices a silent one requeues its
\* tasks by the same RequeueTask steps, so silence and heartbeats are left out.
Deferred ==
    /\ up
    /\ \/ RequeueTask \/ RefreshLeadership \/ DispatchDone \/ PruneMemory \/ Tick
       \/ \E n \in Node : DispatchSent(n) \/ StartNode(n)
       \/ \E n \in Faulty : StopNode(n)
       \/ \E n \in Node, t \in Task : TaskStarted(n, t) \/ TaskCompleted(n, t) \/ TaskFailed(n, t)
    /\ Enqueue
    /\ Len(writes') <= QueueDepth
    /\ UNCHANGED <<rows, up, historyVars>>

\* The failed send of `dispatch' saves its task around the queue.
Unsent ==
    /\ up
    /\ \E n \in Node : DispatchUnsent(n)
    /\ rows' = [rows EXCEPT !.tasks[Head(queue)] = tasks'[Head(queue)]]
    /\ UNCHANGED <<writes, up, historyVars>>

\* create_job: a job and its tasks are stored before they are in memory.
Submit(stored) ==
    /\ up
    /\ SubmitJob(stored)
    /\ rows' = IF stored
               THEN [jobs |-> [rows.jobs EXCEPT ![issued'] = NewJob],
                     tasks |-> [t \in Task |-> IF t \in TasksOf(issued') THEN NewTask ELSE rows.tasks[t]]]
               ELSE rows
    /\ UNCHANGED <<writes, up, historyVars>>
-----------------------------------------------------------------------------
(* The drainer and the store.                                              *)

\* An UPDATE: a row that is not there any more is left alone.
Updated(table, w) == IF table[w.id].state = "none" THEN table ELSE [table EXCEPT ![w.id] = w.row]

Drain ==
    /\ up /\ writes # <<>>
    /\ LET w == Head(writes)
       IN rows' = IF w.table = "jobs" THEN [rows EXCEPT !.jobs = Updated(@, w)]
                  ELSE [rows EXCEPT !.tasks = Updated(@, w)]
    /\ writes' = Tail(writes)
    /\ UNCHANGED <<vars, up, historyVars>>

\* prune_terminal_before: a settled job leaves the store with its tasks.
PruneStore(j) ==
    /\ up /\ JobTerminal(rows.jobs[j].state)
    /\ rows' = [jobs |-> [rows.jobs EXCEPT ![j] = NoJob],
                tasks |-> [t \in Task |-> IF t \in TasksOf(j) THEN NoTask ELSE rows.tasks[t]]]
    /\ UNCHANGED <<vars, writes, up, historyVars>>
-----------------------------------------------------------------------------
(* Crash and restart.                                                      *)

Crash ==
    /\ up /\ crashes < MaxCrashes
    /\ up' = FALSE
    /\ crashes' = crashes + 1
    /\ lossy' = (lossy \/ writes # <<>>)
    /\ writes' = <<>>
    /\ UNCHANGED <<vars, rows, blind>>

Unfinished(j) == rows.jobs[j].state \in {"queued", "running"}
Recent == {j \in Job : /\ rows.jobs[j].state # "none"
                       /\ Cardinality({k \in Job : k > j /\ rows.jobs[k].state # "none"}) < JobBuffer}

\* The first pages of unfinished jobs, in the order of their ids.
OnPages(n) ==
    {j \in Job : Unfinished(j) /\ Cardinality({k \in Job : k <= j /\ Unfinished(k)}) <= n * Page}

\* How the reads of a reload go: whether recent_jobs answers, the jobs whose
\* tasks_for_job does not, and the pages of unfinished jobs read before one fails
\* or all are.
Reads == [recent : BOOLEAN, untold : SUBSET Recent, pages : 0 .. MaxJob]
NoneFails(r) == r.recent /\ r.untold = {} /\ OnPages(r.pages) = {j \in Job : Unfinished(j)}

\* Variant: only the recent window is loaded.
RestoredRecent(r) == IF r.recent THEN Recent ELSE {}

\* The jobs restore_jobs loads: the recent window and every unfinished one it
\* reads, or none at all.
Restored(r) == IF r.recent THEN Recent \cup OnPages(r.pages) ELSE {}

\* A page brings the tasks of its jobs with it, over what the window gave.
RestoredWhole(r) == Restored(r) \ (r.untold \ OnPages(r.pages))

RestoredTask(r, t) ==
    IF JobOf(t) \notin RestoredWhole(r) THEN NoTask
    ELSE IF Unfinished(JobOf(t)) /\ ~ TaskTerminal(rows.tasks[t].state)
    THEN Requeued(rows.tasks[t])
    ELSE rows.tasks[t]

\* Variant: what was in flight is not queued again.
RestoredQueueWaiting(r) ==
    SetToSortSeq({t \in Task : /\ JobOf(t) \in RestoredWhole(r)
                              /\ Unfinished(JobOf(t)) /\ rows.tasks[t].state = "queued"}, <)

RestoredQueue(r) ==
    SetToSortSeq({t \in Task : Unfinished(JobOf(t)) /\ RestoredTask(r, t).state = "queued"}, <)

\* bootstrap: the registry starts over, the tables are reloaded as far as the
\* store lets them, and what was in flight is queued again and saved so.
Restart(r) ==
    /\ ~ up
    /\ up' = TRUE
    /\ jobs' = [j \in Job |-> IF j \in Restored(r) THEN rows.jobs[j] ELSE NoJob]
    /\ tasks' = [t \in Task |-> RestoredTask(r, t)]
    /\ queue' = RestoredQueue(r)
    /\ rows' = [rows EXCEPT !.tasks =
                  [t \in Task |-> IF JobOf(t) \in RestoredWhole(r) THEN tasks'[t] ELSE @[t]]]
    /\ nodes' = InitialNodes
    /\ leader' = Elected'
    /\ gateway' = Gateway'
    /\ pending' = {}
    /\ todo' = {}
    /\ blind' = ~ NoneFails(r)
    /\ UNCHANGED <<issued, failures, writes, crashes, lossy>>
-----------------------------------------------------------------------------
RecoveryNext ==
    \/ Deferred
    \/ Unsent
    \/ \E stored \in BOOLEAN : Submit(stored)
    \/ Drain
    \/ \E j \in Job : PruneStore(j)
    \/ Crash
    \/ \E r \in Reads : Restart(r)

RecoverySpec == RecoveryInit /\ [][RecoveryNext]_recoveryVars
-----------------------------------------------------------------------------
\* The tables and the store hold records of their types, the queue its capacity.
RecoveryTypeOK ==
    /\ TypeOK
    /\ Len(writes) <= QueueDepth
    /\ rows.jobs \in [Job -> JobRecord]
    /\ rows.tasks \in [Task -> TaskRecord]

\* Whatever a crash lost and whatever the reload could not read, the queue of tasks
\* is exactly the queued ones again.
QueueExactAgain == up => QueueExact

\* A job in memory with its tasks.
Whole(j) == j \in InMemory /\ \A t \in TasksOf(j) : tasks[t].state # "none"

\* Whatever a crash lost, no counter claims a task that has not settled: a job
\* is never settled early by tasks counted in an earlier life and run again.
\* This rests on the order of the writes, the task before the job.  A job comes
\* back without its tasks only when reading them failed.
NeverOvercounted ==
    up => \A j \in InMemory :
             IF Whole(j)
             THEN /\ jobs[j].completed <= Cardinality(CompletedOf(j))
                  /\ jobs[j].failed <= Cardinality(FailedOf(j))
                  /\ JobTerminal(jobs[j].state) => \A t \in TasksOf(j) : TaskTerminal(tasks[t].state)
             ELSE blind

\* An unfinished job is never forgotten: if the store has one, so has memory with
\* all of its tasks, however old the job is, or the write that finishes it is on
\* its way.  A start one of whose reads failed may forget it, for as long as that
\* process lives: the next start that can read brings it back.
NoJobForgotten ==
    up /\ ~ blind => \A j \in Job : Unfinished(j) =>
             \/ Whole(j)
             \/ \E i \in DOMAIN writes : /\ writes[i].table = "jobs" /\ writes[i].id = j
                                         /\ JobTerminal(writes[i].row.state)

\* While no crash lost a queued write, as after every clean shutdown, a restart
\* that can read changes nothing about what has settled, not even after one that
\* could not.
CleanRestartExact == up /\ ~ lossy /\ ~ blind => CountersExact /\ JobsSettled

\* settle_job: "Move a job to a terminal state once every task has settled."
SettledOnceTasksAre ==
    up => \A j \in InMemory :
             (\A t \in TasksOf(j) : TaskTerminal(tasks[t].state)) => JobTerminal(jobs[j].state)

\* persistence.rs: "Ordering is preserved because there is exactly one sender and
\* one drainer": a row never goes back to an earlier attempt.
WritesKeepOrder ==
    [][\A t \in Task : rows'.tasks[t].state # "none" => rows'.tasks[t].attempt >= rows.tasks[t].attempt]_recoveryVars
=============================================================================
