----------------------------- MODULE Supervisor -----------------------------
(***************************************************************************)
(* The supervisor task of crates/cluster-local: the job and task tables,   *)
(* the FIFO queue of task ids, the node registry and the leadership it     *)
(* derives.  Every other task only reaches this state by a message.        *)
(*                                                                         *)
(* One handler runs at a time, but a handler is not one instant: it awaits *)
(* the writer between the tasks it requeues and between the tasks it       *)
(* places.  A handler is therefore its first action, which leaves in       *)
(* `pending' and `todo' what the same call still has to do, followed by    *)
(* steps that nothing but the handler's own steps may precede: no handler  *)
(* starts unless Idle.                                                     *)
(*                                                                         *)
(* What arrives is unconstrained here: any report about any task from any  *)
(* node, at any time.  LocalCluster and RemoteCluster put the mailboxes,   *)
(* the reports channel and the workers around this module.                 *)
(***************************************************************************)
EXTENDS Integers, Sequences, FiniteSets

CONSTANTS
    MaxNode,          \* node ids are 1 .. MaxNode (bound; u16::MAX in the code)
    Simulated,        \* ids of the in-process nodes, 1 ..= node_count
    Declared,         \* ids of the remote nodes declared in the configuration
    InitRoles,        \* what assign_initial_roles gives each registered node
    MaxJob,           \* job ids are 1 .. MaxJob (bound on submissions)
    FirstTask,        \* FirstTask[j]: first id reserve_task_ids gave job j
    TaskCount,        \* TaskCount[j]: JobSpec::task_count, at least 1
    MaxTaskAttempts,  \* LocalClusterConfig::max_task_attempts
    AttemptMax,       \* u16::MAX, where Task::attempt saturates
    JobBuffer,        \* LocalClusterConfig::job_buffer
    MaxGen,           \* bound on the reconnections of one registry entry
    Switchable,       \* bound on the <<node, role>> pairs set_role is called for
    Faulty            \* bound on the nodes that fall silent or are stopped

Node == 1 .. MaxNode
NoNode == 0
Job == 1 .. MaxJob
TasksOf(j) == FirstTask[j] .. (FirstTask[j] + TaskCount[j] - 1)
Task == UNION {TasksOf(j) : j \in Job}
JobOf(t) == CHOOSE j \in Job : t \in TasksOf(j)
Role == {"gateway", "frontend", "backend", "compute", "storage", "coordinator"}

ASSUME ConfigAssumption ==
    /\ MaxNode \in Nat /\ MaxJob \in Nat /\ JobBuffer \in Nat /\ MaxGen \in Nat
    /\ Simulated \subseteq Node /\ Declared \subseteq Node
    /\ Simulated \cap Declared = {}
    /\ InitRoles \in [Node -> SUBSET Role]
    /\ Switchable \subseteq Node \X Role /\ Faulty \subseteq Node
    /\ MaxTaskAttempts \in Nat
    /\ AttemptMax \in Nat \ {0} /\ MaxTaskAttempts <= AttemptMax

\* reserve_task_ids hands out disjoint, increasing blocks of ids.
ASSUME AllocationAssumption ==
    /\ FirstTask \in [Job -> Nat]
    /\ TaskCount \in [Job -> Nat \ {0}]
    /\ \A j, k \in Job : j < k => FirstTask[j] + TaskCount[j] <= FirstTask[k]

VARIABLES
    issued,    \* the last job id taken from the store's sequence
    jobs,      \* the job table
    tasks,     \* the task table
    failures,  \* rows of task_failures recorded for a task
    queue,     \* VecDeque of task ids
    nodes,     \* the node registry
    leader,    \* elected coordinator
    gateway,   \* node serving as gateway
    pending,   \* tasks requeue_tasks_of still has to go through
    todo       \* later phases of the handler that is running

vars == <<issued, jobs, tasks, failures, queue, nodes, leader, gateway, pending, todo>>
-----------------------------------------------------------------------------
(* Job and task state machines (cluster-core/src/job.rs).                  *)

JobStates == {"queued", "running", "completed", "failed", "cancelled"}
TaskStates == {"queued", "assigned", "running", "completed", "failed"}

JobTerminal(s) == s \in {"completed", "failed", "cancelled"}
TaskTerminal(s) == s \in {"completed", "failed"}

JobCanBecome(s, next) ==
    \/ s = "queued" /\ next \in {"running", "cancelled", "failed"}
    \/ s = "running" /\ next \in {"completed", "failed", "cancelled"}

TaskCanBecome(s, next) ==
    \/ s = "queued" /\ next = "assigned"
    \/ s = "assigned" /\ next \in {"running", "failed", "queued"}
    \/ s = "running" /\ next \in {"completed", "failed", "queued"}
    \/ s = "failed" /\ next = "queued"

\* Entries that are not in the in-memory tables.
NoJob == [state |-> "none", completed |-> 0, failed |-> 0]
NoTask == [state |-> "none", node |-> NoNode, attempt |-> 0]

NewJob == [state |-> "queued", completed |-> 0, failed |-> 0]
NewTask == [state |-> "queued", node |-> NoNode, attempt |-> 0]

\* Variant: an attempt counter that does not saturate.
Plus1Unsaturated(a) == a + 1

Plus1(a) == IF a < AttemptMax THEN a + 1 ELSE AttemptMax

Assigned(task, n) == [state |-> "assigned", node |-> n, attempt |-> Plus1(task.attempt)]
Requeued(task) == [state |-> "queued", node |-> NoNode, attempt |-> task.attempt]
With(task, s) == [task EXCEPT !.state = s]
-----------------------------------------------------------------------------
(* The registry (NodeEntry, Node) and what is derived from it.             *)

NodeStatuses == {"starting", "healthy", "suspect", "offline"}

\* `age' is how long the node has been silent: 0 within the heartbeat budget,
\* 1 past suspect_after_ms, 2 past offline_after_ms.  `up' is handle.is_some().
NoEntry == [present |-> FALSE, status |-> "starting", age |-> 0, up |-> FALSE,
            roles |-> {}, gen |-> 0]

\* What the handlers do to one entry.
Stopped(e) == [e EXCEPT !.up = FALSE, !.status = "offline"]
Started(e) == [present |-> e.present, status |-> "healthy", age |-> 0, up |-> TRUE,
               roles |-> e.roles, gen |-> e.gen]

\* Variant: a generation that starts over with every attachment.
AttachedAfresh(e) == [present |-> TRUE, status |-> "healthy", age |-> 0, up |-> TRUE,
                      roles |-> IF e.present THEN e.roles ELSE {"compute"}, gen |-> 1]

Attached(e) == [present |-> TRUE, status |-> "healthy", age |-> 0, up |-> TRUE,
                roles |-> IF e.present THEN e.roles ELSE {"compute"}, gen |-> e.gen + 1]
WithRole(e, role, enabled) ==
    [e EXCEPT !.roles = IF enabled THEN e.roles \cup {role} ELSE e.roles \ {role}]
AtAge(e, age) == [e EXCEPT !.age = age]

Classify(age) == IF age = 2 THEN "offline" ELSE IF age = 1 THEN "suspect" ELSE "healthy"

\* sweep_health on one entry: only a running node is judged by its silence.
Judged(e) == IF e.present /\ e.up THEN [e EXCEPT !.status = Classify(e.age)] ELSE e

AcceptsWork(n) == nodes[n].present /\ nodes[n].status = "healthy"
Schedulable(n) == AcceptsWork(n) /\ "compute" \in nodes[n].roles

Active(t) == tasks[t].state \in {"assigned", "running"}
\* Variant: only the tasks that have started count as occupying their node.
BusyRunning == {tasks[t].node : t \in {u \in Task : tasks[u].state = "running"}}

Busy == {tasks[t].node : t \in {u \in Task : Active(u)}}
Candidates == {n \in Node : nodes[n].up /\ Schedulable(n) /\ n \notin Busy}

Lowest(S) == IF S = {} THEN NoNode ELSE CHOOSE n \in S : \A m \in S : n <= m

Elected ==
    LET healthy == {n \in Node : AcceptsWork(n)}
        eligible == {n \in healthy : "coordinator" \in nodes[n].roles}
    IN Lowest(IF eligible # {} THEN eligible ELSE healthy)

Gateway == Lowest({n \in Node : AcceptsWork(n) /\ "gateway" \in nodes[n].roles})

\* What requeue_tasks_of collects for the nodes in S.
AffectedBy(S) ==
    {t \in Task : /\ tasks[t].state \in TaskStates
                  /\ ~ TaskTerminal(tasks[t].state)
                  /\ tasks[t].node \in S}
-----------------------------------------------------------------------------
\* The registry `bootstrap' builds.
InitialNodes ==
    [n \in Node |->
        IF n \in Simulated \cup Declared
        THEN [present |-> TRUE,
              status |-> IF n \in Simulated THEN "healthy" ELSE "offline",
              age |-> 0, up |-> n \in Simulated,
              roles |-> InitRoles[n], gen |-> 0]
        ELSE NoEntry]

Init ==
    /\ issued = 0
    /\ jobs = [j \in Job |-> NoJob]
    /\ tasks = [t \in Task |-> NoTask]
    /\ failures = [t \in Task |-> 0]
    /\ queue = <<>>
    /\ nodes = InitialNodes
    /\ leader = Elected
    /\ gateway = Gateway
    /\ pending = {}
    /\ todo = {}

\* No handler is running: the select! of `run' may pick the next message.
Idle == pending = {} /\ todo = {}

tableVars == <<issued, jobs, tasks, failures, queue>>
registryVars == <<nodes, leader, gateway>>
-----------------------------------------------------------------------------
(* What several handlers call.                                             *)

\* Variant: one task short of settling.
SettledLate(j, job) ==
    LET next == IF job.failed > 0 THEN "failed" ELSE "completed"
    IN IF /\ job.completed + job.failed > TaskCount[j]
          /\ ~ JobTerminal(job.state)
          /\ JobCanBecome(job.state, next)
       THEN [job EXCEPT !.state = next]
       ELSE job

\* settle_job, on the record of job j.
Settled(j, job) ==
    LET next == IF job.failed > 0 THEN "failed" ELSE "completed"
    IN IF /\ job.completed + job.failed >= TaskCount[j]
          /\ ~ JobTerminal(job.state)
          /\ JobCanBecome(job.state, next)
       THEN [job EXCEPT !.state = next]
       ELSE job

Counted(job, c, f) ==
    [state |-> job.state, completed |-> job.completed + c, failed |-> job.failed + f]

\* One more task of job j completed (c = 1) or failed (f = 1); a job that is not
\* in memory is left alone.
CountTask(j, c, f) ==
    jobs' = IF jobs[j].state = "none"
            THEN jobs
            ELSE [jobs EXCEPT ![j] = Settled(j, Counted(@, c, f))]

\* retry_or_give_up: back to the end of the queue, or failed for good.
RetryOrGiveUp(t) ==
    LET retry == tasks[t].attempt < MaxTaskAttempts
    IN IF ~ TaskCanBecome(tasks[t].state, IF retry THEN "queued" ELSE "failed")
       THEN UNCHANGED <<tasks, queue, jobs>>
       ELSE IF retry
       THEN /\ tasks' = [tasks EXCEPT ![t] = Requeued(@)]
            /\ queue' = Append(queue, t)
            /\ UNCHANGED jobs
       ELSE /\ tasks' = [tasks EXCEPT ![t] = With(@, "failed")]
            /\ CountTask(JobOf(t), 0, 1)
            /\ UNCHANGED queue

RecordFailure(t) == failures' = [failures EXCEPT ![t] = @ + 1]
-----------------------------------------------------------------------------
(* The later phases of a handler, in the order the code calls them:        *)
(* requeue_tasks_of, refresh_leadership, dispatch, prune_memory.           *)

\* Nodes are swept in id order, the tasks of a node in id order.
FirstPending ==
    CHOOSE t \in pending : \A u \in pending :
        \/ tasks[t].node < tasks[u].node
        \/ tasks[t].node = tasks[u].node /\ t <= u

RequeueTask ==
    /\ pending # {}
    /\ LET t == FirstPending
       IN /\ RecordFailure(t)
          /\ RetryOrGiveUp(t)
          /\ pending' = pending \ {t}
    /\ UNCHANGED <<issued, registryVars, todo>>

RefreshLeadership ==
    /\ pending = {} /\ "lead" \in todo
    /\ leader' = Elected
    /\ gateway' = Gateway
    /\ todo' = todo \ {"lead"}
    /\ UNCHANGED <<tableVars, nodes, pending>>

Dispatching == pending = {} /\ "lead" \notin todo /\ "dispatch" \in todo

\* The loop of `dispatch' returns: nothing is queued, or nobody is free.  An id
\* whose task is not in memory is dropped first.
DispatchDone ==
    /\ Dispatching
    /\ queue = <<>> \/ Candidates = {}
    /\ IF queue # <<>> /\ tasks[Head(queue)].state = "none"
       THEN queue' = Tail(queue) /\ UNCHANGED todo
       ELSE todo' = todo \ {"dispatch"} /\ UNCHANGED queue
    /\ UNCHANGED <<issued, jobs, tasks, failures, registryVars, pending>>

\* The head of the queue may be placed; ~ Placeable is the `continue' taken for
\* an illegal assignment.
Placeable == TaskCanBecome(tasks[Head(queue)].state, "assigned")

\* try_send to node n succeeded.
DispatchSent(n) ==
    /\ Dispatching
    /\ queue # <<>>
    /\ n \in Candidates
    /\ queue' = Tail(queue)
    /\ LET t == Head(queue)
           j == JobOf(t)
       IN IF Placeable
          THEN /\ tasks' = [tasks EXCEPT ![t] = Assigned(@, n)]
               /\ jobs' = IF jobs[j].state = "queued"
                          THEN [jobs EXCEPT ![j] = [jobs[j] EXCEPT !.state = "running"]] ELSE jobs
          ELSE UNCHANGED <<tasks, jobs>>
    /\ UNCHANGED <<issued, failures, registryVars, pending, todo>>

\* Variant: the task is put back without having been taken off the queue.
DispatchUnsentTwice(n) ==
    /\ Dispatching
    /\ queue # <<>>
    /\ n \in Candidates
    /\ Placeable
    /\ tasks' = [tasks EXCEPT ![Head(queue)] = Requeued(Assigned(@, n))]
    /\ queue' = <<Head(queue)>> \o queue
    /\ todo' = todo \ {"dispatch"}
    /\ UNCHANGED <<issued, jobs, failures, registryVars, pending>>

\* try_send to node n failed: its mailbox is full or its receiver is gone.  The
\* task goes back to the front with its attempt counted, and the pass ends.
DispatchUnsent(n) ==
    /\ Dispatching
    /\ queue # <<>>
    /\ n \in Candidates
    /\ Placeable
    /\ tasks' = [tasks EXCEPT ![Head(queue)] = Requeued(Assigned(@, n))]
    /\ queue' = <<Head(queue)>> \o Tail(queue)
    /\ todo' = todo \ {"dispatch"}
    /\ UNCHANGED <<issued, jobs, failures, registryVars, pending>>

InMemory == {j \in Job : jobs[j].state # "none"}

\* Variant: a job with nothing queued is taken for a settled one.
RemovableUnqueued ==
    LET done == {j \in InMemory : \A t \in TasksOf(j) : tasks[t].state # "queued"}
    IN {j \in done : Cardinality({k \in done : k <= j})
                       <= Cardinality(InMemory) - JobBuffer}

\* The oldest settled jobs, as many as the table is over its buffer.
Removable ==
    LET done == {j \in InMemory : JobTerminal(jobs[j].state)}
    IN {j \in done : Cardinality({k \in done : k <= j})
                       <= Cardinality(InMemory) - JobBuffer}

PruneMemory ==
    /\ pending = {} /\ todo = {"prune"}
    /\ jobs' = [j \in Job |-> IF j \in Removable THEN NoJob ELSE jobs[j]]
    /\ tasks' = [t \in Task |-> IF JobOf(t) \in Removable THEN NoTask ELSE tasks[t]]
    /\ todo' = {}
    /\ UNCHANGED <<issued, failures, queue, registryVars, pending>>
-----------------------------------------------------------------------------
(* Periodic work.                                                          *)

\* `tick': sweep_health judges every running node by the age of its last
\* heartbeat and requeues the work of the ones that just went offline.
Tick ==
    /\ Idle
    /\ nodes' = [n \in Node |-> Judged(nodes[n])]
    /\ pending' = AffectedBy({n \in Node : /\ nodes[n].status # "offline"
                                           /\ Judged(nodes[n]).status = "offline"})
    /\ todo' = {"lead", "dispatch", "prune"}
    /\ UNCHANGED <<tableVars, leader, gateway>>

\* Time passes without a heartbeat from n.  Only Tick reads the age, so nothing
\* is lost by letting time pass between handlers only.
Silence(n) ==
    /\ Idle
    /\ nodes[n].present /\ nodes[n].up /\ nodes[n].age < 2
    /\ nodes' = [nodes EXCEPT ![n] = AtAge(@, nodes[n].age + 1)]
    /\ UNCHANGED <<tableVars, leader, gateway, pending, todo>>
-----------------------------------------------------------------------------
(* Reports from nodes.                                                     *)

HeartbeatReport(n) ==
    /\ Idle
    /\ nodes[n].present
    /\ nodes' = [nodes EXCEPT ![n] = AtAge(@, 0)]
    /\ UNCHANGED <<tableVars, leader, gateway, pending, todo>>

TaskStarted(n, t) ==
    /\ Idle
    /\ tasks' = IF tasks[t].node = n /\ TaskCanBecome(tasks[t].state, "running")
                THEN [tasks EXCEPT ![t] = With(@, "running")] ELSE tasks
    /\ UNCHANGED <<issued, jobs, failures, queue, registryVars, pending, todo>>

\* Variant: a report about a settled task is not recognised as late.
LateByNode(n, t) == tasks[t].state = "none" \/ tasks[t].node # n

\* finish_task: a report about a task that is not this node's any more, or is
\* settled, changes nothing.
Late(n, t) == tasks[t].state = "none" \/ tasks[t].node # n \/ TaskTerminal(tasks[t].state)

\* Variant: the job is credited before the report is checked.
TaskCompletedUnchecked(n, t) ==
    /\ Idle
    /\ tasks' = IF Late(n, t) \/ ~ TaskCanBecome(tasks[t].state, "completed")
                THEN tasks ELSE [tasks EXCEPT ![t] = With(@, "completed")]
    /\ CountTask(JobOf(t), 1, 0)
    /\ todo' = {"dispatch"}
    /\ UNCHANGED <<issued, failures, queue, registryVars, pending>>

TaskCompleted(n, t) ==
    /\ Idle
    /\ IF Late(n, t) \/ ~ TaskCanBecome(tasks[t].state, "completed")
       THEN UNCHANGED <<tasks, jobs>>
       ELSE /\ tasks' = [tasks EXCEPT ![t] = With(@, "completed")]
            /\ CountTask(JobOf(t), 1, 0)
    /\ todo' = {"dispatch"}
    /\ UNCHANGED <<issued, failures, queue, registryVars, pending>>

TaskFailed(n, t) ==
    /\ Idle
    /\ IF Late(n, t)
       THEN UNCHANGED <<tasks, jobs, queue, failures>>
       ELSE RecordFailure(t) /\ RetryOrGiveUp(t)
    /\ todo' = {"dispatch"}
    /\ UNCHANGED <<issued, registryVars, pending>>
-----------------------------------------------------------------------------
(* Commands.  A refused command changes nothing and is not an action.      *)

\* Variant: the id is the first one not in memory, so pruned ids come back.
SubmitJobReusing(stored) ==
    /\ Idle /\ stored
    /\ \E j \in Job :
          /\ jobs[j].state = "none" /\ \A k \in 1 .. (j - 1) : jobs[k].state # "none"
          /\ issued' = IF j > issued THEN j ELSE issued
          /\ jobs' = [jobs EXCEPT ![j] = NewJob]
          /\ tasks' = [t \in Task |-> IF t \in TasksOf(j) THEN NewTask ELSE tasks[t]]
          /\ queue' = queue \o [i \in 1 .. TaskCount[j] |-> FirstTask[j] + i - 1]
          /\ failures' = [t \in Task |-> IF t \in TasksOf(j) THEN 0 ELSE failures[t]]
    /\ todo' = {"dispatch"}
    /\ UNCHANGED <<registryVars, pending>>

\* Ids are reserved before the job is created; `stored' is whether create_job
\* succeeded.  A failed submission leaves a gap in the ids and nothing else.
SubmitJob(stored) ==
    /\ Idle
    /\ issued < MaxJob
    /\ issued' = issued + 1
    /\ LET j == issued + 1
       IN IF stored
          THEN /\ jobs' = [jobs EXCEPT ![j] = NewJob]
               /\ tasks' = [t \in Task |-> IF t \in TasksOf(j) THEN NewTask ELSE tasks[t]]
               /\ queue' = queue \o [i \in 1 .. TaskCount[j] |-> FirstTask[j] + i - 1]
               /\ todo' = {"dispatch"}
          ELSE UNCHANGED <<jobs, tasks, queue, todo>>
    /\ UNCHANGED <<failures, registryVars, pending>>

\* Variant: a role change that does not elect again.
SetRoleOnly(n, role, enabled) ==
    /\ Idle
    /\ nodes[n].present
    /\ enabled # (role \in nodes[n].roles)
    /\ nodes' = [nodes EXCEPT ![n] = WithRole(@, role, enabled)]
    /\ UNCHANGED <<tableVars, leader, gateway, pending, todo>>

SetRole(n, role, enabled) ==
    /\ Idle
    /\ nodes[n].present
    /\ enabled # (role \in nodes[n].roles)
    /\ nodes' = [nodes EXCEPT ![n] = WithRole(@, role, enabled)]
    /\ todo' = {"lead"}
    /\ UNCHANGED <<tableVars, leader, gateway, pending>>

\* next_free_id.
NextFreeId == Lowest({n \in Node : ~ nodes[n].present})

\* attach_remote.  A worker that asks for an id takes over an entry that is not
\* healthy, evicting whatever connection still holds it; an anonymous worker is
\* given an entry of its own.
AttachRemote(n) ==
    /\ Idle
    /\ \/ /\ nodes[n].present /\ n \notin Simulated
          /\ ~ (nodes[n].up /\ nodes[n].status = "healthy")
       \/ n = NextFreeId
    /\ nodes[n].gen < MaxGen
    /\ nodes' = [nodes EXCEPT ![n] = Attached(@)]
    /\ todo' = {"lead", "dispatch"}
    /\ UNCHANGED <<tableVars, leader, gateway, pending>>

\* Variant: the worker is forgotten and its work with it.
DetachRemoteOnly(n, gen) ==
    /\ Idle
    /\ nodes[n].present /\ nodes[n].up /\ nodes[n].gen = gen
    /\ nodes' = [nodes EXCEPT ![n] = IF n \in Declared THEN Stopped(@) ELSE NoEntry]
    /\ todo' = {"lead", "dispatch"}
    /\ UNCHANGED <<tableVars, leader, gateway, pending>>

\* detach_remote.  A connection reports the generation its attachment was given,
\* 1 or more; the entry of an in-process node stays at 0.
DetachRemote(n, gen) ==
    /\ Idle
    /\ nodes[n].present /\ nodes[n].up /\ nodes[n].gen = gen
    /\ nodes' = [nodes EXCEPT ![n] = IF n \in Declared THEN Stopped(@) ELSE NoEntry]
    /\ pending' = AffectedBy({n})
    /\ todo' = {"lead", "dispatch"}
    /\ UNCHANGED <<tableVars, leader, gateway>>

\* Variant: the node is stopped and its work is left to the heartbeat sweep.
StopNodeOnly(n) ==
    /\ Idle
    /\ nodes[n].present /\ nodes[n].up
    /\ nodes' = [nodes EXCEPT ![n] = Stopped(@)]
    /\ todo' = {"lead", "dispatch"}
    /\ UNCHANGED <<tableVars, leader, gateway, pending>>

StopNode(n) ==
    /\ Idle
    /\ nodes[n].present /\ nodes[n].up
    /\ nodes' = [nodes EXCEPT ![n] = Stopped(@)]
    /\ pending' = AffectedBy({n})
    /\ todo' = {"lead", "dispatch"}
    /\ UNCHANGED <<tableVars, leader, gateway>>

StartNode(n) ==
    /\ Idle
    /\ n \in Simulated /\ ~ nodes[n].up
    /\ nodes' = [nodes EXCEPT ![n] = Started(@)]
    /\ todo' = {"lead", "dispatch"}
    /\ UNCHANGED <<tableVars, leader, gateway, pending>>
-----------------------------------------------------------------------------
\* The steps of the handler that is running.
HandlerStep ==
    \/ RequeueTask
    \/ RefreshLeadership
    \/ DispatchDone
    \/ \E n \in Node : DispatchSent(n) \/ DispatchUnsent(n)
    \/ PruneMemory

Next ==
    \/ HandlerStep
    \/ Tick
    \/ \E n \in Faulty : Silence(n)
    \/ \E n \in Node : HeartbeatReport(n)
    \/ \E n \in Node, t \in Task :
          TaskStarted(n, t) \/ TaskCompleted(n, t) \/ TaskFailed(n, t)
    \/ \E stored \in BOOLEAN : SubmitJob(stored)
    \/ \E n \in Node, role \in Role, enabled \in BOOLEAN :
          <<n, role>> \in Switchable /\ SetRole(n, role, enabled)
    \/ \E n \in Faulty : StopNode(n)
    \/ \E n \in Node : AttachRemote(n) \/ StartNode(n)
    \/ \E n \in Node, gen \in 1 .. MaxGen : DetachRemote(n, gen)

Spec == Init /\ [][Next]_vars
-----------------------------------------------------------------------------
(* Invariants.                                                             *)

JobRecord == [state : JobStates \cup {"none"}, completed : Nat, failed : Nat]
TaskRecord == [state : TaskStates \cup {"none"}, node : Node \cup {NoNode},
               attempt : 0 .. AttemptMax]
Entry == [present : BOOLEAN, status : NodeStatuses, age : 0 .. 2, up : BOOLEAN,
          roles : SUBSET Role, gen : 0 .. MaxGen]

\* Every table holds the records its type declares.
TypeOK ==
    /\ issued \in 0 .. MaxJob
    /\ jobs \in [Job -> JobRecord]
    /\ tasks \in [Task -> TaskRecord]
    /\ failures \in [Task -> Nat]
    /\ queue \in Seq(Task)
    /\ nodes \in [Node -> Entry]
    /\ leader \in Node \cup {NoNode}
    /\ gateway \in Node \cup {NoNode}
    /\ pending \subseteq Task
    /\ todo \subseteq {"lead", "dispatch", "prune"}

\* The queue holds the tasks that are queued, each of them once: a retry, a
\* failed send or a swept node never loses a task and never queues it twice.
QueueExact ==
    /\ \A i, k \in 1 .. Len(queue) : queue[i] = queue[k] => i = k
    /\ \A t \in Task : tasks[t].state = "queued" <=>
                         \E i \in 1 .. Len(queue) : queue[i] = t

CompletedOf(j) == {t \in TasksOf(j) : tasks[t].state = "completed"}
FailedOf(j) == {t \in TasksOf(j) : tasks[t].state = "failed"}

\* settle_job trusts the job's own counters instead of scanning the task table:
\* they always equal what the scan would find, whatever reports were repeated,
\* late or out of order.
CountersExact ==
    \A j \in InMemory :
        /\ jobs[j].completed = Cardinality(CompletedOf(j))
        /\ jobs[j].failed = Cardinality(FailedOf(j))

\* A job is settled exactly when every one of its tasks is, and it failed exactly
\* when one of them did; a job still queued has had nothing placed.
JobsSettled ==
    \A j \in InMemory :
        /\ JobTerminal(jobs[j].state) <=> \A t \in TasksOf(j) : TaskTerminal(tasks[t].state)
        /\ jobs[j].state = "completed" <=> \A t \in TasksOf(j) : tasks[t].state = "completed"
        /\ jobs[j].state = "queued" => \A t \in TasksOf(j) : tasks[t].state = "queued"

\* A node never holds two tasks, so a worker that runs one task at a time is
\* never asked for a second one by this table.
OneTaskPerNode ==
    \A t, u \in Task : Active(t) /\ Active(u) /\ tasks[t].node = tasks[u].node => t = u

\* No task waits on a node that is gone: the holder of a task is registered, has
\* a handle and has not been declared offline, or its task is being requeued.
HeldByLiveNode ==
    \A t \in Task : Active(t) /\ t \notin pending =>
        LET n == tasks[t].node
        IN n \in Node /\ nodes[n].present /\ nodes[n].up /\ nodes[n].status # "offline"

\* Between handlers the leader and the gateway are what an election held now
\* would give: no handler changes a status or a role without electing again.
LeadershipFresh == "lead" \notin todo => leader = Elected /\ gateway = Gateway

\* The attempts a task is given: a limit of 0 is accepted and still allows one.
Allowed == IF MaxTaskAttempts = 0 THEN 1 ELSE MaxTaskAttempts

\* Every recorded failure and the execution in progress have an attempt number
\* of their own, a task is failed for good only once its attempts are used up,
\* and no more failures than attempts allowed are ever recorded.
AttemptsAccounted ==
    \A t \in Task :
        /\ Active(t) \/ tasks[t].state = "completed" => failures[t] + 1 <= tasks[t].attempt
        /\ tasks[t].state = "queued" => failures[t] <= tasks[t].attempt
        /\ tasks[t].state = "failed" => tasks[t].attempt >= MaxTaskAttempts
        /\ failures[t] <= Allowed

\* What a step may never do: reopen a settled task or job (the state machine
\* would allow failed -> queued), take back an attempt, or let go of a job that
\* is not settled.  A settled job leaves memory whole, with its tasks.
SettledForGood ==
    [][/\ \A t \in Task : TaskTerminal(tasks[t].state) =>
             tasks'[t] = tasks[t] \/ (tasks'[t] = NoTask /\ jobs'[JobOf(t)] = NoJob)
       /\ \A t \in Task : tasks[t].state # "none" /\ tasks'[t].state # "none" =>
             tasks'[t].attempt >= tasks[t].attempt
       /\ \A j \in Job : JobTerminal(jobs[j].state) => jobs'[j] = jobs[j] \/ jobs'[j] = NoJob
       /\ \A j \in Job : jobs[j].state # "none" /\ jobs'[j].state = "none" =>
             JobTerminal(jobs[j].state)]_vars
-----------------------------------------------------------------------------
Service == INSTANCE JobService
    WITH job <- [j \in Job |-> jobs[j].state],
         task <- [t \in Task |-> IF Active(t) THEN "held" ELSE tasks[t].state],
         used <- 1 .. issued

\* Whatever nodes do, the tables go through nothing but submissions, takings,
\* hand-backs, one end per task and the removal of ended jobs: settle_job ends a
\* job in the very step that ends its last task, although it only reads counters.
ImplementsJobService == Service!Spec
=============================================================================
