# gavel: TLA+ verification

gavel collects auction-house prices, analyses them on a small cluster of workers
and serves the result. This directory models the part of it in which state is
shared and order matters, checks the models with TLC and proves the central
invariants with TLAPS. `PROJECT.json` maps every definition to the source lines
it stands for.

## 1. Inventory

Crates, under `src/crates/`:

| Part | Code | State | Operations | Hard behaviour |
|---|---|---|---|---|
| Supervisor | `cluster-local/src/supervisor.rs` | jobs, tasks, FIFO of task ids, node registry, leader, gateway | tick, reports, commands, attach/detach, dispatch, prune | reports late, repeated or about forgotten tasks; handlers that await in the middle |
| Job and task machines | `cluster-core/src/job.rs` | state, attempt, counters | assign, start, complete, fail, requeue | illegal transitions as the only guard on stale reports |
| In-process nodes | `cluster-local/src/node.rs`, `exec.rs` | mailbox, one running task, pause switch | select! loop | bounded channels both ways, worker that dies, shutdown |
| Remote workers | `cluster-local/src/remote.rs`, `cluster-core/src/agent.rs`, `server/src/worker.rs` | connection, assigned task, generation, agent | welcome, ship, forward, detach, accept, poll | reconnects, evictions, ids given out again, frames still in flight |
| Durable writes | `cluster-local/src/persistence.rs`, `storage/src/sqlite/jobs.rs` | write queue, rows | push, drain, create, prune, reload | crash between two writes, direct writes around the queue |
| Materialisation | `server/src/analysis_work.rs`, `materialise_task.rs`, `storage/src/sqlite/read_model.rs` | registered partitions, results, staged and published rows | begin, finish, collect, stage, publish, abandon | late results of an abandoned candidate, deadline, local fallback |
| Collectors | `server/src/collector_task.rs`, `app-core/src/market/collector.rs`, `realm.rs` | samples, alerts, cadence per realm | collect, back off, alert | failure between commit and alert, bounds that change between runs |
| Web gates | `app-web/src/throttle.rs`, `routes/account.rs`, `session.rs` | windows, permits, sessions | take, enter, drop | check before, count after |
| Caches | `app-web/src/fragment_cache.rs`, `app-integrations/src/blizzard/token.rs` | cells by key, one token | get or build, refresh | eviction during a build, time read before a lock |
| Web shutdown | `app-web/src/shutdown.rs`, `server/src/main.rs` | watch flag, open streams | wait, abort | streams that open while the server goes away |
| Market algorithms | `app-core/src/market/` | none | pure functions | boundaries of windows, ladders, partitions |

How they interact: web handlers and collectors send *commands* to the one
supervisor task and wait for the reply. The supervisor sends *assignments* to
node mailboxes with `try_send` and never waits for a node; nodes send *reports*
on one bounded channel and do wait. A remote worker looks to the supervisor like
a mailbox too: the connection task turns mailbox messages into frames and frames
into reports. Table changes go to a bounded *write queue* with a drainer of its own.
The materialiser submits an analysis job and collects what the workers produced.

## 2. Modules

| Module | Models | Runs |
|---|---|---|
| `JobService` | abstract promise about jobs: no nodes, queue, counters or attempts | `supervisor_tables` |
| `Supervisor` | the supervisor's tables, registry and handlers | `supervisor_tables`, `supervisor_registry` |
| `LocalCluster` | `Supervisor` with in-process nodes and their channels | `local_channels`, `local_liveness` |
| `RemoteCluster` | `Supervisor` with connections, wires and agents | `remote_connections`, `remote_liveness`, `late_detach`, `handed_back`, `evicted_work` |
| `Recovery` | `Supervisor` with the write queue, the store, crash and restart | `crash_recovery`, `unsettled_job`, `write_order` |
| `TypeProofs`, `EffectProofs`, `SupervisorProofs`, `JobServiceProofs`, `RegistryProofs` | proofs about `Supervisor`, each module on top of the one before (the last two both on `SupervisorProofs`) | |
| `MC...` | constants of the instances | |

**Supervisor.** `jobs`, `tasks`, `queue`, `nodes`, `leader`, `gateway` are the fields of
`Supervisor`; `failures` counts the rows of `task_failures`; `issued` is the id sequence of
the store. A handler is one call in `select!` of `run`, but it awaits between
the tasks it requeues and those it places. It is modelled as a first action that
leaves in `pending` and `todo` what the same call still has to do, and steps
(`RequeueTask`, `RefreshLeadership`, `DispatchSent`, ...) that finish it. No handler starts
unless `Idle`. Time is the `age` of a node's last heartbeat, in the three classes
the health policy tells apart. Reports are unconstrained: any node may report
anything about any task at any time. A send may fail at any time.

**LocalCluster** and **RemoteCluster** conjoin the supervisor's actions with what
happens in the mailboxes and channels: `SendTask` is `DispatchSent` plus the message,
`Receive` takes a report out of the channel and hands it to `TaskStarted`, `TaskCompleted`
or `TaskFailed`. Every step of theirs is a step of `Supervisor` or leaves its variables
alone, so what is proved of `Supervisor` holds in both. `NodeStep` follows the biased
`select!` of `run_node`, `ConnStep` the one of `connection`; `Accept` and `Done` are the agent.
Heartbeats carry nothing but their arrival and are handled when sent. `Connect` is a
Hello that reaches `attach_remote`: an anonymous worker is given a free id, and a worker
that asks for an id gets any remote entry that is not healthy, declared or not. The
workers of this repository dial anonymously; the protocol lets others ask.

**Recovery** adds the writes. A step of the supervisor changes at most one task and
one job, so the writes it makes are computed from the change: the task, then the
job with its counter, then the job with its state, in the order of `finish_task` and
`settle_job`. A node is lost by `StopNode` only; the sweep requeues by the same steps.
The queue has room for at least the three writes one step makes. Submissions, failed sends and the reload write directly. `Crash` may come
between any two steps; `Restart` is `restore_jobs` with the registry of `bootstrap`. Any of
its reads may fail (`Reads`): without `recent_jobs` nothing is loaded, a job whose
`tasks_for_job` fails comes back without tasks, and the pages of unfinished jobs end at
the first that cannot be read; `blind` says that it happened. Writes never fail.
A clean shutdown is a crash with an empty queue. `failures` is left alone by a restart.

**JobService.** A job is submitted, its tasks are taken and given back, each ends
once, and the job ends in the same step as its last task. The mapping reads the
job's state, folds `assigned` and `running` into *held*, and forgets everything else.

## 3. What the runs check

Passing:

* `supervisor_tables` (307 thousand states): `QueueExact`, `CountersExact`, `JobsSettled`, `OneTaskPerNode`,
  `AttemptsAccounted`, `SettledForGood`, and the refinement `ImplementsJobService`. Two nodes, one of them remote, a job of two tasks and a
  job of one, two attempts, a buffer of one job: retries, giving up, late reports,
  failed sends, reconnection and pruning all occur.
* `supervisor_registry` (2.2 million): `HeldByLiveNode`, `LeadershipFresh`. Three ids
  (in-process, declared, free), role changes, stops, silence, attachments.
* `local_channels` (1.6 million): `HeldTasksMove`: a task the table shows on a node is in
  its mailbox, its worker or a report on the way. Mailboxes of two, a reports
  channel of one, a dead worker, a pause, a shutdown. Deadlock is not checked
  because the system stops after a shutdown.
* `local_liveness` (65 thousand): `JobsSettle` under `FairLocalSpec`.
* `remote_connections` (1.0 million): `GenerationNamesConnection`, `LateDetachIsHarmless`. Three
  connections on a declared and an undeclared id, which an operator may stop, three
  generations, no job: an id
  and a generation name one connection, and a late `DetachRemote` costs nobody else the
  handle, except among the connections `late_detach` is about.
* `remote_liveness` (120 thousand): `RemoteTypeOK`, and `JobsSettle` under `FairRemoteSpec`: one
  worker that may die, be late or be taken over at any moment, and one that stays.
* `crash_recovery` (573 thousand): `QueueExactAgain`, `NeverOvercounted`, `NoJobForgotten`, `CleanRestartExact`. A job
  of two tasks and a job of one, one attempt, a history window of one job, pages of
  one, two crashes. The first two hold whatever could be read. The other two are
  about a start all of whose reads succeeded: one that could not read may serve
  without an unfinished job for as long as it lives, and the next start that can
  read finds the job where it was.

Bounds. Two tasks and two nodes are what it takes for a stale report of one
run to meet another run of the same task, and for one node to be offered two
tasks; two attempts give both branches of `retry_or_give_up` (a crash requeues like a
retry, so `crash_recovery` does with one); three connections are the evicted one, the one
that took its entry over, and the next to be given the id; a buffer of one makes
pruning happen; channels of capacity one or two are full as soon as two messages
meet. `AttemptMax` stands for `u16::MAX` and is set where saturation is reachable.
`MaxGen`, `MaxPauses`, `MaxAborts`, `MaxCrashes`, `Faulty` and `Switchable` bound how often something
may happen, not what happens.

Fairness. The handler that runs goes on (weak). The supervisor's `select!` picks
among ready branches at random, so a branch that is ready again and again is
taken: strong fairness for the sweep, the reports and, for remote workers, the
attach and detach commands and heartbeats. Nodes and connections have biased loops
whose first ready branch is taken: weak fairness, for a connection together with its
worker. Workers finish what they run. `Stable` names a connection that is not killed,
late or stopped: with none, no job could be expected to settle. Nothing is assumed
about the others, nor about pauses, stops, deaths or failing writes.

Runs that end in a violation record where the code and a comment, a doc or a test
of the repository disagree; the quotations are in `PROJECT.json`:

| Run | What happens |
|---|---|
| `handed_back` | a task handed back to the worker that still runs it is never reported |
| `late_detach` | a connection evicted from an anonymous entry detaches after the id was freed and given out again with the same generation, and evicts the newcomer |
| `evicted_work` | the work of an evicted suspect connection is not requeued |
| `unsettled_job` | a crash between task and job write leaves a job that never settles |
| `write_order` | a direct write is overwritten by an older queued one |

Behaviour the models have and no run states as a property: a node told to stop drops
its running task (`Join`), and one blocked on a full reports channel keeps the shutdown
waiting until the bound in `main`; a failed send counts as an attempt
(`DispatchUnsent`); `StopNode` leaves the entry of an anonymous worker behind; a
connection that cannot write its Welcome leaves without detaching (`WelcomeFails`); a
worker that panics inside a node leaves its task where it is for as long as the node
beats (`Abort`), although the comment at `node.rs:230-232` expects the sweep to notice. The
release profile turns a panic into the end of the process, so only development and
test builds show the last one.

`JobsSettle` has exceptions. In `local_liveness` no worker dies silently. In `remote_liveness` two
cases are excepted, and each has a run of its own: a task handed back to a worker not
yet done with its earlier run (`HandedBack`, run `handed_back`), and a task on a node whose
connection never received it because the one that did was evicted (`Stranded`, run
`evicted_work`). Every property of a passing run has a
mutant of the code that breaks it (the definitions marked *Variant*).

## 4. Proofs

For every number of nodes, jobs, tasks and attempts, under `ConfigAssumption` (the
constants are of their types, in-process and declared ids are disjoint as `bootstrap` makes
them, and the attempt limit fits the counter; a limit of 0 is accepted, as the
configuration accepts it, and still gives every task one attempt) and `AllocationAssumption` (task ids come in disjoint
increasing blocks):

* `TypeCorrect` (`TypeProofs`), and in `SupervisorProofs` `QueueIsExact`, `CountersAreExact` and `JobsSettleExactly`. None of the last three is
  inductive alone: that a job settles on time follows from exact counters, which
  follow from a task ending only out of a held state, which needs the queue to hold
  nothing but queued tasks. `TablesInv` joins them with `Structure` (memory holds a job with
  all of its tasks or none; only held tasks are pending; a held task has a
  node). `StepEffect` (`EffectProofs`) first reduces each action to one of eight *effects* on
  the tables (place, bounce, begin, retry, end, create, drop, none), so the invariant
  is proved per effect and not per action.
* `SupervisorImplementsJobService` (`JobServiceProofs`): each effect is a step of `JobService` or a stutter, using `TablesInv`.
* `OneTaskPerNodeHolds`, `HeldByLiveNodeHolds`, `LeadershipStaysFresh` (`RegistryProofs`) and
  `SettledStaysSettled` (`JobServiceProofs`): from `TablesInv`, action by action.
* `AttemptsAreAccounted` (`JobServiceProofs`): needs `AttemptsInv`, which also says that an unsettled task
  has recorded fewer failures than attempts are allowed, and one not submitted yet none.
  `Allowed` is the limit, or 1 when the limit is 0.

Only model-checked: everything about channels, connections and crashes, and all
liveness, which is out of the prover's reach.

## 5. Not modelled, and the plan

Left out of the modelled parts: event records and their wording, load figures,
join tokens and frame encoding, telemetry, and failing durable writes. The
scheduler's choice is any free node.

Next modules, in this order:

1. `Placement`: `assign_initial_roles`, role degradation, `LeastLoaded` and election against
   reference definitions; `JobSpec::split` covers its input once.
2. `Analysis`: `Artifacts`, `distribute`, `local` and the read model as one
   composition. Published rows always belong to a complete candidate; a late result never
   changes another region; a crash while staging leaves nothing behind. Abstract
   specification: an atomic register of published analyses.
3. `Recovery` with failing writes and the event log (sequence numbers after a crash).
4. `Collector`: cycles, cadence back-off within its bounds, alert cool-down,
   failures between commit and publication.
5. `Gates`: attempt windows, hashing permits and stream permits as concurrent counters.
6. `FragmentCache`, `TokenCache`: coalescing, eviction and staleness; `WebShutdown`: streams end, the grace period bounds the rest.
7. Integer market algorithms (ladders, windows, partitions, cadence) as operators.
8. Proofs: `RemoteCluster!GenerationNamesConnection` and `LateDetachIsHarmless`, `LocalCluster!HeldTasksMove`,
   `Recovery!NeverOvercounted`, and the refinement of the published register.

Out of reach: rendering, HTTP clients, floating-point statistics, SQL itself (a
transaction is an atomic step).
