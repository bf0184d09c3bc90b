--------------------------- MODULE RegistryProofs ---------------------------
(* Tasks and the nodes that hold them, and leadership.                     *)
EXTENDS SupervisorProofs

\* Only a placement gives a node a task, and it picks a node that holds none.
LEMMA EffectOneTask ==
    ASSUME TypeOK, TypeOK', Structure, OneTaskPerNode, Effect
    PROVE  OneTaskPerNode'
<1>t. tasks \in [Task -> TaskRecord] /\ tasks' \in [Task -> TaskRecord]
    BY DEF TypeOK
\* Enough: whoever is active now was active on the same node, except one task
\* on a node that was free.
<1>e. ASSUME NEW t \in Task, NEW n, n \notin Busy, tasks'[t].node = n,
             \A u \in Task \ {t} : Active(u)' => Active(u) /\ tasks'[u].node = tasks[u].node
      PROVE  OneTaskPerNode'
    <2>1. \A u \in Task : Active(u) => tasks[u].node \in Busy
        BY DEF Busy
    <2> QED
        BY <1>e, <2>1 DEF OneTaskPerNode
<1>f. ASSUME \A u \in Task : Active(u)' => Active(u) /\ tasks'[u].node = tasks[u].node
      PROVE  OneTaskPerNode'
    BY <1>f DEF OneTaskPerNode
<1>1. CASE Unmoved
    BY <1>1, <1>f DEF Unmoved, Active
<1>2. ASSUME NEW t \in Task, NEW n \in Node, Place(t, n) PROVE OneTaskPerNode'
    <2>1. tasks'[t].node = n /\ \A u \in Task \ {t} : tasks'[u] = tasks[u]
        BY <1>2, <1>t DEF Place, Assigned
    <2>2. n \notin Busy
        BY <1>2 DEF Place, Candidates
    <2> QED
        BY <2>1, <2>2, <1>e DEF Active
<1>3. ASSUME NEW t \in Task, NEW n \in Node, Bounce(t, n) PROVE OneTaskPerNode'
    <2>1. tasks'[t].state = "queued" /\ \A u \in Task \ {t} : tasks'[u] = tasks[u]
        BY <1>3, <1>t DEF Bounce, Requeued
    <2> QED
        BY <2>1, <1>f DEF Active
<1>4. ASSUME NEW t \in Task, Begin(t) PROVE OneTaskPerNode'
    <2>1. /\ tasks[t].state = "assigned" /\ tasks'[t].node = tasks[t].node
          /\ \A u \in Task \ {t} : tasks'[u] = tasks[u]
        BY <1>4, <1>t DEF Begin, With, TaskRecord
    <2> QED
        BY <2>1, <1>f DEF Active
<1>5. ASSUME NEW t \in Task, Retry(t) PROVE OneTaskPerNode'
    <2>1. tasks'[t].state = "queued" /\ \A u \in Task \ {t} : tasks'[u] = tasks[u]
        BY <1>5, <1>t DEF Retry, Requeued
    <2> QED
        BY <2>1, <1>f DEF Active
<1>6. ASSUME NEW t \in Task, NEW s \in {"completed", "failed"}, NEW c, NEW f, End(t, s, c, f)
      PROVE  OneTaskPerNode'
    <2>1. tasks'[t].state = s /\ \A u \in Task \ {t} : tasks'[u] = tasks[u]
        BY <1>6, <1>t DEF End, With, TaskRecord
    <2> QED
        BY <2>1, <1>f DEF Active
<1>7. ASSUME NEW stored \in BOOLEAN, Create(stored) PROVE OneTaskPerNode'
    <2>1. \A u \in Task : tasks'[u] = tasks[u] \/ tasks'[u].state = "queued"
        BY <1>7, <1>t DEF Create, NewTask
    <2> QED
        BY <2>1, <1>f DEF Active
<1>8. CASE Drop(Removable)
    <2>1. \A u \in Task : tasks'[u] = tasks[u] \/ tasks'[u].state = "none"
        BY <1>8, <1>t DEF Drop, NoTask
    <2> QED
        BY <2>1, <1>f DEF Active
<1> QED
    BY <1>1, <1>2, <1>3, <1>4, <1>5, <1>6, <1>7, <1>8 DEF Effect

\* dispatch never gives a node a second task: the busy set it derives from the
\* table and maintains while it places work is enough.
THEOREM OneTaskPerNodeHolds == Spec => []OneTaskPerNode
<1>1. Init => OneTaskPerNode
    BY DEF Init, OneTaskPerNode, Active, NoTask
<1>2. TablesInv /\ TablesInv' /\ OneTaskPerNode /\ [Next]_vars => OneTaskPerNode'
    BY StepEffect, EffectOneTask DEF TablesInv
<1> QED
    BY <1>1, <1>2, TablesInvariant, PTL DEF Spec
-----------------------------------------------------------------------------
(* Leadership.                                                             *)

\* An election reads statuses, roles and presence, and nothing else.
LEMMA SameElection ==
    ASSUME \A n \in Node : /\ AcceptsWork(n)' <=> AcceptsWork(n)
                           /\ nodes'[n].roles = nodes[n].roles
    PROVE  Elected' = Elected /\ Gateway' = Gateway
<1>1. {n \in Node : AcceptsWork(n)}' = {n \in Node : AcceptsWork(n)}
    OBVIOUS
<1>2. {n \in Node : AcceptsWork(n) /\ "gateway" \in nodes[n].roles}'
        = {n \in Node : AcceptsWork(n) /\ "gateway" \in nodes[n].roles}
    OBVIOUS
<1>3. {n \in {m \in Node : AcceptsWork(m)} : "coordinator" \in nodes[n].roles}'
        = {n \in {m \in Node : AcceptsWork(m)} : "coordinator" \in nodes[n].roles}
    OBVIOUS
<1>4. Gateway' = Gateway
    BY Zenon, <1>2 DEF Gateway
<1>5. Elected' = Elected
    BY Zenon, <1>1, <1>3 DEF Elected
<1> QED
    BY <1>4, <1>5

\* Hearing from a node, or not, is no reason to elect: only the sweep is.
LEMMA AgeElectsNobody ==
    ASSUME TypeOK, NEW n \in Node, NEW age \in 0 .. 2, nodes' = [nodes EXCEPT ![n] = AtAge(@, age)]
    PROVE  Elected' = Elected /\ Gateway' = Gateway
<1>1. nodes \in [Node -> Entry]
    BY DEF TypeOK
<1>2. ASSUME NEW m \in Node
      PROVE  /\ nodes'[m].roles = nodes[m].roles /\ nodes'[m].status = nodes[m].status
             /\ nodes'[m].present = nodes[m].present
    <2>1. CASE m = n
        BY <1>1, <2>1 DEF AtAge, Entry
    <2>2. CASE m # n
        BY <1>1, <2>2
    <2> QED
        BY <2>1, <2>2
<1>3. \A m \in Node : AcceptsWork(m)' <=> AcceptsWork(m)
    BY <1>2 DEF AcceptsWork
<1> QED
    BY <1>2, <1>3, SameElection

\* A step that changes what an election reads leaves a refresh to do.
LEMMA NextLeadership ==
    ASSUME TypeOK, LeadershipFresh, [Next]_vars
    PROVE  LeadershipFresh'
<1> USE DEF registryVars, tableVars
<1>n. nodes' = nodes => Elected' = Elected /\ Gateway' = Gateway
    BY DEF Elected, Gateway, AcceptsWork, Lowest
<1>s. ASSUME UNCHANGED <<leader, gateway>>, Elected' = Elected, Gateway' = Gateway,
             "lead" \notin todo' => "lead" \notin todo
      PROVE  LeadershipFresh'
    BY <1>s DEF LeadershipFresh
<1>1. CASE RequeueTask \/ DispatchDone \/ PruneMemory \/ UNCHANGED vars
    BY <1>1, <1>n, <1>s DEF RequeueTask, DispatchDone, Dispatching, PruneMemory, vars
<1>2. CASE RefreshLeadership
    BY <1>2, <1>n DEF RefreshLeadership, LeadershipFresh
<1>3. ASSUME NEW n \in Node, DispatchSent(n) \/ DispatchUnsent(n) PROVE LeadershipFresh'
    BY <1>3, <1>n, <1>s DEF DispatchSent, DispatchUnsent, Dispatching
<1>4. CASE Tick
    BY <1>4 DEF Tick, LeadershipFresh
<1>5. ASSUME NEW n \in Node, Silence(n) PROVE LeadershipFresh'
    <2>1. nodes[n].age \in 0 .. 2 /\ nodes[n].age < 2
        BY <1>5 DEF Silence, TypeOK, Entry
    <2>2. nodes[n].age + 1 \in 0 .. 2
        BY <2>1
    <2> QED
        BY Zenon, <1>5, <2>2, AgeElectsNobody, <1>s DEF Silence
<1>6. ASSUME NEW n \in Node, HeartbeatReport(n) PROVE LeadershipFresh'
    <2>1. 0 \in 0 .. 2
        OBVIOUS
    <2> QED
        BY Zenon, <1>6, <2>1, AgeElectsNobody, <1>s DEF HeartbeatReport
<1>7. ASSUME NEW n \in Node, NEW t \in Task, TaskStarted(n, t) \/ TaskCompleted(n, t) \/ TaskFailed(n, t)
      PROVE  LeadershipFresh'
    BY <1>7, <1>n, <1>s DEF TaskStarted, TaskCompleted, TaskFailed, Idle
<1>8. ASSUME NEW stored \in BOOLEAN, SubmitJob(stored) PROVE LeadershipFresh'
    BY <1>8, <1>n, <1>s DEF SubmitJob, Idle
<1>9. ASSUME NEW n \in Node, NEW role \in Role, NEW enabled \in BOOLEAN, SetRole(n, role, enabled)
      PROVE  LeadershipFresh'
    BY <1>9 DEF SetRole, LeadershipFresh
<1>10. ASSUME NEW n \in Node, StopNode(n) \/ AttachRemote(n) \/ StartNode(n)
       PROVE  LeadershipFresh'
    BY <1>10 DEF StopNode, AttachRemote, StartNode, LeadershipFresh
<1>11. ASSUME NEW n \in Node, NEW gen \in 1 .. MaxGen, DetachRemote(n, gen) PROVE LeadershipFresh'
    BY <1>11 DEF DetachRemote, LeadershipFresh
<1> QED
    BY Zenon, <1>1, <1>2, <1>3, <1>4, <1>5, <1>6, <1>7, <1>8, <1>9, <1>10, <1>11, ConfigAssumption
    DEF Next, HandlerStep

\* Between handlers the leader and the gateway are the ones an election would
\* choose now: every handler that changes a status or a role calls
\* refresh_leadership before it returns.
THEOREM LeadershipStaysFresh == Spec => []LeadershipFresh
<1>1. Init => LeadershipFresh
    BY DEF Init, LeadershipFresh
<1>2. TypeOK /\ LeadershipFresh /\ [Next]_vars => LeadershipFresh'
    BY NextLeadership
<1> QED
    BY <1>1, <1>2, TypeCorrect, PTL DEF Spec
-----------------------------------------------------------------------------
(* The holder of a task is alive.                                          *)

\* The entry of node n can run work: what HeldByLiveNode asks of a holder.
Live(n) == n \in Node /\ nodes[n].present /\ nodes[n].up /\ nodes[n].status # "offline"

\* The tasks a handler collects for the nodes in S are exactly the ones they hold.
LEMMA AffectedAreHeld ==
    ASSUME TypeOK, NEW S \in SUBSET Node, NEW t \in Task, Active(t), tasks[t].node \in S
    PROVE  t \in AffectedBy(S)
BY DEF AffectedBy, Active, TaskStates, TaskTerminal

\* A step that takes a node out of service collects the tasks it holds.
LEMMA NextHeld ==
    ASSUME TablesInv, TypeOK', HeldByLiveNode, [Next]_vars
    PROVE  HeldByLiveNode'
<1> USE DEF registryVars, tableVars
<1>t. TypeOK /\ Structure /\ nodes \in [Node -> Entry] /\ tasks \in [Task -> TaskRecord]
    BY DEF TablesInv, TypeOK
<1>e. Effect
    BY StepEffect DEF TablesInv
<1>g. HeldByLiveNode <=> \A t \in Task : Active(t) /\ t \notin pending => Live(tasks[t].node)
    BY DEF HeldByLiveNode, Live
<1>p. HeldByLiveNode' <=> \A t \in Task : Active(t)' /\ t \notin pending' => Live(tasks[t].node)'
    BY DEF HeldByLiveNode, Live
\* Steps that leave the registry alone: the node of a held task is as it was.
<1>k. ASSUME nodes' = nodes,
             \A t \in Task : Active(t)' /\ t \notin pending' =>
                \/ Active(t) /\ t \notin pending /\ tasks'[t].node = tasks[t].node
                \/ Live(tasks'[t].node)
      PROVE  HeldByLiveNode'
    BY <1>k, <1>g, <1>p DEF Live
\* Steps that leave the tables alone: every holder that is not live any more has
\* its tasks collected.
<1>c. ASSUME tasks' = tasks, pending = {},
             \A t \in Task : Active(t) /\ Live(tasks[t].node) /\ t \notin pending' => Live(tasks[t].node)'
      PROVE  HeldByLiveNode'
    BY <1>c, <1>g, <1>p DEF Active
<1>1. CASE RequeueTask
    <2>1. PICK f \in Task : f = FirstPending /\ Active(f)
        BY <1>1, <1>t, FirstPendingIsPending DEF RequeueTask, TypeOK, Structure
    <2>2. RetryOrGiveUp(f) /\ UNCHANGED issued /\ nodes' = nodes /\ pending' = pending \ {f}
        BY <1>1, <2>1 DEF RequeueTask
    <2>3. Retry(f) \/ End(f, "failed", 0, 1)
        BY <1>t, <2>1, <2>2, RetryEffect
    <2>4. ~ Active(f)' /\ \A t \in Task \ {f} : tasks'[t] = tasks[t]
        <3>1. CASE Retry(f)
            BY <3>1, <1>t DEF Retry, Requeued, Active
        <3>2. CASE End(f, "failed", 0, 1)
            BY <3>2, <1>t DEF End, With, Active, TaskRecord
        <3> QED
            BY <2>3, <3>1, <3>2
    <2> QED
        BY <2>2, <2>4, <1>k DEF Active
<1>2. CASE UNCHANGED <<nodes, tasks, pending>>
    BY <1>2, <1>k DEF Active
<1>3. ASSUME NEW n \in Node, DispatchSent(n) PROVE HeldByLiveNode'
    <2>1. Live(n)
        BY <1>3 DEF DispatchSent, Candidates, Schedulable, AcceptsWork, Live
    <2>2. \A t \in Task : tasks'[t] = tasks[t] \/ tasks'[t].node = n
        BY <1>3, <1>t DEF DispatchSent, Assigned
    <2>3. nodes' = nodes /\ pending' = pending
        BY <1>3 DEF DispatchSent
    <2> QED
        BY <2>1, <2>2, <2>3, <1>k DEF Active
<1>4. ASSUME NEW n \in Node, DispatchUnsent(n) PROVE HeldByLiveNode'
    <2>1. \A t \in Task : tasks'[t] = tasks[t] \/ tasks'[t].state = "queued"
        BY <1>4, <1>t DEF DispatchUnsent, Requeued
    <2>2. nodes' = nodes /\ pending' = pending
        BY <1>4 DEF DispatchUnsent
    <2> QED
        BY <2>1, <2>2, <1>k DEF Active
<1>5. CASE PruneMemory
    <2>1. \A t \in Task : tasks'[t] = tasks[t] \/ tasks'[t].state = "none"
        BY <1>5 DEF PruneMemory, NoTask
    <2>2. nodes' = nodes /\ pending' = pending
        BY <1>5 DEF PruneMemory
    <2> QED
        BY <2>1, <2>2, <1>k DEF Active
<1>6. CASE Tick
    <2> DEFINE S == {n \in Node : nodes[n].status # "offline" /\ Judged(nodes[n]).status = "offline"}
    <2>1. tasks' = tasks /\ pending = {} /\ pending' = AffectedBy(S)
        BY <1>6 DEF Tick, Idle
    <2>2. nodes' = [n \in Node |-> Judged(nodes[n])]
        BY <1>6 DEF Tick
    <2>3. \A n \in Node : /\ Judged(nodes[n]).present = nodes[n].present
                          /\ Judged(nodes[n]).up = nodes[n].up
        BY <1>t DEF Judged, Entry
    <2>4. ASSUME NEW t \in Task, Active(t), Live(tasks[t].node), t \notin pending'
          PROVE  Live(tasks[t].node)'
        <3>1. tasks[t].node \in Node /\ nodes[tasks[t].node].status # "offline"
            BY <2>4 DEF Live
        <3>2. tasks[t].node \notin S
            BY <2>4, <2>1, <1>t, AffectedAreHeld
        <3>3. Judged(nodes[tasks[t].node]).status # "offline"
            BY <3>1, <3>2
        <3> QED
            BY <2>1, <2>2, <2>3, <2>4, <3>1, <3>3 DEF Live
    <2> QED
        BY <2>1, <2>4, <1>c
<1>7. ASSUME NEW n \in Node, Silence(n) \/ HeartbeatReport(n) PROVE HeldByLiveNode'
    <2>1. PICK age : nodes' = [nodes EXCEPT ![n] = AtAge(@, age)]
        BY <1>7 DEF Silence, HeartbeatReport
    <2>2. \A m \in Node : /\ nodes'[m].present = nodes[m].present /\ nodes'[m].up = nodes[m].up
                          /\ nodes'[m].status = nodes[m].status
        BY <2>1, <1>t DEF AtAge, Entry
    <2>3. tasks' = tasks /\ pending = {}
        BY <1>7 DEF Silence, HeartbeatReport, Idle
    <2> QED
        BY <2>2, <2>3, <1>c DEF Live
<1>8. ASSUME NEW n \in Node, NEW e \in Entry, tasks' = tasks, pending = {}, pending' = AffectedBy({n}),
             nodes' = [nodes EXCEPT ![n] = e]
      PROVE  HeldByLiveNode'
    <2>1. ASSUME NEW t \in Task, Active(t), Live(tasks[t].node), t \notin pending'
          PROVE  Live(tasks[t].node)'
        <3>1. tasks[t].node # n
            BY <2>1, <1>8, <1>t, AffectedAreHeld
        <3> QED
            BY <3>1, <2>1, <1>8, <1>t DEF Live
    <2> QED
        BY Zenon, <2>1, <1>8, <1>c
<1>9. ASSUME NEW n \in Node, StopNode(n) PROVE HeldByLiveNode'
    <2>1. Stopped(nodes[n]) \in Entry
        BY Zenon, <1>t, EntryType DEF Role
    <2>2. nodes' = [nodes EXCEPT ![n] = Stopped(nodes[n])]
        BY <1>9 DEF StopNode
    <2> QED
        BY Zenon, <1>9, <2>1, <2>2, <1>8 DEF StopNode, Idle
<1>10. ASSUME NEW n \in Node, NEW gen \in 1 .. MaxGen, DetachRemote(n, gen) PROVE HeldByLiveNode'
    <2>1. Stopped(nodes[n]) \in Entry /\ NoEntry \in Entry
        BY Zenon, <1>t, EntryType DEF Role
    <2>2. PICK e \in Entry : nodes' = [nodes EXCEPT ![n] = e]
        BY Zenon, <1>10, <2>1 DEF DetachRemote
    <2> QED
        BY Zenon, <1>10, <2>2, <1>8 DEF DetachRemote, Idle
<1>11. ASSUME NEW n \in Node, AttachRemote(n) \/ StartNode(n) PROVE HeldByLiveNode'
    <2>1. PICK e \in Entry : /\ nodes' = [nodes EXCEPT ![n] = e]
                             /\ e.up /\ e.status # "offline" /\ (Live(n) => e.present)
        <3>1. CASE AttachRemote(n)
            <4>1. Attached(nodes[n]) \in Entry
                BY Zenon, <3>1, <1>t, EntryType DEF AttachRemote, Role
            <4> QED
                BY Zenon, <3>1, <4>1 DEF AttachRemote, Attached
        <3>2. CASE StartNode(n)
            <4>1. Started(nodes[n]) \in Entry
                BY Zenon, <1>t, EntryType DEF Role
            <4> QED
                BY Zenon, <3>2, <4>1 DEF StartNode, Started, Live
        <3> QED
            BY <1>11, <3>1, <3>2
    <2>2. \A m \in Node : Live(m) => Live(m)'
        BY <2>1, <1>t DEF Live
    <2>3. tasks' = tasks /\ pending = {}
        BY <1>11 DEF AttachRemote, StartNode, Idle
    <2> QED
        BY <2>2, <2>3, <1>c DEF Live
<1>12. ASSUME NEW n \in Node, NEW t \in Task, TaskStarted(n, t) PROVE HeldByLiveNode'
    <2>1. tasks' = tasks \/ (Active(t) /\ tasks' = [tasks EXCEPT ![t] = With(@, "running")])
        BY <1>12, ConfigAssumption, <1>t DEF TaskStarted, TaskCanBecome, Active, Structure, Node, NoNode
    <2>2. \A u \in Task : Active(u)' => Active(u) /\ tasks'[u].node = tasks[u].node
        BY <2>1, <1>t DEF Active, With, TaskRecord
    <2>3. nodes' = nodes /\ pending' = pending
        BY <1>12 DEF TaskStarted
    <2> QED
        BY <2>2, <2>3, <1>k
<1>13. ASSUME NEW n \in Node, NEW t \in Task, TaskCompleted(n, t) PROVE HeldByLiveNode'
    <2>1. \A u \in Task : tasks'[u] = tasks[u] \/ tasks'[u].state = "completed"
        BY <1>13, <1>t DEF TaskCompleted, With, TaskRecord
    <2>2. nodes' = nodes /\ pending' = pending
        BY <1>13 DEF TaskCompleted
    <2> QED
        BY <2>1, <2>2, <1>k DEF Active
<1>14. ASSUME NEW n \in Node, NEW t \in Task, TaskFailed(n, t) PROVE HeldByLiveNode'
    <2>1. \A u \in Task : \/ tasks'[u] = tasks[u]
                          \/ tasks'[u].state \in {"queued", "failed"}
        BY <1>14, <1>t DEF TaskFailed, RetryOrGiveUp, Requeued, With, TaskRecord
    <2>2. nodes' = nodes /\ pending' = pending
        BY <1>14 DEF TaskFailed
    <2> QED
        BY <2>1, <2>2, <1>k DEF Active
<1>15. ASSUME NEW stored \in BOOLEAN, SubmitJob(stored) PROVE HeldByLiveNode'
    <2>1. \A u \in Task : tasks'[u] = tasks[u] \/ tasks'[u].state = "queued"
        BY <1>15 DEF SubmitJob, NewTask
    <2>2. nodes' = nodes /\ pending' = pending
        BY <1>15 DEF SubmitJob
    <2> QED
        BY <2>1, <2>2, <1>k DEF Active
<1>16. ASSUME NEW n \in Node, NEW role \in Role, NEW enabled \in BOOLEAN, SetRole(n, role, enabled)
       PROVE  HeldByLiveNode'
    <2>1. \A m \in Node : /\ nodes'[m].present = nodes[m].present /\ nodes'[m].up = nodes[m].up
                          /\ nodes'[m].status = nodes[m].status
        BY <1>16, <1>t DEF SetRole, WithRole, Entry
    <2>2. tasks' = tasks /\ pending = {}
        BY Zenon, <1>16 DEF SetRole, Idle
    <2> QED
        BY <2>1, <2>2, <1>c DEF Live
<1>17. CASE RefreshLeadership \/ DispatchDone \/ UNCHANGED vars
    BY <1>17, <1>2 DEF RefreshLeadership, DispatchDone, vars
<1> QED
    BY Zenon, <1>1, <1>3, <1>4, <1>5, <1>6, <1>7, <1>9, <1>10, <1>11, <1>12, <1>13, <1>14, <1>15, <1>16, <1>17,
       ConfigAssumption DEF Next, HandlerStep

\* No task waits on a node that is gone: stop_node, detach_remote and the sweep
\* collect what the node holds in the same handler that takes it out of service.
THEOREM HeldByLiveNodeHolds == Spec => []HeldByLiveNode
<1>1. Init => HeldByLiveNode
    BY SMTT(30) DEF Init, InitialNodes, HeldByLiveNode, Active, NoTask
<1>2. TablesInv /\ TablesInv' /\ HeldByLiveNode /\ [Next]_vars => HeldByLiveNode'
    BY NextHeld DEF TablesInv
<1> QED
    BY <1>1, <1>2, TablesInvariant, PTL DEF Spec
=============================================================================
