---------------------------- MODULE LocalCluster ----------------------------
(***************************************************************************)
(* The supervisor with its in-process nodes: one Tokio task per node       *)
(* (crates/cluster-local/src/node.rs), a bounded mailbox in front of each, *)
(* and the one bounded channel on which they all report.                   *)
(*                                                                         *)
(* A node runs one task at a time, off its own loop.  The supervisor never *)
(* waits for a node (try_send); a node does wait for the supervisor        *)
(* (reports.send().await); and a report may be handled long after it was   *)
(* sent: after its task was requeued, or after its node was replaced.      *)
(*                                                                         *)
(* A heartbeat carries nothing but its arrival, so its place in the        *)
(* channel is left out: it is handled when it is sent.                     *)
(***************************************************************************)
EXTENDS Supervisor

CONSTANTS
    InboxCap,      \* mailbox of a node (8 in the code)
    ReportCap,     \* reports channel (256 in the code)
    MaxPauses,     \* bound on the pause_heartbeat commands
    MaxAborts,     \* bound on the workers that die without reporting
    MayShutDown    \* whether the last handle on the cluster is dropped

ASSUME LocalAssumption ==
    /\ InboxCap \in Nat \ {0} /\ ReportCap \in Nat \ {0}
    /\ MaxPauses \in Nat /\ MaxAborts \in Nat
    /\ MayShutDown \in BOOLEAN
    /\ Simulated = Node

VARIABLES
    inbox,     \* mailbox of each node
    running,   \* task each node is executing, or NoTaskId
    sending,   \* report each node is blocked on, or NoReport
    paused,    \* node-side heartbeat switch
    reports,   \* the reports channel
    pauses,    \* pause_heartbeat commands so far
    aborts,    \* workers that died without reporting
    joining    \* 0 while serving, the node `shutdown' waits for, MaxNode + 1 at the end

nodeVars == <<inbox, running, sending, paused>>
budgetVars == <<pauses, aborts>>
clusterVars == <<nodeVars, reports, budgetVars, joining>>
localVars == <<vars, clusterVars>>

NoTaskId == -1
NoReport == [kind |-> "none", node |-> NoNode, task |-> NoTaskId]

\* NodeInbox and NodeReport.
Assign(t) == [kind |-> "assign", task |-> t]
Pause(on) == [kind |-> IF on THEN "pause" ELSE "resume", task |-> NoTaskId]
Report(kind, n, t) == [kind |-> kind, node |-> n, task |-> t]

\* Variant: a channel one report too long.
RoomForOneMore == Len(reports) <= ReportCap

\* Whether the reports channel takes another report; a sender waits otherwise.
Room == Len(reports) < ReportCap

Serving == joining = 0

LocalInit ==
    /\ Init
    /\ inbox = [n \in Node |-> <<>>]
    /\ running = [n \in Node |-> NoTaskId]
    /\ sending = [n \in Node |-> NoReport]
    /\ paused = [n \in Node |-> FALSE]
    /\ reports = <<>>
    /\ pauses = 0
    /\ aborts = 0
    /\ joining = 0
-----------------------------------------------------------------------------
(* The supervisor's side.                                                  *)

\* try_send of an assignment.
SendTask(n) ==
    /\ Len(inbox[n]) < InboxCap
    /\ DispatchSent(n)
    /\ inbox' = IF Placeable THEN [inbox EXCEPT ![n] = Append(@, Assign(Head(queue)))] ELSE inbox
    /\ UNCHANGED <<running, sending, paused, reports, budgetVars, joining>>

SendTaskFails(n) ==
    /\ Len(inbox[n]) >= InboxCap
    /\ DispatchUnsent(n)
    /\ UNCHANGED clusterVars

\* The phases of a handler that no node takes part in.
HandlerAlone ==
    /\ RequeueTask \/ RefreshLeadership \/ DispatchDone \/ PruneMemory
    /\ UNCHANGED clusterVars

Sweep == Serving /\ Tick /\ UNCHANGED clusterVars

\* reports.recv(): the oldest report is taken off the channel and handled.
Receive ==
    /\ Serving
    /\ reports # <<>>
    /\ LET r == Head(reports)
       IN \/ r.kind = "started" /\ TaskStarted(r.node, r.task)
          \/ r.kind = "completed" /\ TaskCompleted(r.node, r.task)
          \/ r.kind = "failed" /\ TaskFailed(r.node, r.task)
    /\ reports' = Tail(reports)
    /\ UNCHANGED <<nodeVars, budgetVars, joining>>

Submit(stored) == Serving /\ SubmitJob(stored) /\ UNCHANGED clusterVars

\* stop_node aborts the node's task: its mailbox and the work it was doing go
\* with it; what it already reported stays in the channel.
Stop(n) ==
    /\ Serving
    /\ StopNode(n)
    /\ inbox' = [inbox EXCEPT ![n] = <<>>]
    /\ running' = [running EXCEPT ![n] = NoTaskId]
    /\ sending' = [sending EXCEPT ![n] = NoReport]
    /\ UNCHANGED <<paused, reports, budgetVars, joining>>

Start(n) ==
    /\ Serving
    /\ StartNode(n)
    /\ paused' = [paused EXCEPT ![n] = FALSE]
    /\ UNCHANGED <<inbox, running, sending, reports, budgetVars, joining>>

\* send_to_node, for the control message that changes what the supervisor sees.
\* The message waits its turn in the mailbox; a full mailbox refuses it.
PauseHeartbeat(n, on) ==
    /\ Serving /\ Idle
    /\ pauses < MaxPauses
    /\ nodes[n].up /\ Len(inbox[n]) < InboxCap
    /\ inbox' = [inbox EXCEPT ![n] = Append(@, Pause(on))]
    /\ pauses' = pauses + 1
    /\ UNCHANGED <<vars, running, sending, paused, reports, aborts, joining>>
-----------------------------------------------------------------------------
(* The node's side.  A node is at its select! unless it is blocked sending. *)

AtSelect(n) == nodes[n].up /\ joining < n /\ sending[n] = NoReport

Beat(n) ==
    /\ Serving /\ AtSelect(n) /\ ~ paused[n]
    /\ HeartbeatReport(n)
    /\ UNCHANGED clusterVars

\* No heartbeat of n is handled for a while, because it is paused or late.
Quiet(n) == Serving /\ Silence(n) /\ UNCHANGED clusterVars

\* Variant: a node that is busy drops the second task.
TakeDropsSecond(n) ==
    /\ AtSelect(n) /\ inbox[n] # <<>>
    /\ inbox' = [inbox EXCEPT ![n] = Tail(@)]
    /\ LET m == Head(inbox[n])
           idle == running[n] = NoTaskId
       IN IF m.kind = "assign"
          THEN /\ sending' = [sending EXCEPT ![n] = IF idle THEN Report("started", n, m.task) ELSE NoReport]
               /\ running' = [running EXCEPT ![n] = IF idle THEN m.task ELSE @]
               /\ UNCHANGED paused
          ELSE /\ paused' = [paused EXCEPT ![n] = (m.kind = "pause")]
               /\ UNCHANGED <<sending, running>>
    /\ UNCHANGED <<vars, reports, budgetVars, joining>>

\* inbox.recv(): an idle node announces the task and starts it; a busy one
\* bounces it as failed.
Take(n) ==
    /\ AtSelect(n) /\ inbox[n] # <<>>
    /\ inbox' = [inbox EXCEPT ![n] = Tail(@)]
    /\ LET m == Head(inbox[n])
           idle == running[n] = NoTaskId
       IN IF m.kind = "assign"
          THEN /\ sending' = [sending EXCEPT ![n] = Report(IF idle THEN "started" ELSE "failed", n, m.task)]
               /\ running' = [running EXCEPT ![n] = IF idle THEN m.task ELSE @]
               /\ UNCHANGED paused
          ELSE /\ paused' = [paused EXCEPT ![n] = (m.kind = "pause")]
               /\ UNCHANGED <<sending, running>>
    /\ UNCHANGED <<vars, reports, budgetVars, joining>>

\* running.join_next(): the work is done or has failed.  The select! is biased,
\* so the mailbox is emptied first.
Finish(n, outcome) ==
    /\ AtSelect(n) /\ inbox[n] = <<>> /\ running[n] # NoTaskId
    /\ sending' = [sending EXCEPT ![n] = Report(outcome, n, running[n])]
    /\ running' = [running EXCEPT ![n] = NoTaskId]
    /\ UNCHANGED <<vars, inbox, paused, reports, budgetVars, joining>>

\* running.join_next() returned a JoinError: only logged.  A worker that panics is
\* aborted alone in development and test builds; a release build ends the process.
Abort(n) ==
    /\ AtSelect(n) /\ inbox[n] = <<>> /\ running[n] # NoTaskId
    /\ aborts < MaxAborts
    /\ aborts' = aborts + 1
    /\ running' = [running EXCEPT ![n] = NoTaskId]
    /\ UNCHANGED <<vars, inbox, sending, paused, reports, pauses, joining>>

\* The send a node is blocked on goes through.
Deliver(n) ==
    /\ sending[n] # NoReport
    /\ Room
    /\ reports' = Append(reports, sending[n])
    /\ sending' = [sending EXCEPT ![n] = NoReport]
    /\ UNCHANGED <<vars, inbox, running, paused, budgetVars, joining>>
-----------------------------------------------------------------------------
(* Shutdown: every handle on the cluster is gone.  Nodes are told and      *)
(* waited for one after the other; nothing receives reports any more.      *)

Shutdown ==
    /\ MayShutDown /\ Serving /\ Idle
    /\ joining' = 1
    /\ UNCHANGED <<vars, nodeVars, reports, budgetVars>>

\* A node that is at its select! sees the shutdown first and leaves; whatever
\* it was running is dropped with its JoinSet.
Join(n) ==
    /\ joining = n
    /\ nodes[n].up => sending[n] = NoReport
    /\ joining' = n + 1
    /\ inbox' = [inbox EXCEPT ![n] = <<>>]
    /\ running' = [running EXCEPT ![n] = NoTaskId]
    /\ UNCHANGED <<vars, sending, paused, reports, budgetVars>>
-----------------------------------------------------------------------------
NodeStep(n) == Take(n) \/ Deliver(n) \/ \E outcome \in {"completed", "failed"} : Finish(n, outcome)

LocalHandlerStep == HandlerAlone \/ \E n \in Node : SendTask(n) \/ SendTaskFails(n)

LocalNext ==
    \/ LocalHandlerStep
    \/ Sweep
    \/ Receive
    \/ \E stored \in BOOLEAN : Submit(stored)
    \/ \E n \in Node : Beat(n) \/ Start(n) \/ NodeStep(n) \/ Abort(n) \/ Join(n)
    \/ \E n \in Faulty : Quiet(n) \/ Stop(n)
    \/ \E n \in Faulty, on \in BOOLEAN : PauseHeartbeat(n, on)
    \/ Shutdown

\* What the Tokio runtime guarantees: the handler that runs is polled to its
\* end; the select! of `run' picks a ready branch at random, so neither the
\* interval nor the reports can be passed over for ever; a node that can move
\* does.
Fairness ==
    /\ WF_localVars(LocalHandlerStep)
    /\ SF_localVars(Sweep)
    /\ SF_localVars(Receive)
    /\ \A n \in Node : /\ WF_localVars(Take(n))
                       /\ WF_localVars(Deliver(n))
                       /\ WF_localVars(\E outcome \in {"completed", "failed"} : Finish(n, outcome))
                       /\ WF_localVars(Join(n))

LocalSpec == LocalInit /\ [][LocalNext]_localVars
FairLocalSpec == LocalSpec /\ Fairness
-----------------------------------------------------------------------------
Kinds == {"started", "completed", "failed"}
ReportOf(n) == [kind : Kinds, node : {n}, task : Task]

\* Every channel holds messages of its own type and stays within its capacity.
LocalTypeOK ==
    /\ \A n \in Node : /\ Len(inbox[n]) <= InboxCap
                       /\ running[n] \in Task \cup {NoTaskId}
                       /\ sending[n] \in ReportOf(n) \cup {NoReport}
                       /\ paused[n] \in BOOLEAN
    /\ Len(reports) <= ReportCap
    /\ joining \in 0 .. (MaxNode + 1)

InMail(n, t) == \E i \in 1 .. Len(inbox[n]) : inbox[n][i] = Assign(t)
Reported(n, t, kinds) ==
    \/ sending[n].task = t /\ sending[n].kind \in kinds
    \/ \E i \in 1 .. Len(reports) :
          reports[i].node = n /\ reports[i].task = t /\ reports[i].kind \in kinds

\* Every task the table shows on a node is really on its way: in that node's
\* mailbox, being executed by it, or in a report of its end not handled yet.
\* Nothing else moves a task on while its node keeps its heartbeat.
HeldTasksMove ==
    Serving /\ aborts = 0 =>
        \A t \in Task : Active(t) /\ t \notin pending =>
            LET n == tasks[t].node
            IN InMail(n, t) \/ running[n] = t \/ Reported(n, t, {"completed", "failed"})

\* Every submitted job settles: whatever its tasks do, however often a node
\* fails under them and whichever mailbox is full, as long as one compute node
\* stays up and keeps its heartbeat.
JobsSettle ==
    \A j \in Job : (jobs[j].state = "queued") ~> (JobTerminal(jobs[j].state) \/ jobs[j].state = "none")
=============================================================================
