--------------------------- MODULE RemoteCluster ---------------------------
(***************************************************************************)
(* The supervisor with worker processes at the other end of a socket: the  *)
(* connection task of crates/cluster-local/src/remote.rs, the Agent that   *)
(* is the worker's whole behaviour (crates/cluster-core/src/agent.rs), and *)
(* the frames in flight between them.                                      *)
(*                                                                         *)
(* A connection is used once.  It asks the supervisor for an identity,     *)
(* answers Welcome, then moves assignments to the wire and frames to the   *)
(* reports channel until the socket or the supervisor ends it; only then   *)
(* does it send DetachRemote, which the supervisor may handle much later,  *)
(* or, when writing Welcome failed, never.                                 *)
(***************************************************************************)
EXTENDS Supervisor

CONSTANTS
    MaxConn,     \* bound on the connections over the life of the cluster
    InboxCap,    \* mailbox of a connection (8 in the code)
    ReportCap,   \* reports channel (256 in the code)
    Stable       \* connections that never fail, are never late and never stopped

Conn == 1 .. MaxConn

ASSUME RemoteAssumption ==
    /\ MaxConn \in Nat /\ Stable \subseteq Conn
    /\ InboxCap \in Nat \ {0} /\ ReportCap \in Nat \ {0}
    /\ Simulated = {}

VARIABLES
    conns,     \* the connection tasks
    wires,     \* frames in flight, per connection and direction
    agents,    \* task each worker is running, or NoTaskId
    alive,     \* connections whose worker still holds its socket
    reports    \* the reports channel

linkVars == <<conns, wires, agents, alive>>
remoteVars == <<vars, linkVars, reports>>

NoTaskId == -1
NoConn == [state |-> "unused", node |-> NoNode, gen |-> 0,
           inbox |-> <<>>, assigned |-> NoTaskId, told |-> FALSE]
NoFrames == [down |-> <<>>, up |-> <<>>]

Frame(kind, t) == [kind |-> kind, task |-> t]
Report(kind, n, t) == [kind |-> kind, node |-> n, task |-> t]

RemoteInit ==
    /\ Init
    /\ conns = [c \in Conn |-> NoConn]
    /\ wires = [c \in Conn |-> NoFrames]
    /\ agents = [c \in Conn |-> NoTaskId]
    /\ alive = {}
    /\ reports = <<>>

\* Variant: a channel one report too long.
RoomForOneMore == Len(reports) <= ReportCap

\* Whether the reports channel takes another report; a sender waits otherwise.
Room == Len(reports) < ReportCap

\* The connection tasks that have not returned: each may still detach.
Attending(c) == conns[c].state \in {"welcoming", "open", "leaving"}

\* The check of detach_remote: the entry has a handle and this generation.
Current(c) == LET e == nodes[conns[c].node] IN e.present /\ e.up /\ e.gen = conns[c].gen

\* The connection whose mailbox and shutdown switch are in the handle of n.  A
\* handle that is used or dropped is out of the entry, and its connection told.
Holders(n) == {c \in Conn : Attending(c) /\ conns[c].node = n /\ ~ conns[c].told}
-----------------------------------------------------------------------------
(* The supervisor's side.                                                  *)

Deliverable(n) == \E c \in Holders(n) : Len(conns[c].inbox) < InboxCap

\* try_send into the mailbox of the connection.
SendTask(n) ==
    /\ Deliverable(n)
    /\ DispatchSent(n)
    /\ conns' = [c \in Conn |->
                   IF c \in Holders(n) /\ Placeable
                   THEN [conns[c] EXCEPT !.inbox = Append(@, Head(queue))] ELSE conns[c]]
    /\ UNCHANGED <<wires, agents, alive, reports>>

\* The mailbox is full, or the connection task is returning and may already have
\* dropped it, or has returned.
SendTaskFails(n) ==
    /\ ~ Deliverable(n) \/ \E c \in Holders(n) : conns[c].state = "leaving"
    /\ DispatchUnsent(n)
    /\ UNCHANGED <<linkVars, reports>>

HandlerAlone ==
    /\ RequeueTask \/ RefreshLeadership \/ DispatchDone \/ PruneMemory
    /\ UNCHANGED <<linkVars, reports>>

Sweep == Tick /\ UNCHANGED <<linkVars, reports>>

Submit(stored) == SubmitJob(stored) /\ UNCHANGED <<linkVars, reports>>

Receive ==
    /\ reports # <<>>
    /\ LET r == Head(reports)
       IN \/ r.kind = "started" /\ TaskStarted(r.node, r.task)
          \/ r.kind = "completed" /\ TaskCompleted(r.node, r.task)
          \/ r.kind = "failed" /\ TaskFailed(r.node, r.task)
    /\ reports' = Tail(reports)
    /\ UNCHANGED linkVars

\* Whoever's handle is evicted by attach_remote, taken by stop_node or dropped by
\* detach_remote sees its shutdown switch go.
Told(S) == [c \in Conn |-> IF c \in S THEN [conns[c] EXCEPT !.told = TRUE] ELSE conns[c]]

\* A worker dials in and its Hello reaches attach_remote, either with a fixed id,
\* which may name any remote entry, or as an anonymous worker that is given n.
Connect(c, n) ==
    /\ conns[c].state = "unused" /\ \A b \in Conn : b < c => conns[b].state # "unused"
    /\ AttachRemote(n)
    /\ conns' = [Told(Holders(n)) EXCEPT ![c] =
                   [NoConn EXCEPT !.state = "welcoming", !.node = n, !.gen = nodes'[n].gen]]
    /\ alive' = alive \cup {c}
    /\ UNCHANGED <<wires, agents, reports>>

Stop(n) ==
    /\ StopNode(n)
    /\ conns' = Told(Holders(n))
    /\ UNCHANGED <<wires, agents, alive, reports>>

\* Variant: a connection is recognised by its node alone.
DetachAny(c) ==
    /\ conns[c].state = "leaving" /\ Idle
    /\ LET n == conns[c].node
       IN IF nodes[n].present /\ nodes[n].up
          THEN /\ DetachRemote(n, nodes[n].gen)
               /\ conns' = [Told(Holders(n)) EXCEPT ![c].state = "gone"]
          ELSE /\ UNCHANGED vars
               /\ conns' = [conns EXCEPT ![c].state = "gone"]
    /\ UNCHANGED <<wires, agents, alive, reports>>

\* DetachRemote is handled: ignored unless the entry still has this generation.
Detach(c) ==
    /\ conns[c].state = "leaving" /\ Idle
    /\ LET n == conns[c].node
       IN IF Current(c)
          THEN /\ DetachRemote(n, conns[c].gen)
               /\ conns' = [Told(Holders(n)) EXCEPT ![c].state = "gone"]
          ELSE /\ UNCHANGED vars
               /\ conns' = [conns EXCEPT ![c].state = "gone"]
    /\ UNCHANGED <<wires, agents, alive, reports>>
-----------------------------------------------------------------------------
(* The connection task.                                                    *)

Welcome(c) ==
    /\ conns[c].state = "welcoming"
    /\ conns' = [conns EXCEPT ![c].state = "open"]
    /\ UNCHANGED <<vars, wires, agents, alive, reports>>

\* Writing Welcome failed: the task returns without a DetachRemote.
WelcomeFails(c) ==
    /\ conns[c].state = "welcoming" /\ c \notin Stable
    /\ conns' = [conns EXCEPT ![c].state = "gone"]
    /\ alive' = alive \ {c}
    /\ UNCHANGED <<vars, wires, agents, reports>>

AtSelect(c) == conns[c].state = "open" /\ ~ conns[c].told

\* The oldest assignment goes to the wire and is recorded as this worker's.
Ship(c) ==
    /\ AtSelect(c) /\ conns[c].inbox # <<>>
    /\ LET t == Head(conns[c].inbox)
       IN /\ conns' = [conns EXCEPT ![c].inbox = Tail(@), ![c].assigned = t]
          /\ wires' = [wires EXCEPT ![c].down = Append(@, Frame("assign", t))]
    /\ UNCHANGED <<vars, agents, alive, reports>>

\* The wire cannot carry it: reported as a failed attempt, never recorded.
Refuse(c) ==
    /\ AtSelect(c) /\ conns[c].inbox # <<>> /\ Room
    /\ reports' = Append(reports, Report("failed", conns[c].node, Head(conns[c].inbox)))
    /\ conns' = [conns EXCEPT ![c].inbox = Tail(@)]
    /\ UNCHANGED <<vars, wires, agents, alive>>

MatchTask(c, t) == conns[c].assigned = t

\* The select! is biased: a frame is taken when the mailbox is empty.  A report
\* about a task this worker does not hold is dropped here.
Forward(c) ==
    /\ AtSelect(c) /\ conns[c].inbox = <<>> /\ wires[c].up # <<>>
    /\ LET f == Head(wires[c].up)
       IN IF MatchTask(c, f.task)
          THEN /\ Room
               /\ reports' = Append(reports, Report(f.kind, conns[c].node, conns[c].assigned))
               /\ conns' = [conns EXCEPT ![c].assigned = IF f.kind = "started" THEN @ ELSE NoTaskId]
          ELSE UNCHANGED <<reports, conns>>
    /\ wires' = [wires EXCEPT ![c].up = Tail(@)]
    /\ UNCHANGED <<vars, agents, alive>>

\* The shutdown branch: goodbye on the wire, if it gets there.
Goodbye(c) ==
    /\ conns[c].state = "open" /\ conns[c].told
    /\ conns' = [conns EXCEPT ![c].state = "leaving"]
    /\ wires' = [wires EXCEPT ![c].down = Append(@, Frame("shutdown", NoTaskId))]
    /\ UNCHANGED <<vars, agents, alive, reports>>

\* The socket is closed, or writing to it failed, and the task sees it.
Broken(c) ==
    /\ conns[c].state = "open" /\ c \notin alive
    /\ conns' = [conns EXCEPT ![c].state = "leaving"]
    /\ UNCHANGED <<vars, wires, agents, alive, reports>>
-----------------------------------------------------------------------------
(* The worker process.                                                     *)

\* The worker is killed, or its side of the socket is lost.
Die(c) ==
    /\ c \in alive \ Stable
    /\ alive' = alive \ {c}
    /\ agents' = [agents EXCEPT ![c] = NoTaskId]
    /\ UNCHANGED <<vars, conns, wires, reports>>

\* Agent::handle.  The task it is running, handed back, is met with silence; a
\* different one is bounced.
Accept(c) ==
    /\ c \in alive /\ wires[c].down # <<>>
    /\ LET f == Head(wires[c].down)
           rest == [wires[c] EXCEPT !.down = Tail(@)]
           answer(kind) == [rest EXCEPT !.up = Append(@, Frame(kind, f.task))]
       IN IF f.kind = "shutdown"
          THEN /\ alive' = alive \ {c}
               /\ agents' = [agents EXCEPT ![c] = NoTaskId]
               /\ wires' = [wires EXCEPT ![c] = rest]
          ELSE /\ UNCHANGED alive
               /\ agents' = [agents EXCEPT ![c] = IF @ = NoTaskId THEN f.task ELSE @]
               /\ wires' = [wires EXCEPT ![c] =
                              IF agents[c] = NoTaskId THEN answer("started")
                              ELSE IF agents[c] = f.task THEN rest ELSE answer("failed")]
    /\ UNCHANGED <<vars, conns, reports>>

\* Agent::poll: the work is done, or cannot be reported.
Done(c, outcome) ==
    /\ c \in alive /\ agents[c] # NoTaskId
    /\ wires' = [wires EXCEPT ![c].up = Append(@, Frame(outcome, agents[c]))]
    /\ agents' = [agents EXCEPT ![c] = NoTaskId]
    /\ UNCHANGED <<vars, conns, alive, reports>>

Heard(c) == conns[c].state = "open" /\ c \in alive

\* A heartbeat arrives; the connection stamps its own id on it.
Beat(c) == Heard(c) /\ HeartbeatReport(conns[c].node) /\ UNCHANGED <<linkVars, reports>>

Speakers(n) == {c \in alive : conns[c].state \in {"welcoming", "open"} /\ conns[c].node = n}
Unheard(n) == Speakers(n) = {}

\* None does, because nobody is there to send one, or it is late.
Quiet(n) ==
    /\ Speakers(n) \cap Stable = {}
    /\ Silence(n)
    /\ UNCHANGED <<linkVars, reports>>
-----------------------------------------------------------------------------
RemoteHandlerStep == HandlerAlone \/ \E n \in Node : SendTask(n) \/ SendTaskFails(n)

ConnStep(c) == Welcome(c) \/ Ship(c) \/ Forward(c) \/ Goodbye(c)

WorkerStep(c) == Accept(c) \/ \E outcome \in {"completed", "failed"} : Done(c, outcome)

RemoteNext ==
    \/ RemoteHandlerStep
    \/ Sweep
    \/ Receive
    \/ \E stored \in BOOLEAN : Submit(stored)
    \/ \E n \in Node : Quiet(n)
    \/ \E n \in Faulty : Holders(n) \cap Stable = {} /\ Stop(n)
    \/ \E c \in Conn, n \in Node : Connect(c, n)
    \/ \E c \in Conn : \/ ConnStep(c) \/ WelcomeFails(c) \/ Refuse(c) \/ Broken(c) \/ Detach(c)
                       \/ WorkerStep(c) \/ Die(c) \/ Beat(c)

\* The supervisor's select! picks a ready branch at random; a connection or its
\* worker moves when either can; workers keep dialling and beating; and a node nobody
\* speaks for falls silent.  A socket that died need never be noticed.
Fairness ==
    /\ WF_remoteVars(RemoteHandlerStep)
    /\ SF_remoteVars(Sweep)
    /\ SF_remoteVars(Receive)
    /\ SF_remoteVars(\E c \in Conn : Detach(c))
    /\ SF_remoteVars(\E c \in Conn, n \in Node : Connect(c, n))
    /\ SF_remoteVars(\E c \in Conn : Beat(c))
    /\ SF_remoteVars(\E n \in Node : Unheard(n) /\ Quiet(n))
    /\ \A c \in Conn : WF_remoteVars(ConnStep(c) \/ WorkerStep(c))

RemoteSpec == RemoteInit /\ [][RemoteNext]_remoteVars
FairRemoteSpec == RemoteSpec /\ Fairness
-----------------------------------------------------------------------------
\* Every connection, frame and report is of its type, within the capacities.
RemoteTypeOK ==
    /\ \A c \in Conn : /\ conns[c].state \in {"unused", "welcoming", "open", "leaving", "gone"}
                       /\ conns[c].gen \in 0 .. MaxGen
                       /\ Len(conns[c].inbox) <= InboxCap
                       /\ conns[c].assigned \in Task \cup {NoTaskId}
                       /\ agents[c] \in Task \cup {NoTaskId}
    /\ alive \subseteq Conn
    /\ Len(reports) <= ReportCap

\* The connections whose DetachRemote the supervisor takes for the same one: an id
\* freed by detach_remote is given out again and its generation starts over.
SameName(b, c) ==
    /\ b # c /\ Attending(b) /\ Attending(c)
    /\ conns[b].node = conns[c].node /\ conns[b].gen = conns[c].gen

\* An id and a generation name one of the connections that may still detach.  Of a
\* declared worker always; of an anonymous one as long as its entry was not taken
\* over by a worker that asked for the id, and then one of the two was evicted.
GenerationNamesConnection ==
    \A b, c \in Conn : SameName(b, c) =>
        conns[b].node \notin Declared /\ (conns[b].told \/ conns[c].told)

\* The DetachRemote of b is handled and the handle it costs is that of c.
EvictedBy(b, c) ==
    /\ b # c /\ conns[b].state = "leaving" /\ conns'[b].state = "gone"
    /\ Attending(c) /\ ~ conns[c].told /\ conns'[c].told

\* A late DetachRemote never evicts the connection that replaced its sender from a
\* declared entry, nor from any other unless the sender was itself evicted.
LateDetachIsHarmless ==
    [][\A b, c \in Conn : EvictedBy(b, c) =>
          conns[b].node \notin Declared /\ conns[b].told]_remoteVars

\* NodeEntry::generation: "Incremented on every attach, so a late `DetachRemote' from
\* a dead connection cannot evict the connection that replaced it."
NoLateEviction == [][\A b, c \in Conn : ~ EvictedBy(b, c)]_remoteVars

\* A worker is handed a task again whose earlier run it is not done with.
HandedBack ==
    \E c \in Conn, t \in Task :
        /\ \E i \in 1 .. Len(wires[c].down) : wires[c].down[i].task = t
        /\ agents[c] = t \/ \E i \in 1 .. Len(wires[c].up) : wires[c].up[i].task = t

Settling(t) ==
    \E i \in 1 .. Len(reports) :
        reports[i].task = t /\ reports[i].node = tasks[t].node /\ reports[i].kind # "started"

\* A task is on a node whose connection never got it: attach_remote evicted the one
\* that did, and its worker, and requeued nothing.
Stranded ==
    \E c \in Conn, t \in Task :
        /\ Active(t) /\ ~ Settling(t) /\ c \in Holders(tasks[t].node)
        /\ conns[c].assigned # t /\ \A i \in 1 .. Len(conns[c].inbox) : conns[c].inbox[i] # t

\* Every submitted job settles although workers come, go, fall silent and take over
\* one another's ids: a lost connection, a Welcome that could not be written, a task
\* the wire cannot carry, a late report under an id given out again all end in
\* another attempt.  Two cases are excepted, each with a run of its own: a task
\* handed again to a worker that is not done with its earlier run (HandedBack),
\* and a task of a connection that was evicted (Stranded).
JobsSettle ==
    \A j \in Job : (jobs[j].state = "queued") ~>
                      (JobTerminal(jobs[j].state) \/ jobs[j].state = "none" \/ HandedBack \/ Stranded)

\* Agent::accept, of the task it is running handed back: "Say nothing and let the
\* running copy report when it finishes."
HandedBackIsReported ==
    \A c \in Conn, t \in Task :
        (agents[c] = t /\ conns[c].assigned = t /\ Active(t)) ~> ~ Active(t)

\* detach_remote: "A worker's connection dropped.  Its in-flight work is requeued
\* at once rather than waiting out the heartbeat timeout".
LostWorkIsRequeued ==
    \A c \in Conn, t \in Task :
        (c \notin alive /\ conns[c].assigned = t /\ Active(t)) ~> ~ Active(t)
=============================================================================
