----------------------------- MODULE JobService -----------------------------
(***************************************************************************)
(* What the cluster promises about a submitted job, with no nodes, queue,  *)
(* counters or attempts: every task of it is taken up and given back until *)
(* it ends once, and the job ends with the task that ends last.            *)
(***************************************************************************)
CONSTANTS Job, Task, JobOf(_)

VARIABLES
    job,     \* state of each job
    task,    \* "none", "queued", "held", "completed" or "failed"
    used     \* job ids handed out

serviceVars == <<job, task, used>>

Ended(s) == s \in {"completed", "failed"}
TasksIn(j) == {t \in Task : JobOf(t) = j}

Init ==
    /\ job = [j \in Job |-> "none"]
    /\ task = [t \in Task |-> "none"]
    /\ used = {}

\* Ids are never handed out twice; `stored' is FALSE for a submission that was
\* refused after its id had been taken.
Submit(j, stored) ==
    /\ j \notin used
    /\ used' = used \cup {j}
    /\ job' = IF stored THEN [job EXCEPT ![j] = "queued"] ELSE job
    /\ task' = IF stored THEN [t \in Task |-> IF JobOf(t) = j THEN "queued" ELSE task[t]] ELSE task

Take(t) ==
    /\ task[t] = "queued"
    /\ task' = [task EXCEPT ![t] = "held"]
    /\ job' = IF job[JobOf(t)] = "queued" THEN [job EXCEPT ![JobOf(t)] = "running"] ELSE job
    /\ UNCHANGED used

GiveBack(t) ==
    /\ task[t] = "held"
    /\ task' = [task EXCEPT ![t] = "queued"]
    /\ UNCHANGED <<job, used>>

\* The job ends exactly when its last task does, and fails if any of them did.
Finish(t, outcome) ==
    /\ task[t] = "held"
    /\ task' = [task EXCEPT ![t] = outcome]
    /\ job' = IF \A u \in TasksIn(JobOf(t)) : Ended(task'[u])
              THEN [job EXCEPT ![JobOf(t)] =
                      IF \E u \in TasksIn(JobOf(t)) : task'[u] = "failed"
                      THEN "failed" ELSE "completed"]
              ELSE job
    /\ UNCHANGED used

\* Ended jobs leave memory with their tasks.
Forget(S) ==
    /\ \A j \in S : Ended(job[j])
    /\ job' = [j \in Job |-> IF j \in S THEN "none" ELSE job[j]]
    /\ task' = [t \in Task |-> IF JobOf(t) \in S THEN "none" ELSE task[t]]
    /\ UNCHANGED used

Next ==
    \/ \E j \in Job, stored \in BOOLEAN : Submit(j, stored)
    \/ \E t \in Task : Take(t) \/ GiveBack(t)
    \/ \E t \in Task, outcome \in {"completed", "failed"} : Finish(t, outcome)
    \/ \E S \in SUBSET Job : Forget(S)

Spec == Init /\ [][Next]_serviceVars
=============================================================================
