----------------------------- MODULE MCRecovery -----------------------------
(* Recovery on small instances: one node and one or two jobs.              *)
EXTENDS Recovery

OneTask == <<1>>
TwoTasks == <<2>>
OneFirst == <<1>>
MCFirstTask == <<1, 3>>
MCTaskCount == <<2, 1>>
MCInitRoles == <<{"compute", "coordinator"}>>
=============================================================================
