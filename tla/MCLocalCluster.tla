--------------------------- MODULE MCLocalCluster ---------------------------
(* LocalCluster on small instances.                                        *)
EXTENDS LocalCluster

OneTask == <<1>>
TwoTasks == <<2>>
TwoNodeRoles == <<{"compute", "coordinator"}, {"compute"}>>
=============================================================================
