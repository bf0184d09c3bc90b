-------------------------- MODULE MCRemoteCluster --------------------------
(* RemoteCluster on small instances.                                       *)
EXTENDS RemoteCluster

OneTask == <<1>>
Nothing == <<>>
TwoTasks == <<2>>
NoRoles == <<{}, {}>>
DeclaredRoles == <<{"compute"}, {}>>
OneNode == <<{"compute"}>>
=============================================================================
