---------------------------- MODULE MCSupervisor ----------------------------
(* Supervisor on small instances.                                          *)
EXTENDS Supervisor

MCFirstTask == <<1, 3>>
MCTaskCount == <<2, 1>>
OneTask == <<1>>
MCInitRoles == <<{"compute", "coordinator", "gateway"}, {"compute"}, {}>>
TwoNodeRoles == <<{"compute", "coordinator"}, {"compute"}>>
MCSwitchable == {<<1, "coordinator">>, <<2, "coordinator">>, <<2, "compute">>, <<1, "gateway">>}
=============================================================================
