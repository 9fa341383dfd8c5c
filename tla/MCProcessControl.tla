-------------------------- MODULE MCProcessControl --------------------------
(***************************************************************************)
(* Two PIDs: a leaf (1) and its root (2), each alone or both in one        *)
(* request.                                                                *)
(***************************************************************************)
EXTENDS ProcessControl

MCPids == 1..2
MCOrders == {<<1>>, <<1, 2>>}
=============================================================================
