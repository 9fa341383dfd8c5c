-------------------------- MODULE MCNotifications --------------------------
(***************************************************************************)
(* A report about a process and a group of stale workloads.                *)
(***************************************************************************)
EXTENDS Notifications

CONSTANTS job, group

MCBatches == {<<job, group>>}
GroupBatch == {<<group>>}
=============================================================================
