-------------------------- MODULE MCPressureSmall --------------------------
(***************************************************************************)
(* The default thresholds on a machine of 2 GiB, in units of 128 MiB: the  *)
(* emergency floor of 512 MiB is 25% of memory, above the recovery         *)
(* threshold of 20%.                                                       *)
(***************************************************************************)
EXTENDS MemoryPressure

SmallSamples == [avail : 0..16, swap : {0}, psi : {0, 5}]
=============================================================================
