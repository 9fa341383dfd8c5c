---------------------------- MODULE MCEmergency ----------------------------
(***************************************************************************)
(* A machine of 16 GiB with the default thresholds, in units of 128 MiB:   *)
(* floor at 4, automatic action at 8, critical at 10, warning at 19,       *)
(* recovery at 26 units.  One sample per combination of signals the        *)
(* tracker and the activation policy tell apart.                           *)
(***************************************************************************)
EXTENDS Emergency

S(avail, swap, psi) == [avail |-> avail, swap |-> swap, psi |-> psi]
MCSamples == {S(4, 0, 0), S(8, 0, 0), S(10, 19, 0), S(10, 0, 5), S(19, 0, 0),
              S(26, 0, 0), S(26, 0, 5)}

(* One sample that calls for action at once, one that does only while      *)
(* pressure is critical, one that ends it.                                 *)
FewSamples == {S(4, 0, 0), S(10, 0, 5), S(26, 0, 0)}
=============================================================================
