---------------------------- MODULE IgnoreMemory ----------------------------
(***************************************************************************)
(* What "Always ignore" promises, abstractly: the daemon's rules and those *)
(* stored for its next start change together, in one step, to what the     *)
(* daemon had and the new rule.  Nobody else changes what a running daemon *)
(* ignores; the stored rules may also be rewritten by a person, and a      *)
(* power failure may bring back others.                                    *)
(***************************************************************************)
CONSTANTS
    Daemons, \* processes that may run
    Entries  \* ignore rules

VARIABLES
    up,      \* the daemons that have read the stored rules
    working, \* daemon -> the rules it works with
    stored   \* the rules a daemon would start with

memoryVars == <<up, working, stored>>

Init == up = {} /\ working = [d \in Daemons |-> {}] /\ stored \in SUBSET Entries

Start(d) ==
    /\ d \notin up
    /\ up' = up \cup {d}
    /\ working' = [working EXCEPT ![d] = stored]
    /\ UNCHANGED stored

Stop(d) ==
    /\ up' = up \ {d}
    /\ working' = [working EXCEPT ![d] = {}]
    /\ UNCHANGED stored

Keep(d) ==
    /\ d \in up
    /\ \E rule \in Entries : stored' = working[d] \cup {rule}
    /\ working' = [working EXCEPT ![d] = stored']
    /\ UNCHANGED up

Rewritten == stored' \in SUBSET Entries /\ UNCHANGED <<up, working>>

PowerLost == up' = {} /\ working' = [d \in Daemons |-> {}] /\ stored' \in SUBSET Entries

Next ==
    \/ \E d \in Daemons : Start(d) \/ Stop(d) \/ Keep(d)
    \/ Rewritten \/ PowerLost

Spec == Init /\ [][Next]_memoryVars
=============================================================================
