-------------------------- MODULE ProcessesProofs --------------------------
(***************************************************************************)
(* What every component may rely on of the process table, whatever its     *)
(* processes do.                                                           *)
(***************************************************************************)
EXTENDS Processes, TLAPS

(* The table's own steps: types, and start times that only grow.           *)
EnvStep == \E p \in Pids :
    \/ Exit(p) \/ Reap(p) \/ Spawn(p)
    \/ \E u \in Uids : SetUid(p, u)
    \/ \E i \in Images : Exec(p, i)

LEMMA StartsGrow ==
    ASSUME EnvTypeOK, EnvStep
    PROVE  EnvTypeOK' /\ \A p \in Pids : procs[p].start <= procs'[p].start
<1>1. PICK p \in Pids : \/ Exit(p) \/ Reap(p) \/ Spawn(p)
                        \/ \E u \in Uids : SetUid(p, u)
                        \/ \E i \in Images : Exec(p, i)
  BY DEF EnvStep
<1>2. procs[p] \in Process /\ procs[p].start \in Nat
  BY DEF EnvTypeOK, Process
<1>3. CASE Exit(p) BY <1>2, <1>3 DEF Exit, EnvTypeOK, Process
<1>4. CASE Reap(p) BY <1>2, <1>4 DEF Reap, EnvTypeOK, Process
<1>5. CASE Spawn(p)
  <2>1. PICK u \in Uids, i \in Images :
          procs' = [procs EXCEPT ![p] = [state |-> "alive", uid |-> u,
                                         start |-> births, image |-> i]]
    BY <1>5 DEF Spawn
  <2> QED BY <1>2, <1>5, <2>1 DEF Spawn, EnvTypeOK, Process
<1>6. CASE \E u \in Uids : SetUid(p, u) BY <1>2, <1>6 DEF SetUid, EnvTypeOK, Process
<1>7. CASE \E i \in Images : Exec(p, i) BY <1>2, <1>7 DEF Exec, EnvTypeOK, Process
<1> QED BY <1>1, <1>3, <1>4, <1>5, <1>6, <1>7

(* A process that was born and has exited stays gone.                      *)
LEMMA StaysGone ==
    ASSUME EnvTypeOK, EnvStep, NEW m \in Identity, m.start < births, ~Running(m)
    PROVE  (~Running(m))'
<1>1. PICK p \in Pids : \/ Exit(p) \/ Reap(p) \/ Spawn(p)
                        \/ \E u \in Uids : SetUid(p, u)
                        \/ \E i \in Images : Exec(p, i)
  BY DEF EnvStep
<1>2. procs[p] \in Process /\ procs[p].start \in Nat /\ m.start \in Nat
  BY DEF EnvTypeOK, Process, Identity
<1>3. CASE Exit(p) BY <1>2, <1>3 DEF Exit, EnvTypeOK, Process, Running
<1>4. CASE Reap(p) BY <1>2, <1>4 DEF Reap, EnvTypeOK, Process, Running
<1>5. CASE Spawn(p)
  BY <1>2, <1>5 DEF Spawn, EnvTypeOK, Process, Running
<1>6. CASE \E u \in Uids : SetUid(p, u)
  BY <1>2, <1>6 DEF SetUid, EnvTypeOK, Process, Running
<1>7. CASE \E i \in Images : Exec(p, i)
  BY <1>2, <1>7 DEF Exec, EnvTypeOK, Process, Running
<1> QED BY <1>1, <1>3, <1>4, <1>5, <1>6, <1>7
=============================================================================
