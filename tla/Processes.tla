----------------------------- MODULE Processes -----------------------------
(***************************************************************************)
(* The kernel's process table as Resource Guard can observe it: one entry  *)
(* per PID with the owner, the start time and the program of the process   *)
(* that holds the PID.  The daemon does not control any of it: processes   *)
(* exit, are reaped, replace their program and hand their PID to strangers *)
(* between any two of its steps.                                           *)
(*                                                                         *)
(* A process (an "instance") is a PID together with a start time.  The     *)
(* table keeps the start time of the last holder of a free PID, so the     *)
(* start time of a PID never decreases.                                    *)
(***************************************************************************)
EXTENDS Integers

CONSTANTS
    Pids,       \* process ids
    Uids,       \* user ids
    Me,         \* the user Resource Guard runs as
    Images,     \* programs a process may run
    Protected,  \* the programs the protection policy names
    MaxStart    \* bound: start times stay below it

ASSUME ProcessAssumption ==
    /\ Pids # {} /\ Me \in Uids
    /\ Protected \subseteq Images /\ Images # {}
    /\ MaxStart \in Nat

VARIABLES
    procs,      \* PID -> its current or last holder
    births      \* the next start time the kernel hands out

envVars == <<procs, births>>

(* "alive" runs; "zombie" has exited and still holds its PID; "free" PIDs  *)
(* are held by nobody.                                                     *)
Process == [state : {"alive", "zombie", "free"}, uid : Uids,
            start : Nat, image : Images]

(* ProcessIdentity: PID, owner and kernel start time.                      *)
Identity == [pid : Pids, uid : Uids, start : Nat]

IdentityOf(p) == [pid |-> p, uid |-> procs[p].uid, start |-> procs[p].start]

Present(p) == procs[p].state # "free"

(* The process an identity was taken from has not exited.                  *)
Running(m) == /\ procs[m.pid].state = "alive"
              /\ procs[m.pid].start = m.start

(* The program decides protection (ProtectionPolicy::is_protected).        *)
IsProtected(image) == image \in Protected

EnvTypeOK ==
    /\ procs \in [Pids -> Process]
    /\ births \in Nat
    /\ \A p \in Pids : procs[p].start < births

EnvInit ==
    /\ procs \in [Pids -> [state : {"alive"}, uid : Uids, start : {1},
                           image : Images]]
    /\ births = 2

Exit(p) ==
    /\ procs[p].state = "alive"
    /\ procs' = [procs EXCEPT ![p].state = "zombie"]
    /\ UNCHANGED births

Reap(p) ==
    /\ procs[p].state = "zombie"
    /\ procs' = [procs EXCEPT ![p].state = "free"]
    /\ UNCHANGED births

(* A free PID is reused.  Start times are handed out in order: the code's  *)
(* own assumption, on which PID-reuse detection by start time rests.       *)
Spawn(p) ==
    /\ procs[p].state = "free"
    /\ births < MaxStart
    /\ \E u \in Uids, i \in Images :
         procs' = [procs EXCEPT ![p] = [state |-> "alive", uid |-> u,
                                        start |-> births, image |-> i]]
    /\ births' = births + 1

(* exec(2): another program in the same process, same PID and start time.  *)
Exec(p, image) ==
    /\ procs[p].state = "alive"
    /\ procs[p].image # image
    /\ procs' = [procs EXCEPT ![p].image = image]
    /\ UNCHANGED births

(* A set-uid program (sudo) takes another real user id; it does not hand   *)
(* the process back.                                                       *)
SetUid(p, uid) ==
    /\ procs[p].state = "alive"
    /\ procs[p].uid = Me
    /\ uid # Me
    /\ procs' = [procs EXCEPT ![p].uid = uid]
    /\ UNCHANGED births
=============================================================================
