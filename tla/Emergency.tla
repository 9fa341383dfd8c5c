----------------------------- MODULE Emergency -----------------------------
(***************************************************************************)
(* Automatic emergency action: the memory-pressure half of the daemon's    *)
(* loop (src/runtime/daemon.rs, handle_memory_pressure with                *)
(* start_emergency_termination and finish_pending_emergency) over          *)
(* EmergencyService (src/application/emergency.rs), the activation policy  *)
(* (src/domain/emergency.rs) and the pressure tracker, interleaved with    *)
(* the process table.                                                      *)
(*                                                                         *)
(* One poll runs to its end before the next: it evaluates a sample, then   *)
(* settles the pending SIGTERM, then may scan for a victim and send it     *)
(* SIGTERM.  The stop use cases are two steps here, the validation and the *)
(* signal; module ProcessControl has their system calls.  Time passes      *)
(* between polls; every deadline is a saturating counter.                  *)
(***************************************************************************)
EXTENDS MemoryPressure, Processes

CONSTANTS
    ActionAvail, ActionPsi, \* action_available_bytes, action_psi_full_avg10
    Allowed, Exempt,        \* programs allow-listed for, exempt from emergencies
    TermGrace,              \* term_grace_period
    Cooldown,               \* action_cooldown
    NormalInterval, WarningInterval, CriticalInterval, \* poll intervals
    Delays                  \* bound: times that may pass between two polls

(* Settings::validate again, and a delay long enough for every interval.   *)
ASSUME EmergencyAssumption ==
    /\ ActionAvail \in Nat \ {0} /\ ActionPsi \in Nat
    /\ Allowed \subseteq Images /\ Exempt \subseteq Images
    /\ TermGrace \in Nat \ {0} /\ Cooldown \in Nat \ {0}
    /\ NormalInterval \in Nat \ {0}
    /\ WarningInterval \in Nat \ {0} /\ CriticalInterval \in Nat \ {0}
    /\ Delays \subseteq Nat \ {0}
    /\ \A i \in {NormalInterval, WarningInterval, CriticalInterval} :
         \E d \in Delays : i <= d

VARIABLES
    policy,      \* the settings that decide: [action, sigkill]
    interval,    \* time until pressure_sleep elapses, as the last poll left it
    phase,       \* where handle_memory_pressure stands; "idle" between polls
    sig,         \* the signal the stop under way sends
    victim,      \* the identity selected last
    pending,     \* PendingEmergency exists, for `victim`
    left,        \* time until its force_at
    sinceAction, \* time since last_action_at, saturating at Cooldown
    sinceScan,   \* time since last_emergency_scan, saturating at WarningInterval
    report,      \* DaemonState.last_emergency_action: what, of whom
    hit,         \* history: the signal delivered last in this poll
    plain,       \* history: the victim ran an unprotected program since the
                 \* stop under way began
    termed,      \* history: the instance SIGTERM was sent to last, if any
    termAge,     \* history: time since then, saturating at Horizon
    eased        \* history: a sample since then did not call for action

daemonVars == <<policy, interval, phase, sig, victim, pending, left, sinceAction,
                sinceScan, report>>
history == <<hit, plain, termed, termAge, eased>>
vars == <<pressureVars, envVars, daemonVars, history>>

Actions == {"NotifyOnly", "TerminateAllowlisted", "TerminateLargestUnprotected"}
Phases == {"idle", "scan", "check", "send"}
Reports == {"none", "sent", "killed", "exited", "rejected", "survived"}
Least(a, b) == IF a <= b THEN a ELSE b
Horizon == IF TermGrace <= Cooldown THEN Cooldown ELSE TermGrace

(* The daemon starts with no victim: nobody has start time 0.              *)
Nobody == [pid |-> CHOOSE p \in Pids : TRUE, uid |-> Me, start |-> 0]

NoInstance == <<>>
Instance == {NoInstance} \cup (Pids \X Nat)
InstanceOf(m) == <<m.pid, m.start>>
NoSignal == [sig |-> "none", at |-> NoInstance]

EmergencyTypeOK ==
    /\ PressureTypeOK /\ EnvTypeOK
    /\ policy \in [action : Actions, sigkill : BOOLEAN]
    /\ interval \in Nat
    /\ phase \in Phases
    /\ sig \in {"TERM", "KILL"}
    /\ victim \in Identity
    /\ pending \in BOOLEAN /\ left \in 0..TermGrace
    /\ sinceAction \in 0..Cooldown /\ sinceScan \in 0..WarningInterval
    /\ report \in [what : Reports, who : Identity]
    /\ hit \in [sig : {"none", "TERM", "KILL"}, at : Instance]
    /\ plain \in BOOLEAN /\ eased \in BOOLEAN
    /\ termed \in Instance /\ termAge \in 0..Horizon

EmergencyInit ==
    /\ PressureInit /\ EnvInit
    /\ policy \in [action : Actions, sigkill : BOOLEAN]
    /\ interval = 0 /\ phase = "idle" /\ sig = "TERM"
    /\ victim = Nobody
    /\ pending = FALSE /\ left = 0
    /\ sinceAction = Cooldown /\ sinceScan = WarningInterval
    /\ report = [what |-> "none", who |-> Nobody] /\ hit = NoSignal /\ plain = FALSE
    /\ termed = NoInstance /\ termAge = Horizon /\ eased = FALSE

-----------------------------------------------------------------------------
(* The poll.  Definitions named ...Bug are mutants of the one after them.  *)

(* EmergencyActivationPolicy::permits                                      *)
Permits(lv, s) ==
    \/ lv # "Normal" /\ s.avail <= ActionAvail
    \/ lv = "Critical" /\ AvailableCritical(s) /\ s.psi >= ActionPsi

IntervalOf(lv) ==
    IF lv = "Warning" THEN WarningInterval
    ELSE IF lv = "Critical" THEN CriticalInterval
    ELSE NormalInterval

(* A deadline that is not clamped; one that never comes closer.            *)
UnclampedBug(d) == left - d
FrozenBug(d) == left
LeftAfter(d) == IF d >= left THEN 0 ELSE left - d

(* d time units pass; pressure_sleep elapsed.                              *)
Elapse(d) ==
    /\ d >= interval
    /\ left' = LeftAfter(d)
    /\ sinceAction' = Least(sinceAction + d, Cooldown)
    /\ sinceScan' = Least(sinceScan + d, WarningInterval)
    /\ termAge' = Least(termAge + d, Horizon)

(* record_emergency_action                                                 *)
Report(what) == report' = [what |-> what, who |-> victim]

(* What follows once no action is pending any more, or was none: a scan if *)
(* one is due.                                                             *)
ScanIfDue(since) ==
    phase' = IF policy.action # "NotifyOnly" /\ since = WarningInterval
             THEN "scan" ELSE "idle"

(* A pending action that outlives the relief.                              *)
KeepPendingBug == phase' = "idle" /\ UNCHANGED <<pending, sig, report>>

(* Not permitted: a pending action is dropped, nothing is scanned.         *)
Clear == pending' = FALSE /\ phase' = "idle" /\ UNCHANGED <<sig, report>>

(* Its grace period over, a pending action is taken and finished: SIGKILL  *)
(* if the settings allow it, else the process is said to have survived.    *)
FinishPending ==
    /\ pending' = FALSE
    /\ \/ policy.sigkill /\ phase' = "check" /\ sig' = "KILL" /\ UNCHANGED report
       \/ ~policy.sigkill /\ Report("survived") /\ UNCHANGED sig /\ ScanIfDue(sinceScan')

NotCalledFor(s) ==
    ~(s.avail <= ActionAvail) /\ ~(AvailableCritical(s) /\ s.psi >= ActionPsi)

(* handle_memory_pressure up to the stop or the scan                       *)
Poll(s, d) ==
    /\ phase = "idle"
    /\ Elapse(d)
    /\ Evaluate(s)
    /\ interval' = IntervalOf(level')
    /\ LET permitted == Permits(level', s)
           due == pending /\ left' = 0
       IN \/ ~permitted /\ Clear
          \/ permitted /\ due /\ FinishPending
          \/ permitted /\ pending /\ ~due /\ UNCHANGED <<pending, phase, sig, report>>
          \/ permitted /\ ~pending /\ ScanIfDue(sinceScan') /\ UNCHANGED <<pending, sig, report>>
    /\ hit' = NoSignal
    /\ eased' = (eased \/ NotCalledFor(s))
    /\ plain' = ~IsProtected(procs[victim.pid].image)
    /\ UNCHANGED <<envVars, policy, victim, termed>>

(* The sample cannot be read: nothing is settled, and the daemon sleeps as *)
(* at normal pressure.                                                     *)
PollError(d) ==
    /\ phase = "idle"
    /\ Elapse(d)
    /\ interval' = NormalInterval
    /\ UNCHANGED <<pressureVars, envVars, policy, phase, sig, victim, pending, report,
                   hit, plain, termed, eased>>

-----------------------------------------------------------------------------
(* The scan: EmergencyService::consider on a fresh snapshot                *)

(* select_emergency_victim's filters; which of the eligible processes is   *)
(* largest, the model does not say.                                        *)
Eligible ==
    {p \in Pids :
        /\ procs[p].state = "alive" /\ procs[p].uid = Me
        /\ ~IsProtected(procs[p].image)
        /\ procs[p].image \notin Exempt
        /\ \/ policy.action = "TerminateLargestUnprotected"
           \/ policy.action = "TerminateAllowlisted" /\ procs[p].image \in Allowed}

NoCooldownBug == TRUE
Cooled == sinceAction = Cooldown

Select(p) ==
    /\ phase = "scan" /\ Cooled /\ p \in Eligible
    /\ victim' = IdentityOf(p)
    /\ sinceAction' = 0 /\ sinceScan' = 0
    /\ phase' = "check" /\ sig' = "TERM"
    /\ plain' = TRUE
    /\ UNCHANGED <<pressureVars, envVars, policy, interval, pending, left, report,
                   hit, termed, termAge, eased>>

(* The snapshot failed, the cooldown still runs, or nobody is eligible.    *)
SelectNone ==
    /\ phase = "scan"
    /\ sinceScan' = 0 /\ phase' = "idle"
    /\ UNCHANGED <<pressureVars, envVars, policy, interval, sig, victim, pending, left,
                   sinceAction, report, history>>

-----------------------------------------------------------------------------
(* The stop: StopProcess from start_emergency_termination (TERM), or       *)
(* ForceStopProcess from finish_pending_emergency (KILL), each with a      *)
(* fresh process source.                                                   *)

(* A validation that forgets the protection policy.                        *)
UnprotectedBug(m) ==
    IF procs[m.pid].state # "alive" THEN "NotFound"
    ELSE IF procs[m.pid].uid # Me THEN "WrongOwner"
    ELSE IF IdentityOf(m.pid) # m THEN "IdentityChanged"
    ELSE "ok"

(* validate_process                                                        *)
Verdict(m) ==
    IF procs[m.pid].state # "alive" THEN "NotFound"
    ELSE IF procs[m.pid].uid # Me THEN "WrongOwner"
    ELSE IF IdentityOf(m.pid) # m THEN "IdentityChanged"
    ELSE IF IsProtected(procs[m.pid].image) THEN "Protected"
    ELSE "ok"

(* Every failed SIGKILL taken for an exit.                                 *)
AllExitedBug(verdict) ==
    \/ sig = "TERM" /\ phase' = "idle" /\ UNCHANGED report
    \/ sig = "KILL" /\ Report("exited") /\ ScanIfDue(sinceScan)

(* A refused SIGTERM leaves nothing pending and no trace in the state; a   *)
(* refused SIGKILL means "exited" when the process was not found.          *)
Refused(verdict) ==
    \/ sig = "TERM" /\ phase' = "idle" /\ UNCHANGED report
    \/ sig = "KILL" /\ verdict = "NotFound" /\ Report("exited") /\ ScanIfDue(sinceScan)
    \/ sig = "KILL" /\ verdict # "NotFound" /\ Report("rejected") /\ ScanIfDue(sinceScan)

Check ==
    /\ phase = "check"
    /\ \E verdict \in {Verdict(victim), "Inspection"} :
         \/ verdict = "ok" /\ phase' = "send" /\ UNCHANGED report
         \/ verdict # "ok" /\ Refused(verdict)
    /\ UNCHANGED <<pressureVars, envVars, policy, interval, sig, victim, pending, left,
                   sinceAction, sinceScan, history>>

PidHoldsBug(m) == Present(m.pid)

(* send_signal: the pidfd's process is the one validated, and still mine.  *)
IdentityHolds(m) == Present(m.pid) /\ IdentityOf(m.pid) = m /\ procs[m.pid].uid = Me

Deliver ==
    /\ phase = "send" /\ IdentityHolds(victim)
    /\ LET at == <<victim.pid, procs[victim.pid].start>> IN
         /\ hit' = [sig |-> sig, at |-> at]
         /\ \/ /\ sig = "TERM"
               /\ pending' = TRUE /\ left' = TermGrace
               /\ Report("sent") /\ phase' = "idle"
               /\ termed' = at /\ termAge' = 0 /\ eased' = FALSE
            \/ /\ sig = "KILL"
               /\ Report("killed") /\ ScanIfDue(sinceScan)
               /\ UNCHANGED <<pending, left, termed, termAge, eased>>
    /\ UNCHANGED <<pressureVars, envVars, policy, interval, sig, victim, sinceAction,
                   sinceScan, plain>>

(* pidfd_open, the identity check or the signal fails.                     *)
SignalFails ==
    /\ phase = "send"
    /\ Refused("Termination")
    /\ UNCHANGED <<pressureVars, envVars, policy, interval, sig, victim, pending, left,
                   sinceAction, sinceScan, history>>

-----------------------------------------------------------------------------
Environment ==
    \/ \E p \in Pids :
         /\ Exit(p) \/ Reap(p) \/ Spawn(p) \/ \E u \in Uids : SetUid(p, u)
         /\ UNCHANGED <<pressureVars, daemonVars, history>>
    \/ \E p \in Pids, i \in Images :
         /\ Exec(p, i)
         /\ plain' = (plain \/ (p = victim.pid /\ ~IsProtected(i)))
         /\ UNCHANGED <<pressureVars, daemonVars, hit, termed, termAge, eased>>

PollAny == \E s \in Samples, d \in Delays : Poll(s, d)
Work == \/ \E p \in Pids : Select(p)
        \/ SelectNone
        \/ Check
        \/ Deliver \/ SignalFails

Next == \/ PollAny
        \/ \E d \in Delays : PollError(d)
        \/ Work
        \/ Environment

EmergencySpec == EmergencyInit /\ [][Next]_vars

(* A poll runs to its end, and polls that can read the sample recur.       *)
FairEmergencySpec == EmergencySpec /\ WF_vars(PollAny) /\ WF_vars(Work)
-----------------------------------------------------------------------------
(* Properties                                                              *)

(* A signal reaches the very process the scan selected, and none that took *)
(* its PID over during the scan, the stop or the grace period.             *)
OnlyVictims == [][hit' # hit /\ hit' # NoSignal => hit'.at = InstanceOf(victim)]_vars

(* No signal to a process that ran a protected program all through the     *)
(* stop: the protection holds after the selection and after the grace      *)
(* period too (README: "Protected ... processes are never candidates").    *)
ProtectedSpared == [][hit' # hit /\ hit' # NoSignal => plain]_vars

(* SIGKILL needs the opt-in and goes to the process that got SIGTERM the   *)
(* whole grace period ago, and no sample read since then was without the   *)
(* automatic-action condition (README: "checks that the automatic-action   *)
(* condition still holds").                                                *)
KillIsEarned ==
    [][hit' # hit /\ hit'.sig = "KILL" =>
         /\ policy.sigkill
         /\ hit'.at = termed
         /\ termAge >= TermGrace
         /\ ~eased]_vars

(* Two SIGTERMs are at least the action cooldown apart.                    *)
CooldownKept ==
    [][hit' # hit /\ hit'.sig = "TERM" => termed = NoInstance \/ termAge >= Cooldown]_vars

(* "exited after SIGTERM" in the status is right: the victim is gone.      *)
ReportIsTrue == report.what = "exited" => ~Running(report.who)

(* Every SIGTERM is settled: its victim is killed, found gone or let off.  *)
PendingSettled == pending ~> ~pending

(* README, "Memory pressure and emergency mode": automatic action is for   *)
(* "persistent critical pressure", and the status says "SIGKILL sent ...   *)
(* after persistent critical pressure".                                    *)
KillOnlyWhenCritical ==
    [][hit' # hit /\ hit'.sig = "KILL" => level = "Critical"]_vars
=============================================================================
