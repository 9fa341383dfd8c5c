------------------------------ MODULE Monitor ------------------------------
(***************************************************************************)
(* Per-process monitoring: src/application/monitor.rs,                     *)
(* src/domain/violation.rs, src/domain/resources.rs and the IgnoreRegistry *)
(* of src/domain/policy.rs.  Processes of the user that no policy exempts  *)
(* are compared with the limits at every poll; a breach that lasts is      *)
(* reported, and again when the cooldown is over.                          *)
(***************************************************************************)
EXTENDS Snapshots

VARIABLES
    limits,      \* Thresholds and ViolationPolicy
    protection,  \* ProtectionPolicy, with the rules added so far
    ignores,     \* IgnoreRegistry: identity -> time left
    violations,  \* identity -> streak, time since its first sample, and
                 \* time since the last notification
    trackedIds,  \* the identities monitored at the last poll
    events       \* the identities the last poll reported

IsLimits(policy) ==
    policy.samples \in Nat \ {0} /\ {policy.duration, policy.cooldown} \subseteq Nat

monitorVars == <<limits, protection, ignores, violations, trackedIds, events>>

MonitorInit(policies, policy) ==
    /\ limits \in policies /\ protection = policy
    /\ ignores = <<>> /\ violations = <<>> /\ trackedIds = {} /\ events = {}

-----------------------------------------------------------------------------

(* Thresholds::evaluate; the settings always give both limits.             *)
Breach(process, policy) ==
    process.cpu > policy.maxCpu \/ process.memory > policy.maxMemory

(* What poll looks at; the rest it forgets.                                *)
Monitored(s, policy, ignored) ==
    {p \in DOMAIN s : /\ s[p].uid = Me
                      /\ Disposition(policy, s[p]) = "Monitor"
                      /\ IdOf(s, p) \notin ignored}

(* ViolationTracker::evaluate, of a sample in breach: none is as good as a *)
(* notification whose cooldown is over.                                    *)
NewViolation(policy) == [streak |-> 0, since |-> 0, last |-> policy.cooldown]

(* Mutant: the time of the first sample is the time of the last one.       *)
RestartedBug(violation, policy, delay) ==
    [violation EXCEPT !.since = 0, !.last = Least(policy.cooldown, @ + delay)]
Waited(violation, policy, delay) ==
    [violation EXCEPT !.since = Least(policy.duration, @ + delay),
                      !.last = Least(policy.cooldown, @ + delay)]

(* Mutant: every sample of a lasting breach is reported.                   *)
NoCooldownBug(violation, policy) ==
    violation.streak >= policy.samples /\ violation.since >= policy.duration
Notifies(violation, policy) ==
    /\ violation.streak >= policy.samples
    /\ violation.since >= policy.duration
    /\ violation.last >= policy.cooldown

(* Mutant: a sample within the limits only resets the streak.              *)
KeepSinceBug(s, active, states, policy) ==
    [id \in {IdOf(s, p) : p \in active} \cap
            (DOMAIN states \cup {IdOf(s, p) : p \in {q \in active : Breach(s[q], policy)}}) |->
        LET state == IF id \in DOMAIN states THEN states[id] ELSE NewViolation(policy)
        IN IF Breach(s[id.pid], policy)
           THEN [state EXCEPT !.streak = Least(policy.samples, @ + 1)]
           ELSE [state EXCEPT !.streak = 0]]

(* The violations after a look at the active processes: a sample within    *)
(* the limits ends one.                                                    *)
Violations(s, active, states, policy) ==
    [id \in {IdOf(s, p) : p \in {q \in active : Breach(s[q], policy)}} |->
        LET state == IF id \in DOMAIN states THEN states[id] ELSE NewViolation(policy)
        IN [state EXCEPT !.streak = Least(policy.samples, @ + 1)]]

WaitedAll(states, policy, delay) ==
    [id \in DOMAIN states |-> Waited(states[id], policy, delay)]

(* poll, of a snapshot taken delay after the last one.                     *)
MonitorPoll(s, delay) ==
    LET ignored == Left(ignores, delay)
        active == Monitored(s, protection, DOMAIN ignored)
        states == Violations(s, active, WaitedAll(violations, limits, delay), limits)
        due == {id \in DOMAIN states : Notifies(states[id], limits)}
    IN /\ ignores' = ignored
       /\ violations' = [id \in DOMAIN states |->
                            IF id \in due THEN [states[id] EXCEPT !.last = 0]
                            ELSE states[id]]
       /\ trackedIds' = {IdOf(s, p) : p \in active}
       /\ events' = due
       /\ UNCHANGED <<limits, protection>>

Forgotten(id) ==
    /\ violations' = Restrict(violations, DOMAIN violations \ {id})
    /\ trackedIds' = trackedIds \ {id}

(* ignore_for                                                              *)
IgnoreFor(id, time) ==
    /\ ignores' = Until(ignores, id, time)
    /\ Forgotten(id)
    /\ UNCHANGED <<limits, protection, events>>

(* ignore_permanently; process has the name and the executable reported.   *)
IgnorePermanently(id, process) ==
    /\ protection' = IgnoringProcess(protection, process)
    /\ Forgotten(id)
    /\ UNCHANGED <<limits, ignores, events>>
=============================================================================
