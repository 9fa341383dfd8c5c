------------------------ MODULE BackgroundWorkloads ------------------------
(***************************************************************************)
(* Background application detection:                                       *)
(* src/application/background_workloads.rs and                             *)
(* src/domain/background_workload.rs.  The processes of one application    *)
(* scope are one workload; its memory and process count are sampled over   *)
(* a growth window, and streaks and cooldowns decide when the user is told.*)
(***************************************************************************)
EXTENDS Snapshots

CONSTANTS
    Shells,         \* GENERIC_LAUNCHER_NAMES
    MaxTracked,     \* MAX_TRACKED_WORKLOADS
    TicksPerSecond  \* of start times: sysinfo tells run times in whole seconds

ASSUME BackgroundAssumption == MaxTracked \in Nat \ {0} /\ TicksPerSecond \in Nat \ {0}

VARIABLES
    bgPolicy,      \* BackgroundWorkloadPolicy, with the roots ignored so far
    bgProtection,  \* the service's copy of the protection policy
    history,       \* root -> samples, oldest first
    tracking,      \* root -> streak and time since its notification
    bgIgnored,     \* root -> what is left of its hour
    sinceSample,   \* time since the last sample, up to the interval
    bgCandidates,  \* current_candidates
    bgNotices      \* the workloads the last evaluation notified of

bgVars == <<bgPolicy, bgProtection, history, tracking, bgIgnored, sinceSample,
            bgCandidates, bgNotices>>

IsBackgroundPolicy(policy) ==
    /\ DOMAIN policy = {"enabled", "minAge", "minMemory", "large", "window", "growth",
                        "countGrowth", "maxCpu", "samples", "interval", "cooldown",
                        "ignoredNames", "ignoredExes"}
    /\ {policy.samples, policy.interval} \subseteq Nat \ {0}
    /\ {policy.window, policy.cooldown} \subseteq Nat

-----------------------------------------------------------------------------
(* Groups: a function of the snapshot                                      *)

(* eligible_groups: the members of one.                                    *)
GroupMembers(s, group) ==
    {p \in DOMAIN s : /\ s[p].uid = Me
                      /\ s[p].context.origin = "UserApplication"
                      /\ s[p].context.group = group}

EligibleGroups(s) ==
    {g \in {s[p].context.group : p \in DOMAIN s} : GroupMembers(s, g) # {}}

(* select_root: the oldest process without a parent in the group, of those *)
(* that started in the same second the one with the lowest PID.            *)
StartSecond(s, p) == s[p].start \div TicksPerSecond

SelectRoot(s, members) ==
    LET tops == {p \in members : s[p].parent \notin members}
        pool == IF tops = {} THEN members ELSE tops
        Prefer(p, q) == \/ StartSecond(s, p) < StartSecond(s, q)
                        \/ StartSecond(s, p) = StartSecond(s, q) /\ p <= q
    IN CHOOSE p \in pool : \A q \in pool : Prefer(p, q)

(* member_depth: 0 where the way to the root leaves the group.             *)
MemberDepth(s, p, root, members) ==
    LET up == Above(s, p)
        reached == {n \in DOMAIN up : up[n] = root /\ \A i \in 0..n : up[i] \in members}
    IN IF reached = {} THEN 0 ELSE Min(reached)

(* build_group                                                             *)
BuildGroup(s, group) ==
    LET members == GroupMembers(s, group)
        root == SelectRoot(s, members)
        order == TerminationOrder(root, [p \in members |-> MemberDepth(s, p, root, members)])
    IN [group |-> group, root |-> IdOf(s, root), name |-> s[root].name, exe |-> s[root].exe,
        programs |-> {[name |-> s[p].name, exe |-> s[p].exe] : p \in members},
        memory |-> MemoryOf(s, members), cpu |-> CpuOf(s, members), age |-> s[root].age,
        order |-> [k \in DOMAIN order |-> IdOf(s, order[k])]]

Count(w) == Len(w.order)

RootIgnored(w, policy) == Names(w, policy.ignoredNames, policy.ignoredExes)

(* safe_workload                                                           *)
SafeGroup(s, group, protection, policy) ==
    LET members == GroupMembers(s, group)
        root == SelectRoot(s, members)
    IN /\ \A p \in members : /\ Disposition(protection, s[p]) = "Monitor"
                             /\ ~s[p].context.terminal
       /\ s[root].exe # Nobody
       /\ s[root].name \notin Shells
       /\ ~RootIgnored(s[root], policy)

(* build_background_workloads, then cap_workloads.                         *)
BuildBackgroundWorkloads(s, protection, policy) ==
    {BuildGroup(s, g) : g \in {h \in EligibleGroups(s) : SafeGroup(s, h, protection, policy)}}
Capped(workloads) ==
    {w \in workloads : Cardinality({v \in workloads : Precedes(v, w)}) < MaxTracked}

(* Mutant: the group is found by the root's PID.                           *)
RootPidBug(s, reported, protection, policy) ==
    LET group == reported.group IN
    IF /\ reported.root.pid \in GroupMembers(s, group)
       /\ SafeGroup(s, group, protection, policy)
    THEN BuildGroup(s, group) ELSE [root |-> Nobody]

(* background_workload_from_root: the group reported earlier, in another   *)
(* snapshot; none if its root is not exactly what it was.                  *)
BackgroundFromRoot(s, reported, protection, policy) ==
    LET group == reported.group IN
    IF /\ reported.root \in Identities(s) /\ reported.root.uid = Me
       /\ reported.root.pid \in GroupMembers(s, group)
       /\ SafeGroup(s, group, protection, policy)
       /\ BuildGroup(s, group).root = reported.root
    THEN BuildGroup(s, group) ELSE [root |-> Nobody]

-----------------------------------------------------------------------------
(* The service                                                             *)

BackgroundInit(policies, protection) ==
    /\ bgPolicy \in policies /\ bgProtection = protection
    /\ history = <<>> /\ tracking = <<>> /\ bgIgnored = <<>>
    /\ sinceSample = bgPolicy.interval
    /\ bgCandidates = {} /\ bgNotices = {}

(* prune_history: the front is the last sample older than the window, if   *)
(* there is one.                                                           *)
Pruned(samples, window) ==
    LET front == Max({1} \cup {k \in DOMAIN samples : samples[k].age > window})
    IN SubSeq(samples, front, Len(samples))

(* Ages are counted up to just over the window.                            *)
Aged(samples, policy, delay) ==
    [k \in DOMAIN samples |->
        [samples[k] EXCEPT !.age = Least(policy.window + 1, @ + delay)]]

Recorded(w, aged, policy) ==
    LET before == IF w.root \in DOMAIN aged THEN aged[w.root] ELSE <<>>
        sample == [age |-> 0, memory |-> w.memory, count |-> Count(w), cpu |-> w.cpu]
    IN Pruned(Append(before, sample), policy.window)

AverageAtMost(samples, limit) ==
    FoldLeft(LAMBDA sum, x : sum + x.cpu, 0, samples) <= limit * Len(samples)

(* Mutant: the window is over one sample early.                            *)
OneSampleEarlyBug(w, samples, level, policy) ==
    LET baseline == Head(samples) IN
    /\ w.age >= policy.minAge /\ w.memory >= policy.minMemory
    /\ AverageAtMost(samples, policy.maxCpu)
    /\ baseline.age + policy.interval >= policy.window

(* is_candidate, on the samples recorded of the workload.                  *)
IsCandidate(w, samples, level, policy) ==
    LET baseline == Head(samples) IN
    /\ w.age >= policy.minAge
    /\ w.memory >= policy.minMemory
    /\ AverageAtMost(samples, policy.maxCpu)
    /\ baseline.age >= policy.window
    /\ \/ level # "Normal"
       \/ w.memory - baseline.memory >= policy.growth
       \/ Count(w) - baseline.count >= policy.countGrowth
       \/ w.memory >= policy.large

(* Mutant: every poll counts as a sample.                                  *)
EveryPollBug(since, policy) == TRUE
SampleDue(since, policy) == since >= policy.interval

(* A sample: the histories, the candidates and the notifications.          *)
TakeSample(s, level, delay, ignored) ==
    LET policy == bgPolicy
        workloads == Capped(BuildBackgroundWorkloads(s, bgProtection, policy))
        roots == {w.root : w \in workloads}
        aged == [r \in DOMAIN history |-> Aged(history[r], policy, delay)]
        samples == [w \in workloads |-> Recorded(w, aged, policy)]
        candidates == {w \in workloads : IsCandidate(w, samples[w], level, policy)}
        states == Tracking(tracking, roots, policy, delay)
        counted == [w \in workloads |->
                      IF w \in candidates THEN Counted(states[w.root], policy)
                      ELSE [states[w.root] EXCEPT !.streak = 0]]
        notified == {w \in candidates : Due(counted[w], policy) /\ w.root \notin ignored}
        Of(r) == CHOOSE w \in workloads : w.root = r
    IN /\ history' = [r \in roots |-> samples[Of(r)]]
       /\ tracking' = [r \in roots |-> IF Of(r) \in notified
                                       THEN [counted[Of(r)] EXCEPT !.last = 0]
                                       ELSE counted[Of(r)]]
       /\ sinceSample' = 0
       /\ bgCandidates' = candidates
       /\ bgNotices' = notified

(* evaluate, of all processes.  The code drops ignores that are over at    *)
(* samples only, where alone they are looked at.                           *)
EvaluateBackground(s, level, delay) ==
    LET policy == bgPolicy
        since == Least(policy.interval, sinceSample + delay)
        ignored == Left(bgIgnored, delay)
    IN /\ bgIgnored' = ignored
       /\ UNCHANGED <<bgPolicy, bgProtection>>
       /\ IF ~policy.enabled
          THEN /\ history' = <<>> /\ tracking' = <<>> /\ sinceSample' = policy.interval
               /\ bgCandidates' = {} /\ bgNotices' = {}
          ELSE IF SampleDue(since, policy)
          THEN TakeSample(s, level, delay, DOMAIN ignored)
          ELSE /\ history' = [r \in DOMAIN history |-> Aged(history[r], policy, delay)]
               /\ tracking' = Tracking(tracking, DOMAIN tracking, policy, delay)
               /\ sinceSample' = since
               /\ UNCHANGED bgCandidates
               /\ bgNotices' = {}

(* Mutant: ignores are seen by the next sample only.                       *)
KeepCandidatesBug(candidates, policy, protection) == candidates

(* retain_monitored_candidates                                             *)
Retained(candidates, policy, protection) ==
    {w \in candidates : /\ \A x \in w.programs : Disposition(protection, x) = "Monitor"
                        /\ ~RootIgnored(w, policy)}

(* ignore_for                                                              *)
IgnoreGroup(root, time) ==
    /\ bgIgnored' = Until(bgIgnored, root, time)
    /\ UNCHANGED <<bgPolicy, bgProtection, history, tracking, sinceSample, bgCandidates,
                   bgNotices>>

(* ignore_process                                                          *)
AlwaysIgnoreGroup(w) ==
    LET policy == IF w.exe # Nobody
                  THEN [bgPolicy EXCEPT !.ignoredExes = @ \cup {w.exe}]
                  ELSE [bgPolicy EXCEPT !.ignoredNames = @ \cup {w.name}]
    IN /\ bgPolicy' = policy
       /\ bgCandidates' = Retained(bgCandidates, policy, bgProtection)
       /\ UNCHANGED <<bgProtection, history, tracking, bgIgnored, sinceSample, bgNotices>>

(* replace_protection_policy                                               *)
ReplaceProtection(policy) ==
    /\ bgProtection' = policy
    /\ bgCandidates' = Retained(bgCandidates, bgPolicy, policy)
    /\ UNCHANGED <<bgPolicy, history, tracking, bgIgnored, sinceSample, bgNotices>>
=============================================================================
