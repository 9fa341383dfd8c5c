--------------------------- MODULE StaleWorkloads ---------------------------
(***************************************************************************)
(* Stale workload detection: src/application/stale_workloads.rs and        *)
(* src/domain/stale_workload.rs.  Trees that developer tools left behind   *)
(* are found in a snapshot, alone when they are large, in groups by        *)
(* working directory when they are many; streaks and cooldowns decide      *)
(* which of them the user is told of.                                      *)
(***************************************************************************)
EXTENDS Snapshots

VARIABLES
    stalePolicy,    \* StaleWorkloadPolicy, with the names ignored so far
    tracked,        \* root -> streak and time since its notification
    trackedGroups,  \* working directory -> the same for its group
    staleIgnored,   \* root -> what is left of its hour
    staleFound,     \* the detection of the last evaluation
    staleNotices    \* the trees and groups it notified of

staleVars == <<stalePolicy, tracked, trackedGroups, staleIgnored, staleFound, staleNotices>>

IsStalePolicy(policy) ==
    /\ DOMAIN policy = {"enabled", "onlyUnderPressure", "candidates", "launchers", "ignored",
                        "minAge", "minTree", "minGroup", "minTrees", "maxCpu", "samples",
                        "cooldown"}
    /\ {policy.samples, policy.minTrees} \subseteq Nat \ {0} /\ policy.cooldown \in Nat

-----------------------------------------------------------------------------
(* Detection: a function of the snapshot                                   *)

(* build_workload: a tree with its members in the order they are stopped.  *)
(* CPU shares are finite numbers here; the code drops a tree whose sum is  *)
(* not.                                                                    *)
Workload(s, root) ==
    LET members == Tree(s, root)
        order == TerminationOrder(root, [p \in members |-> Depth(s, p, root)])
    IN [root |-> IdOf(s, root), name |-> s[root].name, cwd |-> s[root].cwd,
        memory |-> MemoryOf(s, members), cpu |-> CpuOf(s, members),
        order |-> [k \in DOMAIN order |-> IdOf(s, order[k])]]

Candidates(s, policy) ==
    {p \in DOMAIN s : /\ s[p].uid = Me
                      /\ s[p].name \in policy.candidates
                      /\ s[p].age >= policy.minAge}

IsLauncher(s, p, policy) ==
    p \in DOMAIN s /\ s[p].uid = Me /\ s[p].name \in policy.launchers

(* The root of a candidate's tree: the last of the launchers right above   *)
(* it, or itself.                                                          *)
LauncherRoot(s, p, policy) ==
    LET up == Above(s, p)
        climbed == {n \in DOMAIN up : \A i \in 1..n : IsLauncher(s, up[i], policy)}
    IN up[Max(climbed)]

(* Mutant: the roots ignored for an hour are in the inventory.             *)
ListIgnoredBug(s, policy, ignored) ==
    {w \in {Workload(s, LauncherRoot(s, p, policy)) : p \in Candidates(s, policy)} :
        w.cpu <= policy.maxCpu /\ w.name \notin policy.ignored}

(* discover_eligible_trees, and the roots ignored for an hour.             *)
Eligible(s, policy, ignored) ==
    {w \in {Workload(s, LauncherRoot(s, p, policy)) : p \in Candidates(s, policy)} :
        /\ w.cpu <= policy.maxCpu
        /\ w.name \notin policy.ignored
        /\ w.root \notin ignored}

(* group_eligible_workloads: trees whose roots share a working directory,  *)
(* enough of them and large enough together.                               *)
GroupTotal(workloads) == MapThenSumSet(LAMBDA w : w.memory, workloads)
GroupsOf(eligible, policy) ==
    LET In(dir) == {w \in eligible : w.cwd = dir}
        Large(dir) == /\ Cardinality(In(dir)) >= policy.minTrees
                      /\ GroupTotal(In(dir)) >= policy.minGroup
    IN {[dir |-> dir, trees |-> In(dir)] :
            dir \in {d \in {w.cwd : w \in eligible} \ {Nobody} : Large(d)}}

RootsOf(group) == {w.root : w \in group.trees}

(* Mutant: trees that are not large are listed only in their groups.       *)
DirectOnlyBug(eligible, policy) ==
    LET direct == {w \in eligible : w.memory >= policy.minTree}
    IN [workloads |-> direct, groups |-> GroupsOf(eligible, policy),
        direct |-> {w.root : w \in direct}]

(* assemble_detection: large trees, groups, and the trees of both.         *)
Assembled(eligible, policy) ==
    LET direct == {w \in eligible : w.memory >= policy.minTree}
        groups == GroupsOf(eligible, policy)
    IN [workloads |-> direct \cup UNION {g.trees : g \in groups},
        groups |-> groups,
        direct |-> {w.root : w \in direct}]

NothingStale == [workloads |-> {}, groups |-> {}, direct |-> {}]
NoStaleNotices == [trees |-> {}, groups |-> {}]

Detection(s, policy, ignored) == Assembled(Eligible(s, policy, ignored), policy)

(* StaleWorkloadGroup::termination_order: tree after tree, as they are     *)
(* sorted, each process where it is listed first.                          *)
GroupOrder(group) ==
    LET trees == LargestFirst(group.trees)
        members == UNION {ToSet(w.order) : w \in group.trees}
        Number(id) == Min({k \in DOMAIN trees : id \in ToSet(trees[k].order)})
        Place(id) == CHOOSE k \in DOMAIN trees[Number(id)].order : trees[Number(id)].order[k] = id
        Listed(x, y) == \/ Number(x) < Number(y)
                        \/ Number(x) = Number(y) /\ Place(x) < Place(y)
    IN InOrder(members, {pair \in members \X members : Listed(pair[1], pair[2])})

(* workload_from_root: the tree of a root reported earlier, in another     *)
(* snapshot; none if the PID is not that process any more.                 *)
NoWorkload == [root |-> Nobody]
WorkloadFromRoot(s, root) ==
    IF root \in Identities(s) /\ root.uid = Me THEN Workload(s, root.pid) ELSE NoWorkload

-----------------------------------------------------------------------------
(* The service                                                             *)

StaleInit(policies) ==
    /\ stalePolicy \in policies
    /\ tracked = <<>> /\ trackedGroups = <<>> /\ staleIgnored = <<>>
    /\ staleFound = NothingStale /\ staleNotices = NoStaleNotices

(* Trees offered one by one: those of a group are offered with it.         *)
OfferedAlone(found) == found.direct \ UNION {RootsOf(g) : g \in found.groups}

(* Mutant: no streak is interrupted by normal pressure.                    *)
KeepStreakBug(state, permitted, policy) == IF permitted THEN Counted(state, policy) ELSE state

(* Pressure gates the notifications, not the inventory.                    *)
Sampled(state, permitted, policy) ==
    IF permitted THEN Counted(state, policy) ELSE [state EXCEPT !.streak = 0]

Permitted(policy, level) == ~policy.onlyUnderPressure \/ level # "Normal"

(* The states after a sample, and the subjects to notify of.               *)
Notified(states, permitted, policy) ==
    {a \in DOMAIN states : permitted /\ Due(Sampled(states[a], permitted, policy), policy)}
AfterSample(states, permitted, policy) ==
    [a \in DOMAIN states |->
        LET state == Sampled(states[a], permitted, policy) IN
        IF a \in Notified(states, permitted, policy) THEN [state EXCEPT !.last = 0] ELSE state]

(* evaluate, of the monitored processes.                                   *)
EvaluateStale(s, level, delay) ==
    LET policy == stalePolicy
        ignored == Left(staleIgnored, delay)
        found == Detection(s, policy, DOMAIN ignored)
        permitted == Permitted(policy, level)
        trees == Tracking(tracked, OfferedAlone(found), policy, delay)
        groups == Tracking(trackedGroups, {g.dir : g \in found.groups}, policy, delay)
    IN /\ UNCHANGED stalePolicy
       /\ IF policy.enabled
          THEN /\ staleIgnored' = ignored
               /\ staleFound' = found
               /\ tracked' = AfterSample(trees, permitted, policy)
               /\ trackedGroups' = AfterSample(groups, permitted, policy)
               /\ staleNotices' =
                    [trees |-> {w \in found.workloads :
                                  w.root \in Notified(trees, permitted, policy)},
                     groups |-> {g \in found.groups :
                                   g.dir \in Notified(groups, permitted, policy)}]
          ELSE /\ tracked' = <<>> /\ trackedGroups' = <<>> /\ staleIgnored' = <<>>
               /\ staleFound' = NothingStale /\ staleNotices' = NoStaleNotices

(* ignore_for                                                              *)
IgnoreTree(root, time) ==
    /\ staleIgnored' = Until(staleIgnored, root, time)
    /\ tracked' = Restrict(tracked, DOMAIN tracked \ {root})
    /\ UNCHANGED <<stalePolicy, trackedGroups, staleFound, staleNotices>>

(* ignore_name                                                             *)
AlwaysIgnoreTree(name) ==
    /\ stalePolicy' = [stalePolicy EXCEPT !.ignored = @ \cup {name}]
    /\ UNCHANGED <<tracked, trackedGroups, staleIgnored, staleFound, staleNotices>>
=============================================================================
