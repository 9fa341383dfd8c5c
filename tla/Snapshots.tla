----------------------------- MODULE Snapshots -----------------------------
(***************************************************************************)
(* What one look at /proc tells (src/adapters/process_sysinfo.rs,          *)
(* procfs.rs), which processes the policies concern (src/domain/policy.rs) *)
(* and the trees and termination orders built from a snapshot              *)
(* (src/domain/workload.rs, src/application/stale_workloads.rs).           *)
(*                                                                         *)
(* A snapshot is a function from the PIDs in use to what is known of their *)
(* holders.  Memory and CPU shares are small numbers, names and paths      *)
(* model values.                                                           *)
(***************************************************************************)
EXTENDS Integers, FiniteSetsExt, SequencesExt

CONSTANTS
    Me,     \* the user Resource Guard runs as
    Pids,   \* process ids, positive
    Nobody  \* no executable, no working directory, no systemd unit

ASSUME SnapshotAssumption == Pids \subseteq Nat \ {0}

NoPid == 0

(* What is known of a process; its start time tells it from another holder *)
(* of its PID.  Parents are there, and the kernel's never form a cycle: in *)
(* any set of processes there is one whose parent is outside.              *)
Facets == {"start", "uid", "parent", "name", "exe", "memory", "cpu", "age", "cwd", "cgroup", "tty"}
IsTable(table) ==
    /\ DOMAIN table \subseteq Pids /\ IsFiniteSet(DOMAIN table)
    /\ \A p \in DOMAIN table :
         /\ DOMAIN table[p] = Facets /\ {table[p].start, table[p].memory} \subseteq Nat
         /\ table[p].parent \in DOMAIN table \cup {NoPid}
    /\ \A S \in SUBSET DOMAIN table : S # {} => \E p \in S : table[p].parent \notin S

(* ProcessIdentity *)
IdOf(s, p) == [pid |-> p, uid |-> s[p].uid, start |-> s[p].start]
Identities(s) == {IdOf(s, p) : p \in DOMAIN s}

-----------------------------------------------------------------------------
(* The execution context.  A cgroup is its slices and its innermost unit.  *)

Origin(cgroup) ==
    IF cgroup.unit = Nobody THEN "Unknown"
    ELSE IF "app" \in cgroup.slices /\ cgroup.kind = "scope" THEN "UserApplication"
    ELSE IF cgroup.kind = "service" \/ cgroup.slices \cap {"session", "background"} # {}
    THEN "UserService"
    ELSE "Unknown"

(* An unreadable terminal, and the cgroup of another user, leave           *)
(* everything unknown.                                                     *)
UnknownContext == [origin |-> "Unknown", group |-> Nobody, terminal |-> FALSE]
Context(process) ==
    IF process.tty = "unknown" THEN UnknownContext
    ELSE LET origin == IF process.uid = Me THEN Origin(process.cgroup) ELSE "Unknown"
         IN [origin |-> origin,
             group |-> IF origin = "Unknown" THEN Nobody ELSE process.cgroup.unit,
             terminal |-> process.tty # "none"]

(* CachedFacts: owner and context are read once per process.               *)
Facts(facts, table) ==
    [p \in DOMAIN table |->
        IF p \in DOMAIN facts /\ facts[p].start = table[p].start
        THEN facts[p]
        ELSE [start |-> table[p].start, uid |-> table[p].uid, context |-> Context(table[p])]]

(* One observation; the working directory is read of own processes only.   *)
Observed(facts, table) ==
    [p \in DOMAIN table |->
        [start |-> facts[p].start, uid |-> facts[p].uid, context |-> facts[p].context,
         parent |-> table[p].parent, name |-> table[p].name, exe |-> table[p].exe,
         memory |-> table[p].memory, cpu |-> table[p].cpu, age |-> table[p].age,
         cwd |-> IF facts[p].uid = Me THEN table[p].cwd ELSE Nobody]]

(* A fresh source, as every CLI command has.                               *)
Fresh(table) == Observed(Facts(<<>>, table), table)

-----------------------------------------------------------------------------
(* ProtectionPolicy                                                        *)

IsProtection(policy) ==
    DOMAIN policy = {"protectedNames", "protectedExes", "ignoredNames", "ignoredExes"}

Names(process, names, exes) ==
    process.name \in names \/ (process.exe # Nobody /\ process.exe \in exes)

IsProtected(policy, process) ==
    Names(process, policy.protectedNames, policy.protectedExes)

Disposition(policy, process) ==
    IF IsProtected(policy, process) THEN "Protect"
    ELSE IF Names(process, policy.ignoredNames, policy.ignoredExes) THEN "Ignore"
    ELSE "Monitor"

(* IgnoreRule::for_process, then ProtectionPolicy::ignore.                 *)
IgnoringProcess(policy, process) ==
    IF process.exe # Nobody
    THEN [policy EXCEPT !.ignoredExes = @ \cup {process.exe}]
    ELSE [policy EXCEPT !.ignoredNames = @ \cup {process.name}]

-----------------------------------------------------------------------------
(* Trees                                                                   *)

(* The process n generations above p, NoPid above a parent not in sight.   *)
Above(s, p) ==
    LET up[n \in 0..Cardinality(DOMAIN s)] ==
            IF n = 0 THEN p
            ELSE LET child == up[n - 1] IN
                 IF child \in DOMAIN s /\ s[child].parent \in DOMAIN s
                 THEN s[child].parent ELSE NoPid
    IN up

(* descendant_depth *)
Generations(s, p, root) ==
    LET up == Above(s, p) IN {n \in DOMAIN up : up[n] = root}
Below(s, p, root) == Generations(s, p, root) # {}
Depth(s, p, root) == Min(Generations(s, p, root))

(* The members of a tree: processes of any other user are left out, those  *)
(* they started are not.                                                   *)
Tree(s, root) == {p \in DOMAIN s : s[p].uid = Me /\ Below(s, p, root)}

(* A finite set in an order of its members, given as the pairs of one and  *)
(* another that comes after it.                                            *)
InOrder(S, before) ==
    [k \in 1..Cardinality(S) |->
        CHOOSE x \in S : Cardinality({y \in S : <<y, x>> \in before}) = k - 1]

(* Mutant: in the order of the PIDs.                                       *)
PidOrderBug(root, depth) ==
    LET others == DOMAIN depth \ {root}
    IN InOrder(others, {pair \in others \X others : pair[1] > pair[2]}) \o <<root>>

(* termination_order: the deepest first, then the highest PID, the root    *)
(* last.  Depth is a function from the members.                            *)
Deeper(depth, p, q) == depth[p] > depth[q] \/ (depth[p] = depth[q] /\ p > q)
TerminationOrder(root, depth) ==
    LET others == DOMAIN depth \ {root}
    IN InOrder(others, {pair \in others \X others : Deeper(depth, pair[1], pair[2])})
       \o <<root>>

(* sort_workloads: the largest first, then the lowest PID.                 *)
Precedes(v, w) == v.memory > w.memory \/ (v.memory = w.memory /\ v.root.pid < w.root.pid)
LargestFirst(workloads) ==
    InOrder(workloads, {pair \in workloads \X workloads : Precedes(pair[1], pair[2])})

-----------------------------------------------------------------------------
(* Time passes between polls; what is compared with a limit is counted up  *)
(* to it.                                                                  *)

Least(a, b) == IF a < b THEN a ELSE b

(* Mutant: a deadline holds one time unit longer.                          *)
AtDeadlineBug(deadlines, delay) ==
    [id \in {i \in DOMAIN deadlines : deadlines[i] - delay >= 0} |-> deadlines[id] - delay]

(* Deadlines: a function to the time left.  What is due is dropped.        *)
Left(deadlines, delay) ==
    [id \in {i \in DOMAIN deadlines : deadlines[i] - delay > 0} |-> deadlines[id] - delay]

Until(deadlines, id, time) ==
    [i \in DOMAIN deadlines \cup {id} |-> IF i = id THEN time ELSE deadlines[i]]

(* TrackingState: consecutive samples, and the time since the last         *)
(* notification; none is as good as one whose cooldown is over.            *)
Untracked(policy) == [streak |-> 0, last |-> policy.cooldown]

(* What is still there keeps its state, what is new starts, the rest is    *)
(* forgotten.                                                              *)
Tracking(tracked, active, policy, delay) ==
    [a \in active |->
        IF a \in DOMAIN tracked
        THEN [tracked[a] EXCEPT !.last = Least(policy.cooldown, @ + delay)]
        ELSE Untracked(policy)]

Counted(state, policy) ==
    [state EXCEPT !.streak = Least(policy.samples, @ + 1)]
Due(state, policy) ==
    state.streak >= policy.samples /\ state.last >= policy.cooldown

MemoryOf(s, members) == MapThenSumSet(LAMBDA p : s[p].memory, members)
CpuOf(s, members) == MapThenSumSet(LAMBDA p : s[p].cpu, members)
=============================================================================
