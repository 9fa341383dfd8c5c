---------------------------- MODULE Monitoring ----------------------------
(***************************************************************************)
(* The monitor arm of the daemon's loop: one snapshot goes through the     *)
(* monitor, the stale-workload service and the background service          *)
(* (record_monitor_report of src/runtime/daemon.rs), the results are       *)
(* published to the clients of the control socket (src/runtime/state.rs)   *)
(* and offered to the user, whose "ignore" clicks come back to the         *)
(* services, and whose stop-tree and stop-background commands              *)
(* (src/cli/mod.rs) rebuild what was published from a snapshot of their    *)
(* own.  Processes exit, fork, grow and move between any two steps.        *)
(***************************************************************************)
EXTENDS Monitor, StaleWorkloads, BackgroundWorkloads

CONSTANTS
    Scenarios,   \* initial tables, the settings they are watched with, the
                 \* times that may pass between two polls, and bounds: how
                 \* many changes of the processes and clicks on "ignore"
    Sizes,       \* what a process may come to hold
    Scope,       \* an application scope a process may be moved to
    Hour,        \* an ignore of one hour
    MaxStart,    \* bound: start times
    Memory       \* bound: polls the properties look back at

(* Polls are at least a time unit apart: a growth window and its samples   *)
(* are within so many.                                                     *)
Reach(policy) ==
    ((policy.window + policy.interval - 1) \div policy.interval) * policy.interval

(* The past reaches as far back as streaks, durations and windows do.      *)
ASSUME MonitoringAssumption ==
    /\ Hour \in Nat \ {0} /\ Memory \in Nat \ {0} /\ Sizes \subseteq Nat
    /\ Scenarios # {} /\ IsFiniteSet(Scenarios)
    /\ \A scenario \in Scenarios :
         /\ scenario.delays # {} /\ scenario.delays \subseteq Nat \ {0}
         /\ IsFiniteSet(scenario.delays)
         /\ IsTable(scenario.table) /\ {scenario.changes, scenario.clicks} \subseteq Nat
         /\ IsLimits(scenario.limits) /\ IsProtection(scenario.protection)
         /\ IsStalePolicy(scenario.stale) /\ IsBackgroundPolicy(scenario.background)
         /\ {scenario.limits.samples, scenario.limits.duration + 1, scenario.stale.samples,
             Reach(scenario.background) + 1} \subseteq 1..Memory

VARIABLES
    table,      \* the processes
    clock,      \* the next start time
    changes,    \* changes still to come
    clicks,     \* clicks still to come
    delays,     \* the times that may pass between two polls
    facts,      \* the daemon's CachedFacts
    published,  \* DaemonState: what the control socket answers
    offers,     \* the notifications the user may act on: the last ones
    quiet,      \* the user's ignores: subject -> time left
    seen,       \* the last snapshot: PID -> its process, parent and memory
    past        \* what the last polls found and said, the last one first;
                \* these three are for the properties only

envVars == <<table, clock, changes, delays>>
vars == <<monitorVars, staleVars, bgVars, envVars, clicks, facts, published, offers, quiet, seen, past>>

(* Stands for no end; one less once there was a poll.                      *)
Forever == 2 * Hour + Max(UNION {scenario.delays : scenario \in Scenarios})

NothingPublished == [stale |-> {}, groups |-> {}, background |-> {}, top |-> {}]
NoOffers == [events |-> {}, trees |-> {}, apps |-> {}]

MonitoringInit ==
    \E scenario \in Scenarios :
        /\ table = scenario.table
        /\ delays = scenario.delays
        /\ clock = 1 + Max({0} \cup {table[p].start : p \in DOMAIN table})
        /\ MonitorInit({scenario.limits}, scenario.protection)
        /\ StaleInit({scenario.stale})
        /\ BackgroundInit({scenario.background}, scenario.protection)
        /\ changes = scenario.changes /\ clicks = scenario.clicks /\ facts = <<>>
        /\ published = NothingPublished /\ offers = NoOffers
        /\ quiet = <<>> /\ seen = <<>> /\ past = <<>>

-----------------------------------------------------------------------------
(* The processes: a bounded number of these.                               *)

Changed ==
    /\ changes > 0
    /\ changes' = changes - 1
    /\ UNCHANGED <<monitorVars, staleVars, bgVars, clicks, delays, facts, published, offers, quiet, seen, past>>

(* Its children become init's.                                             *)
Exit(p) ==
    /\ p \in DOMAIN table
    /\ table' = [q \in DOMAIN table \ {p} |->
                    IF table[q].parent = p THEN [table[q] EXCEPT !.parent = NoPid]
                    ELSE table[q]]
    /\ Changed /\ UNCHANGED clock

(* The child runs in its parent's cgroup and terminal.                     *)
Fork(p, child) ==
    /\ p \in DOMAIN table /\ child \in Pids \ DOMAIN table /\ clock <= MaxStart
    /\ table' = [q \in DOMAIN table \cup {child} |->
                    IF q = child
                    THEN [table[p] EXCEPT !.parent = p, !.start = clock, !.age = 0]
                    ELSE table[q]]
    /\ clock' = clock + 1
    /\ Changed

Resize(p, size) ==
    /\ p \in DOMAIN table /\ table[p].memory # size
    /\ table' = [table EXCEPT ![p].memory = size]
    /\ Changed /\ UNCHANGED clock

(* The desktop moves a process into the scope of an application.           *)
Move(p) ==
    /\ p \in DOMAIN table /\ table[p].cgroup # Scope
    /\ table' = [table EXCEPT ![p].cgroup = Scope]
    /\ Changed /\ UNCHANGED clock

TakeTerminal(p) ==
    /\ p \in DOMAIN table /\ table[p].tty = "none"
    /\ table' = [table EXCEPT ![p].tty = "pts"]
    /\ Changed /\ UNCHANGED clock

-----------------------------------------------------------------------------
(* A poll                                                                  *)

(* Ages are compared with the minimum ages only.                           *)
Older(delay) ==
    LET oldest == Max({stalePolicy.minAge, bgPolicy.minAge})
    IN [p \in DOMAIN table |-> [table[p] EXCEPT !.age = Least(oldest, @ + delay)]]

(* record_stale_workloads, record_background_workloads, record_report.     *)
Publish ==
    published' = [stale |-> {w.root : w \in staleFound'.workloads},
                  groups |-> {[dir |-> g.dir, roots |-> RootsOf(g)] : g \in staleFound'.groups},
                  background |-> {[group |-> w.group, root |-> w.root] : w \in bgCandidates'},
                  top |-> trackedIds']

(* The notifications; those of an earlier poll stay until there are new    *)
(* ones.                                                                   *)
Offer(s) ==
    LET new == [events |-> {[id |-> id, name |-> s[id.pid].name, exe |-> s[id.pid].exe] :
                                id \in events'},
                trees |-> {[id |-> w.root, name |-> w.name] : w \in staleNotices'.trees},
                apps |-> {[id |-> w.root, name |-> w.name, exe |-> w.exe] : w \in bgNotices'}]
    IN offers' = [kind \in DOMAIN offers |-> IF new[kind] = {} THEN offers[kind] ELSE new[kind]]

(* What the properties remember of a poll.                                 *)
Remember(s, level, delay) ==
    LET own == Monitored(s, protection, DOMAIN ignores')
        record == [ago |-> 0,
                   over |-> {IdOf(s, p) : p \in {q \in own : Breach(s[q], limits)}},
                   alone |-> OfferedAlone(staleFound'),
                   dirs |-> {g.dir : g \in staleFound'.groups},
                   quiet |-> stalePolicy.onlyUnderPressure /\ level = "Normal",
                   sampled |-> sinceSample' = 0, watched |-> DOMAIN tracking',
                   safe |-> {IdOf(s, SelectRoot(s, GroupMembers(s, g))) :
                                g \in {h \in EligibleGroups(s) :
                                         SafeGroup(s, h, bgProtection, bgPolicy)}},
                   events |-> events',
                   trees |-> {w.root : w \in staleNotices'.trees},
                   groups |-> {g.dir : g \in staleNotices'.groups},
                   apps |-> {w.root : w \in bgNotices'}]
    IN /\ quiet' = [i \in {j \in DOMAIN quiet : quiet[j] > delay} |->
                        IF quiet[i] > Hour THEN Forever - 1 ELSE quiet[i] - delay]
       /\ seen' = [p \in DOMAIN s |-> [id |-> IdOf(s, p), parent |-> s[p].parent,
                                          memory |-> s[p].memory, shown |-> p \in own]]
       /\ past' = [k \in 1..Least(Memory, Len(past) + 1) |->
                     IF k = 1 THEN record ELSE [past[k - 1] EXCEPT !.ago = @ + delay]]

(* MonitorService::poll, then record_monitor_report: the stale service     *)
(* sees the processes that are monitored, the background service all.      *)
Poll(level, delay) ==
    LET aged == Older(delay)
        known == Facts(facts, aged)
        s == Observed(known, aged)
        shown == Monitored(s, protection, DOMAIN Left(ignores, delay))
    IN /\ table' = aged
       /\ facts' = known
       /\ MonitorPoll(s, delay)
       /\ EvaluateStale(Restrict(s, shown), level, delay)
       /\ EvaluateBackground(s, level, delay)
       /\ Publish
       /\ Offer(s)
       /\ Remember(s, level, delay)
       /\ UNCHANGED <<clock, changes, clicks, delays>>

-----------------------------------------------------------------------------
(* The user's clicks, handled between two polls.                           *)

Clicked(id, kind, time) ==
    /\ clicks > 0
    /\ clicks' = clicks - 1
    /\ quiet' = Until(quiet, <<kind, id>>, time)
    /\ UNCHANGED <<envVars, facts, published, offers, seen, past>>

(* IgnoreForHour *)
IgnoreEventForHour ==
    \E o \in offers.events :
        IgnoreFor(o.id, Hour) /\ UNCHANGED <<staleVars, bgVars>> /\ Clicked(o.id, "events", Hour)
IgnoreTreeForHour ==
    \E o \in offers.trees :
        IgnoreTree(o.id, Hour) /\ UNCHANGED <<monitorVars, bgVars>> /\ Clicked(o.id, "trees", Hour)
IgnoreAppForHour ==
    \E o \in offers.apps :
        IgnoreGroup(o.id, Hour) /\ UNCHANGED <<monitorVars, staleVars>> /\ Clicked(o.id, "apps", Hour)

(* AlwaysIgnore, once the configuration is saved.  The background service  *)
(* takes over the rules of the monitor.                                    *)
AlwaysIgnoreEvent ==
    \E o \in offers.events :
        /\ IgnorePermanently(o.id, o)
        /\ ReplaceProtection(protection')
        /\ UNCHANGED staleVars
        /\ Clicked(o.id, "events", Forever)
AlwaysIgnoreTrees ==
    \E o \in offers.trees :
        /\ AlwaysIgnoreTree(o.name)
        /\ UNCHANGED <<monitorVars, bgVars>>
        /\ Clicked(o.id, "trees", Forever)
AlwaysIgnoreApp ==
    \E o \in offers.apps :
        /\ AlwaysIgnoreGroup(o)
        /\ UNCHANGED <<monitorVars, staleVars>>
        /\ Clicked(o.id, "apps", Forever)

-----------------------------------------------------------------------------

Polls == \E level \in {"Normal", "Warning"}, delay \in delays : Poll(level, delay)

Processes ==
    \E p \in Pids :
        \/ Exit(p)
        \/ \E child \in Pids : Fork(p, child)
        \/ \E size \in Sizes : Resize(p, size)
        \/ Move(p)
        \/ TakeTerminal(p)

Next ==
    \/ Polls
    \/ Processes
    \/ IgnoreEventForHour \/ IgnoreTreeForHour \/ IgnoreAppForHour
    \/ AlwaysIgnoreEvent \/ AlwaysIgnoreTrees \/ AlwaysIgnoreApp

Spec == MonitoringInit /\ [][Next]_vars

-----------------------------------------------------------------------------
(* What the daemon keeps is about processes it has seen at its last poll.  *)
MonitoringTypeOK ==
    LET ids == {seen[p].id : p \in DOMAIN seen} IN
    /\ DOMAIN table \subseteq Pids
    /\ trackedIds \subseteq published.top
    /\ published.stale \subseteq ids
    /\ \A id \in DOMAIN violations : violations[id].streak \in 0..limits.samples
    /\ \A id \in DOMAIN ignores : ignores[id] \in 1..Hour
    /\ \A r \in DOMAIN staleIgnored : staleIgnored[r] \in 1..Hour
    /\ \A r \in DOMAIN bgIgnored : bgIgnored[r] \in 1..Hour
    /\ clicks \in Nat /\ changes \in Nat

(* In the n last polls.                                                    *)
Throughout(n, Holds(_)) == n \in DOMAIN past /\ \A k \in 1..n : Holds(past[k])

(* A process is reported when it was over a limit in as many polls in a    *)
(* row as asked, for as long as asked; one sample within the limits, or an *)
(* ignore that has ended meanwhile, starts the count again.                *)
EventsSustained ==
    past # <<>> =>
    \A id \in past[1].events :
        \E n \in DOMAIN past :
            /\ n >= limits.samples
            /\ past[n].ago >= limits.duration
            /\ Throughout(n, LAMBDA poll : id \in poll.over)

(* A stale tree or group is notified of when it was there, at a pressure   *)
(* that permits it, in as many polls in a row as asked.                    *)
StaleSustained ==
    past # <<>> =>
    /\ \A root \in past[1].trees :
          Throughout(stalePolicy.samples,
                     LAMBDA poll : ~poll.quiet /\ root \in poll.alone)
    /\ \A dir \in past[1].groups :
          Throughout(stalePolicy.samples,
                     LAMBDA poll : ~poll.quiet /\ dir \in poll.dirs)

(* The same subject is not notified of twice within its cooldown, unless   *)
(* there was a poll between at which it was no subject at all, or the cap  *)
(* of the background service left it out.                                  *)
Spaced(x, Said(_), Holds(_), cooldown) ==
    \A k \in 2..Len(past) :
        Said(past[k]) =>
            \/ past[k].ago >= cooldown
            \/ \E j \in 2..(k - 1) : ~Holds(past[j])
NoticesSpaced ==
    past # <<>> =>
    /\ \A x \in past[1].events :
          Spaced(x, LAMBDA poll : x \in poll.events, LAMBDA poll : x \in poll.over,
                 limits.cooldown)
    /\ \A x \in past[1].trees :
          Spaced(x, LAMBDA poll : x \in poll.trees, LAMBDA poll : x \in poll.alone,
                 stalePolicy.cooldown)
    /\ \A x \in past[1].groups :
          Spaced(x, LAMBDA poll : x \in poll.groups, LAMBDA poll : x \in poll.dirs,
                 stalePolicy.cooldown)
    /\ \A x \in past[1].apps :
          Spaced(x, LAMBDA poll : x \in poll.apps,
                 LAMBDA poll : poll.sampled => x \in poll.watched, bgPolicy.cooldown)

(* What the user ignores for an hour stays quiet for an hour, what the     *)
(* user always ignores for ever, whatever happens to its PID, its pressure *)
(* or its application; until the next poll the notice it answers is the    *)
(* last one.                                                               *)
IgnoredStaysQuiet ==
    past # <<>> =>
    \A i \in DOMAIN quiet : i[2] \in past[1][i[1]] => quiet[i] \in {Hour, Forever}

(* An application is offered when the daemon has watched it for the whole  *)
(* growth window: the same root was safe to stop in every sample of it.    *)
WindowObserved ==
    past # <<>> =>
    \A root \in past[1].apps :
        \E n \in DOMAIN past :
            /\ past[n].ago >= bgPolicy.window /\ past[n].sampled
            /\ Throughout(n, LAMBDA poll : poll.sampled => root \in poll.safe)

(* Who is above a process, on a way up through members only.               *)
AncestorsIn(members, id) ==
    LET up == Above([p \in members |-> [parent |-> seen[p].parent]], id.pid)
    IN {up[n] : n \in DOMAIN up \ {0}}
Ancestors(id) == AncestorsIn(DOMAIN seen, id)
ShownPids == {p \in DOMAIN seen : seen[p].shown}
PidsOf(order) == {id.pid : id \in ToSet(order)}

(* An order to stop lists a process once, its root last.                   *)
OnceEach(order) == \A i, j \in DOMAIN order : order[i] = order[j] => i = j
NoParentBefore(order, members) ==
    \A i, j \in DOMAIN order : i < j => order[i].pid \notin AncestorsIn(members, order[j])

(* Every order the user may stop is leaf-first: nobody is signalled before *)
(* a descendant, in a tree, in a group of trees (which may contain each    *)
(* other) and in an application below its root.  Two exceptions: a process *)
(* hidden from the report may stand between two trees of a group, of which *)
(* the upper one, when it is larger, is then stopped first; and processes  *)
(* of an application that are not below its root within the application go *)
(* by PID, an ancestor first only if it has the higher one.                *)
OrdersLeafFirst ==
    /\ \A w \in staleFound.workloads :
          OnceEach(w.order) /\ NoParentBefore(w.order, DOMAIN seen) /\ Last(w.order) = w.root
    /\ \A g \in staleFound.groups :
          OnceEach(GroupOrder(g)) /\ NoParentBefore(GroupOrder(g), ShownPids)
    /\ \A w \in bgNotices :
          /\ OnceEach(w.order) /\ Last(w.order) = w.root
          /\ \A i, j \in DOMAIN w.order :
                i < j /\ w.order[i].pid \in AncestorsIn(PidsOf(w.order), w.order[j]) =>
                    /\ w.order[j].pid < w.order[i].pid
                    /\ w.root.pid \notin AncestorsIn(PidsOf(w.order), w.order[j])

(* Every tree of a published group is published itself, so that stop-tree  *)
(* accepts its root.                                                       *)
GroupsHoldTrees ==
    \A g \in published.groups :
        Cardinality(g.roots) >= stalePolicy.minTrees /\ g.roots \subseteq published.stale

(* stop-tree and stop-background look at the processes as they are now:    *)
(* what they would signal has the very root that was reported.  A tree has *)
(* grown by new processes, and by those the report hid from the user and   *)
(* what stands below them; an application is now of the user's own         *)
(* processes in that scope, without a terminal, none protected.            *)
Hidden(id, root) ==
    \E p \in DOMAIN seen \ ShownPids :
        /\ seen[p].id = id \/ p \in Ancestors(id)
        /\ root.pid \in Ancestors(seen[p].id)
StopsReported ==
    LET now == Fresh(table) IN
    /\ \A root \in published.stale :
        LET w == WorkloadFromRoot(now, root)
            reported == CHOOSE v \in staleFound.workloads : v.root = root
        IN w # NoWorkload =>
            /\ w.root = root
            /\ \A id \in ToSet(w.order) \cap {seen[p].id : p \in DOMAIN seen} :
                  id \in ToSet(reported.order) \/ Hidden(id, root)
    /\ \A b \in published.background :
        LET w == BackgroundFromRoot(now, b, protection, bgPolicy)
        IN w # NoWorkload =>
            /\ w.root = b.root
            /\ \A id \in ToSet(w.order) :
                  /\ table[id.pid].uid = Me /\ table[id.pid].tty = "none"
                  /\ table[id.pid].cgroup.unit = b.group
                  /\ ~IsProtected(protection, table[id.pid])

(* Once the user always ignores a program, no application with it is       *)
(* published at the next poll, sampled or not.                             *)
IgnoredAppsGone ==
    \A w \in bgCandidates :
        /\ \A x \in w.programs : Disposition(protection, x) = "Monitor"
        /\ ~RootIgnored(w, bgPolicy)

(* The daemon's books are about what the last poll saw, and do not grow.   *)
BookkeepingBounded ==
    /\ DOMAIN violations \subseteq trackedIds
    /\ trackedIds \subseteq {seen[p].id : p \in DOMAIN seen}
    /\ DOMAIN facts = DOMAIN seen
    /\ DOMAIN tracked \subseteq published.stale
    /\ DOMAIN history = DOMAIN tracking
    /\ Cardinality(DOMAIN history) <= MaxTracked
    /\ \A r \in DOMAIN history :
          Len(history[r]) <= 2 + bgPolicy.window \div bgPolicy.interval

(* A process that stays over a limit is reported again and again: however  *)
(* polls, ignores and changes of others fall, one that was over it at the  *)
(* last polls, far enough back for streak, duration and cooldown, is among *)
(* the events of one of them.                                              *)
BreachReported ==
    \A id \in trackedIds, n \in DOMAIN past :
        /\ n > limits.samples
        /\ past[n].ago >= Max({limits.cooldown, limits.duration})
        /\ Throughout(n, LAMBDA poll : id \in poll.over)
        => \E k \in 1..n : id \in past[k].events

(* "eligible trees that share the exact same root working directory are    *)
(* reported as one aggregate group when the group has at least             *)
(* minimum_group_trees trees and at least minimum_group_memory_mib of      *)
(* combined RAM" (README.md:160): the processes of the group hold that     *)
(* much.                                                                   *)
GroupMemoryReal ==
    past # <<>> =>
    \A g \in staleFound.groups :
        LET members == UNION {ToSet(w.order) : w \in g.trees}
        IN MapThenSumSet(LAMBDA id : seen[id.pid].memory, members) >= stalePolicy.minGroup
=============================================================================
