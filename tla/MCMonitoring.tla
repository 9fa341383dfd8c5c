---------------------------- MODULE MCMonitoring ----------------------------
(***************************************************************************)
(* Small machines, each watched with the settings of one service: a heavy  *)
(* process and its child; stale trees side by side, inside each other and  *)
(* with a protected shell between them; an application of two processes    *)
(* with a stray third.                                                     *)
(***************************************************************************)
EXTENDS Monitoring

CONSTANTS Other, Pytest, Bash, App, Proj, Unit, Term

MCScope == [slices |-> {"app"}, unit |-> Unit, kind |-> "scope"]
InService == [slices |-> {"app"}, unit |-> Term, kind |-> "service"]

P(start, parent, name, memory, cgroup, tty) ==
    [start |-> start, uid |-> Me, parent |-> parent, name |-> name, exe |-> name,
     memory |-> memory, cpu |-> 0, age |-> 0, cwd |-> Proj, cgroup |-> cgroup, tty |-> tty]
InTerminal(start, parent, name, memory) == P(start, parent, name, memory, MCScope, "pts")

NoLimits == [maxCpu |-> 100, maxMemory |-> 100, samples |-> 1, duration |-> 0, cooldown |-> 0]
StaleOff == [enabled |-> FALSE, onlyUnderPressure |-> TRUE, candidates |-> {}, launchers |-> {},
             ignored |-> {}, minAge |-> 1, minTree |-> 1, minGroup |-> 1, minTrees |-> 2,
             maxCpu |-> 0, samples |-> 1, cooldown |-> 1]
BackgroundOff == [enabled |-> FALSE, minAge |-> 1, minMemory |-> 1, large |-> 1, window |-> 1,
                  growth |-> 1, countGrowth |-> 1, maxCpu |-> 0, samples |-> 1, interval |-> 1,
                  cooldown |-> 1, ignoredNames |-> {}, ignoredExes |-> {}]
MCProtection == [protectedNames |-> {}, protectedExes |-> {Other},
                 ignoredNames |-> {}, ignoredExes |-> {}]

(* pace: the times between two polls; moves and ignoring: the changes and  *)
(* clicks allowed.                                                         *)
Watch(t, pace, moves, ignoring, monitor, stale, background) ==
    [table |-> t, delays |-> pace, changes |-> moves, clicks |-> ignoring,
     limits |-> monitor, stale |-> stale, background |-> background,
     protection |-> MCProtection]

(* At quick polls the duration, at slow ones the streak comes last.        *)
HeavyProcess ==
    Watch(1 :> InTerminal(1, NoPid, App, 2), {1}, 2, 1,
          [NoLimits EXCEPT !.maxMemory = 1, !.samples = 2, !.duration = 2, !.cooldown = 2],
          StaleOff, BackgroundOff)
SlowPolls ==
    Watch(1 :> InTerminal(1, NoPid, App, 2), {2}, 2, 1,
          [NoLimits EXCEPT !.maxMemory = 1, !.samples = 3, !.duration = 2, !.cooldown = 4],
          StaleOff, BackgroundOff)

StaleOn == [StaleOff EXCEPT !.enabled = TRUE, !.candidates = {Pytest}, !.launchers = {Pytest},
                            !.minTree = 3, !.minGroup = 3, !.minTrees = 2,
                            !.samples = 2, !.cooldown = 2]
StaleSiblings ==
    Watch(1 :> InTerminal(1, NoPid, Pytest, 2) @@ 2 :> InTerminal(2, 1, Bash, 1)
          @@ 3 :> InTerminal(3, NoPid, Pytest, 1), {1}, 2, 1,
          NoLimits, StaleOn, BackgroundOff)
StaleUneven == [StaleSiblings EXCEPT !.delays = {1, 2}, !.changes = 1]
StaleNested ==
    Watch(2 :> InTerminal(1, NoPid, Pytest, 1) @@ 3 :> InTerminal(2, 2, Bash, 0)
          @@ 1 :> InTerminal(3, 3, Pytest, 1), {1}, 2, 1,
          NoLimits, StaleOn, BackgroundOff)

StaleHidden ==
    Watch(1 :> InTerminal(1, NoPid, Pytest, 2)
          @@ 2 :> [InTerminal(2, 1, Bash, 0) EXCEPT !.exe = Other]
          @@ 3 :> InTerminal(3, 2, Pytest, 1), {1}, 1, 0, NoLimits, StaleOn, BackgroundOff)

BackgroundOn == [BackgroundOff EXCEPT !.enabled = TRUE, !.large = 3,
                                      !.window = 2,
                                      !.interval = 2, !.cooldown = 3]
Application ==
    Watch(1 :> P(1, NoPid, App, 1, MCScope, "none") @@ 2 :> P(2, 1, App, 1, MCScope, "none")
          @@ 3 :> P(3, NoPid, Bash, 1, InService, "none"), {1}, 2, 0,
          NoLimits, StaleOff, BackgroundOn)
ApplicationIgnored == [Application EXCEPT !.changes = 1, !.clicks = 1]

MCScenarios == {HeavyProcess, SlowPolls, StaleSiblings, StaleUneven, StaleNested,
                StaleHidden, Application, ApplicationIgnored}
=============================================================================
