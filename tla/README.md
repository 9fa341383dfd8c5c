# Resource Guard: formal model

TLA+ models of Resource Guard, the user-session daemon and CLI that watch
memory and processes and stop processes on request or, when allowed to, by
themselves. TLC checks the models on small instances; TLAPS proves the most
important results for every value of the constants. All source paths below are
relative to `src/`.

## The system

| component | state it keeps | operations | what makes it correct |
|---|---|---|---|
| Process control (`src/application/process_control.rs`, `src/adapters/process_sysinfo.rs`, `process_signals.rs`) | none between calls but the caches of `sysinfo`; the kernel's process table is its environment | StopProcess, StopWorkload, StopWorkloadGroup, ForceStopProcess, WaitForExit, StopAndWait | signals reach only the processes the user named, protected and foreign ones never; trees leaf first; outcomes are true; SIGKILL only as a last resort |
| CLI stop commands (`src/cli/mod.rs`) | a consent at the prompt | `stop`, `stop-tree`, `stop-background` and their confirmations | the confirmation is about the process that is killed; what was reported is what is stopped |
| Memory pressure tracker (`src/domain/memory_pressure.rs`) | level, run of critical samples | evaluate | hysteresis: no oscillation; a spike alone is not critical |
| Emergency action (`src/application/emergency.rs`, `src/domain/emergency.rs`, `src/runtime/daemon.rs`) | pending SIGTERM with its deadline, cooldown, last scan, status line | one poll: sample, finish the pending action, scan, select, SIGTERM | only the selected victim; SIGKILL earned (opt-in, grace, pressure uninterrupted); cooldown; every SIGTERM settled; status true |
| Process monitor (`src/application/monitor.rs`, `src/domain/violation.rs`, `policy.rs`) | a violation per identity, the registry of temporary ignores, the identities of the last poll | poll, ignore for an hour, ignore permanently | a notification needs the streak, the minimum duration and the cooldown, and comes when it has them; what is ignored stays quiet |
| Desktop notifications (`src/application/notifications.rs`, `src/adapters/notifications_zbus.rs`) | notification id to binding (purpose, snooze, group), the connection, an event channel of 64 | notify, close, action invoked, closed, connect, reconnect | an action acts on what its notification showed, once; no binding outlives its server |
| Stale workloads (`src/application/stale_workloads.rs`, `src/domain/workload.rs`, `stale_workload.rs`) | a streak per root and per working directory, ignored roots and names | evaluate, ignore a root, ignore a name; rebuild a tree for a stop | reported as long as asked; orders leaf first; a stop signals no more than was shown |
| Background workloads (`src/application/background_workloads.rs`) | samples and a streak per root, ignored roots, the candidates of the last sample | evaluate (a sample when one is due), ignore for an hour, ignore permanently, replace the rules | growth is measured over the whole window of one root; bounded history; no candidate the rules ignore |
| Daemon loop (`src/runtime/daemon.rs`) | all of the above in one task, `select!` over signals, socket, timers, notification events | one branch at a time, run to its end | nothing stops it from polling; branches leave the shared state consistent |
| Daemon state and control socket (`src/runtime/state.rs`, `protocol.rs`, `daemon.rs` 1007-1221) | DaemonState, the socket path | status, top, stale, background; bind, guard, accept, handle a client | one daemon per session; every query ends |
| Settings (`src/application/config.rs`) and configuration file (`src/adapters/config_toml.rs`) | the settings of the daemon, the copies its services hold, the file | validate; load, save by rename, initialise; add an ignore | a save is atomic and readable; copies agree with the settings; an ignore is remembered in one step |
| procfs adapters (`src/adapters/*proc*`, `memory*.rs`) | none | parsing of `/proc` | pure input, modelled by what it may return |
| Packaging, CI, scripts | the systemd unit | start, restart on failure, removal of the runtime directory | the daemon serves again after a failure |

How they interact. The daemon is one task: it calls the monitors, the pressure
tracker and the stop use cases directly and publishes into `DaemonState`, which
socket clients read in tasks of their own under a read-write lock. The process
table is shared with the whole machine and may change between any two system
calls. D-Bus events reach the loop through a channel and are applied at an
arbitrary later time, to identities observed when the notification was sent.
The CLI runs the same use cases in a process of its own.

The hard behaviours are therefore: processes that exit, are reaped, reused,
`exec` or change owner between two system calls; a trip through several members
that fails half way; deadlines compared at polls that are late or fail;
SIGTERM, grace period, SIGKILL as a protocol with a process that may be gone;
notification ids and bindings across reconnects; caches that outlive what they
were read from; saves cut short by a crash or a power failure; two daemons at one
socket. `PROJECT.json` lists them as hazards, each at its line with the
properties that watch it.

## Modules

`Processes` is the environment of every component that touches processes: one
entry per PID with state (alive, zombie, free), owner, start time and program.
`Exit`, `Reap`, `Spawn` (a PID reused, with a later start time), `Exec` (other
program, same identity) and `SetUid` may happen between any two steps. An
*instance* is a PID with a start time; `Identity` is the code's
`ProcessIdentity`.

`ProcessControl` (EXTENDS `Processes`) models the stop use cases one system
call per action:

| code | model |
|---|---|
| a use case called with identities | `Begin(kind, order, kill, yes)` |
| `find`: sysinfo refresh, then the identity from `/proc` | `Refresh`, `ReadIdentity` (with `Inspection` for an unreadable `/proc`) |
| the outcome of a check in the preflight, in the signalling loop, in WaitForExit | `AfterPreflight`, `AfterValidate`, `AfterPoll` |
| `send_signal`: `pidfd_open`, identity check, `pidfd_send_signal` | `OpenPidfd`, `Recheck`, `Send` |
| sleep between polls, stretched by scheduling | `Sleep` |
| `--yes`, the SIGKILL prompt | `SkipPrompt`, `Prompt` |

`cache` is what sysinfo remembers of a process: `UpdateKind::OnlyIfNotSet`
keeps the executable first seen. `sent`, `plain` and `looked` are history
variables: signals delivered, instances seen running an unprotected program
since the request, the program at the last refresh.

`StopContract` is the abstract specification of a stop, the same for every use
case. It knows who runs, who was asked for, which signals were delivered and what
was answered, and no system call, loop or cache. `Tell` delivers a SIGTERM to
somebody not told yet, when those ahead in the order are finished with (told, or
ended) and everybody asked for who lives is the user's; `Kill` follows a `Tell` of
somebody asked for alone; `Return` gives an answer that is true; `World` lets
processes end and change owner, but none asked for come back. `ProcessControl`
maps to it with `Living` and `Answered`: a delivered signal is `Tell` or `Kill`,
a return without one is `Return`, every other step of a use case stutters.

`MemoryPressure` is the tracker: `Evaluate(s)` with `Counted` and `NextLevel`,
percentages in basis points as the code rounds them. `PressureSpec` stands
alone and is also the abstract specification the daemon implements.

`Emergency` (EXTENDS `MemoryPressure`, `Processes`) is the memory-pressure half
of the daemon loop. One poll is `Poll` (evaluate, settle or keep the pending
action, decide on a scan) or `PollError`, then `Select`/`SelectNone`
(EmergencyService::consider), then `Check` and `Deliver`/`SignalFails`
(the stop). The process table moves between these steps. Time is a set of
delays between polls; deadlines are counters that saturate where the code
compares them. The stop is two steps here, validation and signal. That loses no
interleaving the properties of this module distinguish: the process table may
change before, between and after them, and `Deliver` takes the signal only for
the identity that was validated, which `ProcessControl` shows of the system
calls.

`Notifications` stands alone. Notification server and user are external actors:

| code | model |
|---|---|
| the server: a pressed button, a closed notification, a restart, `Notify` | `Click`, `Dismiss`, `Restart`, `Serve` |
| `forward_events` over the two signal streams; its end | `Forward`, `StreamFails` |
| `connect_notifications` on the retry tick | `Retry` |
| the notifications of a monitor report; a pressure notification | `Report`, `ReportNext`, `NotifyPressure` |
| the answer of `Notify`: a binding, or the connection is dropped | `Remember`, `NotifyFails` |
| `handle_notification_event` with `plan_notification`, `navigate_notification` | `HandleAction`, `HandleClosed`, `HandleFailed` |
| `close_handled_notification`, then the stop or ignore | `CloseHandled`, `Act` |

The loop waits for the server inside its handlers (`phase`), and meanwhile the
server, the user and the listener go on. `Serve` keeps the id that is to be
replaced when the notification is there, and either keeps it or gives a new one
when it is not, since servers differ. Each action event carries, for the
properties only, what was on the button's notification and the server session;
bindings carry their session the same way. What the performed action does to
processes is `ProcessControl`'s subject; "stop" stands for the two ignores too.
`bindings` has the three fields of `NotificationBindings`: its capacity, the map
(`known`) and beside it the insertion order (`order`). `remember`, `remove` and
`clear` change map and order each in its own way, as in the code, so that they
agree is a property and not a matter of notation.

`Snapshots` has what the three detectors share: a snapshot is a function from
PIDs to what one look at `/proc` tells (`Observed` over the cached `Facts`), and
over it the policies, trees, termination orders, deadlines and streaks. Four
modules stand on it:

| code | model |
|---|---|
| MonitorService::poll with ViolationTracker and IgnoreRegistry | `Monitor`: `MonitorPoll`, `Violations`, `Waited`, `Notifies`, `IgnoreFor`, `IgnorePermanently` |
| StaleWorkloadService: discover, group, assemble; evaluate; ignores | `StaleWorkloads`: `Eligible`, `GroupsOf`, `Assembled`; `EvaluateStale`; `IgnoreTree`, `AlwaysIgnoreTree` |
| BackgroundWorkloadService: groups, roots, safety; evaluate; ignores | `BackgroundWorkloads`: `BuildGroup`, `SelectRoot`, `SafeGroup`; `EvaluateBackground`, `TakeSample`; `IgnoreGroup`, `AlwaysIgnoreGroup`, `ReplaceProtection` |
| record_monitor_report, DaemonState, handle_notification_event's ignores, the CLI's rebuilding of a tree or a group | `Monitoring`: `Poll` with `Publish` and `Offer`; the six clicks; `WorkloadFromRoot` and `BackgroundFromRoot` on the table as it is now (`StopsReported`) |

A `Poll` is one step: it is straight-line code between two points where the loop
waits, and takes one snapshot (`SysinfoProcessSource::snapshot` cannot fail, so
there is no failing poll). Between polls processes exit, fork into reused PIDs,
grow, move into an application's scope or get a terminal (`Processes`), and the
user clicks on what was last notified. Time since an event is counted up to the
limit it is compared with, deadlines down to the moment they are dropped.
`quiet`, `seen` and `past` are history variables: `past` is what the last
`Memory` polls found and announced, each with the time since (`ago`), whether it
was a poll that took a background sample and whose history it held (`watched`).
The bound on tracked histories keeps the largest groups; a group's rank is the
number of groups that go before it, so it needs no sorted sequence.

The life of the daemon around its loop is in `Session`, on three modules:

| code | model |
|---|---|
| Settings with its sections' defaults, `validate`; ConfigDocument in both directions; the add_ methods; the policies handed to services | `Settings`: `DefaultSettings`, `Valid`, `FromDocument`, `ToDocument`, `Ignoring`, `ProtectionPolicy`, `StaleIgnores`, `BackgroundIgnores` |
| TomlConfigRepository: load, save (temporary file, sync, rename), initialise | `ConfigFile`: `SettingsIn`, `Loadable`, `WriteTemporary`, `Replace`, `SaveFails`, `OpenForInit`, `WriteOpened`, `WriteReplaced`; what a missing key reads as: `Completed`; the disk: `WriteBack`, `LosePower` |
| bind_control_socket, SocketGuard, accept, handle_client, the client's query | `ControlSocket`: `SomeoneListens`, `RemoveName`, `BindName`, `DropGuard`, `Accept`, `Answer`, `HandlerGivesUp`, `Connect`, `ClientGivesUp` |
| run_daemon_async: load, probe, connect, unlink, bind, chmod, run, close; "Always ignore": save, rename, adopt | `Session`: `LoadSettings`, `Probe`, `RemovesStaleSocket`, `Binds`, `Secures`, `ShutsDown`, `Closes`; `Click`, `Renames`, `RenameFails`, `Adopts` |
| the unit file: Restart=on-failure, RuntimeDirectory | `UnitStarts`, `UnitIsCleanedUp` |

Every system call that another process can see is a step of its own, and
crashes, power failures, edits and a second daemon come between any two. A
content of the file is the set of keys it gives with their values; `durable` is
what a power failure may leave of it: until the kernel writes it back, every
content since, and a torn one after `config init`, which does not sync.

A key that a text does not give is taken from the settings' defaults, with one
exception (`Completed`): `ProcessDocument` derives its `Default`
(`config_toml.rs:410`), so a text with a `[processes]` section reads with empty
lists for what the section leaves out, and not with the defaults, one of which
protects "resource-guard". `config init` writes through the descriptor it has
opened. When a save or an editor renames another file over the name in between,
what it writes is not seen (`LosesName`, `WriteReplaced`); a write that fails may
leave any of `DefaultParts`.

`IgnoreMemory` is the abstract specification of "Always ignore": the rules of
the daemon and the stored ones change in one step, together, or not at all. In
`Session` the mapping `Memory` takes the rules of a daemon between rename and
adoption to be those it is about to adopt; the rename is then the abstract step.

`MCProcessControl`, `MCEmergency`, `MCPressureSmall`, `MCNotifications`,
`MCMonitoring` and `MCSession` hold the instances; `ProcessesProofs`,
`ProcessControlProofs`, `EmergencyProofs` (with the tracker's theorem),
`NotificationsProofs`, `MonitoringProofs`, `SettingsProofs`, `SessionProofs`
(socket and configuration) and `IgnoreProofs` the theorems.
Definitions ending in `Bug` are plausible slips
in the definition that follows them; each makes a property fail, which shows
that the property watches the code.

## Runs

| run | question | bounds |
|---|---|---|
| `stop_safety` | signals, preflight, order and outcomes of every stop use case, and its contract | two PIDs (a leaf and its root, alone or together), two owners, a protected and a plain program, one start time beyond the first, grace of one poll |
| `stop_returns` | every request returns or waits for the user; SIGKILL is the last resort | as above, one owner and program, grace of two polls |
| `stop_exec` | finding: an `exec` into a protected program is missed | as `stop_safety` |
| `emergency` | who may be signalled, when SIGKILL is due, what the status says | one PID with one reuse, four programs (allow-listed, plain, exempt, protected), two owners, all three policies with and without SIGKILL, seven samples |
| `emergency_settles` | cooldown between victims; every SIGTERM settled | two PIDs with one reuse each at most, one program, three samples |
| `emergency_critical` | finding: SIGKILL below the critical level | as `emergency` |
| `pressure_small` | finding: the level oscillates on a small machine | all availabilities on 2 GiB in units of 128 MiB, two PSI values |
| `notifications` | actions, bindings and screen under fast clicks, closes, one failure, one server restart | one process, one group, reported together; two ids per session, room for one binding or for two, one event in the channel, three clicks, servers with and without persistence; 7,022,998 states |
| `notifications_buttons` | finding: dead buttons after navigation | one group, no failure, no restart |
| `monitoring` | the three detectors, their notices, ignores and stop orders over a changing process table | eight scenarios of up to three PIDs: a heavy process at quick and at slow polls, stale trees side by side (equal and unequal polls), inside each other and with a protected shell between them, an application with a stray process (changing, ignored); one or two changes, at most one click, sizes of 1 and 2, three polls looked back at; 124,880 states |
| `stale_nested` | finding: nested trees are counted twice | as `monitoring` |
| `session` | start, socket, saves, ignores and shutdown under crashes, power failures, edits and a second daemon | the unit and one daemon started by hand; three budgets of crashes, edits, clicks, starts, stops and queries; words of 16 bits with a MiB of 16 bytes; 80,712 states |

Why the bounds are enough. `MaxStart` = 3 gives every PID a holder and lets one
of them be reused, which is what identity checks are about; a third holder is to
the second what the second is to the first. Two members are a tree with an
edge and a group with a first and a later member. The samples are one per
combination of conditions that the tracker and the activation policy can tell
apart, with the default thresholds on 16 GiB in units of 128 MiB. `Delays`
contains times shorter than, between and longer than the intervals and the
grace period. Three clicks are needed to navigate forth and back and act on what
is no longer shown; a channel of one blocks the listener at once and lets signals
pile up in the streams; a restart with ids beginning again is what stale bindings
need. Both capacities have their use: with room for one binding the second
notification of a report evicts the first, with room for two an id can come back
while another is bound, which is when a duplicate in the order would show.
Deadlock is checked in the pressure and emergency runs. The stop runs say
`CHECK_DEADLOCK FALSE`: a process table where all PIDs are free and start times
are used up leaves nothing to request. So do the notification runs: with ids and
clicks used up nothing is left to happen; and `session`, where the system may
stop: a unit stopped on purpose stays down.

Every scenario of `monitoring` switches one detector on and has a limit for each
of its conditions that one poll does not meet: streaks of two or three samples
against durations and cooldowns of two to four time units, so that at quick
polls the duration decides and at slow ones the streak; a window of two
intervals; groups of two trees. Three PIDs are a root, a member and a stranger
that can be moved in, become a root or take over a PID; two changes are an exit
and a fork into the freed PID. Where both a change and a click matter the
scenario has both; the budgets are part of the scenario, since two changes with
a click and unequal polls multiply without new cases. An hour is three time
units: an ignore is still in force at some of the polls looked at and over at
others. Two ticks make a second (`TicksPerSecond`), the unit in which
`SelectRoot` compares ages before PIDs: `StartSecond` of two starts a tick apart
may be the same or not. Three polls looked back at hold the longest streak, the streak of two
with one more poll that `BreachReported` speaks of, and a growth window with the
poll it began at.

`session` has two clicks among a crash and an edit, two crashes with a second
daemon, and a crash with two starts, a stop and a query: every pair of things
that can go wrong meets in one of them. A 16-bit word makes the largest sizes
and minutes of the texts saturate; the defaults fit (`SettingsAssumption`). Of
the texts one is valid and saturates, one is invalid and one does not parse;
of the click's targets one has a path that cannot be written.

### What the properties say

ProcessControl:
- `SignalsOnlyRequested`: a signal reaches only a process the request named,
  whoever holds its PID by then.
- `PreflightGuardsAll`: once anything is signalled, every member of a tree or
  group that still runs is the user's and was seen running an unprotected
  program, and a group is signalled only when every member passed.
- `LeafFirst`: no member is signalled while one before it in the order runs
  unsignalled.
- `OutcomeIsTrue`: success leaves no requested process unsignalled, "exited" is
  said only of an identity that no longer exists with its owner.
- `StopsAsPromised`: `ProcessControl` implements `StopContract`. Beyond the
  invariants above it says that nobody is told twice, that whoever is signalled
  still has the owner he was asked for with, that "still running" is said only of
  a process that was told, and that each answer was true when it was given.
- `KillIsLastResort`: SIGKILL follows an accepted SIGTERM to the same process,
  the whole grace period, `--kill`, and `--yes` or the prompt.
- `RequestsReturn`: every request ends, unless it waits at the prompt.

Emergency: `OnlyVictims`, `ProtectedSpared`, `KillIsEarned`, `CooldownKept`,
`ReportIsTrue`, `PendingSettled`; MemoryPressure: `StableRecovery`. Their
comments state them in full.

Notifications:
- `ActsOnShown`: an action is performed on the subject whose notification was
  clicked; a group is stopped only by a click in the details that are still
  current. Claimed of clicks and bindings of the same server session: the code
  has no means to tell sessions apart, and across a restart the model (without
  that premise) does show a click on one notification performed on another that
  was given its id. The hazard list names it.
- `ActsOnce`: a notification is acted on once.
- `BindingIsShown`: what the daemon believes of a notification is on the screen.
- `BindingsBounded`: the map of bindings and the insertion order name the same
  notifications, the order each once, and there are no more than the capacity.

Monitoring (all of them speak of what the last polls found, in `past`):
- `EventsSustained`, `StaleSustained`, `WindowObserved`: nothing is notified of
  that was not there, without a gap, for as long as the settings ask.
- `NoticesSpaced`: no two notices of one subject within its cooldown, unless it
  was no subject in between.
- `BreachReported`: the other direction. A process over a limit for long enough
  is reported. It is a bounded-response property and so an invariant: no
  fairness is involved. In the run the scenario with a heavy process at quick
  polls meets its premise; at slow ones `past` ends before.
- `IgnoredStaysQuiet`, `IgnoredAppsGone`: ignores hold, for their hour or for
  good, whatever happens meanwhile.
- `OrdersLeafFirst`, `GroupsHoldTrees`, `StopsReported`: what the user may stop
  is in leaf-first order, can be named, and when the CLI rebuilds it later is
  still what was reported. The exceptions are part of the statements. Processes
  of an application that are not below its root within the application are
  ordered by PID, so a lower PID can put an ancestor first. The trees of a group
  are ordered by their memory, and what contains them is seen only through the
  processes the report shows: when a protected, ignored or foreign process
  stands between two of them, the upper one can come first (see below). And the
  CLI rebuilds a tree from all processes, so it may hold those the report hid
  (`Hidden`) besides new ones.
- `BookkeepingBounded`: the daemon's tables are about processes of the last
  poll, and histories do not outgrow the window. The cap on the number of
  histories is not reached at the bounds of the run (one application against a
  cap of two); it is the theorem that covers it.

Session:
- `SoleDaemon`: a daemon that serves is the one clients reach. It is claimed
  until two starts overlap (one has found the socket dead, another binds before
  it unlinks) or systemd removes the runtime directory under a daemon started by
  hand; `overlapped` records that.
- `ConfigIntact`: saves never leave a file that does not load, nor could a power
  failure bring one back. `rough` sets aside files a person wrote or
  `config init` left half-written.
- `SaveSettles`: what is saved is valid and reads back as written, though sizes
  are rounded to MiB and durations to minutes and both saturate.
- `PoliciesFollow`: the copies held by the services agree with the settings.
- `IgnoresAtomically`: `Session` implements `IgnoreMemory`.
- `ServesAgain`, `QueriesEnd`: the unit comes back after a failure, and every
  query of this program's client ends, also when the daemon hangs.

### Fairness

`FairSpec` assumes weak fairness of `Stopper`, the steps of the use case's own
thread: it is runnable whenever one is enabled. The user and the processes owe
nothing. `FairEmergencySpec` assumes it of `Work` (a poll that began runs to its
end: it is straight-line code in one task) and of `PollAny` (the timer fires
again and again and, in the long run, `/proc/meminfo` can be read). Without the
second a daemon whose samples fail for ever keeps a pending action for ever,
which is what the code does: it settles pending actions only on a sample.
`PollAny` leaves the sample and the delay open, so no sample is promised.

`Spec` of `Session` assumes weak fairness of four things: a process between two
of its system calls goes on (`Works`), a loop that runs accepts connections
(`Accepts`, an arm of its `select!`), systemd acts on its unit (`Systemd`), and
timeouts pass and answers are sent (`QueryEnds`: both sides set timeouts, and
each client has a task of its own). A daemon that hangs in a D-Bus call owes
nothing. Crashes, edits and clicks are never promised. `Monitoring` has safety
properties only and assumes nothing.

### Findings

- `stop_exec`: a comment in `process_control.rs` promises that an `exec` into a
  protected program between preflight and signal is not terminated. The second
  look goes through the same source, which keeps the executable it saw first, so
  the process is signalled.
- `emergency_critical`: the user documentation speaks of persistent critical
  pressure (`README.md:132`) and keeps the permission to terminate apart from it
  (`README.md:148`); the activation policy accepts any level but Normal once available
  memory is at `action_available_bytes`, so a process can be killed at Warning.
- `notifications_buttons`: on a server that closes a notification when its
  button is pressed and takes replaced ids as given, the close of the summary is
  handled after the details have taken its id, and unbinds them: the details
  view is visible and its buttons do nothing.
- `pressure_small`: hysteresis needs the emergency floor to be a smaller share
  of memory than the recovery threshold, and nothing checks that. On 2 GiB with
  defaults an unchanged sample makes the level alternate. Theorem
  `RecoveryIsStable` proves that under the condition it never does.

- `stale_nested`: the climb from a candidate stops at the first parent that is
  no launcher, so a test run below a shell below a test run roots a tree inside
  another's. Both are counted, and the inner one's memory twice: a group is
  reported whose processes hold less than the documented minimum.

Seen while modelling, and given no run since no document promises otherwise: two daemons that start together can both pass the check for a dead
socket, and the guard of the one unlinks the name of the other; systemd removes
the runtime directory with the socket of a daemon started by hand; the climb
through launchers has no bound; "Always ignore" writes the settings loaded at
start over an edit made since; `config init --force` truncates in place; the
directory is not synced after the rename, so the old file may come back; a
`[processes]` section without `protected_names` silently loses the default
protection of "resource-guard", and the next "Always ignore" writes the empty
list to the file (the nearest test, `config_toml.rs:735`, gives no such section);
an init whose file is renamed away reports success although its text is not
there.

The proofs of the orders showed two more, which need four processes and are
therefore beyond the bounds of `monitoring`. A tree is built from the processes
the report shows, so a protected shell in a tree cuts off what is below it: a test
run below a shell below a small program below a test run is a tree of its own.
When both trees share a directory and the upper one is larger, the group's order
stops its root first, although the comment on the group stop
(`process_control.rs:169`) says leaf-first. And in an application the depth of a
process is 0 unless its way to the root stays within the application, so a branch
that hangs below the root only through a foreign process is stopped in the order
of the PIDs. `OrdersLeafFirst` says exactly which orders are
claimed; without its exceptions TLC refutes it on forests of four processes.

## Proofs

Everything is proved for all values of the constants under the modules' own
assumptions: `ProcessAssumption`, `ControlAssumption`, `PressureAssumption`
(what `Settings::validate` accepts), `EmergencyAssumption`,
`NotificationsAssumption`, `MonitoringAssumption`, `SnapshotAssumption`,
`BackgroundAssumption`, `SettingsAssumption`, `SocketAssumption`,
`SessionAssumption`. One theorem pair of `Monitoring` has a hypothesis of its own, `PollsWithinTheHour`, given below.

Processes. `StartsGrow`: the start time of a PID never decreases. `StaysGone`:
an instance that is not running never runs again.

ProcessControl. `TypeCorrect` and `SignalsSafe` ([]SignalsOnlyRequested).
SignalsOnlyRequested is not inductive: it says nothing of the pidfd that is
open. The invariant adds that `todo` and `validated` hold requested identities
(`Bookkeeping`), that no requested identity is younger than its PID's holder
(`NotBefore`), and a squeeze (`Squeeze`): a pidfd was opened on an instance no
younger than the table's and no older than the target, so once the recheck
finds the target's start time in the table between opening and sending, the
pidfd refers to the target itself. The argument needs start times to grow, and
is the reason the identity check sits between `pidfd_open` and the signal.

On top of that, `PreflightGuards`, `LeavesFirst`, `OutcomesTrue` and `KillsLast`
state the other four safety properties, from one invariant, `StopInv`.
`MembersInv` describes the two loops by what they have left behind: in the
preflight `todo` is a suffix of the request and every member before it passed or
is gone; in the signalling loop it is a suffix of `validated`, every member
before it was signalled or has exited, and nobody after it was. The positions of
the request order those of `validated`, which gives the leaf-first property
(it needs a request to name no process twice: `ControlAssumption`, which the
trackers' orders satisfy, as `OrdersAreLeafFirst` proves). `CacheInv` is about
`find`: an unprotected program in the source's cache was really seen running, and
between its two reads the cached entry lies between the request and the PID's
present holder; without it nothing ties the cache to the process. `TargetInv` is
the CLI's SIGTERM, wait, prompt, SIGKILL.

`KeepsContract` proves that ProcessControl implements StopContract. Every step is
quiet (no signal accepted), heard (one is), a new request or the processes' own
(`StepKinds`), and each kind has its lemma (`QuietKeeps`, `HeardKeeps`,
`BeginKeeps`, `EnvironmentKeeps`). `ContractInv` adds what the contract tells apart
and the other properties do not: who was not the user's keeps its owner while it
runs (or a process could become what it was asked for again), who was signalled
was told first, and a request for one process has sent nothing before its SIGTERM
and only that before its SIGKILL.

The types of `ProcessControl` are proved (`TypeCorrect`) and no run checks them.

MemoryPressure. `RecoveryIsStable`: if `Floor * 10000 < RecoveryBp * Total`, a
sample that ends Critical is not at the floor (`RecoveredIsSafe`, from the
rounding of basis points) and so cannot start it again.

Emergency. `TypeCorrect`, `ReportTrue`, `VictimsOnly`, `ProtectedAreSpared`,
`KillEarned`, `CooldownHolds`. The invariant ties what the daemon remembers to
what happened: a pending action belongs to the instance SIGTERM was sent to, its
deadline and the time since SIGTERM add up to the grace period, and no sample
has eased since (`PendingInv`); a SIGKILL under way has all that behind it
(`KillInv`); the cooldown counter never runs ahead of the time since SIGTERM
(`AgeInv`); a stop past its validation has seen an unprotected program
(`PlainInv`); nobody the daemon names is younger than the table (`Born`).
`PermitsCalled` links the activation policy to the condition KillIsEarned
states. `DaemonTracksPressure` proves EmergencySpec => PressureSpec: a poll is
a step of the tracker and everything else a stutter, so
`DaemonRecoveryIsStable` carries the tracker's theorem over to the daemon.

Notifications. `NotificationsTypes`, `BindingsStayBounded`, `ActsRightly`
([]ActsOnShown), `ActsNoMore` ([]ActsOnce) and `BindingsShown`, for any server,
user, capacity and size of the channel. `SafeInv` rests on one fact: within its
session a server gives an id to one subject, since it hands out a fresh id or the
one a navigation replaces, and a navigation keeps its binding's subject. So every
click on its way that was made in the session of a binding is about that
binding's subject (`BoundInv`). What the loop has been answered and has not
recorded yet is the exception (`JustServed`), and the loop handles no event in
that state. Pairs acted on belong to ids used up in their session (`ActedInv`),
so they are never bound again. `BindingsStayBounded` rests on `BindingsOK` (map
and order name the same ids, the order each once), which each of `Removed`,
`WithRoom` and `Inserted` keeps by a lemma of its own (`RemovedOK`, `PoppedOK`,
`WithRoomOK`, `InsertedOK`); the length of the order is then the size of the map
(`KnownCount`). `NotificationsTypes` bounds the channel and not the bindings.
`Retained`, which takes an id out of the order, is a function of positions and not
`SelectSeq`, whose recursion the provers cannot follow.

Monitoring. `MonitoringTypes`, `ReportsAreSustained` ([]EventsSustained),
`StaleNoticesAreSustained`, `IgnoresAreKept` ([]IgnoredStaysQuiet),
`IgnoredAppsAreGone`, `GroupsAreTrees` ([]GroupsHoldTrees), `BooksAreBounded`
([]BookkeepingBounded), `WindowsAreObserved` ([]WindowObserved),
`OrdersAreLeafFirst`, `StopsAreReported` and, under
`PollsWithinTheHour`, `NoticesAreSpaced` and `BreachesAreReported`. Three ideas
carry them. Start times are never used twice, so who runs under an identity now
is who was seen under it (`PersonStays`): an ignore or an offer means one program
until it exits. What the services count is in `past`: a violation or streak that
counts n is in the last n polls, and is as old as the oldest of them
(`ViolationsInv`, `StreaksInv`), and conversely a breach that goes on is counted
(`BreachInv`). And since the last notice of a subject either the book has kept
the time, or the subject was gone or ignored at a poll in between
(`EventsSpacedInv`, `StaleSpacedInv`, `AppsSpacedInv`). A poll is taken apart once
(`PollLooks`), and each lemma is then about one service on a snapshot of the
processes as they are. A tree's memory or order does not decide who is in it, and
that climbs and descents end is an induction on depth, done by a least
counterexample (`LeastNumber`, `ClimbExists`).

The growth windows add three facts. The samples of a history are an interval
apart, and only the oldest may be over the window (`Spread`, in `HistoryInv`):
that bounds its length by 2 + window ÷ interval, and the cap bounds the number of
histories, since the memory of a group is a number (`MemoryIsNumber`, the fold's
induction) and so the rank of a group under the cap tells it from the others
(`CappedAreFew`). Every sample was taken at a poll that `past` remembers, unless
it is further back than `past` reaches, and at every sample since the root was
safe to stop (`WatchedInv`). What is notified of has a first sample as old as the
window (`NoticedInv`). `past` itself is cut off after `Memory` polls, a bound of the model:
`MonitoringAssumption` asks that it reach over a growth window of polls a time
unit apart (`Reach`), as it asks for the streaks and durations.

`PollsWithinTheHour` says that two polls are less than an hour of ignoring apart.
It is a hypothesis and not an assumption of the model because nothing in the code
enforces it: `Settings::validate` has no longest poll interval. With a longer one
an "ignore for an hour" is over before the next poll looks: the violation it
removed starts anew, with its count and its cooldown forgotten, though no poll
ever saw the subject ignored. Both properties are false then; the other theorems
do not need it.

The orders to stop and what the stop commands rebuild rest on parents that form a
forest: in any set of processes one has its parent outside (`Forest`, from
`IsTable`; the steps of `Processes` keep it, `ProcessesKin`). Then no way up meets
a process twice (`NeverTwice`), a process is a descendant of another by one number
of generations (`GenerationIsOne`), and ways compose and split (`GenerationsAdd`,
`GenerationsBetween`). Hence who is deeper below the root is above nobody listed
later (`DeeperIsNotAbove`), which makes `TerminationOrder` leaf-first
(`TerminationOrderIs`, `TreeOrder`, `AppOrder`). In a group, a tree that lists a
process also lists, and before it, whatever the report shows below it; so listing
each process where it comes first keeps children first across nested trees, in
whatever order the trees come (`GroupOrderIs`). `PartIsBelow`, `BetweenIsPart` and
`AncestorsAre` relate ways in the snapshot to ways in a part of it: the processes
shown, or an application. `OrdersLeafFirst` is inductive as it stands, once a
poll is shown to establish it: nothing else changes what was found.

`StopsReported` is not: it is about the processes of the moment, and between two
polls they change. `SeenInv` says that whoever was seen and still runs has the
parent he was seen with, itself seen and running, or has become init's: so a way
from one seen process to another through the processes of now is the way that was
seen (`WayIsSeen`, an induction along the way), and new processes are only at its
ends. `TreesInv` says that what is published are the roots of what was found, and
that each tree holds exactly the user's shown processes below its root. A process
of the rebuilt tree that was seen but not reported must therefore have someone
hidden on its way (`OutsidePart`, `UnlistedIsHidden`). For an application nothing
is remembered: `BackgroundFromRoot` decides everything again, and the proof shows
that its checks suffice for what the property says.

Settings. `SettingsProofs` has the lemmas on the conversion: what a document
yields is within the words (`ContentRead`), rounding once is rounding
(`RoundsOnce`), and therefore what a daemon saves is valid and loads
(`SavedLoads`), with the ignores it had (`SavedRules`). They go key by key kind,
since a setting is bounded by its unit: bytes and MiB, seconds and minutes. The
saturated largest word must still be a number a document can hold, which is why
`SettingsAssumption` relates the word, the document's integer and the units.

Session. `ServesAlone` ([]SoleDaemon, any number of daemons) needs three facts
together (`SocketInv`): a socket listens exactly while its daemon is past
binding (`SocketStages`); whoever has bound and not closed holds the name
(`NameHeld`); and whoever is about to unlink unlinks a dead socket
(`RemovesDead`), which is what an overlapping start breaks.
`ConfigIsInvariant` proves `ConfigInv`: running daemons hold settings that are
valid and were read from a document, up to rules added since (`DaemonsInv`), and
everything the disk may hold is a content, loadable unless `rough` (`FileInv`).
From it follow `ConfigStaysIntact` and `SavesSettle`. `IgnoringIsAtomic` proves
that Session implements IgnoreMemory: initial states map to initial states, and
under `ConfigInv` a load is `Start`, an end is `Stop`, the rename is `Keep`,
edits and write-backs are `Rewritten` or stutter, everything else stutters; the
invariant is needed because only what reads back as written stores the rules the
daemon has. `ServicesFollow` proves []PoliciesFollow: the services of a daemon
between rename and adoption still follow the settings it has (`ServicesInv`), and
telling them (`Told`) yields what the new settings would have built.
`SessionTypes` adds the stages of a daemon and of a save (`StageInv`) and the
client's query, so that every variable has its type.

Model-checked only:
- the liveness properties (`RequestsReturn`, `PendingSettled`, `ServesAgain`,
  `QueriesEnd`): the prover has no rules for fairness and ENABLED.

Every other invariant and action property of the passing runs has a theorem.

No module declares a RECURSIVE operator.

## Plan

1. `Processes`, `ProcessControl`: done. They come first because a wrong signal
   is the worst the program can do.
2. `MemoryPressure`, `Emergency`: done. The only part that kills without asking.
3. `Notifications`: connection, bindings, the two event streams, reconnects and
   the handler of an action are done, with theorems. Left: an abstract
   specification (a notification is offered, acted on at most once, gone) that it
   implements.
4. `Monitor`, `StaleWorkloads`, `BackgroundWorkloads` and their composition
   `Monitoring`: done, with a theorem for each of its properties.
5. `ControlSocket`, `Settings`, `ConfigFile` and their composition `Session`
   with its abstract specification `IgnoreMemory`: done, with theorems.
6. `Daemon`: the arms of the loop in one specification. They are modelled, each
   with what it shares state with; what a composition adds is the pressure level
   as one value for the emergency action and the monitors, and a hanging D-Bus
   call that stops them all.
7. `StopContract`, implemented by `ProcessControl`: done, with its theorem. Left:
   the stops of `Emergency` and `Notifications`, which keep their own two steps,
   as instances of it.

Theorem to come: the refinement of the abstract specification of 3.

## Not modelled

Which of the eligible processes is largest (the emergency model allows any of
them); sizes, names and wording of messages; the parsing of `/proc`, D-Bus, TOML
and JSON, modelled by what they can return; the size limits of a request and the
look at the peer's UID, which decide about one message only; the numbers of a
status answer; ages and CPU totals that are only shown; a CPU sum that is not
finite; CI and release scripts. A snapshot is of one instant here, while the
code reads one process after the other; the hazard list names the cycle of
parents this makes possible. Start times are assumed to be distinct for
successive holders of a PID, the code's own assumption (they count clock ticks
since boot). A process reported as exited because its real user id changed is
seen by the model and allowed by `OutcomeIsTrue`; see the hazard list. Other
applications' notifications are left out: ids are unique within a session of
the server, so within one they meet no binding. The arms of the daemon's loop
are not composed: `Monitoring` takes any pressure level at a poll, which includes
every level `Emergency` could give it.
