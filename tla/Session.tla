------------------------------ MODULE Session ------------------------------
(***************************************************************************)
(* The life of the daemon around its loop (run_daemon_async of             *)
(* src/runtime/daemon.rs): it reads its settings, takes the control        *)
(* socket, builds its services, remembers what "Always ignore" is clicked  *)
(* on and shuts down, or is killed at any of these steps.  systemd runs    *)
(* the packaged unit, a person may start a second daemon by hand, edit the *)
(* configuration or run `config init`, and the power may fail.             *)
(***************************************************************************)
EXTENDS ConfigFile, ControlSocket

CONSTANTS
    Service,  \* the daemon of the packaged unit
    Texts,    \* contents a person may give the file, and it may have at first
    Targets,  \* what "Always ignore" may be clicked on
    Budgets   \* bound: how often each thing may happen

ASSUME SessionAssumption ==
    /\ Service \in Daemons
    /\ \A t \in Targets : IsTarget(t) /\ t # NoKeys
    /\ \A c \in Texts : IsContent(c)

(* Settings and services of a daemon that is not up, and no target.        *)
NotUp == NoKeys

VARIABLES
    pc,         \* daemon -> where it stands
    settings,   \* daemon -> its settings, once read
    services,   \* daemon -> the copies its services work with, once built
    target,     \* daemon -> what was clicked on, while that is saved
    cli,        \* `config init`: "idle", it has opened the file, or the file
                \* it opened has since lost its name ("replaced")
    left,       \* how often each thing may still happen
    rough,      \* history: the file was written by hand, and the disk may
                \* still hold what does not load
    overlapped  \* history: a socket in use lost its name to a start that had
                \* looked before it was bound, or to systemd

daemonVars == <<pc, settings, services, target>>
vars == <<fileVars, socketVars, daemonVars, cli, left, rough, overlapped>>

Down == {"off", "waiting", "failed", "stopped"}
Serving == {"running", "saving", "replaced", "hung"}
Stages == Down \cup Serving
              \cup {"probing", "connecting", "unlinking", "binding", "securing", "closing"}

(* MonitorService, EmergencyService, StaleWorkloadService and              *)
(* BackgroundWorkloadService get copies of the rules.                      *)
ServicesOf(s) ==
    [monitor |-> ProtectionPolicy(s), emergency |-> ProtectionPolicy(s),
     background |-> ProtectionPolicy(s), trees |-> StaleIgnores(s),
     apps |-> BackgroundIgnores(s)]

SessionInit ==
    /\ FileInit(Texts \cup {Absent}) /\ SocketInit
    /\ pc = [d \in Daemons |-> IF d = Service THEN "waiting" ELSE "off"]
    /\ settings = [d \in Daemons |-> NotUp]
    /\ services = [d \in Daemons |-> NotUp]
    /\ target = [d \in Daemons |-> NotUp]
    /\ cli = "idle" /\ left \in Budgets
    /\ rough = ~Loadable(file) /\ overlapped = FALSE

Spend(what) == left[what] > 0 /\ left' = [left EXCEPT ![what] = @ - 1]

-----------------------------------------------------------------------------
(* The start: configuration, socket, services.                             *)

(* Exit with an error; systemd restarts its unit then.                     *)
Ended(d) == IF d = Service THEN "failed" ELSE "off"

Exit(d, stage) ==
    /\ pc' = [pc EXCEPT ![d] = stage]
    /\ settings' = [settings EXCEPT ![d] = NotUp]
    /\ services' = [services EXCEPT ![d] = NotUp]
    /\ target' = [target EXCEPT ![d] = NotUp]

(* Mutant: a missing file is an error.                                     *)
FileRequiredBug(d) ==
    IF Loadable(file) /\ file # Absent
      THEN /\ pc' = [pc EXCEPT ![d] = "probing"]
           /\ settings' = [settings EXCEPT ![d] = SettingsIn(file)]
           /\ UNCHANGED <<services, target>>
      ELSE Exit(d, Ended(d))

LoadSettings(d) ==
    IF Loadable(file)
      THEN /\ pc' = [pc EXCEPT ![d] = "probing"]
           /\ settings' = [settings EXCEPT ![d] = SettingsIn(file)]
           /\ UNCHANGED <<services, target>>
      ELSE Exit(d, Ended(d))

(* systemd starts its unit; a person starts either.                        *)
UnitStarts ==
    /\ pc[Service] = "waiting"
    /\ LoadSettings(Service)
    /\ UNCHANGED <<fileVars, socketVars, cli, left, rough, overlapped>>

StartByHand(d) ==
    /\ pc[d] = "off" /\ Spend("starts")
    /\ LoadSettings(d)
    /\ UNCHANGED <<fileVars, socketVars, cli, rough, overlapped>>

Goes(d, from, to) ==
    /\ pc[d] = from /\ pc' = [pc EXCEPT ![d] = to]
    /\ UNCHANGED <<settings, services, target>>

(* Mutant: a name that is taken is always taken for a stale one.           *)
NoProbeBug(d) ==
    \/ Goes(d, "probing", IF NameFree THEN "binding" ELSE "connecting")
    \/ Goes(d, "connecting", "unlinking")

(* symlink_metadata, then connect: what it looked at may have changed.     *)
Probe(d) ==
    \/ Goes(d, "probing", IF NameFree THEN "binding" ELSE "connecting")
    \/ ~SomeoneListens /\ Goes(d, "connecting", "unlinking")
    \/ /\ SomeoneListens /\ pc[d] = "connecting"   \* AlreadyRunning
       /\ Exit(d, Ended(d))

LooksAtSocket(d) ==
    /\ Probe(d)
    /\ UNCHANGED <<fileVars, socketVars, cli, left, rough, overlapped>>

RemovesStaleSocket(d) ==
    /\ pc[d] = "unlinking"
    /\ \/ RemoveName /\ Goes(d, "unlinking", "binding")
       \/ NameFree /\ Exit(d, Ended(d)) /\ UNCHANGED socketVars
    /\ UNCHANGED <<fileVars, cli, left, rough, overlapped>>

Binds(d) ==
    /\ pc[d] = "binding"
    /\ \/ /\ BindName(d) /\ Goes(d, "binding", "securing")
          /\ overlapped' = (overlapped \/ \E e \in Daemons : pc[e] = "unlinking")
       \/ ~NameFree /\ Exit(d, Ended(d)) /\ UNCHANGED <<socketVars, overlapped>>
    /\ UNCHANGED <<fileVars, cli, left, rough>>

(* set_permissions, by name; the guard exists only after it.               *)
Secures(d) ==
    /\ pc[d] = "securing"
    /\ \/ /\ ~NameFree
          /\ pc' = [pc EXCEPT ![d] = "running"]
          /\ services' = [services EXCEPT ![d] = ServicesOf(settings[d])]
          /\ UNCHANGED <<socketVars, settings, target>>
       \/ NameFree /\ Exit(d, Ended(d)) /\ CloseSockets({d}) /\ UNCHANGED entry
    /\ UNCHANGED <<fileVars, cli, left, rough, overlapped>>

-----------------------------------------------------------------------------
(* "Always ignore": the rest of the loop stands still until it is done.    *)

Updated(d) == Ignoring(settings[d], target[d])

Click(d, t) ==
    /\ pc[d] = "running" /\ Spend("clicks")
    /\ \/ /\ WriteTemporary(Ignoring(settings[d], t))
          /\ pc' = [pc EXCEPT ![d] = "saving"]
          /\ target' = [target EXCEPT ![d] = t]
       \/ SaveFails /\ UNCHANGED <<pc, target>>
    /\ UNCHANGED <<socketVars, settings, services, cli, rough, overlapped>>

(* `config init` goes on with the file it has opened.                      *)
LosesName == IF cli = "opened" THEN "replaced" ELSE cli

Renames(d) ==
    /\ pc[d] = "saving"
    /\ Replace(Updated(d)) /\ cli' = LosesName
    /\ Goes(d, "saving", "replaced")
    /\ UNCHANGED <<socketVars, left, rough, overlapped>>

RenameFails(d) ==
    /\ pc[d] = "saving"
    /\ SaveFails
    /\ pc' = [pc EXCEPT ![d] = "running"]
    /\ target' = [target EXCEPT ![d] = NotUp]
    /\ UNCHANGED <<socketVars, settings, services, cli, left, rough, overlapped>>

(* Mutant: the background service is not told of a new rule for an event.  *)
TellMonitorOnlyBug(old, new, t) ==
    CASE t.kind = "tree" -> [old EXCEPT !.trees = @ \cup EntryFor(t)]
      [] t.kind = "app" -> [old EXCEPT !.apps = BackgroundIgnores(new)]
      [] t.kind = "event" -> [old EXCEPT !.monitor[ListFor(t)] = @ \cup EntryFor(t)]

(* ignore_name; ignore_process; ignore_permanently and                     *)
(* replace_protection_policy.                                              *)
Told(old, new, t) ==
    CASE t.kind = "tree" -> [old EXCEPT !.trees = @ \cup EntryFor(t)]
      [] t.kind = "app" ->
            IF t.executable = {} THEN [old EXCEPT !.apps.names = @ \cup EntryFor(t)]
                                 ELSE [old EXCEPT !.apps.executables = @ \cup EntryFor(t)]
      [] t.kind = "event" -> [old EXCEPT !.monitor[ListFor(t)] = @ \cup EntryFor(t),
                                         !.background = ProtectionPolicy(new)]

(* Mutant: the settings in memory are not replaced by the saved ones.      *)
SettingsKeptBug(d) ==
    /\ pc[d] = "replaced"
    /\ UNCHANGED settings
    /\ services' = [services EXCEPT ![d] = Told(@, Updated(d), target[d])]

Adopt(d) ==
    /\ pc[d] = "replaced"
    /\ settings' = [settings EXCEPT ![d] = Updated(d)]
    /\ services' = [services EXCEPT ![d] = Told(@, Updated(d), target[d])]

Adopts(d) ==
    /\ Adopt(d)
    /\ pc' = [pc EXCEPT ![d] = "running"]
    /\ target' = [target EXCEPT ![d] = NotUp]
    /\ UNCHANGED <<fileVars, socketVars, cli, left, rough, overlapped>>

-----------------------------------------------------------------------------
(* The end.                                                                *)

(* A D-Bus call that is never answered: the loop does nothing any more.    *)
Hangs(d) ==
    /\ Spend("crashes")
    /\ Goes(d, "running", "hung")
    /\ UNCHANGED <<fileVars, socketVars, cli, rough, overlapped>>

(* SIGTERM or an interrupt: the guard goes first, then the listener.       *)
ShutsDown(d) ==
    /\ Spend("stops")
    /\ Goes(d, "running", "closing")
    /\ DropGuard
    /\ UNCHANGED <<fileVars, cli, rough, overlapped>>

Closes(d) ==
    /\ pc[d] = "closing"
    /\ CloseSockets({d}) /\ UNCHANGED entry
    /\ Exit(d, IF d = Service THEN "stopped" ELSE "off")
    /\ UNCHANGED <<fileVars, cli, left, rough, overlapped>>

(* SIGKILL, a panic, the OOM killer.                                       *)
Crashes(d) ==
    /\ pc[d] \notin Down /\ Spend("crashes")
    /\ Exit(d, Ended(d))
    /\ CloseSockets({d})
    /\ UNCHANGED <<fileVars, entry, cli, rough, overlapped>>

(* systemd removes the unit's RuntimeDirectory when the unit has ended,    *)
(* also before the restart of Restart=on-failure.                          *)
UnitIsCleanedUp ==
    /\ pc[Service] \in {"failed", "stopped"}
    /\ pc' = [pc EXCEPT ![Service] = IF @ = "failed" THEN "waiting" ELSE "off"]
    /\ overlapped' = (overlapped \/ SomeoneListens)
    /\ entry' = NoEntry
    /\ UNCHANGED <<fileVars, listening, query, settings, services, target, cli, left, rough>>

-----------------------------------------------------------------------------
(* The client, its task in the daemon, people and the disk.                *)

Asks(peer) ==
    /\ Spend("queries") /\ Connect(peer)
    /\ UNCHANGED <<fileVars, daemonVars, cli, rough, overlapped>>

Accepts(d) ==
    /\ pc[d] = "running" /\ Accept(d)
    /\ UNCHANGED <<fileVars, daemonVars, cli, left, rough, overlapped>>

QueryEnds ==
    /\ \/ Answer
       \/ HandlerGivesUp
       \/ ClientGivesUp
    /\ UNCHANGED <<fileVars, daemonVars, cli, left, rough, overlapped>>

(* An editor writes into the file or puts another one in its place.        *)
Edits(text) ==
    /\ Spend("edits") /\ Rewrite(text)
    /\ cli' \in {cli, LosesName}
    /\ rough' = (rough \/ ~Loadable(text))
    /\ UNCHANGED <<socketVars, daemonVars, overlapped>>

RunsInit(force) ==
    /\ cli = "idle" /\ Spend("edits") /\ OpenForInit(force)
    /\ cli' = "opened" /\ rough' = TRUE
    /\ UNCHANGED <<socketVars, daemonVars, overlapped>>

(* It writes the text or a part of it, or is killed before.  What remains  *)
(* of a longer text an editor has written there makes it Malformed.        *)
EndsInit ==
    /\ cli # "idle" /\ cli' = "idle"
    /\ \/ cli = "opened" /\ WriteOpened
       \/ cli = "replaced" /\ WriteReplaced
       \/ UNCHANGED fileVars
    /\ UNCHANGED <<socketVars, daemonVars, left, rough, overlapped>>

(* After it nothing leads to a file that was replaced: what is still       *)
(* written there is lost.                                                  *)
WritesBack ==
    /\ WriteBack
    /\ cli' = (IF cli = "replaced" THEN "idle" ELSE cli)
    /\ rough' = (cli = "opened" \/ ~Loadable(file))
    /\ UNCHANGED <<socketVars, daemonVars, left, overlapped>>

PowerFails ==
    /\ Spend("crashes") /\ LosePower
    /\ pc' = [d \in Daemons |-> IF d = Service THEN "waiting" ELSE "off"]
    /\ settings' = [d \in Daemons |-> NotUp]
    /\ services' = [d \in Daemons |-> NotUp]
    /\ target' = [d \in Daemons |-> NotUp]
    /\ entry' = NoEntry /\ CloseSockets(Daemons)
    /\ cli' = "idle" /\ rough' = ~Loadable(file')
    /\ UNCHANGED overlapped

-----------------------------------------------------------------------------
Works(d) ==
    \/ LooksAtSocket(d) \/ RemovesStaleSocket(d) \/ Binds(d) \/ Secures(d)
    \/ Renames(d) \/ RenameFails(d) \/ Adopts(d) \/ Closes(d)

Systemd == UnitStarts \/ UnitIsCleanedUp

Disturbed(d) ==
    \/ StartByHand(d) \/ Hangs(d) \/ ShutsDown(d) \/ Crashes(d)
    \/ \E t \in Targets : Click(d, t)

Outside ==
    \/ \E peer \in Peers : Asks(peer)
    \/ \E text \in Texts : Edits(text)
    \/ \E force \in BOOLEAN : RunsInit(force)
    \/ EndsInit \/ WritesBack \/ PowerFails

Next ==
    \/ \E d \in Daemons : Works(d) \/ Accepts(d) \/ Disturbed(d)
    \/ Systemd \/ QueryEnds \/ Outside

(* A process that can go on does, systemd acts, a running loop accepts,    *)
(* and a timeout passes.                                                   *)
Spec ==
    /\ SessionInit /\ [][Next]_vars
    /\ \A d \in Daemons : WF_vars(Works(d)) /\ WF_vars(Accepts(d))
    /\ WF_vars(Systemd) /\ WF_vars(QueryEnds)

-----------------------------------------------------------------------------
(* Every variable has its type; the target is there while a save needs it, *)
(* and only a daemon that is up has settings, services and a socket.       *)
SessionTypeOK ==
    /\ SocketTypeOK /\ IsContent(file)
    /\ pc \in [Daemons -> Stages]
    /\ \A d \in Daemons :
         /\ settings[d] = NotUp <=> pc[d] \in Down
         /\ settings[d] # NotUp => IsSettings(settings[d])
         /\ (services[d] # NotUp) = (pc[d] \in Serving \cup {"closing"})
         /\ target[d] \in Targets <=> pc[d] \in {"saving", "replaced"}
         /\ d \in listening <=> pc[d] \in Serving \cup {"securing", "closing"}

(* Save never leaves a file that does not load, wherever it is cut short   *)
(* and whatever the disk kept of it: once a person's writing has settled,  *)
(* the file and everything a power failure may bring back load.            *)
ConfigIntact == ~rough => \A c \in durable \cup {file} : Loadable(c)

(* What a daemon writes is read back by the next one as it was written,    *)
(* and is valid: rounding to MiB and minutes settles with the first save.  *)
SaveSettles ==
    \A d \in Daemons : pc[d] \notin Down =>
        LET text == ToDocument(settings[d])
        IN Valid(FromDocument(text)) /\ ToDocument(FromDocument(text)) = text

(* The services of a daemon that is not in the middle of a click ignore    *)
(* exactly what its settings say; the emergency service protects what they *)
(* protect, for it does not look at ignore rules.                          *)
PoliciesFollow ==
    \A d \in Daemons : pc[d] \in {"running", "saving", "hung"} =>
        /\ services[d].monitor = ProtectionPolicy(settings[d])
        /\ services[d].background = ProtectionPolicy(settings[d])
        /\ services[d].trees = StaleIgnores(settings[d])
        /\ services[d].apps = BackgroundIgnores(settings[d])
        /\ \A f \in {"protected_names", "protected_executables"} :
             services[d].emergency[f] = settings[d][f]

(* The daemon that serves is the one clients reach, so there is one: unless *)
(* a start that had found a dead socket met another's bind, or systemd     *)
(* removed the name of a daemon started by hand.                           *)
SoleDaemon == ~overlapped => \A d \in Daemons : pc[d] \in Serving => entry = d

(* "Always ignore" is one step for everybody who looks: the rules of the   *)
(* daemon and those of the file change together, at the rename, or not at  *)
(* all; a start reads what is stored.                                      *)
Memory == INSTANCE IgnoreMemory WITH
    Entries <- IgnoreLists \X (Names \cup Paths),
    up <- {d \in Daemons : pc[d] \notin Down},
    working <- [d \in Daemons |->
                  IF pc[d] \in Down THEN {}
                  ELSE RulesOf(IF pc[d] = "replaced" THEN Updated(d) ELSE settings[d])],
    stored <- IF file.state = "malformed" THEN {} ELSE RulesOf(SettingsIn(file))

IgnoresAtomically == Memory!Spec

(* After a crash or a failed start of its unit the daemon serves again, as *)
(* long as the configuration loads.                                        *)
ServesAgain == pc[Service] = "failed" ~> (pc[Service] = "running" \/ ~Loadable(file))

(* A client of this program is answered or gives up, also when the daemon  *)
(* hangs; a client that sends nothing is dropped once it was accepted.     *)
QueriesEnd ==
    /\ (query # NoQuery /\ query.peer = "cli") ~> query = NoQuery
    /\ (query # NoQuery /\ query.stage = "accepted") ~> query = NoQuery
=============================================================================
