--------------------------- MODULE SessionProofs ---------------------------
(***************************************************************************)
(* For all daemons, settings, texts, targets and budgets: the daemon that  *)
(* serves is the one clients reach, a save leaves nothing that does not    *)
(* load, and what a daemon writes is read back as it was written.          *)
(*                                                                         *)
(* The socket.  A daemon binds a free name and holds it from then on, so   *)
(* what has to be shown is that nobody else frees it.  Three steps do: the *)
(* removal of a stale name, which removes a dead one as long as no bind    *)
(* came between the look and the removal; the guard, whose daemon holds    *)
(* the name itself; and systemd's, which the history tells apart.          *)
(*                                                                         *)
(* The configuration.  A daemon that is up has settings that were read of  *)
(* a document and are valid: a load checks both, and "Always ignore" adds  *)
(* to a list what was checked before it was saved.  Such settings, rounded *)
(* to the units of a document, are valid again (SettingsProofs), so the    *)
(* text of a save loads; the old text stays until the new one replaces it  *)
(* whole, so that whatever a power failure brings back is one of the two.  *)
(***************************************************************************)
EXTENDS Session, SettingsProofs

Holding == Serving \cup {"securing"}
Listens == Holding \cup {"closing"}

SocketStages ==
    /\ pc \in [Daemons -> Stages]
    /\ entry \in Daemons \cup {NoEntry}
    /\ \A d \in Daemons : d \in listening <=> pc[d] \in Listens
    /\ listening \subseteq Daemons

(* A daemon that holds the name is where the name leads.                   *)
NameHeld == ~overlapped => \A d \in Daemons : pc[d] \in Holding => entry = d

(* What is about to be removed is dead.                                    *)
RemovesDead == ~overlapped => \A d \in Daemons : pc[d] = "unlinking" => entry \notin listening

SocketInv == SocketStages /\ NameHeld /\ RemovesDead

USE DEF Holding, Listens, Stages, Serving, Down

-----------------------------------------------------------------------------
LEMMA InitSocketInv == SessionInit => SocketInv
BY SocketAssumption, SessionAssumption
   DEF SessionInit, SocketInit, SocketInv, SocketStages, NameHeld, RemovesDead

(* A step that leaves the socket alone: every daemon holds, listens and    *)
(* removes as before.                                                      *)
LEMMA QuietStep ==
    ASSUME SocketInv, UNCHANGED <<entry, listening, overlapped>>,
           pc' \in [Daemons -> Stages],
           \A d \in Daemons : /\ pc'[d] \in Holding <=> pc[d] \in Holding
                              /\ pc'[d] \in Listens <=> pc[d] \in Listens
                              /\ pc'[d] = "unlinking" => pc[d] = "unlinking"
    PROVE  SocketInv'
<1> USE DEF SocketInv
<1> HIDE DEF Holding, Listens, Stages, Serving, Down
<1>1. SocketStages'
  BY DEF SocketStages
<1>2. NameHeld' /\ RemovesDead'
  BY DEF NameHeld, RemovesDead
<1> QED
  BY <1>1, <1>2

(* The end of a daemon that does not listen, and the move of one between   *)
(* stages that do not.                                                     *)
LEMMA SilentMove ==
    ASSUME SocketInv, UNCHANGED <<entry, listening, overlapped>>,
           NEW d \in Daemons, NEW s \in Stages, pc' = [pc EXCEPT ![d] = s],
           pc[d] \notin Listens, s \notin Listens,
           s = "unlinking" => entry \notin listening
    PROVE  SocketInv'
<1> USE DEF SocketInv
<1>1. \A e \in Daemons : pc'[e] = IF e = d THEN s ELSE pc[e]
  BY DEF SocketStages
<1>2. SocketStages'
  BY <1>1 DEF SocketStages
<1>3. NameHeld'
  BY <1>1 DEF NameHeld
<1>4. RemovesDead'
  BY <1>1 DEF RemovesDead
<1> QED
  BY <1>2, <1>3, <1>4

(* The end of a daemon that may have listened.                             *)
LEMMA SocketGone ==
    ASSUME SocketInv, UNCHANGED <<entry, overlapped>>,
           NEW d \in Daemons, NEW s \in Down, pc' = [pc EXCEPT ![d] = s],
           listening' = listening \ {d}
    PROVE  SocketInv'
<1> USE DEF SocketInv
<1>1. \A e \in Daemons : pc'[e] = IF e = d THEN s ELSE pc[e]
  BY DEF SocketStages
<1>2. SocketStages'
  BY <1>1 DEF SocketStages
<1>3. NameHeld'
  BY <1>1 DEF NameHeld
<1>4. RemovesDead'
  BY <1>1 DEF RemovesDead
<1> QED
  BY <1>2, <1>3, <1>4

-----------------------------------------------------------------------------
LEMMA StartSocketInv ==
    ASSUME SocketInv, NEW d \in Daemons, StartByHand(d) \/ (UnitStarts /\ d = Service)
    PROVE  SocketInv'
<1>1. /\ pc[d] \in Down /\ LoadSettings(d)
      /\ UNCHANGED <<entry, listening, overlapped>>
  BY DEF StartByHand, UnitStarts, socketVars
<1>2. \E s \in Stages \ (Listens \cup {"unlinking"}) : pc' = [pc EXCEPT ![d] = s]
  BY <1>1 DEF LoadSettings, Exit, Ended
<1> QED
  BY <1>1, <1>2, SilentMove

LEMMA ProbeSocketInv ==
    ASSUME SocketInv, NEW d \in Daemons, LooksAtSocket(d)
    PROVE  SocketInv'
<1>1. pc[d] \in {"probing", "connecting"} /\ UNCHANGED <<entry, listening, overlapped>>
  BY DEF LooksAtSocket, Probe, Goes, socketVars
<1>2. \E s \in Stages \ Listens : /\ pc' = [pc EXCEPT ![d] = s]
                                  /\ s = "unlinking" => entry \notin listening
  BY DEF LooksAtSocket, Probe, Goes, Exit, Ended, SomeoneListens
<1>3. PICK s \in Stages \ Listens : /\ pc' = [pc EXCEPT ![d] = s]
                                    /\ s = "unlinking" => entry \notin listening
  BY <1>2
<1> QED
  BY <1>1, <1>3, SilentMove

(* Here the name in use would be lost.                                     *)
LEMMA UnlinkSocketInv ==
    ASSUME SocketInv, NEW d \in Daemons, RemovesStaleSocket(d)
    PROVE  SocketInv'
<1>1. pc[d] = "unlinking" /\ UNCHANGED <<listening, overlapped>>
  BY DEF RemovesStaleSocket, RemoveName, socketVars
<1>2. CASE NameFree /\ Exit(d, Ended(d)) /\ UNCHANGED socketVars
  <2>1. Ended(d) \in Down /\ pc' = [pc EXCEPT ![d] = Ended(d)] /\ UNCHANGED entry
    BY <1>2 DEF Exit, Ended, socketVars
  <2> QED
    BY <1>1, <2>1, SilentMove
<1>3. CASE RemoveName /\ Goes(d, "unlinking", "binding")
  <2> USE DEF SocketInv
  <2>1. entry' = NoEntry /\ pc' = [pc EXCEPT ![d] = "binding"]
    BY <1>3 DEF RemoveName, Goes
  <2>2. \A e \in Daemons : pc'[e] = IF e = d THEN "binding" ELSE pc[e]
    BY <2>1 DEF SocketStages
  <2>3. ~overlapped => \A e \in Daemons : pc[e] \notin Holding
    BY <1>1 DEF NameHeld, RemovesDead, SocketStages
  <2>4. SocketStages'
    BY <1>1, <2>1, <2>2 DEF SocketStages
  <2>5. NameHeld'
    BY <1>1, <2>2, <2>3 DEF NameHeld
  <2>6. RemovesDead'
    BY <1>1, <2>1, SocketAssumption DEF RemovesDead, SocketStages
  <2> QED
    BY <2>4, <2>5, <2>6
<1> QED
  BY <1>2, <1>3 DEF RemovesStaleSocket

LEMMA BindSocketInv ==
    ASSUME SocketInv, NEW d \in Daemons, Binds(d)
    PROVE  SocketInv'
<1>1. pc[d] = "binding"
  BY DEF Binds
<1>2. CASE ~NameFree /\ Exit(d, Ended(d)) /\ UNCHANGED <<socketVars, overlapped>>
  <2>1. /\ Ended(d) \in Down /\ pc' = [pc EXCEPT ![d] = Ended(d)]
        /\ UNCHANGED <<entry, listening, overlapped>>
    BY <1>2 DEF Exit, Ended, socketVars
  <2> QED
    BY <1>1, <2>1, SilentMove
<1>3. CASE /\ BindName(d) /\ Goes(d, "binding", "securing")
           /\ overlapped' = (overlapped \/ \E e \in Daemons : pc[e] = "unlinking")
  <2> USE DEF SocketInv
  <2>1. /\ entry = NoEntry /\ entry' = d /\ listening' = listening \cup {d}
        /\ pc' = [pc EXCEPT ![d] = "securing"]
    BY <1>3 DEF BindName, NameFree, Goes
  <2>2. \A e \in Daemons : pc'[e] = IF e = d THEN "securing" ELSE pc[e]
    BY <2>1 DEF SocketStages
  <2>3. SocketStages'
    BY <2>1, <2>2 DEF SocketStages
  <2>4. NameHeld'
    BY <1>3, <2>1, <2>2, SocketAssumption DEF NameHeld
  <2>5. RemovesDead'
    BY <1>3, <2>2 DEF RemovesDead
  <2> QED
    BY <2>3, <2>4, <2>5
<1> QED
  BY <1>2, <1>3 DEF Binds

LEMMA SecureSocketInv ==
    ASSUME SocketInv, NEW d \in Daemons, Secures(d)
    PROVE  SocketInv'
<1>1. pc[d] = "securing" /\ UNCHANGED <<entry, overlapped>> /\ pc \in [Daemons -> Stages]
  BY DEF Secures, socketVars, SocketInv, SocketStages
<1>2. CASE pc' = [pc EXCEPT ![d] = "running"] /\ UNCHANGED socketVars
  <2>1. \A e \in Daemons : pc'[e] = IF e = d THEN "running" ELSE pc[e]
    BY <1>1, <1>2
  <2>2. pc' \in [Daemons -> Stages] /\ UNCHANGED <<entry, listening, overlapped>>
    BY <1>1, <1>2 DEF socketVars
  <2>3. \A e \in Daemons : /\ pc'[e] \in Holding <=> pc[e] \in Holding
                           /\ pc'[e] \in Listens <=> pc[e] \in Listens
                           /\ pc'[e] = "unlinking" => pc[e] = "unlinking"
    BY <1>1, <2>1
  <2> QED
    BY <2>2, <2>3, QuietStep
<1>3. CASE NameFree /\ Exit(d, Ended(d)) /\ CloseSockets({d}) /\ UNCHANGED entry
  <2>1. /\ Ended(d) \in Down /\ pc' = [pc EXCEPT ![d] = Ended(d)]
        /\ listening' = listening \ {d}
    BY <1>3 DEF Exit, Ended, CloseSockets
  <2> QED
    BY <1>1, <2>1, SocketGone
<1> QED
  BY <1>2, <1>3 DEF Secures

(* While it saves, adopts or hangs a daemon keeps the name.                *)
LEMMA LoopSocketInv ==
    ASSUME SocketInv, NEW d \in Daemons,
           \/ Renames(d) \/ RenameFails(d) \/ Adopts(d) \/ Hangs(d)
           \/ \E t \in Targets : Click(d, t)
    PROVE  SocketInv'
<1>1. UNCHANGED <<entry, listening, overlapped>> /\ pc \in [Daemons -> Stages]
  BY DEF Renames, RenameFails, Adopts, Hangs, Click, socketVars, SocketInv, SocketStages
<1>2. pc[d] \in Serving /\ (pc' = pc \/ \E s \in Serving : pc' = [pc EXCEPT ![d] = s])
  BY DEF Renames, RenameFails, Adopts, Adopt, Hangs, Click, Goes
<1>3. \A e \in Daemons : pc'[e] = pc[e] \/ (pc[e] \in Serving /\ pc'[e] \in Serving)
  BY <1>1, <1>2
<1>4. pc' \in [Daemons -> Stages]
  BY <1>1, <1>2
<1>5. \A e \in Daemons : /\ pc'[e] \in Holding <=> pc[e] \in Holding
                         /\ pc'[e] \in Listens <=> pc[e] \in Listens
                         /\ pc'[e] = "unlinking" => pc[e] = "unlinking"
  BY <1>3
<1> QED
  BY <1>1, <1>4, <1>5, QuietStep

(* The guard removes the name of its own daemon.                           *)
LEMMA ShutdownSocketInv ==
    ASSUME SocketInv, NEW d \in Daemons, ShutsDown(d)
    PROVE  SocketInv'
<1> USE DEF SocketInv
<1>1. /\ pc[d] = "running" /\ pc' = [pc EXCEPT ![d] = "closing"]
      /\ entry' = NoEntry /\ UNCHANGED <<listening, overlapped>>
  BY DEF ShutsDown, Goes, DropGuard
<1>2. \A e \in Daemons : pc'[e] = IF e = d THEN "closing" ELSE pc[e]
  BY <1>1 DEF SocketStages
<1>3. SocketStages'
  BY <1>1, <1>2 DEF SocketStages
<1>4. NameHeld'
  BY <1>1, <1>2 DEF NameHeld
<1>5. RemovesDead'
  BY <1>1, SocketAssumption DEF RemovesDead, SocketStages
<1> QED
  BY <1>3, <1>4, <1>5

LEMMA EndSocketInv ==
    ASSUME SocketInv, NEW d \in Daemons, Closes(d) \/ Crashes(d)
    PROVE  SocketInv'
<1>1. /\ listening' = listening \ {d} /\ UNCHANGED <<entry, overlapped>>
      /\ \E s \in Down : pc' = [pc EXCEPT ![d] = s]
  BY DEF Closes, Crashes, CloseSockets, Exit, Ended
<1> QED
  BY <1>1, SocketGone

(* systemd: either nobody listened behind the name, so nobody held it, or  *)
(* the history says so.                                                    *)
LEMMA CleanupSocketInv ==
    ASSUME SocketInv, UnitIsCleanedUp
    PROVE  SocketInv'
<1> USE DEF SocketInv
<1>1. /\ pc[Service] \in {"failed", "stopped"} /\ entry' = NoEntry
      /\ \E s \in Down : pc' = [pc EXCEPT ![Service] = s]
      /\ overlapped' = (overlapped \/ SomeoneListens) /\ UNCHANGED listening
  BY DEF UnitIsCleanedUp
<1>2. PICK s \in Down : pc' = [pc EXCEPT ![Service] = s]
  BY <1>1
<1>3. \A e \in Daemons : pc'[e] = IF e = Service THEN s ELSE pc[e]
  BY <1>2 DEF SocketStages
<1>4. SocketStages'
  BY <1>1, <1>3 DEF SocketStages
<1>5. ~overlapped' => \A e \in Daemons : pc[e] \notin Holding
  BY <1>1 DEF NameHeld, SomeoneListens, SocketStages
<1>6. NameHeld'
  BY <1>3, <1>5 DEF NameHeld
<1>7. RemovesDead'
  BY <1>1, SocketAssumption DEF RemovesDead, SocketStages
<1> QED
  BY <1>4, <1>6, <1>7

LEMMA PowerSocketInv ==
    ASSUME SocketInv, PowerFails
    PROVE  SocketInv'
<1>1. /\ pc' = [d \in Daemons |-> IF d = Service THEN "waiting" ELSE "off"]
      /\ entry' = NoEntry /\ listening' = listening \ Daemons
  BY DEF PowerFails, CloseSockets
<1>2. listening' = {}
  BY <1>1 DEF SocketInv, SocketStages
<1> QED
  BY <1>1, <1>2 DEF SocketInv, SocketStages, NameHeld, RemovesDead

LEMMA ElseSocketInv ==
    ASSUME SocketInv,
           UNCHANGED <<pc, entry, listening, overlapped>>
    PROVE  SocketInv'
BY DEF SocketInv, SocketStages, NameHeld, RemovesDead

LEMMA StepSocketInv == SocketInv /\ [Next]_vars => SocketInv'
<1> SUFFICES ASSUME SocketInv, [Next]_vars PROVE SocketInv'
  OBVIOUS
<1>1. CASE UNCHANGED vars
  BY <1>1, ElseSocketInv DEF vars, socketVars, daemonVars
<1>2. ASSUME NEW d \in Daemons, Works(d) PROVE SocketInv'
  BY <1>2, ProbeSocketInv, UnlinkSocketInv, BindSocketInv, SecureSocketInv, LoopSocketInv,
     EndSocketInv DEF Works
<1>3. ASSUME NEW d \in Daemons, Accepts(d) PROVE SocketInv'
  BY <1>3, ElseSocketInv DEF Accepts, Accept, daemonVars
<1>4. ASSUME NEW d \in Daemons, Disturbed(d) PROVE SocketInv'
  BY <1>4, StartSocketInv, LoopSocketInv, ShutdownSocketInv, EndSocketInv DEF Disturbed
<1>5. CASE Systemd
  BY <1>5, StartSocketInv, CleanupSocketInv, SessionAssumption DEF Systemd
<1>6. CASE QueryEnds
  BY <1>6, ElseSocketInv DEF QueryEnds, Answer, HandlerGivesUp, ClientGivesUp, daemonVars
<1>7. CASE Outside
  <2>1. CASE PowerFails
    BY <2>1, PowerSocketInv
  <2>2. CASE \E peer \in Peers : Asks(peer)
    BY <2>2, ElseSocketInv DEF Asks, Connect, daemonVars
  <2>3. CASE \/ \E text \in Texts : Edits(text)
             \/ \E force \in BOOLEAN : RunsInit(force)
             \/ EndsInit \/ WritesBack
    BY <2>3, ElseSocketInv DEF Edits, RunsInit, EndsInit, WritesBack, socketVars, daemonVars
  <2> QED
    BY <1>7, <2>1, <2>2, <2>3 DEF Outside
<1> QED
  BY <1>1, <1>2, <1>3, <1>4, <1>5, <1>6, <1>7 DEF Next

(* The daemon that serves is the one the name leads to (bind_control_socket *)
(* refuses every other start), unless one of the two windows was hit.      *)
THEOREM ServesAlone == Spec => []SoleDaemon
<1>1. SocketInv => SoleDaemon
  BY DEF SocketInv, NameHeld, SoleDaemon
<1> QED
  BY <1>1, InitSocketInv, StepSocketInv, PTL DEF Spec

-----------------------------------------------------------------------------
(* The configuration.                                                      *)

Good(s) == Read(s) /\ Valid(s)

Clicked == {"saving", "replaced"}

DaemonsInv ==
    /\ pc \in [Daemons -> Stages]
    /\ DOMAIN settings = Daemons /\ DOMAIN target = Daemons
    /\ \A d \in Daemons : pc[d] \notin Down => Good(settings[d])
    /\ \A d \in Daemons : pc[d] \in Clicked => target[d] \in Targets /\ Valid(Updated(d))

(* The file is one of the contents the disk may hold.                      *)
FileInv ==
    /\ file \in durable
    /\ \A c \in durable : IsContent(c)
    /\ cli \in {"idle", "opened", "replaced"} /\ (cli # "idle" => rough)
    /\ ~rough => \A c \in durable : Loadable(c)

ConfigInv == DaemonsInv /\ FileInv

USE DEF Clicked

-----------------------------------------------------------------------------
(* Contents.                                                               *)

LEMMA PlainContents ==
    /\ IsContent(Absent) /\ IsContent(Malformed) /\ IsContent(Text(NoKeys))
    /\ \A c \in DefaultParts : IsContent(c)
    /\ Loadable(Absent) /\ ~Loadable(Malformed)
<1>1. DOMAIN NoKeys = {}
  BY DEF NoKeys
<1>2. IsContent(Absent) /\ IsContent(Malformed) /\ IsContent(Text(NoKeys))
  BY <1>1 DEF IsContent, Absent, Malformed, Text
<1>3. IsContent(Text(ToDocument(DefaultSettings)))
  BY DefaultsRead, SavedContent
<1>5. IsContent(Text(OnlyHeader))
  <2>1. "processes" \notin Fields
    BY Keys DEF Fields, Integral, Sizes, Minutes, Numbers, Percents, Loads, Switches,
                NameLists, PathLists
  <2>2. DOMAIN OnlyHeader \cap Fields = {} /\ DOMAIN OnlyHeader \cap Integral = {}
    BY <2>1, Keys DEF OnlyHeader
  <2> QED
    BY <2>2 DEF IsContent, Text
<1>4. Loadable(Absent) /\ ~Loadable(Malformed)
  BY DefaultsValid DEF Loadable, Absent, Malformed, SettingsIn
<1> QED
  BY <1>2, <1>3, <1>4, <1>5 DEF DefaultParts

LEMMA LoadedIsGood ==
    ASSUME NEW c, IsContent(c), Loadable(c)
    PROVE  Good(SettingsIn(c))
BY ContentRead DEF Loadable, Good

-----------------------------------------------------------------------------
LEMMA InitConfigInv == SessionInit => ConfigInv
<1> SUFFICES ASSUME SessionInit PROVE ConfigInv
  OBVIOUS
<1>1. DaemonsInv
  BY SessionAssumption DEF SessionInit, DaemonsInv
<1>2. FileInv
  <2>1. file \in Texts \cup {Absent} /\ durable = {file}
        /\ cli = "idle" /\ rough = ~Loadable(file)
    BY DEF SessionInit, FileInit
  <2>2. IsContent(file)
    BY <2>1, PlainContents, SessionAssumption
  <2> QED
    BY <2>1, <2>2 DEF FileInv
<1> QED
  BY <1>1, <1>2 DEF ConfigInv

(* Steps that leave the settings alone, end a daemon, or leave the file    *)
(* alone.                                                                  *)
LEMMA DaemonsKept ==
    ASSUME DaemonsInv, UNCHANGED <<settings, target>>, pc' \in [Daemons -> Stages],
           \A d \in Daemons : /\ pc[d] \in Down => pc'[d] \in Down
                              /\ pc'[d] \in Clicked => pc[d] \in Clicked
    PROVE  DaemonsInv'
BY DEF DaemonsInv, Updated

LEMMA DaemonMoves ==
    ASSUME DaemonsInv, NEW d \in Daemons, NEW from, NEW to \in Stages \ Down, Goes(d, from, to),
           from \in Stages \ Down, to \in Clicked => from \in Clicked
    PROVE  DaemonsInv'
<1>1. pc' = [pc EXCEPT ![d] = to] /\ pc[d] = from /\ UNCHANGED <<settings, target>>
  BY DEF Goes
<1>2. pc' \in [Daemons -> Stages]
  BY <1>1 DEF DaemonsInv
<1>3. \A e \in Daemons : /\ pc[e] \in Down => pc'[e] \in Down
                         /\ pc'[e] \in Clicked => pc[e] \in Clicked
  BY <1>1 DEF DaemonsInv
<1> QED
  BY <1>1, <1>2, <1>3, DaemonsKept

LEMMA DaemonEnds ==
    ASSUME DaemonsInv, NEW d \in Daemons, NEW s \in Down, Exit(d, s)
    PROVE  DaemonsInv'
<1>1. /\ pc' = [pc EXCEPT ![d] = s] /\ settings' = [settings EXCEPT ![d] = NotUp]
      /\ target' = [target EXCEPT ![d] = NotUp]
  BY DEF Exit
<1>2. \A e \in Daemons \ {d} : pc'[e] = pc[e] /\ settings'[e] = settings[e] /\ target'[e] = target[e]
  BY <1>1 DEF DaemonsInv
<1>3. pc'[d] = s
  BY <1>1 DEF DaemonsInv
<1>4. pc' \in [Daemons -> Stages] /\ DOMAIN settings' = Daemons /\ DOMAIN target' = Daemons
  BY <1>1 DEF DaemonsInv
<1> QED
  BY <1>2, <1>3, <1>4 DEF DaemonsInv, Updated

LEMMA FileKept ==
    ASSUME FileInv, UNCHANGED <<fileVars, cli, rough>>
    PROVE  FileInv'
BY DEF FileInv, fileVars

LEMMA EndIsDown == \A d \in Daemons : Ended(d) \in Down
BY DEF Ended

LEMMA LoadKeeps ==
    ASSUME DaemonsInv, FileInv, NEW d \in Daemons, pc[d] \in Down, LoadSettings(d)
    PROVE  DaemonsInv'
<1>1. CASE ~Loadable(file)
  BY <1>1, DaemonEnds, EndIsDown DEF LoadSettings
<1>2. CASE Loadable(file)
  <2>1. /\ pc' = [pc EXCEPT ![d] = "probing"] /\ target' = target
        /\ settings' = [settings EXCEPT ![d] = SettingsIn(file)]
    BY <1>2 DEF LoadSettings
  <2>2. Good(SettingsIn(file))
    BY <1>2, LoadedIsGood DEF FileInv
  <2>3. \A e \in Daemons \ {d} : pc'[e] = pc[e] /\ settings'[e] = settings[e]
    BY <2>1 DEF DaemonsInv
  <2>4. pc'[d] = "probing" /\ settings'[d] = SettingsIn(file)
    BY <2>1 DEF DaemonsInv
  <2>5. pc' \in [Daemons -> Stages] /\ DOMAIN settings' = Daemons /\ DOMAIN target' = Daemons
    BY <2>1 DEF DaemonsInv
  <2> QED
    BY <2>1, <2>2, <2>3, <2>4, <2>5 DEF DaemonsInv, Updated
<1> QED
  BY <1>1, <1>2

-----------------------------------------------------------------------------
(* "Always ignore".                                                        *)

LEMMA UpdatedIsGood ==
    ASSUME DaemonsInv, NEW d \in Daemons, pc[d] \in Clicked
    PROVE  Good(Updated(d))
<1>1. Good(settings[d]) /\ target[d] \in Targets /\ Valid(Updated(d))
  BY DEF DaemonsInv
<1>2. IsTarget(target[d])
  BY <1>1, SessionAssumption
<1> QED
  BY <1>1, <1>2, IgnoringRead DEF Good, Updated

LEMMA ClickKeeps ==
    ASSUME ConfigInv, NEW d \in Daemons, NEW t \in Targets, Click(d, t)
    PROVE  ConfigInv'
<1> USE DEF ConfigInv
<1>1. UNCHANGED <<fileVars, cli, rough, settings>>
  BY DEF Click, WriteTemporary, SaveFails
<1>2. FileInv'
  BY <1>1, FileKept
<1>3. CASE UNCHANGED <<pc, target>>
  <2>1. pc' = pc /\ UNCHANGED <<settings, target>> /\ pc' \in [Daemons -> Stages]
    BY <1>1, <1>3 DEF DaemonsInv
  <2> QED
    BY <1>2, <2>1, DaemonsKept
<1>4. CASE ~UNCHANGED <<pc, target>>
  <2>1. /\ pc[d] = "running" /\ Valid(Ignoring(settings[d], t))
        /\ pc' = [pc EXCEPT ![d] = "saving"] /\ target' = [target EXCEPT ![d] = t]
    BY <1>4 DEF Click, WriteTemporary, CanSave
  <2>2. \A e \in Daemons \ {d} : pc'[e] = pc[e] /\ target'[e] = target[e]
    BY <2>1 DEF DaemonsInv
  <2>3. pc'[d] = "saving" /\ target'[d] = t
    BY <2>1 DEF DaemonsInv
  <2>4. pc' \in [Daemons -> Stages] /\ DOMAIN settings' = Daemons /\ DOMAIN target' = Daemons
    BY <1>1, <2>1 DEF DaemonsInv
  <2> QED
    BY <1>1, <1>2, <2>1, <2>2, <2>3, <2>4 DEF DaemonsInv, Updated
<1> QED
  BY <1>2, <1>3, <1>4

LEMMA RenameKeeps ==
    ASSUME ConfigInv, NEW d \in Daemons, Renames(d)
    PROVE  ConfigInv'
<1> USE DEF ConfigInv
<1>1. /\ pc[d] = "saving" /\ Replace(Updated(d)) /\ Goes(d, "saving", "replaced")
      /\ rough' = rough /\ (cli' # "idle" => cli # "idle")
      /\ cli' \in {"idle", "opened", "replaced"}
  BY DEF Renames, LosesName, FileInv
<1>2. DaemonsInv'
  BY <1>1, DaemonMoves
<1>3. Good(Updated(d))
  BY <1>1, UpdatedIsGood
<1>4. IsContent(file') /\ Loadable(file')
  BY <1>1, <1>3, SavedContent, SavedLoads DEF Replace, Good
<1>5. FileInv'
  BY <1>1, <1>4 DEF FileInv, Replace
<1> QED
  BY <1>2, <1>5

LEMMA AdoptKeeps ==
    ASSUME ConfigInv, NEW d \in Daemons, Adopts(d) \/ RenameFails(d)
    PROVE  ConfigInv'
<1> USE DEF ConfigInv
<1>1. UNCHANGED <<fileVars, cli, rough>>
  BY DEF Adopts, RenameFails, SaveFails
<1>2. FileInv'
  BY <1>1, FileKept
<1>3. pc[d] \in Clicked /\ pc' = [pc EXCEPT ![d] = "running"]
      /\ target' = [target EXCEPT ![d] = NotUp]
  BY DEF Adopts, Adopt, RenameFails
<1>4. Good(settings[d]) /\ Good(Updated(d))
  BY <1>3, UpdatedIsGood DEF DaemonsInv
<1>5. DOMAIN settings' = Daemons /\ Good(settings'[d])
      /\ \A e \in Daemons \ {d} : settings'[e] = settings[e]
  BY <1>4 DEF Adopts, Adopt, RenameFails, DaemonsInv
<1>6. \A e \in Daemons \ {d} : pc'[e] = pc[e] /\ target'[e] = target[e]
  BY <1>3 DEF DaemonsInv
<1>7. pc' \in [Daemons -> Stages] /\ DOMAIN target' = Daemons /\ pc'[d] = "running"
  BY <1>3 DEF DaemonsInv
<1> QED
  BY <1>2, <1>5, <1>6, <1>7 DEF DaemonsInv, Updated

-----------------------------------------------------------------------------
(* What a daemon does on its own.                                          *)

LEMMA WorkKeeps ==
    ASSUME ConfigInv, NEW d \in Daemons, Works(d)
    PROVE  ConfigInv'
<1> USE DEF ConfigInv
<1>1. CASE LooksAtSocket(d) \/ RemovesStaleSocket(d) \/ Binds(d)
  <2>1. UNCHANGED <<fileVars, cli, rough>>
    BY <1>1 DEF LooksAtSocket, RemovesStaleSocket, Binds
  <2>2. \/ \E from \in {"probing", "connecting", "unlinking", "binding"},
              to \in {"connecting", "unlinking", "binding", "securing"} : Goes(d, from, to)
        \/ Exit(d, Ended(d))
    BY <1>1 DEF LooksAtSocket, Probe, RemovesStaleSocket, Binds
  <2>3. CASE Exit(d, Ended(d))
    BY <2>1, <2>3, EndIsDown, DaemonEnds, FileKept
  <2>4. CASE \E from \in {"probing", "connecting", "unlinking", "binding"},
                 to \in {"connecting", "unlinking", "binding", "securing"} : Goes(d, from, to)
    <3>1. PICK from \in {"probing", "connecting", "unlinking", "binding"},
               to \in {"connecting", "unlinking", "binding", "securing"} : Goes(d, from, to)
      BY <2>4
    <3>2. from \in Stages \ Down /\ to \in Stages \ Down /\ to \notin Clicked
      OBVIOUS
    <3>3. DaemonsInv'
      BY <3>1, <3>2, DaemonMoves
    <3> QED
      BY <2>1, <3>3, FileKept
  <2> QED
    BY <2>2, <2>3, <2>4
<1>2. CASE Secures(d)
  <2>1. UNCHANGED <<fileVars, cli, rough>> /\ pc[d] = "securing"
    BY <1>2 DEF Secures
  <2>2. CASE Exit(d, Ended(d))
    BY <2>1, <2>2, EndIsDown, DaemonEnds, FileKept
  <2>3. CASE ~Exit(d, Ended(d))
    <3>1. pc' = [pc EXCEPT ![d] = "running"] /\ UNCHANGED <<settings, target>>
      BY <1>2, <2>3 DEF Secures
    <3>2. DaemonsInv'
      BY <2>1, <3>1, DaemonsKept DEF DaemonsInv
    <3> QED
      BY <2>1, <3>2, FileKept
  <2> QED
    BY <2>2, <2>3
<1>3. CASE Renames(d)
  BY <1>3, RenameKeeps
<1>4. CASE RenameFails(d) \/ Adopts(d)
  BY <1>4, AdoptKeeps
<1>5. CASE Closes(d)
  <2>1. UNCHANGED <<fileVars, cli, rough>>
        /\ \E s \in Down : Exit(d, s)
    BY <1>5 DEF Closes
  <2> QED
    BY <2>1, DaemonEnds, FileKept
<1> QED
  BY <1>1, <1>2, <1>3, <1>4, <1>5 DEF Works

(* What happens to a daemon.                                               *)
LEMMA DisturbanceKeeps ==
    ASSUME ConfigInv, NEW d \in Daemons, Disturbed(d)
    PROVE  ConfigInv'
<1> USE DEF ConfigInv
<1>1. CASE StartByHand(d)
  BY <1>1, LoadKeeps, FileKept DEF StartByHand
<1>2. CASE Hangs(d) \/ ShutsDown(d)
  <2>1. UNCHANGED <<fileVars, cli, rough>>
        /\ \E to \in {"hung", "closing"} : Goes(d, "running", to)
    BY <1>2 DEF Hangs, ShutsDown
  <2>2. DaemonsInv'
    BY <2>1, DaemonMoves
  <2> QED
    BY <2>1, <2>2, FileKept
<1>3. CASE Crashes(d)
  BY <1>3, EndIsDown, DaemonEnds, FileKept DEF Crashes
<1>4. CASE \E t \in Targets : Click(d, t)
  BY <1>4, ClickKeeps
<1> QED
  BY <1>1, <1>2, <1>3, <1>4 DEF Disturbed

LEMMA SystemdKeeps ==
    ASSUME ConfigInv, Systemd
    PROVE  ConfigInv'
<1> USE DEF ConfigInv
<1>1. Service \in Daemons
  BY SessionAssumption
<1>2. CASE UnitStarts
  <2>1. pc[Service] \in Down /\ LoadSettings(Service) /\ UNCHANGED <<fileVars, cli, rough>>
    BY <1>2 DEF UnitStarts
  <2> QED
    BY <1>1, <2>1, LoadKeeps, FileKept
<1>3. CASE UnitIsCleanedUp
  <2>1. UNCHANGED <<fileVars, cli, rough, settings, target>> /\ pc[Service] \in Down
        /\ \E s \in Down : pc' = [pc EXCEPT ![Service] = s]
    BY <1>3 DEF UnitIsCleanedUp
  <2>2. DaemonsInv'
    BY <1>1, <2>1, DaemonsKept DEF DaemonsInv
  <2> QED
    BY <2>1, <2>2, FileKept
<1> QED
  BY <1>2, <1>3 DEF Systemd

(* People and the disk.                                                    *)
LEMMA OutsideKeeps ==
    ASSUME ConfigInv, Outside
    PROVE  ConfigInv'
<1> USE DEF ConfigInv
<1>1. CASE PowerFails
  <2>1. DaemonsInv'
    BY <1>1, SessionAssumption DEF PowerFails, DaemonsInv
  <2>2. FileInv'
    BY <1>1 DEF PowerFails, LosePower, FileInv
  <2> QED
    BY <2>1, <2>2
<1>2. CASE ~PowerFails
  <2>1. UNCHANGED <<pc, settings, target>>
    BY <1>2 DEF Outside, Asks, Edits, RunsInit, EndsInit, WritesBack, daemonVars
  <2>2. DaemonsInv'
    BY <2>1, DaemonsKept DEF DaemonsInv
  <2>3. FileInv'
    <3>1. CASE \E peer \in Peers : Asks(peer)
      BY <3>1, FileKept DEF Asks
    <3>2. CASE \E text \in Texts : Edits(text)
      <4>1. PICK text \in Texts : Edits(text)
        BY <3>2
      <4>2. /\ file' = text /\ durable' = durable \cup {text} /\ IsContent(text)
            /\ rough' = (rough \/ ~Loadable(text)) /\ (cli' # "idle" => cli # "idle")
            /\ cli' \in {"idle", "opened", "replaced"}
        BY <4>1, SessionAssumption DEF Edits, Rewrite, LosesName, FileInv
      <4> QED
        BY <4>2 DEF FileInv
    <3>3. CASE \E force \in BOOLEAN : RunsInit(force)
      BY <3>3, PlainContents DEF RunsInit, OpenForInit, FileInv
    <3>4. CASE EndsInit
      <4>1. cli' = "idle" /\ rough' = rough /\ rough
        BY <3>4 DEF EndsInit, FileInv
      <4>2. /\ file' \in DefaultParts \cup {file}
            /\ durable' = durable \cup DefaultParts \/ UNCHANGED fileVars
            /\ file' \in durable'
        BY <3>4 DEF EndsInit, WriteOpened, WriteReplaced, FileInv, fileVars
      <4> QED
        BY <4>1, <4>2, PlainContents DEF FileInv, fileVars
    <3>5. CASE WritesBack
      <4>1. /\ file' = file /\ durable' = {file}
            /\ rough' = (cli = "opened" \/ ~Loadable(file)) /\ cli' \in {"idle", "opened"}
            /\ cli' # "idle" => cli = "opened"
        BY <3>5 DEF WritesBack, WriteBack, FileInv
      <4> QED
        BY <4>1 DEF FileInv
    <3> QED
      BY <1>2, <3>1, <3>2, <3>3, <3>4, <3>5 DEF Outside
  <2> QED
    BY <2>2, <2>3
<1> QED
  BY <1>1, <1>2

LEMMA StepKeepsConfigInv == ConfigInv /\ [Next]_vars => ConfigInv'
<1> SUFFICES ASSUME ConfigInv, [Next]_vars PROVE ConfigInv'
  OBVIOUS
<1>1. CASE \E d \in Daemons : Works(d)
  BY <1>1, WorkKeeps
<1>2. CASE \E d \in Daemons : Disturbed(d)
  BY <1>2, DisturbanceKeeps
<1>3. CASE Systemd
  BY <1>3, SystemdKeeps
<1>4. CASE Outside
  BY <1>4, OutsideKeeps
<1>5. CASE (\E d \in Daemons : Accepts(d)) \/ QueryEnds \/ UNCHANGED vars
  <2>1. UNCHANGED <<fileVars, cli, rough, pc, settings, target>>
    BY <1>5 DEF Accepts, QueryEnds, vars, daemonVars
  <2> QED
    BY <2>1, DaemonsKept, FileKept DEF ConfigInv, DaemonsInv
<1> QED
  BY <1>1, <1>2, <1>3, <1>4, <1>5 DEF Next

(* Every daemon that is up has settings that are valid and come from a     *)
(* document, and the disk holds only what a text can be (run_daemon_async, *)
(* TomlConfigRepository::load and save).                                   *)
THEOREM ConfigIsInvariant == Spec => []ConfigInv
BY InitConfigInv, StepKeepsConfigInv, PTL DEF Spec

(* Save never leaves a file that does not load, wherever it is cut short   *)
(* and whatever the disk kept of it (TomlConfigRepository::save).          *)
THEOREM ConfigStaysIntact == Spec => []ConfigIntact
<1>1. ConfigInv => ConfigIntact
  BY DEF ConfigInv, FileInv, ConfigIntact
<1> QED
  BY <1>1, ConfigIsInvariant, PTL

(* What a daemon writes is read back by the next one as it was written,    *)
(* and is valid (ConfigDocument::from, Settings::from and validate).       *)
THEOREM SavesSettle == Spec => []SaveSettles
<1>1. ConfigInv => SaveSettles
  BY ValidAgain, RoundsOnce DEF ConfigInv, DaemonsInv, Good, SaveSettles
<1> QED
  BY <1>1, ConfigIsInvariant, PTL

-----------------------------------------------------------------------------
(* The types: what a daemon has goes with the stage it is in.              *)

Built == Serving \cup {"closing"}

HasItsOwn(d) ==
    /\ pc[d] \in Down => settings[d] = NotUp
    /\ pc[d] \notin Clicked => target[d] = NotUp
    /\ pc[d] \in Built => "monitor" \in DOMAIN services[d]
    /\ pc[d] \notin Built => services[d] = NotUp

StageInv ==
    /\ DOMAIN services = Daemons
    /\ \A d \in Daemons : HasItsOwn(d)

QueryInv == query \in Queries \cup {NoQuery}

LEMMA NothingHas == DOMAIN NotUp = {}
BY DEF NotUp, NoKeys

LEMMA InitStageInv == SessionInit => StageInv /\ QueryInv
BY SessionAssumption DEF SessionInit, SocketInit, StageInv, HasItsOwn, QueryInv, Built

(* One daemon moves, or none.                                              *)
LEMMA OneMoves ==
    ASSUME DaemonsInv, StageInv, NEW d \in Daemons, NEW s, pc' = [pc EXCEPT ![d] = s],
           DOMAIN services' = Daemons,
           \A e \in Daemons \ {d} : /\ settings'[e] = settings[e]
                                    /\ services'[e] = services[e]
                                    /\ target'[e] = target[e],
           pc'[d] = s => HasItsOwn(d)'
    PROVE  StageInv'
<1>1. pc'[d] = s /\ \A e \in Daemons \ {d} : pc'[e] = pc[e]
  BY DEF DaemonsInv
<1>2. \A e \in Daemons \ {d} : HasItsOwn(e)'
  BY <1>1 DEF StageInv, HasItsOwn
<1> QED
  BY <1>1, <1>2 DEF StageInv

LEMMA NoneMoves ==
    ASSUME StageInv, UNCHANGED daemonVars
    PROVE  StageInv'
BY DEF StageInv, HasItsOwn, daemonVars

LEMMA GoingHas ==
    ASSUME DaemonsInv, StageInv, NEW d \in Daemons, NEW from, NEW to, Goes(d, from, to),
           to \notin Down, from \in Clicked <=> to \in Clicked, from \in Built <=> to \in Built
    PROVE  StageInv'
<1>1. /\ pc[d] = from /\ pc' = [pc EXCEPT ![d] = to]
      /\ settings' = settings /\ services' = services /\ target' = target
  BY DEF Goes
<1>2. HasItsOwn(d) /\ DOMAIN services' = Daemons
  BY <1>1 DEF StageInv
<1>3. pc'[d] = to => HasItsOwn(d)'
  <2> HIDE DEF Clicked, Down
  <2> QED
    BY <1>1, <1>2 DEF HasItsOwn
<1> QED
  BY <1>1, <1>2, <1>3, OneMoves

LEMMA EndHas ==
    ASSUME DaemonsInv, StageInv, NEW d \in Daemons, NEW s \in Down, Exit(d, s)
    PROVE  StageInv'
<1>1. /\ pc' = [pc EXCEPT ![d] = s] /\ settings' = [settings EXCEPT ![d] = NotUp]
      /\ services' = [services EXCEPT ![d] = NotUp] /\ target' = [target EXCEPT ![d] = NotUp]
  BY DEF Exit
<1>2. /\ settings'[d] = NotUp /\ services'[d] = NotUp /\ target'[d] = NotUp
      /\ DOMAIN services' = Daemons
      /\ \A e \in Daemons \ {d} : /\ settings'[e] = settings[e]
                                   /\ services'[e] = services[e]
                                   /\ target'[e] = target[e]
  BY <1>1 DEF DaemonsInv, StageInv
<1>3. pc'[d] = s => HasItsOwn(d)'
  BY <1>2 DEF HasItsOwn, Built
<1> QED
  BY <1>1, <1>2, <1>3, OneMoves

LEMMA LoadHas ==
    ASSUME DaemonsInv, StageInv, NEW d \in Daemons, pc[d] \in Down, LoadSettings(d)
    PROVE  StageInv'
<1>1. CASE ~Loadable(file)
  BY <1>1, EndHas, EndIsDown DEF LoadSettings
<1>2. CASE Loadable(file)
  <2>1. /\ pc' = [pc EXCEPT ![d] = "probing"] /\ services' = services /\ target' = target
        /\ \A e \in Daemons \ {d} : settings'[e] = settings[e]
    BY <1>2 DEF LoadSettings, DaemonsInv
  <2>2. HasItsOwn(d) /\ DOMAIN services' = Daemons
    BY <2>1 DEF StageInv
  <2>3. pc'[d] = "probing" => HasItsOwn(d)'
    BY <2>1, <2>2 DEF HasItsOwn, Built
  <2> QED
    BY <2>1, <2>2, <2>3, OneMoves
<1> QED
  BY <1>1, <1>2

(* A rule that is told reaches one of the copies, which are records.       *)
LEMMA ToldHas ==
    ASSUME NEW v, "monitor" \in DOMAIN v, NEW s, NEW t, t.kind \in Kinds
    PROVE  "monitor" \in DOMAIN Told(v, s, t)
<1>1. CASE t.kind = "tree"
  BY <1>1 DEF Told
<1>2. CASE t.kind = "event"
  BY <1>2 DEF Told
<1>3. CASE t.kind = "app"
  BY <1>3 DEF Told
<1> QED
  BY <1>1, <1>2, <1>3 DEF Kinds

LEMMA WorkHas ==
    ASSUME ConfigInv, StageInv, NEW d \in Daemons, Works(d)
    PROVE  StageInv'
<1> USE DEF ConfigInv
<1>1. CASE LooksAtSocket(d) \/ RemovesStaleSocket(d) \/ Binds(d)
  <2>1. \/ \E from \in {"probing", "connecting", "unlinking", "binding"},
              to \in {"connecting", "unlinking", "binding", "securing"} : Goes(d, from, to)
        \/ Exit(d, Ended(d))
    BY <1>1 DEF LooksAtSocket, Probe, RemovesStaleSocket, Binds
  <2> QED
    BY <2>1, EndIsDown, EndHas, GoingHas DEF Built
<1>2. CASE Secures(d)
  <2>1. CASE Exit(d, Ended(d))
    BY <2>1, EndIsDown, EndHas
  <2>2. CASE ~Exit(d, Ended(d))
    <3>1. /\ pc[d] = "securing" /\ pc' = [pc EXCEPT ![d] = "running"]
          /\ UNCHANGED <<settings, target>>
          /\ services' = [services EXCEPT ![d] = ServicesOf(settings[d])]
      BY <1>2, <2>2 DEF Secures
    <3>2. /\ DOMAIN services' = Daemons /\ services'[d] = ServicesOf(settings[d])
          /\ \A e \in Daemons \ {d} : services'[e] = services[e]
      BY <3>1 DEF StageInv
    <3>3. "monitor" \in DOMAIN services'[d] /\ target'[d] = NotUp
      BY <3>1, <3>2 DEF ServicesOf, StageInv, HasItsOwn
    <3>4. pc'[d] = "running" => HasItsOwn(d)'
      BY <3>3 DEF HasItsOwn, Built
    <3> QED
      BY <3>1, <3>2, <3>4, OneMoves
  <2> QED
    BY <2>1, <2>2
<1>3. CASE Renames(d)
  BY <1>3, GoingHas DEF Renames, Built
<1>4. CASE RenameFails(d)
  <2>1. /\ pc[d] = "saving" /\ pc' = [pc EXCEPT ![d] = "running"]
        /\ target' = [target EXCEPT ![d] = NotUp] /\ settings' = settings /\ services' = services
    BY <1>4 DEF RenameFails
  <2>2. target'[d] = NotUp /\ \A e \in Daemons \ {d} : target'[e] = target[e]
    BY <2>1 DEF DaemonsInv
  <2>3. HasItsOwn(d) /\ DOMAIN services' = Daemons
    BY <2>1 DEF StageInv
  <2>4. pc'[d] = "running" => HasItsOwn(d)'
    BY <2>1, <2>2, <2>3 DEF HasItsOwn, Built
  <2> QED
    BY <2>1, <2>2, <2>3, <2>4, OneMoves
<1>5. CASE Adopts(d)
  <2>1. /\ pc[d] = "replaced" /\ pc' = [pc EXCEPT ![d] = "running"]
        /\ settings' = [settings EXCEPT ![d] = Updated(d)]
        /\ services' = [services EXCEPT ![d] = Told(services[d], Updated(d), target[d])]
        /\ target' = [target EXCEPT ![d] = NotUp]
    BY <1>5 DEF Adopts, Adopt
  <2>2. /\ target'[d] = NotUp /\ services'[d] = Told(services[d], Updated(d), target[d])
        /\ DOMAIN services' = Daemons
        /\ \A e \in Daemons \ {d} : /\ settings'[e] = settings[e]
                                     /\ services'[e] = services[e]
                                     /\ target'[e] = target[e]
    BY <2>1 DEF DaemonsInv, StageInv
  <2>3. target[d].kind \in Kinds
    BY <2>1, SessionAssumption DEF DaemonsInv, IsTarget
  <2>4. "monitor" \in DOMAIN services[d]
    BY <2>1 DEF StageInv, HasItsOwn, Built
  <2>5. "monitor" \in DOMAIN services'[d]
    BY <2>2, <2>3, <2>4, ToldHas
  <2>6. pc'[d] = "running" => HasItsOwn(d)'
    BY <2>2, <2>5 DEF HasItsOwn, Built
  <2> QED
    BY <2>1, <2>2, <2>6, OneMoves
<1>6. CASE Closes(d)
  <2>1. \E s \in Down : Exit(d, s)
    BY <1>6 DEF Closes
  <2> QED
    BY <2>1, EndHas
<1> QED
  BY <1>1, <1>2, <1>3, <1>4, <1>5, <1>6 DEF Works

LEMMA DisturbanceHas ==
    ASSUME ConfigInv, StageInv, NEW d \in Daemons, Disturbed(d)
    PROVE  StageInv'
<1> USE DEF ConfigInv
<1>1. CASE StartByHand(d)
  BY <1>1, LoadHas DEF StartByHand
<1>2. CASE Hangs(d) \/ ShutsDown(d)
  <2>1. \E to \in {"hung", "closing"} : Goes(d, "running", to)
    BY <1>2 DEF Hangs, ShutsDown
  <2> QED
    BY <2>1, GoingHas DEF Built
<1>3. CASE Crashes(d)
  BY <1>3, EndIsDown, EndHas DEF Crashes
<1>4. CASE \E t \in Targets : Click(d, t)
  <2>1. CASE UNCHANGED <<pc, target>>
    BY <1>4, <2>1, NoneMoves DEF Click, daemonVars
  <2>2. CASE ~UNCHANGED <<pc, target>>
    <3>1. PICK t \in Targets :
            /\ pc[d] = "running" /\ pc' = [pc EXCEPT ![d] = "saving"]
            /\ target' = [target EXCEPT ![d] = t] /\ settings' = settings /\ services' = services
      BY <1>4, <2>2 DEF Click
    <3>2. \A e \in Daemons \ {d} : target'[e] = target[e]
      BY <3>1 DEF DaemonsInv
    <3>3. HasItsOwn(d) /\ DOMAIN services' = Daemons
      BY <3>1 DEF StageInv
    <3>4. pc'[d] = "saving" => HasItsOwn(d)'
      BY <3>1, <3>3 DEF HasItsOwn, Built
    <3> QED
      BY <3>1, <3>2, <3>3, <3>4, OneMoves
  <2> QED
    BY <2>1, <2>2
<1> QED
  BY <1>1, <1>2, <1>3, <1>4 DEF Disturbed

LEMMA SystemdHas ==
    ASSUME ConfigInv, StageInv, Systemd
    PROVE  StageInv'
<1> USE DEF ConfigInv
<1>1. Service \in Daemons
  BY SessionAssumption
<1>2. CASE UnitStarts
  <2>1. pc[Service] \in Down /\ LoadSettings(Service)
    BY <1>2 DEF UnitStarts
  <2> QED
    BY <1>1, <2>1, LoadHas
<1>3. CASE UnitIsCleanedUp
  <2>1. PICK s \in Down : /\ pc' = [pc EXCEPT ![Service] = s] /\ settings' = settings
                          /\ services' = services /\ target' = target /\ pc[Service] \in Down
    BY <1>3 DEF UnitIsCleanedUp
  <2>2. HasItsOwn(Service) /\ DOMAIN services' = Daemons
    BY <1>1, <2>1 DEF StageInv
  <2>3. pc'[Service] = s => HasItsOwn(Service)'
    BY <2>1, <2>2 DEF HasItsOwn, Built
  <2> QED
    BY <1>1, <2>1, <2>2, <2>3, OneMoves
<1> QED
  BY <1>2, <1>3 DEF Systemd

LEMMA StepKeepsStageInv == ConfigInv /\ StageInv /\ [Next]_vars => StageInv'
<1> SUFFICES ASSUME ConfigInv, StageInv, [Next]_vars PROVE StageInv'
  OBVIOUS
<1>1. CASE \E d \in Daemons : Works(d)
  BY <1>1, WorkHas
<1>2. CASE \E d \in Daemons : Disturbed(d)
  BY <1>2, DisturbanceHas
<1>3. CASE Systemd
  BY <1>3, SystemdHas
<1>4. CASE PowerFails
  BY <1>4, SessionAssumption DEF PowerFails, StageInv, HasItsOwn, Built
<1>5. CASE \/ Outside /\ ~PowerFails
           \/ (\E d \in Daemons : Accepts(d)) \/ QueryEnds \/ UNCHANGED vars
  <2>1. UNCHANGED daemonVars
    BY <1>5 DEF Outside, Asks, Edits, RunsInit, EndsInit, WritesBack, Accepts, QueryEnds, vars
  <2> QED
    BY <2>1, NoneMoves
<1> QED
  BY <1>1, <1>2, <1>3, <1>4, <1>5 DEF Next, Outside

(* A client is asked for by the name of a daemon that listens.             *)
LEMMA QueryKept ==
    ASSUME QueryInv, \/ UNCHANGED query \/ query' = NoQuery
    PROVE  QueryInv'
BY DEF QueryInv

LEMMA StepKeepsQueryInv == SocketInv /\ QueryInv /\ [Next]_vars => QueryInv'
<1> SUFFICES ASSUME SocketInv, QueryInv, [Next]_vars PROVE QueryInv'
  OBVIOUS
<1>1. ASSUME NEW d \in Daemons, Works(d) PROVE QueryInv'
  BY <1>1, QueryKept DEF Works, LooksAtSocket, RemovesStaleSocket, RemoveName, Binds, BindName,
     Secures, Renames, RenameFails, Adopts, Closes, CloseSockets, socketVars
<1>2. ASSUME NEW d \in Daemons, Disturbed(d) PROVE QueryInv'
  BY <1>2, QueryKept DEF Disturbed, StartByHand, Hangs, ShutsDown, DropGuard, Crashes,
     CloseSockets, Click, socketVars
<1>3. CASE Systemd \/ QueryEnds \/ UNCHANGED vars
  BY <1>3, QueryKept DEF Systemd, UnitStarts, UnitIsCleanedUp, QueryEnds, Answer,
     HandlerGivesUp, ClientGivesUp, vars, socketVars
<1>4. CASE Outside
  <2>1. CASE \E peer \in Peers : Asks(peer)
    BY <2>1 DEF Asks, Connect, SomeoneListens, QueryInv, Queries, SocketInv, SocketStages
  <2>2. CASE ~\E peer \in Peers : Asks(peer)
    BY <1>4, <2>2, QueryKept DEF Outside, Edits, RunsInit, EndsInit, WritesBack, PowerFails,
       CloseSockets, socketVars
  <2> QED
    BY <2>1, <2>2
<1>5. ASSUME NEW d \in Daemons, Accepts(d) PROVE QueryInv'
  BY <1>5 DEF Accepts, Accept, QueryInv, Queries
<1> QED
  BY <1>1, <1>2, <1>3, <1>4, <1>5 DEF Next

(* Every variable has its type, a target is there exactly while a save     *)
(* needs it, and only a daemon that is up has settings, services and a     *)
(* socket (run_daemon_async, handle_notification_event).                   *)
THEOREM SessionTypes == Spec => []SessionTypeOK
<1>1. SocketInv /\ ConfigInv /\ StageInv /\ QueryInv => SessionTypeOK
  <2> SUFFICES ASSUME SocketInv, ConfigInv, StageInv, QueryInv PROVE SessionTypeOK
    OBVIOUS
  <2>1. SocketTypeOK /\ IsContent(file) /\ pc \in [Daemons -> Stages]
    BY DEF SocketInv, SocketStages, QueryInv, SocketTypeOK, ConfigInv, FileInv
  <2>2. ASSUME NEW d \in Daemons
        PROVE  /\ settings[d] = NotUp <=> pc[d] \in Down
               /\ settings[d] # NotUp => IsSettings(settings[d])
    <3>1. pc[d] \in Down => settings[d] = NotUp
      BY DEF StageInv, HasItsOwn
    <3>2. pc[d] \notin Down => IsSettings(settings[d])
      BY DEF ConfigInv, DaemonsInv, Good, Read
    <3>3. IsSettings(settings[d]) => settings[d] # NotUp
      BY NothingHas DEF IsSettings, Fields
    <3> QED
      BY <3>1, <3>2, <3>3
  <2>3. ASSUME NEW d \in Daemons
        PROVE  (services[d] # NotUp) = (pc[d] \in Serving \cup {"closing"})
    <3>1. HasItsOwn(d)
      BY DEF StageInv
    <3> QED
      BY <3>1, NothingHas DEF HasItsOwn, Built
  <2>4. ASSUME NEW d \in Daemons
        PROVE  /\ target[d] \in Targets <=> pc[d] \in {"saving", "replaced"}
               /\ d \in listening <=> pc[d] \in Serving \cup {"securing", "closing"}
    <3>1. HasItsOwn(d)
      BY DEF StageInv
    <3>2. NotUp \notin Targets
      BY SessionAssumption DEF NotUp
    <3>3. pc[d] \in Clicked => target[d] \in Targets
      BY DEF ConfigInv, DaemonsInv
    <3>4. d \in listening <=> pc[d] \in Listens
      BY DEF SocketInv, SocketStages
    <3> QED
      BY <3>1, <3>2, <3>3, <3>4 DEF HasItsOwn
  <2> QED
    BY <2>1, <2>2, <2>3, <2>4 DEF SessionTypeOK
<1> QED
  BY <1>1, InitSocketInv, StepSocketInv, InitConfigInv, StepKeepsConfigInv, InitStageInv,
     StepKeepsStageInv, StepKeepsQueryInv, PTL DEF Spec
=============================================================================
