---------------------------- MODULE IgnoreProofs ----------------------------
(***************************************************************************)
(* For all units, words, names, texts, targets and budgets: the daemon     *)
(* implements IgnoreMemory, and its services follow its settings.          *)
(*                                                                         *)
(* The argument.  The rename of a save is the step that keeps a rule: what *)
(* it stores reads back as the daemon's rules and the new one, because the *)
(* rounding of a document touches no list, and from then on the daemon is  *)
(* taken to work with them, for nothing can make it go back; adopting them *)
(* stutters.  Loads start, ends stop, whatever else writes the file        *)
(* rewrites it.  All of it rests on ConfigInv of SessionProofs.            *)
(***************************************************************************)
EXTENDS SessionProofs

Up == {d \in Daemons : pc[d] \notin Down}
RulesWith(d) == IF pc[d] \in Down THEN {}
                ELSE RulesOf(IF pc[d] = "replaced" THEN Updated(d) ELSE settings[d])
Working == [d \in Daemons |-> RulesWith(d)]
Stored == IF file.state = "malformed" THEN {} ELSE RulesOf(SettingsIn(file))
Rules == IgnoreLists \X (Names \cup Paths)

USE DEF Stages, Serving, Down, Clicked

(* The actions of the abstract specification, under the mapping.           *)
LEMMA MemoryStart ==
    ASSUME NEW d \in Daemons, d \notin Up, Up' = Up \cup {d},
           Working' = [Working EXCEPT ![d] = Stored], Stored' = Stored
    PROVE  Memory!Next
BY DEF Memory!Next, Memory!Start, Up, Working, RulesWith, Stored, Rules

LEMMA MemoryStop ==
    ASSUME NEW d \in Daemons, Up' = Up \ {d},
           Working' = [Working EXCEPT ![d] = {}], Stored' = Stored
    PROVE  Memory!Next
BY DEF Memory!Next, Memory!Stop, Up, Working, RulesWith, Stored, Rules

LEMMA MemoryKeep ==
    ASSUME NEW d \in Daemons, d \in Up, Up' = Up, NEW rule \in Rules,
           Stored' = Working[d] \cup {rule},
           Working' = [Working EXCEPT ![d] = Stored']
    PROVE  Memory!Next
BY DEF Memory!Next, Memory!Keep, Up, Working, RulesWith, Stored, Rules

LEMMA MemoryRewritten ==
    ASSUME Stored' \subseteq Rules, Up' = Up, Working' = Working
    PROVE  Memory!Next
BY DEF Memory!Next, Memory!Rewritten, Up, Working, RulesWith, Stored, Rules

LEMMA MemoryPowerLost ==
    ASSUME Stored' \subseteq Rules, Up' = {}, Working' = [d \in Daemons |-> {}]
    PROVE  Memory!Next
BY DEF Memory!Next, Memory!PowerLost, Up, Working, RulesWith, Stored, Rules

LEMMA MemoryStutters ==
    ASSUME Stored' = Stored, Up' = Up, Working' = Working
    PROVE  UNCHANGED Memory!memoryVars
BY DEF Memory!memoryVars, Up, Working, RulesWith, Stored, Rules

-----------------------------------------------------------------------------
(* The mapping, step by step.                                              *)

LEMMA ContentRules ==
    ASSUME NEW c, IsContent(c), c.state # "malformed"
    PROVE  RulesOf(SettingsIn(c)) \subseteq Rules
BY ContentRead, RulesAreEntries DEF Rules

LEMMA StoredRules ==
    ASSUME FileInv
    PROVE  Stored \subseteq Rules
BY ContentRules DEF FileInv, Stored

(* One daemon ends, from wherever it was.                                  *)
LEMMA EndStops ==
    ASSUME DaemonsInv, NEW d \in Daemons, NEW s \in Down, Exit(d, s), file' = file
    PROVE  Memory!Next
<1>1. /\ pc' = [pc EXCEPT ![d] = s] /\ settings' = [settings EXCEPT ![d] = NotUp]
      /\ target' = [target EXCEPT ![d] = NotUp]
  BY DEF Exit
<1>2. \A e \in Daemons \ {d} : pc'[e] = pc[e] /\ settings'[e] = settings[e] /\ target'[e] = target[e]
  BY <1>1 DEF DaemonsInv
<1>3. pc'[d] = s
  BY <1>1 DEF DaemonsInv
<1>4. Up' = Up \ {d}
  BY <1>2, <1>3 DEF Up
<1>5. RulesWith(d)' = {} /\ \A e \in Daemons \ {d} : RulesWith(e)' = RulesWith(e)
  BY <1>2, <1>3 DEF RulesWith, Updated
<1>6. Working' = [Working EXCEPT ![d] = {}]
  BY <1>5 DEF Working
<1>7. Stored' = Stored
  BY DEF Stored
<1> QED
  BY <1>4, <1>6, <1>7, MemoryStop

LEMMA LoadStarts ==
    ASSUME DaemonsInv, NEW d \in Daemons, pc[d] \in Down, LoadSettings(d), file' = file
    PROVE  Memory!Next
<1>1. CASE ~Loadable(file)
  BY <1>1, EndStops, EndIsDown DEF LoadSettings
<1>2. CASE Loadable(file)
  <2>1. /\ pc' = [pc EXCEPT ![d] = "probing"] /\ target' = target
        /\ settings' = [settings EXCEPT ![d] = SettingsIn(file)]
    BY <1>2 DEF LoadSettings
  <2>2. \A e \in Daemons \ {d} : pc'[e] = pc[e] /\ settings'[e] = settings[e] /\ target'[e] = target[e]
    BY <2>1 DEF DaemonsInv
  <2>3. pc'[d] = "probing" /\ settings'[d] = SettingsIn(file)
    BY <2>1 DEF DaemonsInv
  <2>4. Up' = Up \cup {d} /\ d \notin Up
    BY <2>2, <2>3 DEF Up
  <2>5. Stored = RulesOf(SettingsIn(file)) /\ Stored' = Stored
    BY <1>2 DEF Stored, Loadable
  <2>6. RulesWith(d)' = Stored /\ \A e \in Daemons \ {d} : RulesWith(e)' = RulesWith(e)
    BY <2>2, <2>3, <2>5 DEF RulesWith, Updated
  <2>7. Working' = [Working EXCEPT ![d] = Stored]
    BY <2>6 DEF Working
  <2> QED
    BY <2>4, <2>5, <2>7, MemoryStart
<1> QED
  BY <1>1, <1>2

(* Steps that change no rule.                                              *)
LEMMA QuietStutters ==
    ASSUME UNCHANGED <<settings, target, file>>,
           \A d \in Daemons : /\ pc'[d] \in Down <=> pc[d] \in Down
                              /\ pc'[d] = "replaced" <=> pc[d] = "replaced"
    PROVE  UNCHANGED Memory!memoryVars
<1>1. Stored' = Stored /\ Up' = Up
  BY DEF Stored, Up
<1>2. \A d \in Daemons : RulesWith(d)' = RulesWith(d)
  BY DEF RulesWith, Updated
<1>3. Working' = Working
  BY <1>2 DEF Working
<1> QED
  BY <1>1, <1>3, MemoryStutters

LEMMA GoingStutters ==
    ASSUME DaemonsInv, NEW d \in Daemons, NEW from \in Stages \ Down, NEW to \in Stages \ Down,
           Goes(d, from, to), from # "replaced", to # "replaced", file' = file
    PROVE  UNCHANGED Memory!memoryVars
<1>1. pc' = [pc EXCEPT ![d] = to] /\ pc[d] = from /\ UNCHANGED <<settings, target>>
  BY DEF Goes
<1>2. \A e \in Daemons : /\ pc'[e] \in Down <=> pc[e] \in Down
                         /\ pc'[e] = "replaced" <=> pc[e] = "replaced"
  BY <1>1 DEF DaemonsInv
<1> QED
  BY <1>1, <1>2, QuietStutters

(* The rename keeps the rule, in the file and in the daemon.               *)
LEMMA RenameRemembers ==
    ASSUME ConfigInv, NEW d \in Daemons, Renames(d)
    PROVE  Memory!Next
<1>1. /\ pc[d] = "saving" /\ file' = Text(ToDocument(Updated(d)))
      /\ pc' = [pc EXCEPT ![d] = "replaced"] /\ UNCHANGED <<settings, target>>
  BY DEF Renames, Replace, Goes
<1>2. Read(settings[d]) /\ IsTarget(target[d]) /\ Read(Updated(d))
  BY <1>1, UpdatedIsGood, SessionAssumption DEF ConfigInv, DaemonsInv, Good
<1>3. PICK entered \in Names \cup Paths :
         RulesOf(Updated(d)) = RulesOf(settings[d]) \cup {<<ListFor(target[d]), entered>>}
  BY <1>2, IgnoringRules DEF Updated
<1>4. <<ListFor(target[d]), entered>> \in Rules
  BY <1>2, Entry DEF Rules
<1>5. Stored' = RulesOf(Updated(d))
  <2>1. file'.state = "text"
    BY <1>1 DEF Text
  <2>2. Stored' = RulesOf(SettingsIn(file'))
    BY <2>1 DEF Stored
  <2> QED
    BY <1>1, <1>2, <2>2, SavedContent, SavedRules
<1>6. pc'[d] = "replaced" /\ \A e \in Daemons \ {d} : pc'[e] = pc[e]
  BY <1>1 DEF ConfigInv, DaemonsInv
<1>7. /\ RulesWith(d) = RulesOf(settings[d]) /\ RulesWith(d)' = RulesOf(Updated(d))
      /\ \A e \in Daemons \ {d} : RulesWith(e)' = RulesWith(e)
  BY <1>1, <1>6 DEF RulesWith, Updated
<1>8. Up' = Up /\ d \in Up
  BY <1>1, <1>6 DEF Up
<1>9. Working[d] = RulesOf(settings[d]) /\ Working' = [Working EXCEPT ![d] = Stored']
  BY <1>5, <1>7 DEF Working
<1> QED
  BY <1>3, <1>4, <1>5, <1>8, <1>9, MemoryKeep

(* From the rename on the daemon is taken to have the rule: adopting it    *)
(* changes nothing more.                                                   *)
LEMMA AdoptStutters ==
    ASSUME ConfigInv, NEW d \in Daemons, Adopts(d)
    PROVE  UNCHANGED Memory!memoryVars
<1>1. /\ pc[d] = "replaced" /\ pc' = [pc EXCEPT ![d] = "running"] /\ file' = file
      /\ settings' = [settings EXCEPT ![d] = Updated(d)]
      /\ target' = [target EXCEPT ![d] = NotUp]
  BY DEF Adopts, Adopt, fileVars
<1>2. pc'[d] = "running" /\ settings'[d] = Updated(d)
  BY <1>1 DEF ConfigInv, DaemonsInv
<1>3. \A e \in Daemons \ {d} : pc'[e] = pc[e] /\ settings'[e] = settings[e] /\ target'[e] = target[e]
  BY <1>1 DEF ConfigInv, DaemonsInv
<1>4. Up' = Up /\ Stored' = Stored
  BY <1>1, <1>2, <1>3 DEF Up, Stored
<1>5. \A e \in Daemons : RulesWith(e)' = RulesWith(e)
  <2>1. RulesWith(d)' = RulesWith(d)
    BY <1>1, <1>2 DEF RulesWith
  <2>2. ASSUME NEW e \in Daemons \ {d} PROVE RulesWith(e)' = RulesWith(e)
    BY <1>3 DEF RulesWith, Updated
  <2> QED
    BY <2>1, <2>2
<1>6. Working' = Working
  BY <1>5 DEF Working
<1> QED
  BY <1>4, <1>6, MemoryStutters

(* A click begins a save, or a failed one gives up: nothing is kept yet.   *)
LEMMA SavingStutters ==
    ASSUME ConfigInv, NEW d \in Daemons, RenameFails(d) \/ \E t \in Targets : Click(d, t)
    PROVE  UNCHANGED Memory!memoryVars
<1>1. /\ UNCHANGED <<settings, file>>
      /\ pc[d] \in {"running", "saving"} /\ pc'[d] \in {"running", "saving"}
      /\ \A e \in Daemons \ {d} : pc'[e] = pc[e] /\ target'[e] = target[e]
  BY DEF RenameFails, Click, WriteTemporary, SaveFails, fileVars, ConfigInv, DaemonsInv
<1>2. Up' = Up /\ Stored' = Stored
  BY <1>1 DEF Up, Stored
<1>3. \A e \in Daemons : RulesWith(e)' = RulesWith(e)
  <2>1. RulesWith(d)' = RulesWith(d)
    BY <1>1 DEF RulesWith
  <2>2. ASSUME NEW e \in Daemons \ {d} PROVE RulesWith(e)' = RulesWith(e)
    BY <1>1 DEF RulesWith, Updated
  <2> QED
    BY <2>1, <2>2
<1>4. Working' = Working
  BY <1>3 DEF Working
<1> QED
  BY <1>2, <1>4, MemoryStutters

LEMMA WorkMaps ==
    ASSUME ConfigInv, NEW d \in Daemons, Works(d)
    PROVE  [Memory!Next]_(Memory!memoryVars)
<1> USE DEF ConfigInv
<1>1. CASE LooksAtSocket(d) \/ RemovesStaleSocket(d) \/ Binds(d)
  <2>1. file' = file
    BY <1>1 DEF LooksAtSocket, RemovesStaleSocket, Binds, fileVars
  <2>2. \/ \E from \in {"probing", "connecting", "unlinking", "binding"},
              to \in {"connecting", "unlinking", "binding", "securing"} : Goes(d, from, to)
        \/ Exit(d, Ended(d))
    BY <1>1 DEF LooksAtSocket, Probe, RemovesStaleSocket, Binds
  <2>3. CASE Exit(d, Ended(d))
    BY <2>1, <2>3, EndIsDown, EndStops
  <2>4. CASE \E from \in {"probing", "connecting", "unlinking", "binding"},
                 to \in {"connecting", "unlinking", "binding", "securing"} : Goes(d, from, to)
    <3>1. PICK from \in {"probing", "connecting", "unlinking", "binding"},
               to \in {"connecting", "unlinking", "binding", "securing"} : Goes(d, from, to)
      BY <2>4
    <3>2. /\ from \in Stages \ Down /\ to \in Stages \ Down
          /\ from # "replaced" /\ to # "replaced"
      OBVIOUS
    <3> QED
      BY <2>1, <3>1, <3>2, GoingStutters
  <2> QED
    BY <2>2, <2>3, <2>4
<1>2. CASE Secures(d)
  <2>1. file' = file /\ pc[d] = "securing"
    BY <1>2 DEF Secures, fileVars
  <2>2. CASE Exit(d, Ended(d))
    BY <2>1, <2>2, EndIsDown, EndStops
  <2>3. CASE ~Exit(d, Ended(d))
    <3>1. pc' = [pc EXCEPT ![d] = "running"] /\ UNCHANGED <<settings, target>>
      BY <1>2, <2>3 DEF Secures
    <3>2. \A e \in Daemons : /\ pc'[e] \in Down <=> pc[e] \in Down
                             /\ pc'[e] = "replaced" <=> pc[e] = "replaced"
      BY <2>1, <3>1 DEF DaemonsInv
    <3> QED
      BY <2>1, <3>1, <3>2, QuietStutters
  <2> QED
    BY <2>2, <2>3
<1>3. CASE Renames(d)
  BY <1>3, RenameRemembers
<1>4. CASE RenameFails(d) \/ Adopts(d)
  BY <1>4, SavingStutters, AdoptStutters
<1>5. CASE Closes(d)
  <2>1. file' = file /\ \E s \in Down : Exit(d, s)
    BY <1>5 DEF Closes, fileVars
  <2> QED
    BY <2>1, EndStops
<1> QED
  BY <1>1, <1>2, <1>3, <1>4, <1>5 DEF Works

LEMMA DisturbanceMaps ==
    ASSUME ConfigInv, NEW d \in Daemons, Disturbed(d)
    PROVE  [Memory!Next]_(Memory!memoryVars)
<1> USE DEF ConfigInv
<1>1. CASE StartByHand(d)
  BY <1>1, LoadStarts DEF StartByHand, fileVars
<1>2. CASE Hangs(d) \/ ShutsDown(d)
  <2>1. file' = file /\ \E to \in {"hung", "closing"} : Goes(d, "running", to)
    BY <1>2 DEF Hangs, ShutsDown, fileVars
  <2> QED
    BY <2>1, GoingStutters
<1>3. CASE Crashes(d)
  BY <1>3, EndIsDown, EndStops DEF Crashes, fileVars
<1>4. CASE \E t \in Targets : Click(d, t)
  BY <1>4, SavingStutters
<1> QED
  BY <1>1, <1>2, <1>3, <1>4 DEF Disturbed

LEMMA SystemdMaps ==
    ASSUME ConfigInv, Systemd
    PROVE  [Memory!Next]_(Memory!memoryVars)
<1> USE DEF ConfigInv
<1>1. Service \in Daemons
  BY SessionAssumption
<1>2. CASE UnitStarts
  <2>1. pc[Service] \in Down /\ LoadSettings(Service) /\ file' = file
    BY <1>2 DEF UnitStarts, fileVars
  <2> QED
    BY <1>1, <2>1, LoadStarts
<1>3. CASE UnitIsCleanedUp
  <2>1. UNCHANGED <<file, settings, target>>
        /\ pc[Service] \in Down /\ \E s \in Down : pc' = [pc EXCEPT ![Service] = s]
    BY <1>3 DEF UnitIsCleanedUp, fileVars
  <2>2. \A e \in Daemons : /\ pc'[e] \in Down <=> pc[e] \in Down
                           /\ pc'[e] = "replaced" <=> pc[e] = "replaced"
    BY <1>1, <2>1 DEF DaemonsInv
  <2> QED
    BY <2>1, <2>2, QuietStutters
<1> QED
  BY <1>2, <1>3 DEF Systemd

LEMMA OutsideMaps ==
    ASSUME ConfigInv, Outside
    PROVE  [Memory!Next]_(Memory!memoryVars)
<1>1. Stored' \subseteq Rules
  <2>1. file' \in durable'
    BY OutsideKeeps DEF ConfigInv, FileInv
  <2>2. IsContent(file')
    BY <2>1, OutsideKeeps DEF ConfigInv, FileInv
  <2>3. CASE file'.state = "malformed"
    BY <2>3 DEF Stored
  <2>4. CASE file'.state # "malformed"
    BY <2>2, <2>4, ContentRules DEF Stored
  <2> QED
    BY <2>3, <2>4
<1>2. CASE PowerFails
  <2>1. pc' = [d \in Daemons |-> IF d = Service THEN "waiting" ELSE "off"]
    BY <1>2 DEF PowerFails
  <2>2. Up' = {} /\ \A d \in Daemons : RulesWith(d)' = {}
    BY <2>1 DEF Up, RulesWith
  <2>3. Working' = [d \in Daemons |-> {}]
    BY <2>2 DEF Working
  <2> QED
    BY <1>1, <2>2, <2>3, MemoryPowerLost
<1>3. CASE ~PowerFails
  <2>1. UNCHANGED <<pc, settings, target>>
    BY <1>3 DEF Outside, Asks, Edits, RunsInit, EndsInit, WritesBack, daemonVars
  <2>2. Up' = Up /\ \A d \in Daemons : RulesWith(d)' = RulesWith(d)
    BY <2>1 DEF Up, RulesWith, Updated
  <2>3. Working' = Working
    BY <2>2 DEF Working
  <2> QED
    BY <1>1, <2>2, <2>3, MemoryRewritten
<1> QED
  BY <1>2, <1>3

LEMMA StepMaps == ConfigInv /\ [Next]_vars => [Memory!Next]_(Memory!memoryVars)
<1> SUFFICES ASSUME ConfigInv, [Next]_vars PROVE [Memory!Next]_(Memory!memoryVars)
  OBVIOUS
<1>1. CASE \E d \in Daemons : Works(d)
  BY <1>1, WorkMaps
<1>2. CASE \E d \in Daemons : Disturbed(d)
  BY <1>2, DisturbanceMaps
<1>3. CASE Systemd
  BY <1>3, SystemdMaps
<1>4. CASE Outside
  BY <1>4, OutsideMaps
<1>5. CASE (\E d \in Daemons : Accepts(d)) \/ QueryEnds \/ UNCHANGED vars
  <2>1. UNCHANGED <<file, pc, settings, target>>
    BY <1>5 DEF Accepts, QueryEnds, vars, daemonVars, fileVars
  <2> QED
    BY <2>1, QuietStutters
<1> QED
  BY <1>1, <1>2, <1>3, <1>4, <1>5 DEF Next

LEMMA InitMaps == SessionInit => Memory!Init
<1> SUFFICES ASSUME SessionInit PROVE Memory!Init
  OBVIOUS
<1>1. Stored \subseteq Rules
  BY InitConfigInv, StoredRules DEF ConfigInv
<1>2. \A d \in Daemons : pc[d] \in Down
  BY DEF SessionInit
<1>3. Up = {} /\ \A d \in Daemons : RulesWith(d) = {}
  BY <1>2 DEF Up, RulesWith
<1>4. Working = [d \in Daemons |-> {}]
  BY <1>3 DEF Working
<1> QED
  BY <1>1, <1>3, <1>4 DEF Memory!Init, Up, Working, RulesWith, Stored, Rules

(* "Always ignore" is one step for everybody who looks: the daemon         *)
(* implements IgnoreMemory (handle_notification_event).                    *)
THEOREM IgnoringIsAtomic == Spec => IgnoresAtomically
<1>1. Spec => []ConfigInv
  BY ConfigIsInvariant
<1> QED
  BY <1>1, InitMaps, StepMaps, PTL DEF Spec, IgnoresAtomically, Memory!Spec

-----------------------------------------------------------------------------
(* The services follow the settings.                                       *)

Follow(v, s) ==
    \E e : /\ v = [monitor |-> ProtectionPolicy(s), emergency |-> e,
                   background |-> ProtectionPolicy(s), trees |-> StaleIgnores(s),
                   apps |-> BackgroundIgnores(s)]
           /\ \A f \in {"protected_names", "protected_executables"} : e[f] = s[f]

ServicesInv ==
    /\ DOMAIN services = Daemons
    /\ \A d \in Daemons : pc[d] \in Serving => Follow(services[d], settings[d])

LEMMA BuiltFollow ==
    ASSUME NEW s
    PROVE  Follow(ServicesOf(s), s)
BY DEF Follow, ServicesOf, ProtectionPolicy

(* A rule reaches the copies of its kind; it protects nothing, and the     *)
(* other copies have no place for it.                                      *)
LEMMA ToldFollow ==
    ASSUME NEW s, Read(s), NEW t, IsTarget(t), NEW v, Follow(v, s)
    PROVE  Follow(Told(v, Ignoring(s, t), t), Ignoring(s, t))
<1> DEFINE u == Ignoring(s, t)
           l == ListFor(t)
<1>1. PICK e : /\ v = [monitor |-> ProtectionPolicy(s), emergency |-> e,
                       background |-> ProtectionPolicy(s), trees |-> StaleIgnores(s),
                       apps |-> BackgroundIgnores(s)]
               /\ \A f \in {"protected_names", "protected_executables"} : e[f] = s[f]
  BY DEF Follow
<1>2. u[l] = s[l] \cup EntryFor(t) /\ \A f \in Fields \ {l} : u[f] = s[f]
  BY IgnoringFields
<1>3. {"protected_names", "protected_executables"} \cup IgnoreLists \subseteq Fields
      /\ l \in IgnoreLists
  BY Entry, Keys DEF Fields, NameLists, PathLists
<1>4. \A f \in {"protected_names", "protected_executables"} : e[f] = u[f]
  BY <1>1, <1>2, <1>3 DEF IgnoreLists
<1>5. CASE t.kind = "tree"
  <2>1. l = "stale_ignored_names"
    BY <1>5 DEF ListFor
  <2>2. /\ StaleIgnores(u) = StaleIgnores(s) \cup EntryFor(t)
        /\ ProtectionPolicy(u) = ProtectionPolicy(s)
        /\ BackgroundIgnores(u) = BackgroundIgnores(s)
    BY <1>2, <1>3, <2>1 DEF StaleIgnores, ProtectionPolicy, BackgroundIgnores, IgnoreLists
  <2>3. Told(v, u, t) = [v EXCEPT !.trees = @ \cup EntryFor(t)]
    BY <1>5 DEF Told
  <2> QED
    BY <1>1, <1>4, <2>2, <2>3 DEF Follow
<1>6. CASE t.kind = "event"
  <2>1. l \in {"ignored_names", "ignored_executables"}
    BY <1>6 DEF ListFor
  <2>2. /\ StaleIgnores(u) = StaleIgnores(s)
        /\ ProtectionPolicy(u) = [ProtectionPolicy(s) EXCEPT ![l] = @ \cup EntryFor(t)]
        /\ BackgroundIgnores(u) = BackgroundIgnores(s)
    BY <1>2, <1>3, <2>1 DEF StaleIgnores, ProtectionPolicy, BackgroundIgnores, IgnoreLists
  <2>3. Told(v, u, t) = [v EXCEPT !.monitor[l] = @ \cup EntryFor(t),
                                  !.background = ProtectionPolicy(u)]
    BY <1>6 DEF Told
  <2> QED
    BY <1>1, <1>4, <2>2, <2>3 DEF Follow
<1>7. CASE t.kind = "app"
  <2>1. l = IF t.executable = {} THEN "background_ignored_names"
                                 ELSE "background_ignored_executables"
    BY <1>7 DEF ListFor
  <2>2. /\ StaleIgnores(u) = StaleIgnores(s)
        /\ ProtectionPolicy(u) = ProtectionPolicy(s)
    BY <1>2, <1>3, <2>1 DEF StaleIgnores, ProtectionPolicy, IgnoreLists
  <2>3. BackgroundIgnores(u) =
          IF t.executable = {}
            THEN [BackgroundIgnores(s) EXCEPT !.names = @ \cup EntryFor(t)]
            ELSE [BackgroundIgnores(s) EXCEPT !.executables = @ \cup EntryFor(t)]
    BY <1>2, <1>3, <2>1 DEF BackgroundIgnores, IgnoreLists
  <2>4. Told(v, u, t) =
          IF t.executable = {} THEN [v EXCEPT !.apps.names = @ \cup EntryFor(t)]
                               ELSE [v EXCEPT !.apps.executables = @ \cup EntryFor(t)]
    BY <1>7 DEF Told
  <2> QED
    BY <1>1, <1>4, <2>2, <2>3, <2>4 DEF Follow
<1> QED
  BY <1>5, <1>6, <1>7 DEF IsTarget, Kinds

LEMMA ServicesKept ==
    ASSUME ServicesInv, DOMAIN services' = Daemons,
           \A d \in Daemons : pc'[d] \in Serving =>
               /\ pc[d] \in Serving
               /\ services'[d] = services[d] /\ settings'[d] = settings[d]
    PROVE  ServicesInv'
<1> HIDE DEF Serving
<1> QED
  BY DEF ServicesInv

(* A daemon that ends or does not serve has no copies to follow.           *)
LEMMA SilentKeeps ==
    ASSUME DaemonsInv, ServicesInv, NEW d \in Daemons, NEW s \in Stages \ Serving,
           pc' = [pc EXCEPT ![d] = s], DOMAIN services' = Daemons,
           \A e \in Daemons \ {d} : services'[e] = services[e] /\ settings'[e] = settings[e]
    PROVE  ServicesInv'
<1>1. pc'[d] = s /\ \A e \in Daemons \ {d} : pc'[e] = pc[e]
  BY DEF DaemonsInv
<1> QED
  BY <1>1, ServicesKept

LEMMA ExitKeepsServices ==
    ASSUME DaemonsInv, ServicesInv, NEW d \in Daemons, NEW s \in Down, Exit(d, s)
    PROVE  ServicesInv'
<1>1. /\ pc' = [pc EXCEPT ![d] = s] /\ DOMAIN services' = Daemons
      /\ \A e \in Daemons \ {d} : services'[e] = services[e] /\ settings'[e] = settings[e]
  BY DEF Exit, DaemonsInv, ServicesInv
<1> QED
  BY <1>1, SilentKeeps

LEMMA LoadKeepsServices ==
    ASSUME DaemonsInv, ServicesInv, NEW d \in Daemons, LoadSettings(d)
    PROVE  ServicesInv'
<1>1. CASE ~Loadable(file)
  BY <1>1, ExitKeepsServices, EndIsDown DEF LoadSettings
<1>2. CASE Loadable(file)
  <2>1. /\ pc' = [pc EXCEPT ![d] = "probing"] /\ services' = services
        /\ \A e \in Daemons \ {d} : settings'[e] = settings[e]
    BY <1>2 DEF LoadSettings, DaemonsInv
  <2>2. DOMAIN services' = Daemons
    BY <2>1 DEF ServicesInv
  <2> QED
    BY <2>1, <2>2, SilentKeeps
<1> QED
  BY <1>1, <1>2

LEMMA GoingKeepsServices ==
    ASSUME DaemonsInv, ServicesInv, NEW d \in Daemons, NEW from, NEW to \in Stages,
           Goes(d, from, to), to \in Serving => from \in Serving
    PROVE  ServicesInv'
<1>1. pc' = [pc EXCEPT ![d] = to] /\ pc[d] = from /\ UNCHANGED <<settings, services>>
  BY DEF Goes
<1>2. \A e \in Daemons : pc'[e] \in Serving => pc[e] \in Serving
  BY <1>1 DEF DaemonsInv
<1>3. DOMAIN services' = Daemons
  BY <1>1 DEF ServicesInv
<1> QED
  BY <1>1, <1>2, <1>3, ServicesKept

LEMMA WorkKeepsServices ==
    ASSUME ConfigInv, ServicesInv, NEW d \in Daemons, Works(d)
    PROVE  ServicesInv'
<1> USE DEF ConfigInv
<1>1. CASE LooksAtSocket(d) \/ RemovesStaleSocket(d) \/ Binds(d)
  <2>1. \/ \E from \in {"probing", "connecting", "unlinking", "binding"},
              to \in {"connecting", "unlinking", "binding", "securing"} : Goes(d, from, to)
        \/ Exit(d, Ended(d))
    BY <1>1 DEF LooksAtSocket, Probe, RemovesStaleSocket, Binds
  <2> QED
    BY <2>1, EndIsDown, ExitKeepsServices, GoingKeepsServices
<1>2. CASE Secures(d)
  <2>1. CASE Exit(d, Ended(d))
    BY <2>1, EndIsDown, ExitKeepsServices
  <2>2. CASE ~Exit(d, Ended(d))
    <3>1. /\ pc' = [pc EXCEPT ![d] = "running"] /\ UNCHANGED settings
          /\ services' = [services EXCEPT ![d] = ServicesOf(settings[d])]
      BY <1>2, <2>2 DEF Secures
    <3>2. /\ DOMAIN services' = Daemons /\ services'[d] = ServicesOf(settings[d])
          /\ \A e \in Daemons \ {d} : services'[e] = services[e] /\ pc'[e] = pc[e]
      BY <3>1 DEF ServicesInv, DaemonsInv
    <3> QED
      BY <3>1, <3>2, BuiltFollow DEF ServicesInv
  <2> QED
    BY <2>1, <2>2
<1>3. CASE Renames(d)
  BY <1>3, GoingKeepsServices DEF Renames
<1>4. CASE RenameFails(d)
  <2>1. /\ pc[d] = "saving" /\ pc' = [pc EXCEPT ![d] = "running"]
        /\ UNCHANGED <<settings, services>>
    BY <1>4 DEF RenameFails
  <2>2. \A e \in Daemons : pc'[e] \in Serving => pc[e] \in Serving
    BY <2>1 DEF DaemonsInv
  <2> QED
    BY <2>1, <2>2, ServicesKept DEF ServicesInv
<1>5. CASE Adopts(d)
  <2>1. /\ pc[d] = "replaced" /\ pc' = [pc EXCEPT ![d] = "running"]
        /\ settings' = [settings EXCEPT ![d] = Updated(d)]
        /\ services' = [services EXCEPT ![d] = Told(services[d], Updated(d), target[d])]
    BY <1>5 DEF Adopts, Adopt
  <2>2. /\ settings'[d] = Updated(d) /\ services'[d] = Told(services[d], Updated(d), target[d])
        /\ \A e \in Daemons \ {d} : /\ services'[e] = services[e] /\ pc'[e] = pc[e]
                                    /\ settings'[e] = settings[e]
        /\ DOMAIN services' = Daemons
    BY <2>1 DEF DaemonsInv, ServicesInv
  <2>3. Read(settings[d]) /\ IsTarget(target[d]) /\ Follow(services[d], settings[d])
    BY <2>1, SessionAssumption DEF DaemonsInv, ServicesInv, Good
  <2>4. Follow(services'[d], settings'[d])
    BY <2>2, <2>3, ToldFollow DEF Updated
  <2> QED
    BY <2>2, <2>4 DEF ServicesInv
<1>6. CASE Closes(d)
  <2>1. \E s \in Down : Exit(d, s)
    BY <1>6 DEF Closes
  <2> QED
    BY <2>1, ExitKeepsServices
<1> QED
  BY <1>1, <1>2, <1>3, <1>4, <1>5, <1>6 DEF Works

LEMMA DisturbanceKeepsServices ==
    ASSUME ConfigInv, ServicesInv, NEW d \in Daemons, Disturbed(d)
    PROVE  ServicesInv'
<1> USE DEF ConfigInv
<1>1. CASE StartByHand(d)
  BY <1>1, LoadKeepsServices DEF StartByHand
<1>2. CASE Hangs(d) \/ ShutsDown(d)
  <2>1. \E to \in {"hung", "closing"} : Goes(d, "running", to)
    BY <1>2 DEF Hangs, ShutsDown
  <2> QED
    BY <2>1, GoingKeepsServices
<1>3. CASE Crashes(d)
  BY <1>3, EndIsDown, ExitKeepsServices DEF Crashes
<1>4. CASE \E t \in Targets : Click(d, t)
  <2>1. /\ UNCHANGED <<settings, services>>
        /\ \A e \in Daemons : pc'[e] \in Serving => pc[e] \in Serving
    BY <1>4 DEF Click, DaemonsInv
  <2> QED
    BY <2>1, ServicesKept DEF ServicesInv
<1> QED
  BY <1>1, <1>2, <1>3, <1>4 DEF Disturbed

LEMMA StepKeepsServices == ConfigInv /\ ServicesInv /\ [Next]_vars => ServicesInv'
<1> SUFFICES ASSUME ConfigInv, ServicesInv, [Next]_vars PROVE ServicesInv'
  OBVIOUS
<1>1. CASE \E d \in Daemons : Works(d)
  BY <1>1, WorkKeepsServices
<1>2. CASE \E d \in Daemons : Disturbed(d)
  BY <1>2, DisturbanceKeepsServices
<1>3. CASE UnitStarts
  BY <1>3, LoadKeepsServices, SessionAssumption DEF UnitStarts, ConfigInv
<1>4. CASE UnitIsCleanedUp
  <2>1. /\ UNCHANGED <<settings, services>>
        /\ \E s \in Down : pc' = [pc EXCEPT ![Service] = s]
    BY <1>4 DEF UnitIsCleanedUp
  <2> QED
    BY <2>1, SilentKeeps, SessionAssumption DEF ConfigInv, ServicesInv
<1>5. CASE PowerFails
  BY <1>5 DEF PowerFails, ServicesInv
<1>6. CASE \/ Outside /\ ~PowerFails
           \/ (\E d \in Daemons : Accepts(d)) \/ QueryEnds \/ UNCHANGED vars
  <2>1. UNCHANGED <<pc, settings, services>>
    BY <1>6 DEF Outside, Asks, Edits, RunsInit, EndsInit, WritesBack, Accepts, QueryEnds,
                vars, daemonVars
  <2> QED
    BY <2>1, ServicesKept DEF ServicesInv
<1> QED
  BY <1>1, <1>2, <1>3, <1>4, <1>5, <1>6 DEF Next, Systemd, Outside

(* The services of a daemon ignore exactly what its settings say, whatever *)
(* was clicked on in which order (the adopt arms of                        *)
(* handle_notification_event).                                             *)
THEOREM ServicesFollow == Spec => []PoliciesFollow
<1>1. SessionInit => ServicesInv
  BY DEF SessionInit, ServicesInv
<1>2. ServicesInv => PoliciesFollow
  <2> SUFFICES ASSUME ServicesInv, NEW d \in Daemons, pc[d] \in {"running", "saving", "hung"}
               PROVE  /\ services[d].monitor = ProtectionPolicy(settings[d])
                      /\ services[d].background = ProtectionPolicy(settings[d])
                      /\ services[d].trees = StaleIgnores(settings[d])
                      /\ services[d].apps = BackgroundIgnores(settings[d])
                      /\ \A f \in {"protected_names", "protected_executables"} :
                           services[d].emergency[f] = settings[d][f]
    BY DEF PoliciesFollow
  <2>1. Follow(services[d], settings[d])
    BY DEF ServicesInv
  <2> QED
    BY <2>1 DEF Follow
<1> QED
  BY <1>1, <1>2, StepKeepsServices, ConfigIsInvariant, PTL DEF Spec
=============================================================================
