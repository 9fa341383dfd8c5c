--------------------------- MODULE SettingsProofs ---------------------------
(***************************************************************************)
(* For all units and words that satisfy SettingsAssumption: what a         *)
(* document gives can be read, the defaults are valid, what is written of  *)
(* settings that were read is read back rounded down and valid, and        *)
(* rounding once is enough.  A rule added by "Always ignore" is one entry  *)
(* more, and the document keeps it.                                        *)
(***************************************************************************)
EXTENDS ConfigFile, TLAPS

(* Division of words.                                                      *)
LEMMA Divide ==
    ASSUME NEW x \in Nat, NEW u \in Nat \ {0}
    PROVE  /\ x \div u \in Nat
           /\ (x \div u) * u <= x
           /\ x < (x \div u) * u + u
OBVIOUS

LEMMA DivideMultiple ==
    ASSUME NEW k \in Nat, NEW u \in Nat \ {0}
    PROVE  (k * u) \div u = k
OBVIOUS

LEMMA DivideMonotone ==
    ASSUME NEW x \in Nat, NEW y \in Nat, NEW u \in Nat \ {0}, x <= y
    PROVE  x \div u <= y \div u
OBVIOUS

-----------------------------------------------------------------------------
(* Keys and their types: the groups of keys are disjoint, and each has the *)
(* type of its values.                                                     *)
LEMMA Keys ==
    /\ Fields = Integral \cup Percents \cup Loads \cup Switches \cup {"action"}
                    \cup NameLists \cup PathLists
    /\ Integral = Sizes \cup Minutes \cup Numbers
    /\ (Sizes \cup Minutes) \cap (Fields \ (Sizes \cup Minutes)) = {}
    /\ Numbers \cap (Sizes \cup Minutes) = {}
    /\ (Percents \cup Loads \cup Switches \cup {"action"} \cup NameLists \cup PathLists) \cap Integral = {}
    /\ IgnoreLists \subseteq NameLists \cup PathLists
    /\ NameLists \cap PathLists = {}
BY DEF Fields, Integral, Sizes, Minutes, Numbers, Percents, Loads, Switches, NameLists, PathLists, IgnoreLists

LEMMA Types ==
    /\ \A f \in Integral : \A v : Typed(f, v) <=> v \in Nat
    /\ \A f \in Percents \cup Loads : \A v : Typed(f, v) <=> v \in Int \cup {NaN}
    /\ \A f \in Switches : \A v : Typed(f, v) <=> v \in BOOLEAN
    /\ \A v : Typed("action", v) <=> v \in ActionNames
    /\ \A f \in NameLists : \A v : Typed(f, v) <=> v \subseteq Names
    /\ \A f \in PathLists : \A v : Typed(f, v) <=> v \subseteq Paths
<1>1. /\ \A f \in Percents \cup Loads \cup Switches \cup {"action"} \cup NameLists \cup PathLists :
              f \notin Integral
      /\ \A f \in Switches \cup {"action"} \cup NameLists \cup PathLists :
              f \notin Percents \cup Loads
      /\ \A f \in {"action"} \cup NameLists \cup PathLists : f \notin Switches
      /\ "action" \notin NameLists \cup PathLists
      /\ \A f \in NameLists : f \notin PathLists
  <2>1. \A f \in Percents \cup Loads \cup Switches \cup {"action"} \cup NameLists \cup PathLists :
            f \notin Integral
    BY Keys
  <2>2. \A f \in Switches \cup {"action"} : f \notin Percents \cup Loads
    BY DEF Percents, Loads, Switches
  <2>3. \A f \in NameLists \cup PathLists : f \notin Percents \cup Loads \cup Switches
    BY DEF NameLists, PathLists, Percents, Loads, Switches
  <2>4. "action" \notin Switches \cup NameLists \cup PathLists
    BY DEF Switches, NameLists, PathLists
  <2>5. \A f \in NameLists : f \notin PathLists
    BY Keys
  <2> QED
    BY <2>1, <2>2, <2>3, <2>4, <2>5
<1>2. ASSUME NEW f \in Integral, NEW v
      PROVE  Typed(f, v) <=> v \in Nat
  <2>1. /\ f \notin Percents \cup Loads /\ f \notin Switches /\ f # "action"
        /\ f \notin NameLists /\ f \notin PathLists
    BY <1>1
  <2> QED
    BY Zenon, <2>1 DEF Typed
<1>3. ASSUME NEW f \in Percents \cup Loads, NEW v
      PROVE  Typed(f, v) <=> v \in Int \cup {NaN}
  <2>1. /\ f \notin Integral /\ f \notin Switches /\ f # "action"
        /\ f \notin NameLists /\ f \notin PathLists
    BY <1>1
  <2> QED
    BY Zenon, <2>1 DEF Typed
<1>4. ASSUME NEW f \in Switches, NEW v
      PROVE  Typed(f, v) <=> v \in BOOLEAN
  <2>1. /\ f \notin Integral /\ f \notin Percents \cup Loads /\ f # "action"
        /\ f \notin NameLists /\ f \notin PathLists
    BY <1>1
  <2> QED
    BY Zenon, <2>1 DEF Typed
<1>5. ASSUME NEW v
      PROVE  Typed("action", v) <=> v \in ActionNames
  <2>1. /\ "action" \notin Integral /\ "action" \notin Percents \cup Loads /\ "action" \notin Switches
        /\ "action" \notin NameLists /\ "action" \notin PathLists
    BY <1>1
  <2> QED
    BY Zenon, <2>1 DEF Typed
<1>6. ASSUME NEW f \in NameLists, NEW v
      PROVE  Typed(f, v) <=> v \subseteq Names
  <2>1. /\ f \notin Integral /\ f \notin Percents \cup Loads /\ f \notin Switches
        /\ f # "action" /\ f \notin PathLists
    BY <1>1
  <2> QED
    BY Zenon, <2>1 DEF Typed
<1>7. ASSUME NEW f \in PathLists, NEW v
      PROVE  Typed(f, v) <=> v \subseteq Paths
  <2>1. /\ f \notin Integral /\ f \notin Percents \cup Loads /\ f \notin Switches
        /\ f # "action" /\ f \notin NameLists
    BY <1>1
  <2> QED
    BY Zenon, <2>1 DEF Typed
<1> QED
  BY Zenon, <1>2, <1>3, <1>4, <1>5, <1>6, <1>7

(* What SettingsAssumption gives, in the forms the proofs need.            *)
LEMMA Units == \A f \in Sizes \cup Minutes : Unit(f) \in Nat \ {0}
BY SettingsAssumption DEF Unit, SecondsPerMinute

LEMMA Bounds ==
    /\ Mib \in Nat \ {0} /\ LastWord \in Nat /\ LastInt \in Nat
    /\ 3600 <= LastInt /\ LastInt + 60 <= LastWord
    /\ 2048 * Mib <= LastWord
    /\ LastWord < (LastInt + 1) * Mib /\ LastWord < (LastInt + 1) * 60
BY SettingsAssumption DEF SecondsPerMinute

(* The defaults (Settings::default), key by key.                           *)
LEMMA DefaultKeys == DOMAIN DefaultSettings = Fields
BY SMTT(60) DEF DefaultSettings, Fields, Integral, Sizes, Minutes, Numbers, Percents, Loads, Switches, NameLists, PathLists

LEMMA DefaultValues ==
    /\ DefaultSettings["max_memory"] = 2048 * Mib
    /\ DefaultSettings["emergency_available"] = 512 * Mib
    /\ DefaultSettings["action_available"] = 1024 * Mib
    /\ DefaultSettings["minimum_tree_memory"] = 256 * Mib
    /\ DefaultSettings["minimum_group_memory"] = 512 * Mib
    /\ DefaultSettings["minimum_memory"] = 256 * Mib
    /\ DefaultSettings["large_memory"] = 512 * Mib
    /\ DefaultSettings["minimum_memory_growth"] = 128 * Mib
    /\ DefaultSettings["stale_minimum_age"] = 3600
    /\ DefaultSettings["stale_cooldown"] = 1800
    /\ DefaultSettings["background_minimum_age"] = 3600
    /\ DefaultSettings["growth_window"] = 1800
    /\ DefaultSettings["background_cooldown"] = 1800
    /\ DefaultSettings["poll_interval"] = 5
    /\ DefaultSettings["consecutive_samples"] = 3
    /\ DefaultSettings["minimum_duration"] = 10
    /\ DefaultSettings["cooldown"] = 600
    /\ DefaultSettings["critical_samples"] = 2
    /\ DefaultSettings["warning_poll_interval"] = 1000
    /\ DefaultSettings["critical_poll_interval"] = 500
    /\ DefaultSettings["term_grace_period"] = 3
    /\ DefaultSettings["action_cooldown"] = 30
    /\ DefaultSettings["minimum_group_trees"] = 2
    /\ DefaultSettings["stale_samples"] = 3
    /\ DefaultSettings["minimum_process_count_growth"] = 2
    /\ DefaultSettings["background_samples"] = 3
    /\ DefaultSettings["sample_interval"] = 60
    /\ DefaultSettings["grace_period"] = 10
    /\ DefaultSettings["timeout"] = 15
    /\ DefaultSettings["warning_available"] = 15
    /\ DefaultSettings["critical_available"] = 8
    /\ DefaultSettings["critical_swap_used"] = 90
    /\ DefaultSettings["recovery_available"] = 20
    /\ DefaultSettings["max_cpu"] = 90
    /\ DefaultSettings["critical_psi"] = 5
    /\ DefaultSettings["action_psi"] = 5
    /\ DefaultSettings["stale_maximum_cpu"] = 5
    /\ DefaultSettings["background_maximum_cpu"] = 5
    /\ DefaultSettings["allowed_names"] = {}
    /\ DefaultSettings["exempt_names"] = {Itself}
    /\ DefaultSettings["candidate_names"] = {}
    /\ DefaultSettings["launcher_names"] = {}
    /\ DefaultSettings["stale_ignored_names"] = {}
    /\ DefaultSettings["background_ignored_names"] = {}
    /\ DefaultSettings["protected_names"] = {Itself}
    /\ DefaultSettings["ignored_names"] = {}
BY DEF DefaultSettings

LEMMA DefaultLists ==
    /\ \A f \in Switches : DefaultSettings[f] \in BOOLEAN
    /\ DefaultSettings["action"] \in ActionNames
    /\ \A f \in NameLists : DefaultSettings[f] \subseteq {Itself}
    /\ \A f \in PathLists \cup IgnoreLists : DefaultSettings[f] = {}
<1>1. \A f \in Switches : DefaultSettings[f] \in BOOLEAN
  <2>1. /\ DefaultSettings["pressure_enabled"] \in BOOLEAN
        /\ DefaultSettings["allow_sigkill"] \in BOOLEAN
        /\ DefaultSettings["stale_enabled"] \in BOOLEAN
        /\ DefaultSettings["notify_only_under_pressure"] \in BOOLEAN
        /\ DefaultSettings["background_enabled"] \in BOOLEAN
        /\ DefaultSettings["notifications_enabled"] \in BOOLEAN
    BY DEF DefaultSettings
  <2> QED
    BY <2>1 DEF Switches
<1>2. DefaultSettings["action"] \in ActionNames
  BY SMTT(30) DEF DefaultSettings, ActionNames
<1>3. \A f \in NameLists : DefaultSettings[f] \subseteq {Itself}
  BY DefaultValues DEF NameLists
<1>4. \A f \in PathLists : DefaultSettings[f] = {}
  BY SMTT(30) DEF DefaultSettings, PathLists
<1>5. \A f \in IgnoreLists : DefaultSettings[f] = {}
  BY SMTT(30) DEF DefaultSettings, IgnoreLists
<1> QED
  BY <1>1, <1>2, <1>3, <1>4, <1>5

-----------------------------------------------------------------------------
(* Settings that were read of a document: a size or a duration in minutes  *)
(* is a multiple of its unit or the largest word.                          *)
Read(s) ==
    /\ IsSettings(s)
    /\ \A f \in Sizes \cup Minutes : s[f] = LastWord \/ \E k \in 0..LastInt : s[f] = k * Unit(f)
    /\ \A f \in Numbers : s[f] <= LastInt

(* The defaults are what a document could give, and valid.                 *)
LEMMA DefaultsRead == Read(DefaultSettings)
<1>1. \A f \in Sizes : DefaultSettings[f] \in Nat /\ DefaultSettings[f] <= LastWord
                       /\ \E k \in 0..LastInt : DefaultSettings[f] = k * Unit(f)
  <2>1. \A f \in Sizes : \E k \in {128, 256, 512, 1024, 2048} : DefaultSettings[f] = k * Mib
    BY DefaultValues DEF Sizes
  <2>2. \A k \in {128, 256, 512, 1024, 2048} :
           k \in 0..LastInt /\ k * Mib \in Nat /\ k * Mib <= LastWord
    BY SettingsAssumption
  <2> QED
    BY <2>1, <2>2 DEF Unit
<1>2. \A f \in Minutes : DefaultSettings[f] \in Nat /\ DefaultSettings[f] <= LastWord
                         /\ \E k \in 0..LastInt : DefaultSettings[f] = k * Unit(f)
  <2>1. \A f \in Minutes : \E k \in {30, 60} : DefaultSettings[f] = k * 60
    BY DefaultValues DEF Minutes
  <2>2. \A f \in Minutes : Unit(f) = 60
    BY DEF Unit, Sizes, Minutes, SecondsPerMinute
  <2>3. \A k \in {30, 60} : k \in 0..LastInt /\ k * 60 \in Nat /\ k * 60 <= LastWord
    BY SettingsAssumption DEF SecondsPerMinute
  <2> QED
    BY <2>1, <2>2, <2>3
<1>3. \A f \in Numbers : DefaultSettings[f] \in Nat /\ DefaultSettings[f] <= 3600
  BY DefaultValues DEF Numbers
<1>4. \A f \in Numbers : DefaultSettings[f] \in Nat /\ DefaultSettings[f] <= LastInt
                         /\ DefaultSettings[f] <= LastWord
  <2>1. LastWord \in Nat /\ LastInt \in Nat /\ 3600 <= LastInt /\ LastInt + 60 <= LastWord
    BY Bounds
  <2> QED
    BY <1>3, <2>1
<1>5. \A f \in Percents \cup Loads : DefaultSettings[f] \in Int
  BY DefaultValues DEF Percents, Loads
<1>6. \A f \in Fields : Typed(f, DefaultSettings[f])
  <2>1. \A f \in Integral : Typed(f, DefaultSettings[f])
    BY <1>1, <1>2, <1>4, Keys, Types
  <2>2. \A f \in Percents \cup Loads : Typed(f, DefaultSettings[f])
    BY <1>5, Types
  <2>3. \A f \in Switches \cup NameLists \cup PathLists \cup {"action"} :
            Typed(f, DefaultSettings[f])
    BY DefaultLists, Types, SettingsAssumption
  <2> QED
    BY <2>1, <2>2, <2>3, Keys
<1>7. \A f \in Integral : DefaultSettings[f] <= LastWord
  BY <1>1, <1>2, <1>4, Keys
<1> QED
  BY <1>1, <1>2, <1>4, <1>6, <1>7, DefaultKeys DEF Read, IsSettings

LEMMA DefaultsValid == Valid(DefaultSettings)
<1>1. \A f \in Positive : DefaultSettings[f] # 0
  <2>1. \A k \in {128, 256, 512, 1024, 2048} : k * Mib # 0
    BY SettingsAssumption
  <2>2. \A f \in Sizes : DefaultSettings[f] # 0
    BY <2>1, DefaultValues DEF Sizes
  <2>3. \A f \in Minutes \cup Numbers : DefaultSettings[f] # 0
    BY DefaultValues DEF Minutes, Numbers
  <2> QED
    BY <2>2, <2>3 DEF Positive
<1>2. ValidPressure(DefaultSettings)
  BY DefaultValues, SettingsAssumption DEF ValidPressure, Within, Finite, Percents
<1>3. ValidLoads(DefaultSettings)
  BY DefaultValues, SettingsAssumption DEF ValidLoads, Finite
<1>4. ValidWorkloads(DefaultSettings)
  BY DefaultValues, SettingsAssumption DEF ValidWorkloads
<1>5. \A f \in PathLists : DefaultSettings[f] \subseteq Absolute
  BY DefaultLists
<1> QED
  BY <1>1, <1>2, <1>3, <1>4, <1>5 DEF Valid

-----------------------------------------------------------------------------
(* A word in units, and back.                                              *)
LEMMA Reread ==
    ASSUME NEW u \in Nat \ {0}, NEW x \in Nat, x <= LastWord,
           u <= LastWord, LastWord < (LastInt + 1) * u
    PROVE  /\ x \div u \in 0..LastInt
           /\ Saturated((x \div u) * u) = (x \div u) * u
           /\ (x \div u) * u \in Nat
           /\ (x \div u) * u <= x
           /\ x < (x \div u) * u + u
           /\ ((x \div u) * u) \div u = x \div u
<1> DEFINE q == x \div u
<1>1. q \in Nat /\ q * u <= x /\ x < q * u + u /\ q * u \in Nat
  BY Divide
<1>2. (q * u) \div u = q
  BY <1>1, DivideMultiple
<1>3. q <= LastInt
  <2>1. LastInt \in Nat /\ LastWord \in Nat
    BY Bounds
  <2>2. q * u < (LastInt + 1) * u
    BY <1>1, <2>1
  <2> QED
    BY <1>1, <2>1, <2>2
<1>4. Saturated(q * u) = q * u
  BY <1>1, Bounds DEF Saturated
<1>5. q \in 0..LastInt
  BY <1>1, <1>3, Bounds
<1> QED
  BY <1>1, <1>2, <1>4, <1>5

(* Every word fits a document once it is in units.                         *)
LEMMA UnitsFit ==
    \A f \in Sizes \cup Minutes : Unit(f) <= LastWord /\ LastWord < (LastInt + 1) * Unit(f)
<1>1. Mib <= LastWord /\ 60 <= LastWord
  BY Bounds
<1> QED
  BY <1>1, Bounds DEF Unit, SecondsPerMinute

LEMMA DocumentFits ==
    ASSUME NEW s, Read(s)
    PROVE  /\ DOMAIN ToDocument(s) = Fields
           /\ \A f \in Fields : Typed(f, ToDocument(s)[f])
           /\ \A f \in Integral : ToDocument(s)[f] <= LastInt
<1>1. \A f \in Sizes \cup Minutes : ToDocument(s)[f] \in 0..LastInt
  BY Reread, Units, UnitsFit, Keys, Types DEF Read, IsSettings, ToDocument
<1>2. \A f \in Fields \ (Sizes \cup Minutes) : ToDocument(s)[f] = s[f]
  BY DEF ToDocument
<1>3. \A f \in Integral : ToDocument(s)[f] \in Nat /\ ToDocument(s)[f] <= LastInt
  BY <1>1, <1>2, Keys, Types, Bounds DEF Read, IsSettings
<1>4. \A f \in Fields : Typed(f, ToDocument(s)[f])
  BY <1>2, <1>3, Keys, Types DEF Read, IsSettings
<1> QED
  BY <1>3, <1>4 DEF ToDocument

(* And what a document gives can be read.                                  *)
LEMMA ReadOfDocument ==
    ASSUME NEW k, \A f \in Fields : Typed(f, k[f]), \A f \in Integral : k[f] <= LastInt
    PROVE  Read(FromDocument(k))
<1> DEFINE s == FromDocument(k)
<1>1. \A f \in Sizes \cup Minutes : /\ s[f] \in Nat /\ s[f] <= LastWord
                                    /\ s[f] = LastWord \/ \E n \in 0..LastInt : s[f] = n * Unit(f)
  <2> SUFFICES ASSUME NEW f \in Sizes \cup Minutes
               PROVE  /\ s[f] \in Nat /\ s[f] <= LastWord
                      /\ s[f] = LastWord \/ \E n \in 0..LastInt : s[f] = n * Unit(f)
    OBVIOUS
  <2>1. f \in Integral /\ f \in Fields
    BY Keys
  <2>2. k[f] \in Nat /\ k[f] <= LastInt
    BY <2>1, Types
  <2>3. Unit(f) \in Nat \ {0} /\ LastWord \in Nat /\ LastInt \in Nat
    BY Units, Bounds
  <2>4. k[f] * Unit(f) \in Nat
    BY <2>2, <2>3
  <2>5. s[f] = Saturated(k[f] * Unit(f))
    BY <2>1 DEF FromDocument
  <2>6. k[f] \in 0..LastInt
    BY <2>2, <2>3
  <2> QED
    BY <2>3, <2>4, <2>5, <2>6 DEF Saturated
<1>2. \A f \in Fields \ (Sizes \cup Minutes) : s[f] = k[f]
  BY DEF FromDocument
<1>3. LastInt \in Nat /\ LastWord \in Nat /\ LastInt <= LastWord
  BY Bounds
<1>4. \A f \in Numbers : s[f] \in Nat /\ s[f] <= LastInt /\ s[f] <= LastWord
  BY <1>2, <1>3, Keys, Types
<1>5. \A f \in Fields : Typed(f, s[f])
  BY <1>1, <1>2, Keys, Types
<1>6. DOMAIN s = Fields
  BY DEF FromDocument
<1> QED
  BY <1>1, <1>4, <1>5, <1>6, Keys DEF Read, IsSettings

(* Whatever a file gives, what is read of it can be.                       *)
LEMMA ContentRead ==
    ASSUME NEW c, IsContent(c), c.state # "malformed"
    PROVE  Read(SettingsIn(c))
<1>1. CASE c.state = "absent"
  BY <1>1, DefaultsRead DEF SettingsIn
<1>2. CASE c.state # "absent"
  <2>0. /\ ProcessKeys \cap Integral = {}
        /\ \A f \in ProcessKeys : Typed(f, {})
    BY Keys, Types DEF ProcessKeys, NameLists, PathLists
  <2>1. \A f \in Fields : Typed(f, Completed(c.keys)[f])
    BY <2>0, DocumentFits, DefaultsRead DEF Completed, IsContent
  <2>2. \A f \in Integral : Completed(c.keys)[f] <= LastInt
    BY <2>0, DocumentFits, DefaultsRead, Keys DEF Completed, IsContent
  <2> QED
    BY <1>2, <2>1, <2>2, ReadOfDocument DEF SettingsIn
<1> QED
  BY <1>1, <1>2

-----------------------------------------------------------------------------
(* What is read back of what was written.                                  *)

(* A size or a duration comes back, rounded down when it was saturated.    *)
LEMMA Rounded ==
    ASSUME NEW s, Read(s), NEW f \in Sizes \cup Minutes
    PROVE  LET t == FromDocument(ToDocument(s))
           IN /\ t[f] \in Nat /\ s[f] \in Nat
              /\ t[f] = (s[f] \div Unit(f)) * Unit(f)
              /\ t[f] \div Unit(f) = s[f] \div Unit(f)
              /\ t[f] = s[f] \/ LastWord < t[f] + Unit(f)
<1> DEFINE u == Unit(f)
           q == s[f] \div u
           t == FromDocument(ToDocument(s))
<1>1. f \in Fields /\ s[f] \in Nat /\ s[f] <= LastWord /\ u \in Nat \ {0}
  BY Keys, Types, Units DEF Read, IsSettings
<1>2. /\ q \in 0..LastInt /\ Saturated(q * u) = q * u /\ q * u \in Nat
      /\ q * u <= s[f] /\ s[f] < q * u + u /\ (q * u) \div u = q
  BY <1>1, Reread, UnitsFit
<1>3. t[f] = q * u
  BY <1>1, <1>2 DEF FromDocument, ToDocument
<1>4. ASSUME NEW k \in 0..LastInt, s[f] = k * u
      PROVE  t[f] = s[f]
  <2>1. k \in Nat
    BY Bounds
  <2>2. q = k
    BY <1>1, <1>4, <2>1, DivideMultiple
  <2> QED
    BY <1>3, <1>4, <2>2
<1>5. t[f] = s[f] \/ LastWord < t[f] + u
  BY <1>2, <1>3, <1>4 DEF Read
<1> QED
  BY <1>1, <1>2, <1>3, <1>5

LEMMA Unrounded ==
    ASSUME NEW s, NEW f \in Fields \ (Sizes \cup Minutes)
    PROVE  FromDocument(ToDocument(s))[f] = s[f] /\ ToDocument(s)[f] = s[f]
BY DEF FromDocument, ToDocument

(* What was rounded once is written as it is.                              *)
LEMMA RoundsOnce ==
    ASSUME NEW s, Read(s)
    PROVE  ToDocument(FromDocument(ToDocument(s))) = ToDocument(s)
<1> DEFINE t == FromDocument(ToDocument(s))
<1>1. ASSUME NEW f \in Fields
      PROVE  ToDocument(t)[f] = ToDocument(s)[f]
  <2>1. CASE f \in Sizes \cup Minutes
    BY <2>1, Rounded DEF ToDocument
  <2>2. CASE f \notin Sizes \cup Minutes
    BY <2>2, Unrounded DEF ToDocument
  <2> QED
    BY <2>1, <2>2
<1> QED
  BY <1>1 DEF ToDocument

LEMMA ReadAgain ==
    ASSUME NEW s, Read(s)
    PROVE  Read(FromDocument(ToDocument(s)))
BY DocumentFits, ReadOfDocument

(* Rounding keeps what validate asks for: nothing becomes zero, and the    *)
(* orders between two settings hold on.                                    *)
LEMMA ValidAgain ==
    ASSUME NEW s, Read(s), Valid(s)
    PROVE  Valid(FromDocument(ToDocument(s)))
<1> DEFINE t == FromDocument(ToDocument(s))
<1>1. \A f \in Fields \ (Sizes \cup Minutes) : t[f] = s[f]
  BY Unrounded
<1>2. \A f \in Sizes \cup Minutes : t[f] \in Nat /\ (t[f] = s[f] \/ LastWord < t[f] + Unit(f))
  BY Rounded
<1>3. \A f \in Positive : t[f] # 0
  <2>1. \A f \in Positive : f \in Sizes \cup Minutes \/ f \in Fields \ (Sizes \cup Minutes)
    BY Keys DEF Positive
  <2>2. \A f \in Sizes \cup Minutes : ~(LastWord < 0 + Unit(f))
    BY UnitsFit, Units, Bounds
  <2> QED
    BY <1>1, <1>2, <2>1, <2>2 DEF Valid
<1>4. ValidPressure(t)
  <2>1. Percents \cup Loads \subseteq Fields \ (Sizes \cup Minutes)
    BY Keys
  <2>2. {"critical_available", "warning_available", "recovery_available"} \subseteq Percents
        /\ {"critical_psi", "action_psi"} \subseteq Loads
    BY DEF Percents, Loads
  <2> QED
    BY <1>1, <2>1, <2>2 DEF Valid, ValidPressure
<1>5. ValidLoads(t)
  <2>1. {"max_cpu", "stale_maximum_cpu", "background_maximum_cpu"} \subseteq Fields \ (Sizes \cup Minutes)
    BY Keys DEF Loads
  <2> QED
    BY <1>1, <2>1 DEF Valid, ValidLoads
<1>6. ValidWorkloads(t)
  <2>1. {"minimum_group_trees", "sample_interval"} \subseteq Numbers
        /\ {"minimum_group_trees", "sample_interval"} \subseteq Fields \ (Sizes \cup Minutes)
    BY Keys DEF Numbers
  <2>2. t["minimum_group_trees"] = s["minimum_group_trees"]
        /\ t["sample_interval"] = s["sample_interval"]
    BY <1>1, <2>1
  <2>3. s["sample_interval"] \in Nat /\ s["sample_interval"] <= LastInt
        /\ s["sample_interval"] <= s["growth_window"]
    BY <2>1, Keys, Types DEF Read, IsSettings, Valid, ValidWorkloads
  <2>4. t["sample_interval"] <= t["growth_window"]
    <3>1. "growth_window" \in Minutes /\ Unit("growth_window") = 60
      BY DEF Minutes, Sizes, Unit, SecondsPerMinute
    <3>2. t["growth_window"] \in Nat
          /\ (t["growth_window"] = s["growth_window"] \/ LastWord < t["growth_window"] + 60)
      BY <1>2, <3>1
    <3> QED
      BY <2>2, <2>3, <3>2, Bounds
  <2>5. t["minimum_memory"] <= t["large_memory"]
    <3>1. "minimum_memory" \in Sizes /\ "large_memory" \in Sizes
          /\ Unit("minimum_memory") = Mib /\ Unit("large_memory") = Mib
      BY DEF Sizes, Unit
    <3>2. /\ t["minimum_memory"] = (s["minimum_memory"] \div Mib) * Mib
          /\ t["large_memory"] = (s["large_memory"] \div Mib) * Mib
          /\ s["minimum_memory"] \in Nat /\ s["large_memory"] \in Nat
      BY <3>1, Rounded
    <3>3. s["minimum_memory"] \div Mib <= s["large_memory"] \div Mib
      BY <3>2, DivideMonotone, Bounds DEF Valid, ValidWorkloads
    <3>4. s["minimum_memory"] \div Mib \in Nat /\ s["large_memory"] \div Mib \in Nat
      BY <3>2, Divide, Bounds
    <3> QED
      BY <3>2, <3>3, <3>4, Bounds
  <2> QED
    BY <2>2, <2>4, <2>5 DEF Valid, ValidWorkloads
<1>7. \A f \in PathLists : t[f] \subseteq Absolute
  BY <1>1, Keys DEF Valid
<1> QED
  BY <1>3, <1>4, <1>5, <1>6, <1>7 DEF Valid

(* The text a save writes is a content, and what a start reads of it.      *)
LEMMA SavedContent ==
    ASSUME NEW s, Read(s)
    PROVE  /\ IsContent(Text(ToDocument(s)))
           /\ SettingsIn(Text(ToDocument(s))) = FromDocument(ToDocument(s))
<1> DEFINE d == ToDocument(s)
<1>1. /\ Text(d).state = "text" /\ Text(d).keys = d
      /\ Text(d) = [state |-> Text(d).state, keys |-> Text(d).keys]
  BY DEF Text
<1>2. IsContent(Text(d))
  BY <1>1, DocumentFits, Keys DEF IsContent
<1>3. Completed(d) = d
  <2>1. \A f \in Fields : Completed(d)[f] = d[f]
    BY DEF Completed, ToDocument
  <2> QED
    BY <2>1 DEF Completed, ToDocument
<1> QED
  BY <1>1, <1>2, <1>3 DEF SettingsIn

LEMMA SavedLoads ==
    ASSUME NEW s, Read(s), Valid(s)
    PROVE  Loadable(Text(ToDocument(s)))
BY SavedContent, ValidAgain DEF Loadable, Text

-----------------------------------------------------------------------------
(* "Always ignore".                                                        *)

(* Which list a click adds to, and its entry.                              *)
LEMMA Entry ==
    ASSUME NEW t, IsTarget(t)
    PROVE  /\ ListFor(t) \in IgnoreLists
           /\ \E e : EntryFor(t) = {e}
           /\ ListFor(t) \in NameLists => EntryFor(t) \subseteq Names
           /\ ListFor(t) \in PathLists => EntryFor(t) \subseteq Absolute
<1>1. ListFor(t) \in IgnoreLists
  BY DEF IsTarget, Kinds, ListFor, IgnoreLists
<1>2. CASE ListFor(t) \in NameLists
  BY <1>1, <1>2, Keys DEF EntryFor, IsTarget
<1>3. CASE ListFor(t) \notin NameLists
  <2>1. t.executable # {}
    BY <1>3 DEF IsTarget, Kinds, ListFor, NameLists
  <2> QED
    BY <1>1, <1>3, <2>1 DEF EntryFor, IsTarget
<1> QED
  BY <1>1, <1>2, <1>3

LEMMA IgnoringFields ==
    ASSUME NEW s, Read(s), NEW t, IsTarget(t)
    PROVE  /\ DOMAIN Ignoring(s, t) = Fields
           /\ ListFor(t) \in Fields
           /\ Ignoring(s, t)[ListFor(t)] = s[ListFor(t)] \cup EntryFor(t)
           /\ \A f \in Fields \ {ListFor(t)} : Ignoring(s, t)[f] = s[f]
BY Entry, Keys DEF Ignoring, Read, IsSettings

LEMMA IgnoringRead ==
    ASSUME NEW s, Read(s), NEW t, IsTarget(t)
    PROVE  Read(Ignoring(s, t))
<1> DEFINE u == Ignoring(s, t)
           l == ListFor(t)
<1>1. l \in NameLists \cup PathLists /\ l \notin Integral
  BY Entry, Keys
<1>2. \A f \in Fields : Typed(f, s[f])
  BY DEF Read, IsSettings
<1>3. Typed(l, u[l])
  BY <1>1, <1>2, Entry, IgnoringFields, Types, SettingsAssumption
<1>4. \A f \in Fields : Typed(f, u[f])
  BY <1>2, <1>3, IgnoringFields
<1>5. \A f \in Integral : u[f] = s[f]
  BY <1>1, IgnoringFields, Keys
<1> QED
  BY <1>4, <1>5, IgnoringFields, Keys DEF Read, IsSettings

(* A rule is added to the ignore rules, and a save keeps them.             *)
LEMMA IgnoringRules ==
    ASSUME NEW s, Read(s), NEW t, IsTarget(t)
    PROVE  \E e \in Names \cup Paths :
              RulesOf(Ignoring(s, t)) = RulesOf(s) \cup {<<ListFor(t), e>>}
<1>1. PICK e : EntryFor(t) = {e}
  BY Entry
<1>2. e \in Names \cup Paths
  BY <1>1, Entry, Keys, SettingsAssumption
<1>3. \A r : r \in RulesOf(Ignoring(s, t)) <=> r \in RulesOf(s) \cup {<<ListFor(t), e>>}
  BY <1>1, Entry, IgnoringFields, Keys DEF RulesOf
<1> QED
  BY <1>2, <1>3

LEMMA SavedRules ==
    ASSUME NEW s, Read(s)
    PROVE  RulesOf(FromDocument(ToDocument(s))) = RulesOf(s)
<1>1. \A f \in IgnoreLists : FromDocument(ToDocument(s))[f] = s[f]
  BY Unrounded, Keys
<1> QED
  BY <1>1 DEF RulesOf

LEMMA RulesAreEntries ==
    ASSUME NEW s, Read(s)
    PROVE  RulesOf(s) \subseteq IgnoreLists \X (Names \cup Paths)
<1>1. \A f \in IgnoreLists : s[f] \subseteq Names \cup Paths
  BY Keys, Types DEF Read, IsSettings
<1> QED
  BY <1>1 DEF RulesOf
=============================================================================
