------------------------------ MODULE Settings ------------------------------
(***************************************************************************)
(* The settings of the daemon (src/application/config.rs) and the TOML     *)
(* document they are read from and written to                              *)
(* (src/adapters/config_toml.rs).  A setting is known by its key, made     *)
(* unique across the sections.  In memory sizes are bytes and durations    *)
(* seconds, machine words that saturate; in the document they are MiB and, *)
(* some of them, minutes.                                                  *)
(***************************************************************************)
EXTENDS Integers

CONSTANTS
    Mib,       \* bytes of one MiB, scaled down
    LastWord,  \* u64::MAX, scaled down
    LastInt,   \* the largest integer of a TOML document, scaled down
    NaN,       \* a floating-point setting that is not finite
    Names,     \* process names
    Paths,     \* paths of executables
    Absolute,  \* those that are absolute
    Utf8,      \* those that are UTF-8: a document cannot hold another
    Itself     \* the name "resource-guard"

SecondsPerMinute == 60

(* The defaults fit.  Integers of a document are signed, words are not:    *)
(* one ends at half of the other, so what is read of a document stays      *)
(* below a saturated duration that was rounded down to a minute, and the   *)
(* largest word can be written in MiB and in minutes.                      *)
ASSUME SettingsAssumption ==
    /\ Mib \in Nat \ {0} /\ LastWord \in Nat /\ LastInt \in Nat
    /\ 2048 * Mib <= LastWord /\ 3600 <= LastInt
    /\ LastInt + SecondsPerMinute <= LastWord
    /\ \A unit \in {Mib, SecondsPerMinute} : LastWord < (LastInt + 1) * unit
    /\ NaN \notin Int
    /\ Absolute \subseteq Paths /\ Utf8 \subseteq Paths
    /\ Itself \in Names

-----------------------------------------------------------------------------
(* The keys, by what their values are.                                     *)
Sizes == {"max_memory", "emergency_available", "action_available",
          "minimum_tree_memory", "minimum_group_memory", "minimum_memory",
          "large_memory", "minimum_memory_growth"}
Minutes == {"stale_minimum_age", "stale_cooldown", "background_minimum_age",
            "growth_window", "background_cooldown"}
Numbers == {"poll_interval", "consecutive_samples", "minimum_duration", "cooldown",
            "critical_samples", "warning_poll_interval", "critical_poll_interval",
            "term_grace_period", "action_cooldown", "minimum_group_trees",
            "stale_samples", "minimum_process_count_growth", "background_samples",
            "sample_interval", "grace_period", "timeout"}
Percents == {"warning_available", "critical_available", "critical_swap_used",
             "recovery_available"}
Loads == {"max_cpu", "critical_psi", "action_psi", "stale_maximum_cpu",
          "background_maximum_cpu"}
Switches == {"pressure_enabled", "allow_sigkill", "stale_enabled",
             "notify_only_under_pressure", "background_enabled", "notifications_enabled"}
NameLists == {"allowed_names", "exempt_names", "candidate_names", "launcher_names",
              "stale_ignored_names", "background_ignored_names", "protected_names",
              "ignored_names"}
PathLists == {"allowed_executables", "exempt_executables", "protected_executables",
              "ignored_executables", "background_ignored_executables"}

Integral == Sizes \cup Minutes \cup Numbers
Fields == Integral \cup Percents \cup Loads \cup Switches \cup {"action"}
              \cup NameLists \cup PathLists

ActionNames == {"NotifyOnly", "TerminateAllowlisted", "TerminateLargestUnprotected"}

(* The order of a list and its repetitions decide nothing: a set.          *)
Typed(f, v) ==
    CASE f \in Integral           -> v \in Nat
      [] f \in Percents \cup Loads -> v \in Int \cup {NaN}
      [] f \in Switches           -> v \in BOOLEAN
      [] f = "action"             -> v \in ActionNames
      [] f \in NameLists          -> v \subseteq Names
      [] f \in PathLists          -> v \subseteq Paths

IsSettings(s) ==
    /\ DOMAIN s = Fields
    /\ \A f \in Fields : Typed(f, s[f])
    /\ \A f \in Integral : s[f] <= LastWord

-----------------------------------------------------------------------------
(* Settings::default: the sections' Default implementations.  Candidate    *)
(* and launcher names are left empty: nothing here reads them.             *)
DefaultSettings ==
    [poll_interval |-> 5, consecutive_samples |-> 3, minimum_duration |-> 10,
     cooldown |-> 600, max_cpu |-> 90, max_memory |-> 2048 * Mib,
     pressure_enabled |-> TRUE, warning_available |-> 15, critical_available |-> 8,
     emergency_available |-> 512 * Mib, critical_swap_used |-> 90, critical_psi |-> 5,
     critical_samples |-> 2, warning_poll_interval |-> 1000,
     critical_poll_interval |-> 500, recovery_available |-> 20,
     action |-> "NotifyOnly", allow_sigkill |-> FALSE, action_available |-> 1024 * Mib,
     action_psi |-> 5, term_grace_period |-> 3, action_cooldown |-> 30,
     allowed_names |-> {}, allowed_executables |-> {}, exempt_names |-> {Itself},
     exempt_executables |-> {},
     stale_enabled |-> TRUE, notify_only_under_pressure |-> TRUE,
     candidate_names |-> {}, launcher_names |-> {}, stale_ignored_names |-> {},
     stale_minimum_age |-> 3600, minimum_tree_memory |-> 256 * Mib,
     minimum_group_memory |-> 512 * Mib, minimum_group_trees |-> 2,
     stale_maximum_cpu |-> 5, stale_samples |-> 3, stale_cooldown |-> 1800,
     background_enabled |-> TRUE, background_minimum_age |-> 3600,
     minimum_memory |-> 256 * Mib, large_memory |-> 512 * Mib, growth_window |-> 1800,
     minimum_memory_growth |-> 128 * Mib, minimum_process_count_growth |-> 2,
     background_maximum_cpu |-> 5, background_samples |-> 3, sample_interval |-> 60,
     background_cooldown |-> 1800, background_ignored_names |-> {},
     background_ignored_executables |-> {},
     grace_period |-> 10,
     protected_names |-> {Itself}, protected_executables |-> {}, ignored_names |-> {},
     ignored_executables |-> {},
     notifications_enabled |-> TRUE, timeout |-> 15]

-----------------------------------------------------------------------------
(* Settings::validate.                                                     *)
Finite(x) == x # NaN
Within(x, low) == Finite(x) /\ x >= low /\ x <= 100

Positive == Sizes \cup Minutes \cup (Numbers \ {"minimum_duration", "cooldown"})

ValidPressure(s) ==
    /\ \A f \in Percents : Within(s[f], 0) /\ s[f] # 0
    /\ s["critical_available"] < s["warning_available"]
    /\ s["warning_available"] < s["recovery_available"]
    /\ \A f \in {"critical_psi", "action_psi"} : Within(s[f], 0)

ValidLoads(s) ==
    /\ Finite(s["max_cpu"]) /\ s["max_cpu"] > 0
    /\ \A f \in {"stale_maximum_cpu", "background_maximum_cpu"} : Finite(s[f]) /\ s[f] >= 0

ValidWorkloads(s) ==
    /\ s["minimum_group_trees"] >= 2
    /\ s["minimum_memory"] <= s["large_memory"]
    /\ s["sample_interval"] <= s["growth_window"]

Valid(s) ==
    /\ \A f \in Positive : s[f] # 0
    /\ ValidPressure(s) /\ ValidLoads(s) /\ ValidWorkloads(s)
    /\ \A f \in PathLists : s[f] \subseteq Absolute

-----------------------------------------------------------------------------
(* Settings::from(ConfigDocument) and ConfigDocument::from(&Settings).     *)
Unit(f) == IF f \in Sizes THEN Mib ELSE SecondsPerMinute

Saturated(x) == IF x > LastWord THEN LastWord ELSE x

FromDocument(d) ==
    [f \in Fields |-> IF f \in Sizes \cup Minutes THEN Saturated(d[f] * Unit(f)) ELSE d[f]]

(* Mutant: one size is written in bytes.                                   *)
ToDocumentBug(s) ==
    [f \in Fields |-> IF f \in (Sizes \ {"max_memory"}) \cup Minutes
                        THEN s[f] \div Unit(f) ELSE s[f]]

ToDocument(s) ==
    [f \in Fields |-> IF f \in Sizes \cup Minutes THEN s[f] \div Unit(f) ELSE s[f]]

(* TomlConfigRepository::render fails on a path that is not UTF-8.         *)
Renders(s) == \A f \in PathLists : s[f] \subseteq Utf8

-----------------------------------------------------------------------------
(* The copies the services get: protection_policy and the ignore lists of  *)
(* stale_workload_policy and background_workload_policy.                   *)
ProtectionPolicy(s) ==
    [f \in {"protected_names", "protected_executables", "ignored_names",
            "ignored_executables"} |-> s[f]]
StaleIgnores(s) == s["stale_ignored_names"]
BackgroundIgnores(s) ==
    [names |-> s["background_ignored_names"],
     executables |-> s["background_ignored_executables"]]

(* What "Always ignore" was clicked on: add_ignore_rule with               *)
(* IgnoreRule::for_process, add_stale_workload_ignore and                  *)
(* add_background_workload_ignore.  A target without an executable has     *)
(* `executable` = {}, another one a singleton.                             *)
Kinds == {"event", "tree", "app"}
IsTarget(t) ==
    /\ t.kind \in Kinds /\ t.name \in Names
    /\ t.executable = {} \/ \E path \in Absolute : t.executable = {path}

ListFor(t) ==
    CASE t.kind = "tree" -> "stale_ignored_names"
      [] t.kind = "event" -> IF t.executable = {} THEN "ignored_names"
                                                  ELSE "ignored_executables"
      [] t.kind = "app" -> IF t.executable = {} THEN "background_ignored_names"
                                                ELSE "background_ignored_executables"

(* Mutant: the executable is preferred for every kind of target.           *)
AlwaysExecutableBug(t) == IF t.executable = {} THEN {t.name} ELSE t.executable

EntryFor(t) == IF ListFor(t) \in NameLists THEN {t.name} ELSE t.executable

Ignoring(s, t) == [s EXCEPT ![ListFor(t)] = @ \cup EntryFor(t)]

(* The ignore rules of some settings, and the one a target stands for.     *)
IgnoreLists == {"ignored_names", "ignored_executables", "stale_ignored_names",
                "background_ignored_names", "background_ignored_executables"}
RulesOf(s) == UNION {{<<f, entry>> : entry \in s[f]} : f \in IgnoreLists}
=============================================================================
