----------------------------- MODULE ConfigFile -----------------------------
(***************************************************************************)
(* The configuration file (TomlConfigRepository of                         *)
(* src/adapters/config_toml.rs): what it reads as, how a save replaces it  *)
(* and how `config init` writes it, on a disk that may lose what was not   *)
(* synced.  A content is the keys and values a text gives.                 *)
(***************************************************************************)
EXTENDS Settings

VARIABLES
    file,   \* the content of the file: [state, keys]
    durable \* the contents it may have after a power failure

fileVars == <<file, durable>>

(* There is no file; it cannot be read or parsed; it gives these keys.     *)
NoKeys == [f \in {} |-> 0]
Absent == [state |-> "absent", keys |-> NoKeys]
Malformed == [state |-> "malformed", keys |-> NoKeys]
Text(keys) == [state |-> "text", keys |-> keys]

IsContent(c) ==
    /\ c = [state |-> c.state, keys |-> c.keys]
    /\ c.state \in {"absent", "malformed", "text"}
    /\ \A f \in DOMAIN c.keys \cap Fields : Typed(f, c.keys[f])
    /\ \A f \in DOMAIN c.keys \cap Integral : c.keys[f] <= LastInt

(* #[serde(default, deny_unknown_fields)] on the document and on each of   *)
(* its sections; an unknown key makes a text Malformed.  What is not given *)
(* is taken from the settings' defaults, but not in [processes], whose     *)
(* Default is derived: with that section in the text, its other lists are  *)
(* empty.  The section's header alone is the key "processes".              *)
ProcessKeys == {"protected_names", "protected_executables", "ignored_names",
                "ignored_executables"}
OnlyHeader == [f \in {"processes"} |-> {}]
HasProcesses(keys) == DOMAIN keys \cap (ProcessKeys \cup {"processes"}) # {}

Completed(keys) ==
    [f \in Fields |->
        IF f \in DOMAIN keys THEN keys[f]
        ELSE IF f \in ProcessKeys /\ HasProcesses(keys) THEN {}
        ELSE ToDocument(DefaultSettings)[f]]

SettingsIn(c) == IF c.state = "absent" THEN DefaultSettings
                                       ELSE FromDocument(Completed(c.keys))

(* TomlConfigRepository::load succeeds.                                    *)
Loadable(c) == c.state # "malformed" /\ Valid(SettingsIn(c))

FileInit(contents) ==
    /\ file \in contents
    /\ durable = {file}

-----------------------------------------------------------------------------
(* TomlConfigRepository::save, up to the rename: the text goes to a        *)
(* temporary file of a name never used before, which is synced.  Nothing   *)
(* reads that file, also when a crash leaves it behind.  Save fails when   *)
(* the settings are not valid or cannot be rendered, or at any call to the *)
(* system; the temporary file is removed then.                             *)
CanSave(s) == Valid(s) /\ Renders(s)

(* Mutant: the file itself is written, not a temporary one.                *)
SaveInPlaceBug(s) ==
    /\ CanSave(s)
    /\ file' = Malformed
    /\ durable' = durable \cup {Malformed}

WriteTemporary(s) == CanSave(s) /\ UNCHANGED fileVars

SaveFails == UNCHANGED fileVars

(* The rename.  The directory is not synced: after a power failure the     *)
(* name may still lead to the old content.                                 *)
Replace(s) ==
    /\ file' = Text(ToDocument(s))
    /\ durable' = durable \cup {file'}

-----------------------------------------------------------------------------
(* TomlConfigRepository::initialize: without force only where there is no  *)
(* file, with force over the file, truncated first.  Nothing is synced: a  *)
(* power failure may leave any part of the text.                           *)
OpenForInit(force) ==
    /\ force \/ file = Absent
    /\ file' = Text(NoKeys)
    /\ durable' = durable \cup {file'}

(* The text or what a write that fails half way leaves of it: it is cut    *)
(* between sections, after the header of [processes], inside a word.  Cut  *)
(* elsewhere it reads as one of these, or with another number.             *)
DefaultParts == {Text(ToDocument(DefaultSettings)), Text(NoKeys), Text(OnlyHeader), Malformed}

(* The file that was opened still has its name.                            *)
WriteOpened ==
    /\ file' \in DefaultParts
    /\ durable' = durable \cup DefaultParts

(* Another file has taken the name since: what is written is not seen, but *)
(* by who comes after a power failure that undoes the rename.              *)
WriteReplaced ==
    /\ durable' = durable \cup DefaultParts
    /\ UNCHANGED file

(* Someone else writes the file or replaces it; the kernel writes it back; *)
(* the power fails and comes back.                                         *)
Rewrite(c) ==
    /\ file' = c
    /\ durable' = durable \cup {c}

WriteBack ==
    /\ durable # {file}
    /\ durable' = {file}
    /\ UNCHANGED file

LosePower ==
    /\ file' \in durable
    /\ durable' = {file'}
=============================================================================
