------------------------------ MODULE ConfigStore ------------------------------
(***************************************************************************)
(* The configuration file of internal/app/config.go and the config set     *)
(* commands that load, change and replace it, side by side and without a   *)
(* lock, while the user edits it.  A setting stands for a key together     *)
(* with its scope, global or that of a profile.  Lengths are counted in    *)
(* settings: one takes a unit of a compact text, two of an indented one.   *)
(***************************************************************************)
EXTENDS Naturals, FiniteSets

CONSTANTS
  Setters,        \* commands
  Settings,
  ConfigValues,   \* what validateConfigValue accepts
  Wrong,          \* a value that it refuses, or any value of an unknown key
  Unset,
  MaxOthers,      \* bound on the further settings that the user has there
  ConfigLimit,    \* the 1 MiB that Load accepts
  NoFile

ASSUME ConfigAssumption ==
  /\ Unset \notin ConfigValues /\ Wrong \notin ConfigValues \cup {Unset}
  /\ IsFiniteSet(Settings) /\ MaxOthers \in Nat /\ ConfigLimit \in Nat

VARIABLES
  config,         \* the file
  setters         \* per command: where it is

configVars == <<config, setters>>

ConfigContents == [Settings -> ConfigValues \cup {Unset, Wrong}]
EmptyConfig == [s \in Settings |-> Unset]
(* others: how many settings besides those of Settings it holds; indented: *)
(* whether its text is; decodes: whether it is one whole document with     *)
(* known fields; synced: whether the disk holds all of it; by: a command   *)
(* that wrote it, or the user.                                             *)
ConfigFile == [values : ConfigContents, others : 0..MaxOthers, indented : BOOLEAN,
               decodes : BOOLEAN, synced : BOOLEAN, by : {"user", "set"}]
SetterStages == {"idle", "write", "sync", "replace", "protect", "set", "refused"}
Setter == [stage : SetterStages, file : ConfigFile \cup {NoFile}]

ConfigTypeOK ==
  /\ config \in ConfigFile \cup {NoFile}
  /\ setters \in [Setters -> Setter \cup {NoFile}]

ConfigInit == config = NoFile /\ setters = [s \in Setters |-> NoFile]

-----------------------------------------------------------------------------
SetterAt(s, stage) == setters[s] # NoFile /\ setters[s].stage = stage
SetterGoes(s, stage) == setters' = [setters EXCEPT ![s].stage = stage]
ValuesRead == IF config = NoFile THEN EmptyConfig ELSE config.values
OthersRead == IF config = NoFile THEN 0 ELSE config.others

(* Load: a file that is too long, that does not decode or that holds a     *)
(* value that is not accepted is refused; none is an empty configuration.  *)
Held(file) == file.others + Cardinality({s \in Settings : file.values[s] # Unset})
LengthOf(file) == IF file.indented THEN 2 * Held(file) ELSE Held(file)
Accepted(values) == \A s \in Settings : values[s] # Wrong
Loads(file) == LengthOf(file) <= ConfigLimit /\ file.decodes /\ Accepted(file.values)

(* Set: the key and the value are checked, the file is loaded, and a       *)
(* --dry-run ends there.  What save is going to write is indented whatever *)
(* was read, and as long as it becomes.                                    *)
LoadConfig(s, setting, value, dryRun) ==
  /\ setters[s] = NoFile
  /\ LET loaded == value # Wrong /\ (config # NoFile => Loads(config))
         new == [values |-> [ValuesRead EXCEPT ![setting] = value], others |-> OthersRead,
                 indented |-> TRUE, decodes |-> FALSE, synced |-> FALSE, by |-> "set"]
     IN setters' = [setters EXCEPT ![s] =
          [stage |-> IF ~loaded THEN "refused" ELSE IF dryRun THEN "set" ELSE "write",
           file |-> IF loaded /\ ~dryRun THEN new ELSE NoFile]]
  /\ UNCHANGED config

(* save: a temporary file is written, synced and renamed; the directory is *)
(* synced and the file protected once more.                                *)
WriteConfig(s) ==
  /\ SetterAt(s, "write")
  /\ setters' = [setters EXCEPT ![s].stage = "sync", ![s].file.decodes = TRUE]
  /\ UNCHANGED config
SyncConfigLater(s) ==   \* mutant: only the directory is synced
  SetterAt(s, "sync") /\ SetterGoes(s, "replace") /\ UNCHANGED config
SyncConfig(s) ==
  /\ SetterAt(s, "sync")
  /\ setters' = [setters EXCEPT ![s].stage = "replace", ![s].file.synced = TRUE]
  /\ UNCHANGED config
ReplaceConfig(s) ==
  /\ SetterAt(s, "replace")
  /\ config' = setters[s].file
  /\ setters' = [setters EXCEPT ![s].stage = "protect", ![s].file = NoFile]
ProtectConfig(s) ==
  /\ SetterAt(s, "protect") /\ SetterGoes(s, "set")
  /\ UNCHANGED config

(* A step that fails, which may leave the file replaced; a crash; the end. *)
SetterEnds(s) ==
  /\ setters[s] # NoFile
  /\ setters' = [setters EXCEPT ![s] = NoFile]
  /\ UNCHANGED config
ConfigPowerLoss ==
  /\ config # NoFile
  /\ config' = IF config.synced THEN config
               ELSE [config EXCEPT !.values = EmptyConfig, !.decodes = FALSE]
  /\ setters' = [s \in Setters |-> NoFile]
UserEdits(values, others, indented, decodes) ==
  /\ ~decodes => values = EmptyConfig /\ others = 0
  /\ config' = [values |-> values, others |-> others, indented |-> indented,
                decodes |-> decodes, synced |-> TRUE, by |-> "user"]
  /\ UNCHANGED setters
UserRemoves == config' = NoFile /\ UNCHANGED setters

ConfigNext ==
  \/ \E s \in Setters :
       \/ \E setting \in Settings, value \in ConfigValues \cup {Wrong}, dryRun \in BOOLEAN :
            LoadConfig(s, setting, value, dryRun)
       \/ WriteConfig(s) \/ SyncConfig(s) \/ ReplaceConfig(s) \/ ProtectConfig(s)
       \/ SetterEnds(s)
  \/ ConfigPowerLoss \/ UserRemoves
  \/ \E values \in ConfigContents, others \in 0..MaxOthers, indented, decodes \in BOOLEAN :
       UserEdits(values, others, indented, decodes)

ConfigSpec == ConfigInit /\ [][ConfigNext]_configVars

-----------------------------------------------------------------------------
(* What a config set left behind decodes and holds nothing that Load does  *)
(* not accept, however the commands overlap, fail or are killed, and also  *)
(* after a loss of power: if a command refuses to load it, its settings,   *)
(* indented, exceed the limit, which save does not look at.                *)
ConfigLoadsIfShort ==
  config # NoFile /\ config.by = "set" =>
    /\ config.decodes /\ Accepted(config.values)
    /\ ~Loads(config) => 2 * Held(config) > ConfigLimit
=============================================================================
