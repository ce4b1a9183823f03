------------------------------ MODULE Settings ------------------------------
(* The companion app's settings (companion-app/src/config.rs, main.rs,       *)
(* ui/settings.rs) and the engine that starts from them: the per-user        *)
(* local.toml holds what the companion manages, sections codec and audio,    *)
(* next to keys the user wrote by hand, and both must survive whatever the   *)
(* other does. The file can be unreadable (locked by an editor), not valid   *)
(* TOML, missing with one of version 3.0.0 at the legacy place, or changed   *)
(* between the companion's reading and its renaming the new one over it; a   *)
(* save can fail and the app can close or die with changes not yet saved.    *)
EXTENDS EngineConfig

CONSTANTS
  Options,      \* of the user for a setting: a function of the keys the companion manages
  ManualKeys,   \* layers of keys the user may write by hand
  ManualKinds,  \* "table", and "broken" for a file that is not valid TOML
  MaxManual,    \* bound: files written by hand
  MaxChosen     \* bound: settings changed or reset in the companion

ASSUME SettingsAssumption == ManualKinds \subseteq {"table", "broken"}

VARIABLES
  userFile,  \* local.toml: [kind, managed, manual], the kind "missing", "broken" or "table"
  legacy,    \* the one of version 3.0.0
  backup,    \* local.toml.bak
  showing,     \* local_config of the companion
  unsaved,   \* the sections of pending_save_notes
  companion, \* "off", "idle", or writing the result of "saving" or "resetting"
  closing,   \* on_exit()
  merged,    \* the file it is about to rename over local.toml
  engineIs,  \* "down", "up" or "panicked"
  config,    \* the engine's
  chosen,    \* history: each setting the user chose last and nothing overrode since
  manual,    \* history: the last keys written by hand, unless a write of the companion met theirs
  handEdits, choicesMade

settingsVars == <<userFile, legacy, backup, showing, unsaved, companion, closing, merged, engineIs, config,
                  chosen, manual, handEdits, choicesMade>>

-----------------------------------------------------------------------------
ManagedKeys == {"codec", "audio", "rate"}

SectionOf(key) == IF key = "codec" THEN "video" ELSE "audio"

KeysOf(sections) == {key \in ManagedKeys : SectionOf(key) \in sections}

NoKeys == [key \in {} |-> 0]

Missing == [kind |-> "missing", managed |-> NoKeys, manual |-> NoKeys]

Table(managed, hand) == [kind |-> "table", managed |-> managed, manual |-> hand]

Without(layer, keys) == [key \in DOMAIN layer \ keys |-> layer[key]]

Only(layer, keys) == [key \in DOMAIN layer \cap keys |-> layer[key]]

CompanionDefaults == Only(Defaults, ManagedKeys)

(* LocalConfig::load_from(): a file it cannot read or parse is the defaults. *)
Loaded(file) == IF file.kind = "table" THEN Over(file.managed, CompanionDefaults) ELSE CompanionDefaults

(* What the engine reads of it: read_toml_layer() skips a broken file.       *)
OverlayOf(file) == IF file.kind = "table" THEN Over(file.managed, file.manual) ELSE NoKeys

(* runtime_config_sources(): the per-user local.toml is the last overlay of  *)
(* what the engine starts from. Locked, it is skipped like a broken one, and *)
(* the engine starts without it.                                             *)
RuntimeLayers(readable) == Layered(IF readable THEN OverlayOf(userFile) ELSE NoKeys)

-----------------------------------------------------------------------------
CompanionStarts ==
  /\ companion = "off" /\ companion' = "idle" /\ closing' = FALSE
  /\ showing' \in {CompanionDefaults, Loaded(IF userFile = Missing THEN legacy ELSE userFile)}
  /\ unsaved' = {}
  /\ UNCHANGED <<userFile, legacy, backup, merged, engineIs, config, chosen, manual, handEdits, choicesMade>>

(* The user moves a slider: local_config, then mark_config_dirty(). A save   *)
(* writes the whole section, with what the app shows of it: a setting chosen *)
(* before that a companion started since could not read is overwritten.      *)
Unseen(section) ==
  {key \in DOMAIN chosen : SectionOf(key) = section /\ chosen[key] # showing[key]}

ChangeSetting(key) ==
  /\ companion = "idle" /\ ~closing /\ choicesMade < MaxChosen
  /\ \E value \in Options[key] \ {showing[key]} :
       /\ showing' = [showing EXCEPT ![key] = value]
       /\ chosen' = Over([k \in {key} |-> value], Without(chosen, Unseen(SectionOf(key))))
  /\ unsaved' = unsaved \cup {SectionOf(key)}
  /\ choicesMade' = choicesMade + 1
  /\ UNCHANGED <<userFile, legacy, backup, companion, closing, merged, engineIs, config, manual, handEdits>>

(* The app goes away with what it has not saved.                             *)
Leaves ==
  /\ companion' = "off" /\ closing' = FALSE /\ merged' = Missing
  /\ chosen' = Without(chosen, KeysOf(unsaved))
  /\ unsaved' = {}

(* user_file(): the first use copies the legacy file, when it can.           *)
Seeded == IF userFile = Missing THEN {Missing, legacy} ELSE {userFile}

(* read_table(): a broken file is backed up, and taken for an empty table.   *)
ReadTable(file) ==
  /\ userFile' = file
  /\ backup' = IF file.kind = "broken" THEN file ELSE backup

TableOf(file) == IF file.kind = "table" THEN file ELSE Missing

(* flush_config(), once the input settled, retried, or on exit: the sections *)
(* that changed go over the keys the file has.                               *)
SaveEverything(file) == Table(showing, TableOf(file).manual)  \* mutant: every section

SaveInto(file) ==
  Table(Over(Only(showing, KeysOf(unsaved)), TableOf(file).managed), TableOf(file).manual)

(* config_save_due(), or the exit: the pause after the last change and the   *)
(* time until a failed save is tried again are as long as they like.         *)
SaveDue == companion = "idle" /\ unsaved # {}

FlushConfig ==
  /\ SaveDue
  /\ \E file \in Seeded : ReadTable(file) /\ merged' = SaveInto(file)
  /\ companion' = "saving"
  /\ UNCHANGED <<legacy, showing, unsaved, closing, engineIs, config, chosen, manual, handEdits, choicesMade>>

(* It cannot be read or backed up: nothing is written. A save is tried again *)
(* later, unless the app is closing.                                         *)
SaveGivenUp ==
  /\ companion = "idle" /\ closing /\ Leaves
  /\ UNCHANGED <<userFile, legacy, backup, showing, engineIs, config, manual, handEdits, choicesMade>>

(* reset_to_defaults(): clear_from() takes the managed keys out at once.     *)
ResetToDefaults ==
  /\ companion = "idle" /\ ~closing /\ choicesMade < MaxChosen
  /\ choicesMade' = choicesMade + 1
  /\ showing' = CompanionDefaults /\ unsaved' = {} /\ chosen' = NoKeys
  /\ \/ \E file \in Seeded :
          /\ ReadTable(file)
          /\ merged' = Table(Without(TableOf(file).managed, ManagedKeys), TableOf(file).manual)
          /\ companion' = "resetting"
     \/ UNCHANGED <<userFile, backup, merged, companion>>  \* it cannot be read: logged
  /\ UNCHANGED <<legacy, closing, engineIs, config, manual, handEdits>>

(* write_atomic(): the temporary file is renamed over local.toml.            *)
WriteSucceeds ==
  /\ companion \in {"saving", "resetting"}
  /\ userFile' = merged
  /\ unsaved' = {} /\ merged' = Missing
  /\ companion' = IF closing THEN "off" ELSE "idle"
  /\ closing' = FALSE
  /\ UNCHANGED <<legacy, backup, showing, engineIs, config, chosen, manual, handEdits, choicesMade>>

(* The file cannot be written or renamed.                                    *)
WriteFails ==
  /\ companion \in {"saving", "resetting"}
  /\ IF closing THEN Leaves
     ELSE /\ companion' = "idle" /\ merged' = Missing
          /\ UNCHANGED <<unsaved, closing, chosen>>
  /\ UNCHANGED <<userFile, legacy, backup, showing, engineIs, config, manual, handEdits, choicesMade>>

AppCloses ==
  /\ companion = "idle" /\ ~closing
  /\ IF unsaved = {} THEN companion' = "off" /\ UNCHANGED closing
     ELSE closing' = TRUE /\ UNCHANGED companion
  /\ UNCHANGED <<userFile, legacy, backup, showing, unsaved, merged, engineIs, config, chosen, manual,
                 handEdits, choicesMade>>

CompanionDies ==
  /\ companion # "off" /\ Leaves
  /\ UNCHANGED <<userFile, legacy, backup, showing, engineIs, config, manual, handEdits, choicesMade>>

(* The user edits local.toml: it is theirs from then on, but for what the    *)
(* companion has yet to save, and unless it is between reading and renaming. *)
EditByHand ==
  /\ handEdits < MaxManual /\ handEdits' = handEdits + 1
  /\ \E kind \in ManualKinds, keys \in ManualKeys :
       /\ userFile' = [kind |-> kind, managed |-> userFile.managed, manual |-> keys]
       /\ manual' = IF companion \in {"saving", "resetting"} THEN NoKeys ELSE keys
       /\ chosen' = IF kind = "broken" THEN Only(chosen, KeysOf(unsaved)) ELSE chosen
  /\ UNCHANGED <<legacy, backup, showing, unsaved, companion, closing, merged, engineIs, config, choicesMade>>

(* fvp_init(): the layers, then validate().                                  *)
EngineStartsUp ==
  /\ engineIs = "down"
  /\ \E readable \in BOOLEAN :
       IF Panics(RuntimeLayers(readable)) THEN engineIs' = "panicked" /\ UNCHANGED config
       ELSE engineIs' = "up" /\ config' = Validated(RuntimeLayers(readable))
  /\ UNCHANGED <<userFile, legacy, backup, showing, unsaved, companion, closing, merged, chosen,
                 manual, handEdits, choicesMade>>

EngineStops ==
  /\ engineIs # "down" /\ engineIs' = "down" /\ config' = Defaults
  /\ UNCHANGED <<userFile, legacy, backup, showing, unsaved, companion, closing, merged, chosen,
                 manual, handEdits, choicesMade>>

SettingsInit ==
  /\ userFile = Missing
  /\ legacy \in {Missing} \cup {Table(NoKeys, keys) : keys \in ManualKeys}
  /\ backup = Missing
  /\ showing = CompanionDefaults /\ unsaved = {} /\ companion = "off" /\ closing = FALSE
  /\ merged = Missing /\ engineIs = "down" /\ config = Defaults
  /\ chosen = NoKeys /\ manual = NoKeys /\ handEdits = 0 /\ choicesMade = 0

SettingsNext ==
  \/ CompanionStarts \/ (\E key \in ManagedKeys : ChangeSetting(key)) \/ FlushConfig
  \/ SaveGivenUp \/ ResetToDefaults \/ WriteSucceeds \/ WriteFails \/ AppCloses \/ CompanionDies
  \/ EditByHand \/ EngineStartsUp \/ EngineStops

SettingsSpec == SettingsInit /\ [][SettingsNext]_settingsVars

-----------------------------------------------------------------------------
(* The keys the user wrote by hand are in the file, or in its backup.        *)
HandWrittenKept == manual # NoKeys => manual \in {userFile.manual, backup.manual}

(* A start of the engine that can read local.toml applies every setting the  *)
(* user chose, unless it is one the companion has still to save.             *)
ChosenApplies ==
  \A key \in DOMAIN chosen \ KeysOf(unsaved) :
    "mistyped" \in DOMAIN userFile.manual
      \/ RuntimeLayers(TRUE)[key] = chosen[key]

(* Whatever the companion saves, resets, retries or loses on its way out,    *)
(* and however local.toml is edited, broken or locked meanwhile: a setting   *)
(* the user chose, that the app showed since and that is no longer pending   *)
(* is in force at the engine's next start for which local.toml is readable   *)
(* again; and no key written by hand is lost, a file that does not parse     *)
(* being kept as local.toml.bak.                                             *)
SettingsSurvive == HandWrittenKept /\ ChosenApplies

(* What validate() leaves is usable: it does not take vrserver.exe down, and *)
(* the ports, redundancies, radii and thermal thresholds stand in the order  *)
(* its comments state.                                                       *)
ConfigInOrder ==
  /\ engineIs # "panicked"
  /\ PortsUsable(config) /\ FecOrdered(config) /\ RadiiOrdered(config) /\ ThermalOrdered(config)
=============================================================================
