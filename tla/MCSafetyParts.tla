---------------------------- MODULE MCSafetyParts ----------------------------
(* TLC instance of the PC's parts beside the engine's loop and session, each *)
(* about what never happens: settings, the status file and the companion's   *)
(* view of it, recording, the controllers of bitrate and FEC with everything *)
(* that moves them, frames of two slices on their way into the assembler,    *)
(* and the scenario runner. They share no state: a behaviour is one of one   *)
(* part, chosen at the start, and the others keep an initial state.          *)
EXTENDS Settings, StatusView, Recording, FrameAssembler, AdaptiveBitrate, Scenario

VARIABLE part  \* the one that runs

SomeChoices == [codec |-> {"h264"}, audio |-> {FALSE}, rate |-> {96}]

SomeManualKeys == {[warn |-> 70], [mistyped |-> 0]}

SomeScripts == {<<"haptic">>, <<"loss", "noLoss">>, <<"latency", "noLatency">>}

safetyPartsVars == <<part, settingsVars, statusVars, recordingVars, assemblerVars, vars, scenarioVars>>

SafetyPartsInit ==
  /\ part \in {"settings", "status", "recording", "assembler", "bitrate", "scenario"}
  /\ StatusInit /\ RecordingInit /\ ScenarioInit
  \* The parts with several initial states have them all in their own behaviours, one in the others'.
  /\ SettingsInit /\ (part # "settings" => legacy = Missing)
  /\ AssemblerInit /\ (part # "assembler" => next = CHOOSE n \in FirstIndices : TRUE)
  /\ Init /\ ~calm  \* calm, the controllers do a part of what they do otherwise

SafetyPartsNext ==
  /\ UNCHANGED part
  /\ IF part = "settings" THEN SettingsNext ELSE UNCHANGED settingsVars
  /\ IF part = "status" THEN StatusNext ELSE UNCHANGED statusVars
  /\ IF part = "recording" THEN RecordingNext ELSE UNCHANGED recordingVars
  /\ IF part = "assembler" THEN AssemblerNext ELSE UNCHANGED assemblerVars
  /\ IF part = "bitrate" THEN Next ELSE UNCHANGED vars
  /\ IF part = "scenario" THEN ScenarioNext ELSE UNCHANGED scenarioVars

SafetyPartsSpec == SafetyPartsInit /\ [][SafetyPartsNext]_safetyPartsVars
==============================================================================
