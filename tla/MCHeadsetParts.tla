---------------------------- MODULE MCHeadsetParts ----------------------------
(* TLC instance of the headset's parts and what connects them to the PC,     *)
(* each about what never happens: the control connection's bytes, the pinned *)
(* certificate, the frame assembler with bulk frames, the render loop, the   *)
(* sound, and the figures of the link and of the session. They share no      *)
(* state: a behaviour is one of one part, chosen at the start, and the       *)
(* others keep an initial state.                                             *)
EXTENDS ControlStream, ServerTrust, FrameAssembler, HeadsetApp, AudioPlayback, Figures

VARIABLE part  \* the one that runs

TwoConfigs == {[size |-> 1, duration |-> 2, posed |-> TRUE], [size |-> 1, duration |-> 3, posed |-> FALSE]}

headsetPartsVars == <<part, controlVars, trustVars, assemblerVars, headsetVars, playbackVars, linkVars, statsVars>>

HeadsetPartsInit ==
  /\ part \in {"control", "trust", "assembler", "headset", "playback", "link", "stats"}
  /\ ControlStreamInit /\ TrustInit /\ PlaybackInit /\ LinkInit /\ StatsInit
  \* The parts with several initial states have them all in their own behaviours, one in the others'.
  /\ AssemblerInit /\ (part # "assembler" => next = CHOOSE n \in FirstIndices : TRUE)
  /\ HeadsetInit /\ (part # "headset" => codec = NoCodec)

HeadsetPartsNext ==
  /\ UNCHANGED part
  /\ IF part = "control" THEN ControlStreamNext ELSE UNCHANGED controlVars
  /\ IF part = "trust" THEN TrustNext ELSE UNCHANGED trustVars
  /\ IF part = "assembler" THEN AssemblerNext ELSE UNCHANGED assemblerVars
  /\ IF part = "headset" THEN HeadsetNext ELSE UNCHANGED headsetVars
  /\ IF part = "playback" THEN PlaybackNext ELSE UNCHANGED playbackVars
  /\ IF part = "link" THEN LinkNext ELSE UNCHANGED linkVars
  /\ IF part = "stats" THEN StatsNext ELSE UNCHANGED statsVars

HeadsetPartsSpec == HeadsetPartsInit /\ [][HeadsetPartsNext]_headsetPartsVars
===============================================================================
