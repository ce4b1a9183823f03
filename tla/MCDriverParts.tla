---------------------------- MODULE MCDriverParts ----------------------------
(* TLC instance of what the engine has the driver do: the bitrate and parity *)
(* that AdaptiveBitrate decides on and tells the encoder, and the devices of *)
(* SteamVR with the callbacks that reach them. They share no state: a        *)
(* behaviour is one of one part, chosen at the start, and the other keeps    *)
(* an initial state.                                                         *)
EXTENDS AdaptiveBitrate, SteamVrDriver

VARIABLE part  \* the one that runs

driverPartsVars == <<part, vars, driverVars>>

DriverPartsInit ==
  /\ part \in {"bitrate", "steamvr"}
  /\ DriverInit
  \* Init has a calm network and another one, for behaviours of its part.
  /\ Init /\ (part # "bitrate" => calm)

DriverPartsNext ==
  /\ UNCHANGED part
  /\ IF part = "bitrate" THEN Next ELSE UNCHANGED vars
  /\ IF part = "steamvr" THEN DriverNext ELSE UNCHANGED driverVars

(* The fairness of each part, in its behaviours.                             *)
DriverPartsFairness ==
  /\ WF_vars(part = "bitrate" /\ Frame(TRUE))
  /\ WF_vars(part = "bitrate" /\ Heartbeat)
  /\ WF_vars(part = "bitrate" /\ HysteresisElapses)
  /\ SF_vars(part = "bitrate" /\ EncoderTakes)
  /\ WF_driverVars(part = "steamvr" /\ RunHmd)
  /\ WF_driverVars(part = "steamvr" /\ CallbackReturns)
  /\ \A c \in Controllers : WF_driverVars(part = "steamvr" /\ RunController(c))

DriverPartsSpec == DriverPartsInit /\ [][DriverPartsNext]_driverPartsVars /\ DriverPartsFairness
==============================================================================
