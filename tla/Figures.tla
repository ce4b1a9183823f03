------------------------------- MODULE Figures -------------------------------
(* The figures of a session that users and the bitrate are told: the link's  *)
(* losses and send times, and the session log.                               *)
EXTENDS LinkStats, SessionStats

(* What users are told of a session is what happened in it: the headset's    *)
(* reports of losses to the engine, and the session log.                     *)
FiguresTell == LinkAccounting /\ LogTellsSession
==============================================================================
