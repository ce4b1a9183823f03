----------------------------- MODULE MCLiveParts -----------------------------
(* TLC instance of the parts that promise what happens in the end: the       *)
(* keyframe after a loss, the sound of the default device, what the avatar   *)
(* shows, the companion's window and its simulations; and of the FEC layout. *)
(* They share no state: a behaviour is one of one part, chosen at the start, *)
(* and the others keep an initial state.                                     *)
EXTENDS KeyframeRecovery, AudioCapture, FaceTracking, FrameFec, Companion, Simulation

VARIABLE part  \* the one that runs

RawValues == {0, 6, 9}

SharpProfiles == {[weight |-> 2, offset |-> 1, smoothing |-> 0]}

(* calibrated_profile(): the span it maps to 0..1 is the one that was seen.  *)
ASSUME CalibrationChecked ==
  \A frames \in [1..4 -> {0, 1, 3, 4, NotFinite}] : CalibrationSpans(frames)

livePartsVars == <<part, recoveryVars, captureVars, faceVars, fecVars, companionVars, simulationVars>>

LivePartsInit ==
  /\ part \in {"keyframe", "capture", "face", "fec", "companion", "simulation"}
  /\ RecoveryInit /\ FaceInit
  \* The parts with several initial states have them all in their own behaviours, one in the others'.
  /\ CaptureInit /\ (part # "capture" => default = NoDevice /\ refusing = {})
  /\ FecInit /\ (part # "fec" => redundancy = CHOOSE r \in Redundancies : TRUE)
             /\ (part # "fec" => ~slicing.on /\ slicing.count = 0)
  /\ CompanionInit /\ (part # "companion" => plugged.devices = {} /\ ~steamVr.copied /\ ~app.demo /\ ~app.pin)
                   /\ app.adb /\ app.apk  \* a restart may find no adb any more; without APK a button less
  /\ SimulationInit /\ (part # "simulation" => file = NoFile)

LivePartsNext ==
  /\ UNCHANGED part
  /\ IF part = "keyframe" THEN RecoveryNext ELSE UNCHANGED recoveryVars
  /\ IF part = "capture" THEN CaptureNext ELSE UNCHANGED captureVars
  /\ IF part = "face" THEN FaceNext ELSE UNCHANGED faceVars
  /\ IF part = "fec" THEN FecNext ELSE UNCHANGED fecVars
  /\ IF part = "companion" THEN CompanionNext ELSE UNCHANGED companionVars
  /\ IF part = "simulation" THEN SimulationNext ELSE UNCHANGED simulationVars

(* The fairness of each part, in its behaviours.                             *)
LivePartsFairness ==
  /\ WF_recoveryVars(part = "keyframe" /\ TakeRequest)
  /\ WF_recoveryVars(part = "keyframe" /\ SubmitFrame)
  /\ WF_recoveryVars(part = "keyframe" /\ SendFrame)
  /\ WF_recoveryVars(part = "keyframe" /\ HandleRequest)
  /\ WF_recoveryVars(part = "keyframe" /\ SendRequest)
  /\ WF_recoveryVars(part = "keyframe" /\ EngineWindowEnds)
  /\ WF_recoveryVars(part = "keyframe" /\ ClientWindowEnds)
  /\ WF_recoveryVars(part = "keyframe" /\ EngineServes)
  /\ WF_recoveryVars(part = "keyframe" /\ StreamIsUp)
  /\ WF_captureVars(part = "capture" /\ CheckDevice)
  /\ WF_captureVars(part = "capture" /\ Reopen)
  /\ WF_captureVars(part = "capture" /\ RetryElapses)
  /\ WF_faceVars(part = "face" /\ FaceData)
  /\ WF_companionVars(part = "companion" /\ Update)
  /\ WF_companionVars(part = "companion" /\ ScanEnds)
  /\ WF_companionVars(part = "companion" /\ ScanDue)
  /\ WF_companionVars(part = "companion" /\ InfoAnswers)
  /\ \A job \in Jobs : WF_companionVars(part = "companion" /\ Killed(job))
  /\ WF_simulationVars(part = "simulation" /\ HeldStopEnds)
  /\ WF_simulationVars(part = "simulation" /\ UpdateSim)
  /\ WF_simulationVars(part = "simulation" /\ DropApp)
  /\ WF_simulationVars(part = "simulation" /\ ProcessEnds)
  /\ \A i \in Sims :
       /\ WF_simulationVars(part = "simulation" /\ Shutdown(i))
       /\ WF_simulationVars(part = "simulation" /\ EngineComesUp(i))
       /\ WF_simulationVars(part = "simulation" /\ EngineEnds(i))
       /\ WF_simulationVars(part = "simulation" /\ Resolves(i))
       /\ WF_simulationVars(part = "simulation" /\ Connects(i))
       /\ WF_simulationVars(part = "simulation" /\ ClientStops(i))

LivePartsSpec == LivePartsInit /\ [][LivePartsNext]_livePartsVars /\ LivePartsFairness

(* What the companion shows as running comes to an end: a scan or a command  *)
(* that hangs, and a simulation that fails or is stopped.                    *)
CompanionSettles == WindowKeepsUp /\ SimulationSettles
==============================================================================
