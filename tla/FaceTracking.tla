---------------------------- MODULE FaceTracking ----------------------------
(***************************************************************************)
(* From the face to the avatar: the headset polls its trackers and sends   *)
(* FACE_DATA, the session's OscBridge smooths each blendshape, applies the *)
(* profile and tells VRChat over UDP (osc_bridge.rs, profiles.rs,          *)
(* calibration.rs, engine.rs, openxr_app.cpp).  VRChat keeps what a        *)
(* parameter was last told; the bridge tells it rest (0.0) once.           *)
(*                                                                         *)
(* A value is a whole number: FaceTop is 1.0, values up to FaceRest are    *)
(* below REST_THRESHOLD.                                                   *)
(***************************************************************************)
EXTENDS Integers, FiniteSets, FiniteSetsExt, Sequences

CONSTANTS
  Lip, Eye,         \* the blendshapes of the two trackers
  FaceTop, FaceRest,
  FaceValues,       \* raw values: also outside 0..FaceTop, and NotFinite
  NotFinite,
  Profiles,         \* profile files: [weight, offset, smoothing], smoothing -1 for no override
  MaxFaceSessions,  \* bound
  MaxOscLosses      \* bound

ASSUME FaceAssumption ==
  /\ Lip \cap Eye = {}
  /\ FaceTop \in Nat /\ FaceRest \in 1..FaceTop
  /\ NotFinite \notin 0..FaceTop

Params == Lip \cup Eye
Smoothings == {0, 1}     \* of the two halves that make a value, how many are the old one
DefaultProfile == [weight |-> 1, offset |-> 0, smoothing |-> -1]

VARIABLES
  face,        \* what the trackers would read
  trackers,    \* those that are active
  bridge,      \* of the session: [on, enabled, profile, smoothing, prev, told]
  avatar,      \* VRCHAT: the parameters as they are
  unheard,     \* history: parameters whose last word was lost or never spoken
  faceRuns, oscLosses

faceVars == <<face, trackers, bridge, avatar, unheard, faceRuns, oscLosses>>

AtRest == [p \in Params |-> 0]
NoBridge == [on |-> FALSE, enabled |-> FALSE, profile |-> DefaultProfile, smoothing |-> 0,
             prev |-> AtRest, told |-> AtRest]

Clamped(v) == IF v < 0 THEN 0 ELSE IF v > FaceTop THEN FaceTop ELSE v

-----------------------------------------------------------------------------
(***************************************************************************)
(* The bridge.                                                             *)
(***************************************************************************)
\* Profile::apply().
Applied(profile, v) == Clamped((v - profile.offset) * profile.weight)

\* The parameters a FACE_DATA message has values for: valid groups, finite values.
Usable == {p \in Params : face[p] # NotFinite /\ (IF p \in Lip THEN "lip" ELSE "eye") \in trackers}

Smoothed(p) == (bridge.smoothing * bridge.prev[p] + (2 - bridge.smoothing) * Clamped(face[p])) \div 2

Outgoing(p) ==
  LET scaled == Applied(bridge.profile, Smoothed(p)) IN IF scaled > FaceRest THEN scaled ELSE 0

\* Mutant: a parameter at rest is not sent.
SpokenAboveRest == {p \in Usable : Outgoing(p) # 0}

\* Above rest every time, at rest once.
Spoken == {p \in Usable : Outgoing(p) # 0 \/ bridge.told[p] # 0}

-----------------------------------------------------------------------------
FaceInit ==
  /\ face = AtRest /\ trackers = {"lip", "eye"}
  /\ bridge = NoBridge
  /\ avatar = AtRest /\ unheard = {}
  /\ faceRuns = 0 /\ oscLosses = 0

\* run_session(): a new bridge, with the configuration and the active profile.
BridgeStarts ==
  /\ ~bridge.on /\ faceRuns < MaxFaceSessions
  /\ faceRuns' = faceRuns + 1
  /\ \E enabled \in BOOLEAN, smoothing \in Smoothings, profile \in {DefaultProfile} \cup Profiles :
       bridge' = [NoBridge EXCEPT !.on = TRUE, !.enabled = enabled, !.profile = profile,
                    !.smoothing = IF profile.smoothing = -1 THEN smoothing ELSE profile.smoothing]
  /\ UNCHANGED <<face, trackers, avatar, unheard, oscLosses>>

\* The session ends and the bridge with it: what it told stays in VRChat.
BridgeEnds ==
  /\ bridge.on
  /\ bridge' = NoBridge
  /\ unheard' = unheard \cup {p \in Params : avatar[p] # 0}
  /\ UNCHANGED <<face, trackers, avatar, faceRuns, oscLosses>>

\* A rendered frame polls the trackers; the engine hands the message to the bridge.
FaceData ==
  /\ bridge.on /\ trackers # {}
  /\ IF ~bridge.enabled
     THEN UNCHANGED <<bridge, avatar, unheard, oscLosses>>
     ELSE \E lost \in {L \in SUBSET Spoken : oscLosses + Cardinality(L) <= MaxOscLosses} :
       LET heard == Spoken \ lost IN
       /\ bridge' = [bridge EXCEPT
                       !.prev = [p \in Params |-> IF p \in Usable THEN Smoothed(p) ELSE @[p]],
                       !.told = [p \in Params |-> IF p \in Spoken THEN Outgoing(p) ELSE @[p]]]
       /\ avatar' = [p \in Params |-> IF p \in heard THEN Outgoing(p) ELSE avatar[p]]
       /\ unheard' = (unheard \cup lost) \ heard
       /\ oscLosses' = oscLosses + Cardinality(lost)
  /\ UNCHANGED <<face, trackers, faceRuns>>

FaceMoves ==
  /\ \E p \in Params, v \in FaceValues : face' = [face EXCEPT ![p] = v]
  /\ UNCHANGED <<trackers, bridge, avatar, unheard, faceRuns, oscLosses>>

\* A tracker loses the face, or finds it again.
TrackersChange ==
  /\ trackers' \in SUBSET {"lip", "eye"}
  /\ UNCHANGED <<face, bridge, avatar, unheard, faceRuns, oscLosses>>

AvatarLoads ==
  /\ avatar' = AtRest /\ unheard' = {}
  /\ UNCHANGED <<face, trackers, bridge, faceRuns, oscLosses>>

FaceNext ==
  \/ BridgeStarts \/ BridgeEnds \/ FaceData
  \/ FaceMoves \/ TrackersChange \/ AvatarLoads

\* A session's headset renders and polls for ever; faces and VRChat do as they like.
FaceFairness == WF_faceVars(FaceData)

FaceSpec == FaceInit /\ [][FaceNext]_faceVars /\ FaceFairness

-----------------------------------------------------------------------------
Watched(p) == bridge.on /\ bridge.enabled /\ p \in Usable

(***************************************************************************)
(* A face that relaxes relaxes its avatar: once a blendshape is watched    *)
(* and at rest for good, VRChat's parameter goes to rest, through any      *)
(* smoothing and profile, and although rest is told only once              *)
(* (apply_smoothing_and_send); unless its last word was lost or it was     *)
(* left above rest by an earlier session.                                  *)
(***************************************************************************)
AvatarRelaxes ==
  \A p \in Params : <>[](Watched(p) /\ face[p] = 0) => <>[](avatar[p] = 0 \/ p \in unheard)

-----------------------------------------------------------------------------
(***************************************************************************)
(* Calibration: a relaxed and an exaggerated face, frame by frame, make    *)
(* the profile whose weight (in FaceTop per unit) spreads one over 0..1.   *)
(***************************************************************************)
CONSTANT FramesPerStep

\* CalibrationState::update() over `frames`, the values of one blendshape.
Calibration(frames) ==
  LET used == SubSeq(frames, 1, 2 * FramesPerStep)      \* further frames change nothing
      seen == {used[i] : i \in DOMAIN used} \ {NotFinite}
  IN [done |-> Len(frames) >= 2 * FramesPerStep, seen |-> seen]

\* compute_profile(); the weight is FaceTop over `range`.
CalibratedProfile(calibration) ==
  LET range == Max(calibration.seen) - Min(calibration.seen) IN
  IF calibration.seen # {} /\ range > FaceRest
  THEN [offset |-> Clamped(Min(calibration.seen)), range |-> range]
  ELSE [offset |-> 0, range |-> FaceTop]

Calibrated(profile, v) == Clamped(((v - profile.offset) * FaceTop) \div profile.range)

\* What calibration is for: the relaxed face is sent as 0 and the exaggerated one as 1.
CalibrationSpans(frames) ==
  LET calibration == Calibration(frames)
      profile == CalibratedProfile(calibration)
      low == Min(calibration.seen)
      high == Max(calibration.seen)
  IN (calibration.done /\ calibration.seen # {} /\ low >= 0 /\ high - low > FaceRest) =>
       Calibrated(profile, low) = 0 /\ Calibrated(profile, high) = FaceTop
=============================================================================
