-------------------------- MODULE EngineLoopProofs --------------------------
(***************************************************************************)
(* Proofs about the pairing state and the engine loop, for any number of   *)
(* clients, PINs, attempts and errors and any durations, as long as a      *)
(* lockout is not shorter than the hold. First the pairing state on its    *)
(* own, whether or not the disk takes its record. Then the loop: it is an  *)
(* implementation of the pairing state, so what is shown of one holds of   *)
(* the PairingState the engine keeps replacing, and its handshakes,        *)
(* sessions and holds are safe.                                            *)
(***************************************************************************)
EXTENDS EngineLoop, TLAPS

-----------------------------------------------------------------------------
(* The pairing state.                                                      *)

(* What a lockout leaves behind: the file tells its end, whatever a server *)
(* that could not read it does, short of taking the right PIN, and the     *)
(* servers that read it agree with the file.                               *)
LockoutRecorded ==
  now < bannedUntil => /\ disk = bannedUntil
                       /\ ~forgot => lockoutUntil = bannedUntil

PairingIInv == PairingTypeOK /\ LockoutRecorded

(* The initial state of a first server satisfies the inductive invariant.  *)
LEMMA PairingInitIInv == PairingInit => PairingIInv
<1> SUFFICES ASSUME PairingInit
             PROVE  PairingIInv
  OBVIOUS
<1>1. paired \in BOOLEAN
  BY Zenon DEF PairingInit
<1>2. PairingTypeOK
  BY <1>1, PairingAssumption
  DEF PairingAssumption, PairingInit, PairingTypeOK, NoTime
<1>3. LockoutRecorded
  BY DEF PairingInit, LockoutRecorded, NoTime
<1> QED
  BY <1>2, <1>3 DEF PairingIInv

(* No step writes the file with anything but a time.                       *)
LEMMA WriteDiskType ==
  ASSUME NEW t \in Nat, disk \in Nat, WriteDisk(t)
  PROVE  disk' \in Nat
  BY DEF WriteDisk

(* Every operation of the pairing state preserves the inductive invariant. *)
LEMMA PairingNextIInv == PairingIInv /\ [PairingNext]_pairingVars => PairingIInv'
<1> SUFFICES ASSUME PairingIInv, [PairingNext]_pairingVars
             PROVE  PairingIInv'
  OBVIOUS
<1> USE PairingAssumption DEF PairingAssumption, PairingIInv, PairingTypeOK,
                              LockoutRecorded, NoTime
<1>1. ASSUME NEW p \in Pins, VerifyLocked(p)
      PROVE  PairingIInv'
  BY <1>1 DEF VerifyLocked, pairingVars
<1>2. ASSUME NEW p \in Pins, VerifyOk(p)
      PROVE  PairingIInv'
  <2>1. disk' \in Nat
    BY <1>2, WriteDiskType DEF VerifyOk
  <2> QED
    BY <1>2, <2>1 DEF VerifyOk
<1>3. ASSUME NEW p \in Pins, VerifyWrong(p)
      PROVE  PairingIInv'
  BY <1>3 DEF VerifyWrong
<1>4. ASSUME NEW p \in Pins, VerifyLockout(p)
      PROVE  PairingIInv'
  <2>1. ~forgot => now >= bannedUntil
    BY <1>4 DEF VerifyLockout, IsLocked
  <2>2. disk' \in Nat
    BY <1>4, WriteDiskType DEF VerifyLockout
  <2>3. CASE disk' = now + Lockout
    BY <1>4, <2>2, <2>3 DEF VerifyLockout, RotatePin
  <2>4. CASE disk' # now + Lockout
    <3>1. disk' = disk /\ bannedUntil' = bannedUntil
      BY <1>4, <2>4 DEF VerifyLockout, WriteDisk
    <3> QED
      BY <1>4, <2>1, <2>2, <3>1 DEF VerifyLockout, RotatePin
  <2> QED
    BY <2>3, <2>4
<1>5. CASE RotateExpired
  BY <1>5 DEF RotateExpired, RotatePin
<1>6. CASE paired /\ Rearm
  BY <1>6 DEF Rearm
<1>7. CASE NewState
  <2>0. paired' \in BOOLEAN
    BY <1>7, Zenon DEF NewState
  <2>1. CASE ResumeLockout /\ disk > now
    <3>1. forgot' \in BOOLEAN
      BY <2>1, Zenon DEF ResumeLockout
    <3>2. lockoutUntil' = disk /\ disk' = disk
      BY <2>1 DEF ResumeLockout
    <3> QED
      BY <1>7, <2>0, <3>1, <3>2 DEF NewState
  <2>2. CASE ResumeLockout /\ ~(disk > now)
    <3>1. forgot' \in BOOLEAN
      BY <2>2, Zenon DEF ResumeLockout
    <3>2. disk' \in Nat
      BY <2>2, WriteDiskType DEF ResumeLockout
    <3>3. lockoutUntil' = NoTime /\ bannedUntil <= now
      BY <2>2 DEF ResumeLockout
    <3> QED
      BY <1>7, <2>0, <3>1, <3>2, <3>3 DEF NewState
  <2>3. CASE LoadFails
    <3>1. forgot' \in BOOLEAN
      BY <2>3 DEF LoadFails
    <3>2. forgot' <=> disk > now
      BY <2>3, Zenon DEF LoadFails
    <3> QED
      BY <1>7, <2>0, <2>3, <3>1, <3>2 DEF NewState, LoadFails
  <2> QED
    BY <1>7, <2>1, <2>2, <2>3 DEF NewState
<1>8. CASE Tick
  BY <1>8 DEF Tick, AdvanceClock
<1>9. CASE UNCHANGED pairingVars
  BY <1>9 DEF pairingVars
<1> QED
  BY <1>1, <1>2, <1>3, <1>4, <1>5, <1>6, <1>7, <1>8, <1>9
  DEF PairingNext, Verify, VerifyFails

(* The inductive invariant holds in every state the pairing state reaches. *)
THEOREM PairingInvariant == PairingSpec => []PairingIInv
  BY PairingInitIInv, PairingNextIInv, PTL DEF PairingSpec

(* The fields of the pairing state and of the record keep their types.     *)
THEOREM PairingTypeCorrect == PairingSpec => []PairingTypeOK
<1>1. PairingIInv => PairingTypeOK
  BY DEF PairingIInv
<1> QED
  BY <1>1, PairingInvariant, PTL

(* with_limits() restores a lockout on disk that it can read, and nothing  *)
(* but the right PIN, on a server that could not, shortens one.            *)
THEOREM LockoutSurvives == PairingSpec => []LockoutHolds
<1>1. PairingIInv => LockoutHolds
  BY DEF PairingIInv, LockoutRecorded, LockoutHolds
<1> QED
  BY <1>1, PairingInvariant, PTL

(* During a lockout that the server knows of no operation pairs and none   *)
(* moves the lockout's end.                                                *)
THEOREM NobodyPairsInLockout == PairingSpec => NoPairingInLockout
<1> DEFINE Step == now < bannedUntil /\ ~forgot => /\ paired' => paired
                                                   /\ bannedUntil' = bannedUntil
<1>1. ASSUME PairingIInv, [PairingNext]_pairingVars
      PROVE  [Step]_pairingVars
  <2> SUFFICES ASSUME PairingNext, now < bannedUntil, ~forgot
               PROVE  Step
    BY <1>1
  <2>1. IsLocked
    BY <1>1 DEF PairingIInv, PairingTypeOK, LockoutRecorded, IsLocked
  <2> QED
    BY <2>1 DEF PairingNext, Verify, VerifyFails, VerifyLocked, VerifyOk,
                VerifyWrong, VerifyLockout, RotateExpired, Rearm, NewState,
                Tick, pairingVars
<1> QED
  BY <1>1, PairingInvariant, PTL DEF PairingSpec, NoPairingInLockout

-----------------------------------------------------------------------------
(* The loop.                                                               *)

(* Where the loop and the accept loop can be at the same time, and what    *)
(* each knows: the PIN has been proved from step "start" on.               *)
HandshakeInv ==
  /\ step \in Handshake => pin = acceptedPin
  /\ step \in {"pin", "start"} => serverCaps = helloCaps
  /\ step = "start" => proved = client /\ paired = TRUE
  /\ ~Listening => step = "none"

SessionInv ==
  phase \in {"setup", "session"} =>
    /\ proved = client
    /\ paired = TRUE
    /\ framePose = helloCaps
    /\ pin = sessionPin

(* The rearmed PIN outlives the hold, and a lockout in the hold too.       *)
HoldInv ==
  phase = "hold" =>
    /\ lifetime = HoldWindow
    /\ holdUntil <= now + HoldWindow
    /\ holdUntil <= issuedAt + lifetime
    /\ now < holdUntil => pin = sessionPin \/ holdUntil <= lockoutUntil

LoopInv == /\ HandshakeInv
           /\ SessionInv
           /\ HoldInv
           /\ holdUntil \in Nat
           /\ NeverGivesUp

EngineIInv == PairingIInv /\ LoopInv

-----------------------------------------------------------------------------
(* The engine starts in a state that satisfies the invariant.              *)
LEMMA EngineInitIInv == EngineInit => EngineIInv
<1> SUFFICES ASSUME EngineInit
             PROVE  EngineIInv
  OBVIOUS
<1>1. PairingIInv
  BY PairingInitIInv DEF EngineInit
<1>2. LoopInv
  BY DEF EngineInit, LoopInv, HandshakeInv, SessionInv, HoldInv, NeverGivesUp,
         Handshake, Listening, NoTime
<1> QED
  BY <1>1, <1>2 DEF EngineIInv

(* A rotation, when the accept loop looks for one, is a pairing operation. *)
LEMMA RotateIfExpiredStep ==
  ASSUME RotateIfExpired
  PROVE  [PairingNext]_pairingVars
  BY DEF RotateIfExpired, PairingNext

(* Whatever the engine does, its pairing state is changed by an operation  *)
(* of the pairing state or not at all.  The one that needs the invariant   *)
(* is ConnectionLost, which rearms a state that is paired.                 *)
LEMMA EngineStepIsPairingStep ==
  ASSUME SessionInv, [EngineNext]_engineVars
  PROVE  [PairingNext]_pairingVars
<1>1. CASE Bind
  BY <1>1 DEF Bind
<1>2. CASE AcceptError
  BY <1>2, RotateIfExpiredStep DEF AcceptError
<1>3. CASE RotateWhileWaiting
  BY <1>3 DEF RotateWhileWaiting, PairingNext
<1>4. CASE TlsDone \/ Hello
  BY <1>4 DEF TlsDone, Hello
<1>5. ASSUME NEW c \in Clients, AcceptConnection(c)
      PROVE  [PairingNext]_pairingVars
  BY <1>5, RotateIfExpiredStep DEF AcceptConnection
<1>6. ASSUME NEW p \in Pins, PinAccepted(p) \/ PinRejected(p)
      PROVE  [PairingNext]_pairingVars
  BY <1>6 DEF PinAccepted, PinRejected, PairingNext, Verify
<1>7. CASE HandshakeFails
  BY <1>7 DEF HandshakeFails
<1>8. CASE ListenFails
  BY <1>8, RotateIfExpiredStep DEF ListenFails
<1>9. CASE StreamStart \/ SessionStarts \/ SetupFails \/ SessionOver
  BY <1>9 DEF StreamStart, SessionStarts, SetupFails, SessionOver
<1>10. CASE StartListening
  BY <1>10 DEF StartListening, PairingNext
<1>11. CASE ConnectionLost
  BY <1>11 DEF ConnectionLost, SessionInv, PairingNext
<1>12. CASE HoldExpires \/ Publish \/ Shutdown \/ Stop
  BY <1>12 DEF HoldExpires, Publish, Shutdown, Stop
<1>13. CASE Clock
  BY <1>13 DEF Clock, PairingNext
<1>14. CASE UNCHANGED engineVars
  BY <1>14 DEF engineVars
<1> QED
  BY <1>1, <1>2, <1>3, <1>4, <1>5, <1>6, <1>7, <1>8, <1>9, <1>10, <1>11,
     <1>12, <1>13, <1>14 DEF EngineNext

-----------------------------------------------------------------------------
(* Rotating an expired PIN disturbs a hold only when the hold is over.     *)
LEMMA RotationKeepsHold ==
  ASSUME PairingTypeOK, HoldInv, holdUntil \in Nat, RotateIfExpired,
         phase' = phase, holdUntil' = holdUntil, sessionPin' = sessionPin
  PROVE  HoldInv'
<1> USE PairingAssumption DEF PairingAssumption
<1>1. CASE PinExpired /\ RotateExpired
  BY <1>1 DEF RotateExpired, RotatePin, PinExpired, HoldInv, PairingTypeOK
<1>2. CASE UNCHANGED pairingVars
  BY <1>2 DEF pairingVars, HoldInv
<1> QED
  BY <1>1, <1>2 DEF RotateIfExpired, RotateExpired

(* Every operation of the engine preserves the loop's part of the          *)
(* inductive invariant.                                                    *)
LEMMA EngineNextLoopInv ==
  EngineIInv /\ [EngineNext]_engineVars => LoopInv'
<1> SUFFICES ASSUME EngineIInv, [EngineNext]_engineVars
             PROVE  LoopInv'
  OBVIOUS
<1> USE PairingAssumption, EngineAssumption
    DEF PairingAssumption, EngineAssumption, EngineIInv, PairingIInv, LoopInv,
        HandshakeInv, SessionInv, NeverGivesUp, Handshake, Listening
<1>1. CASE Bind
  BY <1>1 DEF Bind, HoldInv, pairingVars, loopVars, acceptVars, historyVars
<1>2. CASE AcceptError
  <2>1. HoldInv'
    BY <1>2, RotationKeepsHold DEF AcceptError, loopVars, historyVars
  <2> QED
    BY <1>2, <2>1 DEF AcceptError, RotateIfExpired, RotateExpired, pairingVars,
                      loopVars, historyVars
<1>3. CASE RotateWhileWaiting
  <2>1. HoldInv'
    BY <1>3, RotationKeepsHold
    DEF RotateWhileWaiting, RotateIfExpired, loopVars, historyVars
  <2> QED
    BY <1>3, <2>1 DEF RotateWhileWaiting, loopVars, acceptVars, historyVars
<1>4. CASE TlsDone
  BY <1>4 DEF TlsDone, HoldInv, pairingVars, loopVars, historyVars
<1>5. CASE Hello
  BY <1>5 DEF Hello, HoldInv, pairingVars, loopVars, historyVars
<1>6. ASSUME NEW c \in Clients, AcceptConnection(c)
      PROVE  LoopInv'
  <2>1. HoldInv'
    BY <1>6, RotationKeepsHold DEF AcceptConnection, loopVars
  <2> QED
    BY <1>6, <2>1 DEF AcceptConnection, loopVars
<1>7. ASSUME NEW p \in Pins, PinAccepted(p)
      PROVE  LoopInv'
  <2>1. HoldInv'
    BY <1>7 DEF PinAccepted, VerifyOk, IsLocked, HoldInv, PairingTypeOK, loopVars
  <2> QED
    BY <1>7, <2>1 DEF PinAccepted, VerifyOk, loopVars
<1>8. ASSUME NEW p \in Pins, PinRejected(p)
      PROVE  LoopInv'
  <2>1. ASSUME VerifyLocked(p) \/ VerifyWrong(p)
        PROVE  HoldInv'
    BY <1>8, <2>1
    DEF PinRejected, VerifyLocked, VerifyWrong, HoldInv, pairingVars, loopVars,
        historyVars
  <2>2. ASSUME VerifyLockout(p)
        PROVE  HoldInv'
    BY <1>8, <2>2
    DEF PinRejected, VerifyLockout, RotatePin, HoldInv, PairingTypeOK, loopVars,
        historyVars
  <2> QED
    BY <1>8, <2>1, <2>2 DEF PinRejected, VerifyFails, loopVars, historyVars
<1>9. CASE HandshakeFails
  BY <1>9 DEF HandshakeFails, HoldInv, pairingVars, loopVars, historyVars
<1>10. CASE ListenFails
  BY <1>10 DEF ListenFails, FailureRetries, HoldInv
<1>11. CASE StreamStart
  BY <1>11 DEF StreamStart, HoldInv, pairingVars
<1>12. CASE SessionStarts
  BY <1>12 DEF SessionStarts, HoldInv, pairingVars, acceptVars, historyVars
<1>13. CASE SetupFails
  BY <1>13 DEF SetupFails, FailureRetries, HoldInv
<1>14. CASE SessionOver
  BY <1>14 DEF SessionOver, HoldInv
<1>15. CASE StartListening
  BY <1>15 DEF StartListening, CallListen, HoldInv
<1>16. CASE ConnectionLost
  BY <1>16
  DEF ConnectionLost, Rearm, CallListen, HoldInv, PairingTypeOK, historyVars
<1>17. CASE HoldExpires
  BY <1>17 DEF HoldExpires, HoldInv
<1>18. CASE Publish
  BY <1>18 DEF Publish, HoldInv, pairingVars, loopVars, acceptVars, historyVars
<1>19. CASE Shutdown
  BY <1>19 DEF Shutdown, HoldInv, pairingVars, acceptVars, historyVars
<1>20. CASE Stop
  BY <1>20 DEF Stop, HoldInv
<1>21. CASE Clock
  BY <1>21 DEF Clock, Tick, AdvanceClock, HoldInv, PairingTypeOK, loopVars,
               acceptVars, historyVars
<1>22. CASE UNCHANGED engineVars
  BY <1>22 DEF engineVars, HoldInv, pairingVars, loopVars, acceptVars, historyVars
<1> QED
  BY <1>1, <1>2, <1>3, <1>4, <1>5, <1>6, <1>7, <1>8, <1>9, <1>10, <1>11, <1>12,
     <1>13, <1>14, <1>15, <1>16, <1>17, <1>18, <1>19, <1>20, <1>21, <1>22
  DEF EngineNext

-----------------------------------------------------------------------------
(* The inductive invariant holds in every state the engine reaches.        *)
THEOREM EngineInvariant == EngineSafeSpec => []EngineIInv
<1>1. EngineIInv /\ [EngineNext]_engineVars => EngineIInv'
  <2> SUFFICES ASSUME EngineIInv, [EngineNext]_engineVars
               PROVE  EngineIInv'
    OBVIOUS
  <2>1. [PairingNext]_pairingVars
    BY EngineStepIsPairingStep DEF EngineIInv, LoopInv
  <2>2. PairingIInv'
    BY <2>1, PairingNextIInv DEF EngineIInv
  <2> QED
    BY <2>2, EngineNextLoopInv DEF EngineIInv
<1> QED
  BY <1>1, EngineInitIInv, PTL DEF EngineSafeSpec

(* The pairing state that the engine drives, across all its servers, is an *)
(* implementation of Pairing.                                              *)
THEOREM EngineImplementsPairing == EngineSafeSpec => PairingSpec
<1>1. EngineInit => PairingInit
  BY DEF EngineInit
<1>2. EngineIInv /\ [EngineNext]_engineVars => [PairingNext]_pairingVars
  BY EngineStepIsPairingStep DEF EngineIInv, LoopInv
<1> QED
  BY <1>1, <1>2, EngineInvariant, PTL DEF EngineSafeSpec, PairingSpec

(* So a lockout survives every replacement of the server by the engine and *)
(* is enforced by every one of them that could read its record.            *)
THEOREM EngineKeepsLockout == EngineSafeSpec => []LockoutHolds
<1>1. PairingIInv => LockoutHolds
  BY DEF PairingIInv, LockoutRecorded, LockoutHolds
<1> QED
  BY <1>1, EngineImplementsPairing, PairingInvariant, PTL

(* listen_and_accept, hold: the PIN of a handshake in progress and that of *)
(* a session that is held are not replaced.                                *)
THEOREM PinIsKept == EngineSafeSpec => []PinKept
<1>1. EngineIInv => PinKept
  <2> SUFFICES ASSUME EngineIInv
               PROVE  PinStableInHandshake /\ HoldKeepsPin
    BY DEF PinKept
  <2>1. PinStableInHandshake
    BY DEF EngineIInv, LoopInv, HandshakeInv, PinStableInHandshake
  <2>2. HoldKeepsPin
    BY DEF EngineIInv, PairingIInv, PairingTypeOK, LoopInv, HoldInv,
           HoldKeepsPin, IsLocked
  <2> QED
    BY <2>1, <2>2
<1> QED
  BY <1>1, EngineInvariant, PTL

(* run: a session streams to the client that proved the PIN, with frames   *)
(* as that client was told.                                                *)
THEOREM SessionsAreProved == EngineSafeSpec => []SessionOfItsHandshake
<1>1. EngineIInv => SessionOfItsHandshake
  BY DEF EngineIInv, LoopInv, SessionInv, SessionPeerProved, FramesAsTold,
         SessionOfItsHandshake
<1> QED
  BY <1>1, EngineInvariant, PTL

(* The loop ends by a shutdown only.                                       *)
THEOREM EngineNeverGivesUp == EngineSafeSpec => []NeverGivesUp
<1>1. EngineIInv => NeverGivesUp
  BY DEF EngineIInv, LoopInv
<1> QED
  BY <1>1, EngineInvariant, PTL
=============================================================================
