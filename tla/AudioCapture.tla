---------------------------- MODULE AudioCapture ----------------------------
(***************************************************************************)
(* The thread of a session that captures what the PC plays: it opens the   *)
(* loopback of the default output device, and looks every two seconds      *)
(* whether it has to open another one (spawn_real_capture() in engine.rs,  *)
(* should_reopen() and AudioCapture::start() in audio/capture.rs).         *)
(* Devices come, go, fail and refuse to open at any time, also between the *)
(* thread's look at the default device and its opening of it.              *)
(***************************************************************************)
EXTENDS Naturals

CONSTANTS
  Devices,
  NoDevice,
  MaxChanges  \* bound: what happens to the devices in a session

ASSUME CaptureAssumption == NoDevice \notin Devices /\ MaxChanges \in Nat

VARIABLES
  default,        \* the default output device
  refusing,       \* the devices that cannot be opened now
  capture,        \* [device, failed] of the open loopback; device is NoDevice when none is open
  failedAttempt,  \* the device that last failed to open
  justFailed,         \* failedAttempt is less than REOPEN_RETRY ago
  wanted,         \* the default device the thread read and is about to reopen, or NoDevice
  running,        \* the session's thread
  changes

captureVars == <<default, refusing, capture, failedAttempt, justFailed, wanted, running, changes>>
deviceVars == <<default, refusing, changes>>

Nothing == [device |-> NoDevice, failed |-> FALSE]

\* AudioCapture::start(): the device that is the default by now.
Opened == IF default \in Devices \ refusing THEN [device |-> default, failed |-> FALSE] ELSE Nothing

ThreadStarts ==
  /\ ~running
  /\ running' = TRUE
  /\ capture' = Opened
  /\ failedAttempt' = NoDevice /\ justFailed' = FALSE /\ wanted' = NoDevice
  /\ UNCHANGED deviceVars

\* Mutant of ShouldReopen: the capture stays on the device it opened first.
ReopensOnlyFailed ==
  /\ default # NoDevice
  /\ \/ capture.device # NoDevice /\ capture.failed
     \/ capture.device = NoDevice /\ ~(justFailed /\ failedAttempt = default)

\* should_reopen()
ShouldReopen ==
  /\ default # NoDevice
  /\ \/ capture.device # NoDevice /\ (capture.failed \/ capture.device # default)
     \/ capture.device = NoDevice /\ ~(justFailed /\ failedAttempt = default)

CheckDevice ==
  /\ running
  /\ wanted = NoDevice
  /\ ShouldReopen
  /\ wanted' = default
  /\ UNCHANGED <<deviceVars, capture, failedAttempt, justFailed, running>>

\* The old loopback is released first.  A failure is remembered for the device that was wanted.
Reopen ==
  /\ wanted # NoDevice
  /\ capture' = Opened
  /\ failedAttempt' = IF Opened = Nothing THEN wanted ELSE NoDevice
  /\ justFailed' = (Opened = Nothing)
  /\ wanted' = NoDevice
  /\ UNCHANGED <<deviceVars, running>>

RetryElapses ==
  /\ justFailed
  /\ justFailed' = FALSE
  /\ UNCHANGED <<deviceVars, capture, failedAttempt, wanted, running>>

\* The session is cancelled; the thread sees it when it next wakes.
ThreadEnds ==
  /\ running
  /\ wanted = NoDevice
  /\ running' = FALSE
  /\ capture' = Nothing
  /\ UNCHANGED <<deviceVars, failedAttempt, justFailed, wanted>>

Happens == changes < MaxChanges /\ changes' = changes + 1

DefaultChanges(device) ==
  /\ Happens
  /\ device # default
  /\ default' = device
  /\ UNCHANGED <<refusing, capture, failedAttempt, justFailed, wanted, running>>

OpeningChanges(device) ==
  /\ Happens
  /\ refusing' = IF device \in refusing THEN refusing \ {device} ELSE refusing \cup {device}
  /\ UNCHANGED <<default, capture, failedAttempt, justFailed, wanted, running>>

StreamFails ==
  /\ Happens
  /\ capture.device # NoDevice /\ ~capture.failed
  /\ capture' = [capture EXCEPT !.failed = TRUE]
  /\ UNCHANGED <<default, refusing, failedAttempt, justFailed, wanted, running>>

-----------------------------------------------------------------------------
CaptureInit ==
  /\ default \in Devices \cup {NoDevice}
  /\ refusing \in SUBSET Devices
  /\ capture = Nothing
  /\ failedAttempt = NoDevice /\ justFailed = FALSE /\ wanted = NoDevice
  /\ running = FALSE /\ changes = 0

CaptureNext ==
  \/ ThreadStarts \/ CheckDevice \/ Reopen \/ RetryElapses \/ ThreadEnds \/ StreamFails
  \/ \E device \in Devices \cup {NoDevice} : DefaultChanges(device)
  \/ \E device \in Devices : OpeningChanges(device)

\* The thread looks again every two seconds, and 30 s pass.
CaptureFairness == WF_captureVars(CheckDevice) /\ WF_captureVars(Reopen) /\ WF_captureVars(RetryElapses)

CaptureSpec == CaptureInit /\ [][CaptureNext]_captureVars /\ CaptureFairness

-----------------------------------------------------------------------------
Follows ==
  default \in Devices \ refusing => capture = [device |-> default, failed |-> FALSE]

\* A session's sound comes from the default device again after every change of it, every failure of
\* the stream and every refusal to open, whenever they fall between the thread's looks.
CaptureFollowsDevice == []<>(~running \/ Follows)

=============================================================================
